------------------------------ MODULE GeeRouter ------------------------------
(***************************************************************************)
(* The router of the gee web framework, stage 3 (gee-web/3-router/gee/     *)
(* router.go): addRoute registers a pattern in the trie of its method and  *)
(* its handler under the key method + "-" + pattern; handle looks the      *)
(* request up with getRoute, binds the ':' and '*' parameters, and calls   *)
(* the handler found under a key.                                          *)
(*                                                                         *)
(* Data: a path or pattern is the sequence strings.Split(s, "/") returns.  *)
(* A segment is kept as its first byte (pre: ":", "*" or "" for any other  *)
(* byte) and the rest (name), which is all parsePattern and getRoute look  *)
(* at; part[1:] is name.  strings.Join(searchParts[index:], "/") is kept   *)
(* as the sequence of segments it joins, which determines the string       *)
(* because no segment contains "/".  A map key method + "-" + s is the     *)
(* pair <<method, s>>: methods contain no "-", so the concatenation is     *)
(* injective.  A handler is named by the registration <<method, pattern>>  *)
(* that installed it.                                                      *)
(***************************************************************************)
EXTENDS Sequences, SequencesExt, FiniteSets, TLC

CONSTANTS
    Methods,    \* request methods the program registers or receives
    Patterns,   \* patterns passed to addRoute, each split on "/"
    Paths,      \* request paths (c.Path), each split on "/"
    NoRoute,    \* getRoute returned a nil node (or no request yet)
    NilHandler, \* the nil HandlerFunc a missing map key yields
    NotFound    \* the 404 reply of handle

Seg(pre, name) == [pre |-> pre, name |-> name]
Empty == Seg("", "")

VARIABLES
    roots,      \* r.roots: the methods that have a trie
    tree,       \* tree[m]: the patterns in m's trie, by their parts
    handlers,   \* r.handlers, keyed by <<method, pattern>>
    last        \* the outcome of the latest handle call

vars == <<roots, tree, handlers, last>>

-----------------------------------------------------------------------------
\* parsePattern: the non-empty segments, up to and including the first one
\* that starts with '*'.
RECURSIVE ParsePattern(_)
ParsePattern(vs) ==
    IF vs = <<>> THEN <<>>
    ELSE IF Head(vs) = Empty THEN ParsePattern(Tail(vs))
    ELSE IF Head(vs).pre = "*" THEN <<Head(vs)>>
    ELSE <<Head(vs)>> \o ParsePattern(Tail(vs))

\* node.search (trie.go is not in the source tree): the node reached for
\* searchParts sp carries the pattern with parts pp when every literal part
\* of pp equals the request part at its height, ':' and '*' parts match any
\* part, and the search stops at height Len(sp) or at a '*' part.
Matches(pp, sp) ==
    /\ IF pp # <<>> /\ Last(pp).pre = "*"
         THEN Len(sp) >= Len(pp)
         ELSE Len(sp) = Len(pp)
    /\ \A i \in 1 .. Len(pp) : pp[i].pre = "" => pp[i] = sp[i]

\* The binding loop of getRoute over the parts of n.pattern, from index i:
\* ':' binds one request part, a named '*' binds the joined rest and ends
\* the loop.  A later binding of the same name overwrites an earlier one.
RECURSIVE BindFrom(_, _, _, _)
BindFrom(parts, sp, i, params) ==
    IF i > Len(parts) THEN params
    ELSE LET part == parts[i] IN
         IF part.pre = ":"
           THEN BindFrom(parts, sp, i + 1, (part.name :> <<sp[i]>>) @@ params)
         ELSE IF part.pre = "*" /\ part.name # ""
           THEN (part.name :> SubSeq(sp, i, Len(sp))) @@ params
         ELSE BindFrom(parts, sp, i + 1, params)

-----------------------------------------------------------------------------
\* newRouter: empty roots and handlers.
Init ==
    /\ roots = {}
    /\ tree = [m \in Methods |-> <<>>]
    /\ handlers = <<>>
    /\ last = [method |-> NoRoute, path |-> <<>>, route |-> NoRoute,
               params |-> <<>>, served |-> NoRoute]

\* addRoute(method, pattern, handler): create the method's root if missing,
\* insert the pattern at the node of its parts (a later pattern with the
\* same parts takes the node over), store the handler under its key.
AddRoute(m, p) ==
    /\ roots' = roots \cup {m}
    /\ tree' = [tree EXCEPT ![m] = (ParsePattern(p) :> p) @@ @]
    /\ handlers' = (<<m, p>> :> <<m, p>>) @@ handlers
    /\ UNCHANGED last

\* handle(c): getRoute(c.Method, c.Path); on a node, c.Params = params and
\* the handler under c.Method + "-" + c.Path is called (NilHandler: the map
\* has no such key and calling the nil HandlerFunc panics); else the 404
\* reply.
Handle(m, path) ==
    LET sp == ParsePattern(path)
        found == IF m \in roots
                   THEN {pp \in DOMAIN tree[m] : Matches(pp, sp)}
                   ELSE {}
        key == <<m, path>>
    IN
    /\ \/ /\ found = {}
          /\ last' = [method |-> m, path |-> path, route |-> NoRoute,
                      params |-> <<>>, served |-> NotFound]
       \/ \E pp \in found :
            last' = [method |-> m, path |-> path, route |-> tree[m][pp],
                     params |-> BindFrom(ParsePattern(tree[m][pp]), sp, 1, <<>>),
                     served |-> IF key \in DOMAIN handlers
                                  THEN handlers[key] ELSE NilHandler]
    /\ UNCHANGED <<roots, tree, handlers>>

Next ==
    \/ \E m \in Methods, p \in Patterns : AddRoute(m, p)
    \/ \E m \in Methods, path \in Paths : Handle(m, path)

Spec == Init /\ [][Next]_vars

-----------------------------------------------------------------------------
(* Properties                                                              *)

\* The parameters getRoute's comment documents for a request matched to a
\* pattern with parts pp, where sp are the request's non-empty segments:
\* each ':name' part binds the request segment at its index, '*name' binds
\* the rest of the request joined by "/".
NonEmpty(path) == SelectSeq(path, LAMBDA x : x # Empty)
WildIdx(pp) == {i \in 1 .. Len(pp) : pp[i].pre = ":" \/ (pp[i].pre = "*" /\ pp[i].name # "")}
DocumentedParams(pp, sp) ==
    [n \in {pp[i].name : i \in WildIdx(pp)} |->
        LET i == CHOOSE j \in WildIdx(pp) : pp[j].name = n
        IN IF pp[i].pre = ":" THEN <<sp[i]>> ELSE SubSeq(sp, i, Len(sp))]

\* handle serves a request that getRoute matched with the handler that was
\* registered for the matched pattern, with the parameters bound as the
\* comment above getRoute documents (main.go registers "/hello/:name" and
\* "/assets/*filepath" and expects them served).
MatchedRouteServed ==
    last.route # NoRoute =>
        /\ last.served = <<last.method, last.route>>
        /\ last.params = DocumentedParams(ParsePattern(last.route),
                                          NonEmpty(last.path))

=============================================================================
