------------------------------ MODULE Registrar ------------------------------
(***************************************************************************)
(* The module registrar of webcrawler/module (registrar.go): a map from    *)
(* module type to the registered instances of that type, guarded by one    *)
(* RWMutex, with load-balanced selection in Get.                           *)
(*                                                                         *)
(* A module instance is a model value with its runtime type (TypeOf) and   *)
(* the type letter encoded in its MID (MidType).  Get recomputes every     *)
(* instance's score with SetScore from the instance's counters (module    *)
(* stub, not in the source tree): the score is any value of Scores.  The   *)
(* loop of Get visits the instances in Go's map order, which is any order. *)
(***************************************************************************)
EXTENDS Naturals, Sequences, FiniteSets, Functions

CONSTANTS
    Modules,    \* module instances that may be registered
    Types,      \* module types (downloader, analyzer, pipeline)
    TypeOf,     \* TypeOf[m]: m's runtime type, as CheckType sees it
    MidType,    \* MidType[m]: the type letter of m's MID (SplitMID)
    Scores,     \* values SetScore may compute
    NoModule    \* no instance selected (a nil Module)

ASSUME TypeOf \in [Modules -> Types] /\ MidType \in [Modules -> Types]
ASSUME Scores \subseteq Nat /\ 0 \in Scores

ASSUME NoModule \notin Modules

VARIABLES
    moduleTypeMap,  \* r.moduleTypeMap: type -> registered instances
    crashed,        \* the process died of a fatal runtime error
    lastGet         \* the last Get: type asked, visiting order, scores, result

vars == <<moduleTypeMap, crashed, lastGet>>

NoGet == [type |-> CHOOSE t \in Types : TRUE, order |-> <<>>,
          score |-> <<>>, selected |-> NoModule]

-----------------------------------------------------------------------------
\* The selection loop of Get over the instances in the given order, with
\* their recomputed scores: `if minScore == 0 || score < minScore`.
RECURSIVE SelectFrom(_, _, _, _)
SelectFromSwapped(order, score, minScore, selected) ==
    IF order = <<>> THEN selected
    ELSE LET m == Head(order) IN
         IF minScore = 0 \/ score[m] > minScore
           THEN SelectFrom(Tail(order), score, score[m], m)
           ELSE SelectFrom(Tail(order), score, minScore, selected)
SelectFrom(order, score, minScore, selected) ==
    IF order = <<>> THEN selected
    ELSE LET m == Head(order) IN
         IF minScore = 0 \/ score[m] < minScore
           THEN SelectFrom(Tail(order), score, score[m], m)
           ELSE SelectFrom(Tail(order), score, minScore, selected)

ToSet(o) == {o[i] : i \in DOMAIN o}

\* The orders in which Go's map iteration may visit the set S.
Orders(S) == {o \in [1..Cardinality(S) -> S] : IsInjective(o)}

-----------------------------------------------------------------------------
Init ==
    \* NewRegistrar
    /\ moduleTypeMap = [t \in Types |-> {}]
    /\ crashed = FALSE
    /\ lastGet = NoGet

\* Register without CheckType: the MID's type letter alone decides the map.
RegisterNoTypeCheck(m) ==
    /\ ~crashed
    /\ moduleTypeMap' = [moduleTypeMap EXCEPT ![MidType[m]] = @ \cup {m}]
    /\ UNCHANGED <<crashed, lastGet>>

\* Register: the type comes from the MID; CheckType rejects an instance of
\* another type (illegal parameter error); re-registering returns false;
\* otherwise the instance is added under the write lock.
Register(m) ==
    /\ ~crashed
    /\ moduleTypeMap' = IF TypeOf[m] = MidType[m]
                          THEN [moduleTypeMap EXCEPT ![MidType[m]] = @ \cup {m}]
                          ELSE moduleTypeMap
    /\ UNCHANGED <<crashed, lastGet>>

\* Unregister takes r.rwlock.Lock() and defers r.rwlock.RUnlock(): the
\* deferred RUnlock of a write-locked RWMutex is the Go runtime's fatal
\* error "sync: RUnlock of unlocked RWMutex", which ends the process.
Unregister(m) ==
    /\ ~crashed
    /\ crashed' = TRUE
    /\ UNCHANGED <<moduleTypeMap, lastGet>>

\* Get: GetAllByType (ErrNotFoundModuleInstance when no instance of type
\* t is registered; the copy is taken under the read lock), then SetScore
\* and the selection loop over the copy in map order.
Get(t) ==
    /\ ~crashed
    /\ moduleTypeMap[t] # {}
    /\ \E order \in Orders(moduleTypeMap[t]), score \in [moduleTypeMap[t] -> Scores] :
         lastGet' = [type |-> t, order |-> order, score |-> score,
                     selected |-> SelectFrom(order, score, 0, NoModule)]
    /\ UNCHANGED <<moduleTypeMap, crashed>>

\* Clear: a new empty map under the write lock.
Clear ==
    /\ ~crashed
    /\ moduleTypeMap' = [t \in Types |-> {}]
    /\ UNCHANGED <<crashed, lastGet>>

Next ==
    \/ \E m \in Modules : Register(m) \/ Unregister(m)
    \/ \E t \in Types : Get(t)
    \/ Clear

Spec == Init /\ [][Next]_vars

-----------------------------------------------------------------------------
\* Get(t) hands out a registered instance whose runtime type is t, because
\* Register checked the MID's type letter against the instance's type.
GetReturnsRightType ==
    lastGet.selected # NoModule =>
        /\ TypeOf[lastGet.selected] = lastGet.type
        /\ lastGet.selected \in ToSet(lastGet.order)


\* The instances of the last Get with the smallest recomputed score.
Cheapest == {m \in ToSet(lastGet.order) :
                \A n \in ToSet(lastGet.order) : lastGet.score[m] <= lastGet.score[n]}

\* Load balancing, when every instance has been scored (no score 0): Get
\* returns an instance with the minimum score, whatever the map order.
SelectsMinimumWhenScored ==
    (lastGet.selected # NoModule /\ \A m \in ToSet(lastGet.order) : lastGet.score[m] > 0)
        => lastGet.selected \in Cheapest

=============================================================================
