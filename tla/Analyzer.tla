------------------------------- MODULE Analyzer -------------------------------
(***************************************************************************)
(* The analyzer module of webcrawler/module/local/analyzer (analyzer.go)   *)
(* with the multiple reader of toolkit/reader (reader.go) it parses with.  *)
(*                                                                         *)
(* Goroutines call Analyze on one analyzer instance concurrently; they     *)
(* share only its counters (stub.ModuleInternal, atomic, read by the       *)
(* registrar's scores).  A response is a record: which of its parts is nil *)
(* (shape), its depth, its own body and the body of the request it        *)
(* answers (the body Analyze reads, line 77).  The response parsers are user functions: a parser call *)
(* returns any element of Outputs, a list of data and a list of errors, in *)
(* which a datum is a request with a depth, an item, or nil.               *)
(***************************************************************************)
EXTENDS Naturals, Sequences, FiniteSets

CONSTANTS
    Callers,     \* goroutines calling Analyze
    Calls,       \* number of Analyze calls each goroutine makes
    Responses,   \* responses a call may be given
    NParsers,    \* len(respParsers), checked non-empty by New
    Outputs,     \* what a parser call may return
    NilDatum     \* a nil module.Data

ASSUME NParsers \in Nat \ {0} /\ Calls \in Nat

Shapes == {"nil", "nilHTTP", "nilReq", "nilURL", "ok"}

VARIABLES
    pc,         \* pc[c]: "idle" or "parse" (inside the parser loop)
    resp,       \* resp[c]: the response of c's current call
    mdata,      \* mdata[c]: the data held by c's multiple reader
    k,          \* k[c]: index of the next parser
    dataList,   \* dataList[c]: the named result dataList
    errList,    \* errList[c]: the named result errList (non-nil errors)
    seen,       \* seen[c]: the body each parser of c's call read
    handling, called, accepted, completed,  \* the ModuleInternal counters
    done,       \* done[c]: calls c has finished
    last        \* last[c]: response, results and bodies of c's last call

vars == <<pc, resp, mdata, k, dataList, errList, seen, handling,
          called, accepted, completed, done, last>>

-----------------------------------------------------------------------------
(* reader.go                                                               *)

\* NewMultipleReader: ioutil.ReadAll of the body, or no data for a nil one.
MultipleData(body) == IF body = "nil" THEN "empty" ELSE body

\* Reader(): a fresh reader over all the data.
Reader(c) == mdata[c]

(* analyzer.go                                                             *)

\* appendDataList keeping the parser's depth on a request.
AppendDataNoRewrite(list, d, depth) == Append(list, d)

\* appendDataList: a request gets depth respDepth + 1; an item is kept.
AppendData(list, d, depth) ==
    IF d.kind = "req" /\ d.depth # depth + 1
      THEN Append(list, [kind |-> "req", depth |-> depth + 1])
      ELSE Append(list, d)

RECURSIVE AppendAll(_, _, _)
\* `for _, pData := range pDataList { if pData == nil { continue } ... }`
AppendAll(list, ds, depth) ==
    IF ds = <<>> THEN list
    ELSE AppendAll(IF Head(ds) = NilDatum THEN list ELSE AppendData(list, Head(ds), depth),
                   Tail(ds), depth)

\* `for _, pError := range pErrorList { if pError == nil { continue } ... }`
NonNilErrors(es) == SelectSeq(es, LAMBDA e : e # "nil")

-----------------------------------------------------------------------------
Init ==
    \* New: a stub with zero counters and a non-empty list of non-nil parsers
    /\ pc = [c \in Callers |-> "idle"]
    /\ resp = [c \in Callers |-> CHOOSE r \in Responses : TRUE]
    /\ mdata = [c \in Callers |-> "empty"]
    /\ k = [c \in Callers |-> 1]
    /\ dataList = [c \in Callers |-> <<>>]
    /\ errList = [c \in Callers |-> <<>>]
    /\ seen = [c \in Callers |-> <<>>]
    /\ handling = 0 /\ called = 0 /\ accepted = 0 /\ completed = 0
    /\ done = [c \in Callers |-> 0]
    /\ last = [c \in Callers |-> [resp |-> CHOOSE r \in Responses : TRUE,
                                  data |-> <<>>, errs |-> <<>>, seen |-> <<>>]]

\* Analyze up to its parser loop: IncrHandlingNumber, IncrCalledCount,
\* the nil checks of the response, its HTTP response, request and URL
\* (each returning one error), IncrAcceptedCount, then
\* NewMultipleReader(httpReq.Body), which may fail to read the body.
AnalyzeBegin(c) ==
    /\ pc[c] = "idle" /\ done[c] < Calls
    /\ \E r \in Responses :
       LET rejected == r.shape # "ok"
           readFail == ~rejected /\ r.reqBody = "fail"
           quick == rejected \/ readFail
       IN
       /\ resp' = [resp EXCEPT ![c] = r]
       /\ called' = called + 1
       /\ accepted' = IF rejected THEN accepted ELSE accepted + 1
       /\ IF quick
            THEN \* the early return: the deferred DecrHandlingNumber runs
                 /\ pc' = [pc EXCEPT ![c] = "idle"]
                 /\ done' = [done EXCEPT ![c] = @ + 1]
                 /\ last' = [last EXCEPT ![c] = [resp |-> r, data |-> <<>>,
                                 errs |-> <<"err">>, seen |-> <<>>]]
                 /\ UNCHANGED <<handling, mdata, k, dataList, errList, seen>>
            ELSE /\ handling' = handling + 1
                 /\ mdata' = [mdata EXCEPT ![c] = MultipleData(r.reqBody)]
                 /\ pc' = [pc EXCEPT ![c] = "parse"]
                 /\ k' = [k EXCEPT ![c] = 1]
                 /\ dataList' = [dataList EXCEPT ![c] = <<>>]
                 /\ errList' = [errList EXCEPT ![c] = <<>>]
                 /\ seen' = [seen EXCEPT ![c] = <<>>]
                 /\ UNCHANGED <<done, last>>
    /\ UNCHANGED completed

\* One iteration of the parser loop: httpResp.Body = multipleReader.Reader(),
\* call the parser, append its non-nil data (appendDataList) and errors.
ParseStep(c) ==
    /\ pc[c] = "parse" /\ k[c] <= NParsers
    /\ \E o \in Outputs :
         /\ seen' = [seen EXCEPT ![c] = Append(@, Reader(c))]
         /\ dataList' = [dataList EXCEPT ![c] = AppendAll(@, o.data, resp[c].depth)]
         /\ errList' = [errList EXCEPT ![c] = @ \o NonNilErrors(o.errs)]
    /\ k' = [k EXCEPT ![c] = @ + 1]
    /\ UNCHANGED <<pc, resp, mdata, handling, called, accepted, completed, done, last>>

\* After the loop: IncrCompletedCount if errList is empty, return, and the
\* deferred DecrHandlingNumber.
AnalyzeEnd(c) ==
    /\ pc[c] = "parse" /\ k[c] > NParsers
    /\ completed' = IF errList[c] = <<>> THEN completed + 1 ELSE completed
    /\ handling' = handling - 1
    /\ pc' = [pc EXCEPT ![c] = "idle"]
    /\ done' = [done EXCEPT ![c] = @ + 1]
    /\ last' = [last EXCEPT ![c] = [resp |-> resp[c], data |-> dataList[c],
                                     errs |-> errList[c], seen |-> seen[c]]]
    /\ UNCHANGED <<resp, mdata, k, dataList, errList, seen, called, accepted>>

Terminating ==
    /\ \A c \in Callers : pc[c] = "idle" /\ done[c] = Calls
    /\ UNCHANGED vars

Next ==
    \/ \E c \in Callers : AnalyzeBegin(c) \/ ParseStep(c) \/ AnalyzeEnd(c)
    \/ Terminating

Spec == Init /\ [][Next]_vars

-----------------------------------------------------------------------------
\* Spec 3: a request derived from a response at depth d carries depth d+1,
\* whatever depth the parser gave it; items and nil data are not requests.
DepthRule ==
    \A c \in Callers : \A i \in DOMAIN last[c].data :
        /\ last[c].data[i] # NilDatum
        /\ last[c].data[i].kind = "req" => last[c].data[i].depth = last[c].resp.depth + 1

\* Analyze parses the response it is given (spec 6: Analyze(Response); the
\* comment at analyzer.go:76 and the name originalRespBody): every parser of
\* a call reads the body of that response, captured once by the multiple
\* reader.
ParsersReadResponseBody ==
    \A c \in Callers : \A i \in DOMAIN last[c].seen :
        last[c].seen[i] = MultipleData(last[c].resp.respBody)
=============================================================================
