-------------------------------- MODULE Pool --------------------------------
(***************************************************************************)
(* The elastic buffer pool of webcrawler/toolkit/buffer (pool.go), with    *)
(* the non-blocking buffers of buffer.go it is made of.                    *)
(*                                                                         *)
(* Goroutines call the blocking Put and Get of one pool concurrently and   *)
(* one goroutine may Close it.  A call ranges over the channel buffCh of   *)
(* idle buffers: it receives one buffer, owns it while it works on it and  *)
(* gives it back in the deferred function of putData/getData.  Every step  *)
(* below is one of the atomic regions of the code: an atomic load, add or  *)
(* compare-and-swap, a channel operation, or a section under rwlock.       *)
(* The read-locked sections of the deferred functions are single steps, so *)
(* between steps only the write lock (grow path) can be held.              *)
(*                                                                         *)
(* Data: an item is a model value; each putter puts the items of ToPut[p]  *)
(* one call after another and each getter makes GetCalls calls.          *)
(***************************************************************************)
EXTENDS Naturals, Sequences, SequencesExt, FiniteSets, FiniteSetsExt

CONSTANTS
    BufferCap,        \* pool.bufferCap, the capacity of every buffer
    MaxBufferNumber,  \* pool.maxBufferNumber
    GrowFactor,       \* 5 in Put: maxCount := BufferNumer() * 5
    ShrinkFactor,     \* 10 in Get: maxCount := BufferNumer() * 10
    Putters,          \* goroutines calling pool.Put
    Getters,          \* goroutines calling pool.Get
    ToPut,            \* ToPut[p]: the items putter p puts, in order
    GetCalls,         \* number of Get calls each getter makes
    NoData            \* the nil interface{} a Get returns when it got nothing

Data == UNION {ToSet(ToPut[p]) : p \in Putters}

\* Buffer identities.  A buffer retired by a shrink is garbage, so its
\* identity is reused; MaxBufferNumber + 1 identities are enough because a
\* grower adds at most one buffer beyond bufferNumber before counting it.
BufferIds == 1 .. MaxBufferNumber + 1
NoBuf == 0

ASSUME
    /\ BufferCap \in Nat \ {0}
    /\ MaxBufferNumber \in Nat \ {0}
    /\ GrowFactor \in Nat \ {0} /\ ShrinkFactor \in Nat \ {0}
    /\ Putters \cap Getters = {}
    /\ ToPut \in [Putters -> Seq(Data)]
    /\ \A p, q \in Putters : \A i \in 1..Len(ToPut[p]), j \in 1..Len(ToPut[q]) :
          ToPut[p][i] = ToPut[q][j] => p = q /\ i = j     \* items are distinct
    /\ NoData \notin Data

Procs == Putters \cup Getters

VARIABLES
    bufs,          \* bufs[b]: the items in buffer b's channel, oldest first
    bufClosed,     \* bufClosed[b]: buffer b's closed flag (or b unused)
    buffCh,        \* pool.buffCh: the idle buffers, FIFO
    chClosed,      \* close(pool.buffCh) has happened
    closed,        \* pool.closed
    bufferNumber,  \* pool.bufferNumber
    total,         \* pool.total
    wlocked,       \* pool.rwlock is write-locked (by a grower or Close)
    pc,            \* pc[g]: where goroutine g is in its current call
    held,          \* held[g]: the buffer g received from buffCh
    count,         \* the local failure counter of g's current call
    maxCount,      \* the threshold g computed when its call began
    ok,            \* putData's named result ok
    err,           \* named result err of g's current call is non-nil
    datum,         \* getData's named result datum
    putIdx,        \* number of Put calls putter p has finished
    getsDone,      \* number of Get calls getter g has finished
    closerPc,      \* where the goroutine calling pool.Close is
    putResult,     \* putResult[d]: what the Put of d returned
    gotCount       \* gotCount[d]: how many Get calls returned d

poolVars == <<bufs, bufClosed, buffCh, chClosed, closed, bufferNumber, total, wlocked>>
localVars == <<pc, held, count, maxCount, ok, err, datum, putIdx, getsDone, closerPc>>
histVars == <<putResult, gotCount>>
vars == <<poolVars, localVars, histVars>>

-----------------------------------------------------------------------------
(* Buffer (buffer.go).  Only buffers a goroutine owns are put to or taken  *)
(* from, and an owned buffer is never closed, so the closed checks of      *)
(* myBuffer.Put and the closed-channel case of myBuffer.Get do not arise   *)
(* inside the pool.                                                        *)

\* myBuffer.Put: the non-blocking send; FALSE when the channel is full.
BufPutOK(b) == Len(bufs[b]) < BufferCap

\* myBuffer.Get: the non-blocking receive; NoData when the channel is empty.
BufGet(b) == IF bufs[b] = <<>> THEN NoData ELSE Head(bufs[b])

\* The item putter p is putting in its current call.
Item(p) == ToPut[p][putIdx[p] + 1]

\* The failure counter only matters through count >= maxCount and is reset
\* to 0, so it is saturated at maxCount (the code keeps counting).
Incr(c, m) == IF c < m THEN c + 1 ELSE m

\* Buffers that exist: idle in buffCh or owned by a goroutine.
Live == (ToSet(buffCh) \cup {held[g] : g \in Procs}) \ {NoBuf}

\* The re-check of putData under the write lock:
\* pool.BufferNumer() < pool.MaxBufferNumber().
GrowRecheckNoLock == TRUE
GrowRecheck == bufferNumber < MaxBufferNumber

\* The content of the new buffer: newBuf.Put(datum).
NewBufContentEmpty(p) == <<>>
NewBufContent(p) == <<Item(p)>>

\* total after buf.Get: atomic.AddUint64(&pool.total, ^uint64(0)) when an
\* item came out.
TotalAfterGetAlways(d) == total - 1
TotalAfterGet(d) == IF d = NoData THEN total ELSE total - 1

\* The shrink test of getData's defer, with the counter c and the buffer
\* content left after buf.Get.
ShrinkDue(g, c, left) == c >= maxCount[g] /\ left = <<>> /\ bufferNumber > 1

-----------------------------------------------------------------------------
Init ==
    \* NewPool: one buffer, bufferNumber = 1
    /\ bufs = [b \in BufferIds |-> <<>>]
    /\ bufClosed = [b \in BufferIds |-> b # 1]
    /\ buffCh = <<1>>
    /\ chClosed = FALSE
    /\ closed = FALSE
    /\ bufferNumber = 1
    /\ total = 0
    /\ wlocked = FALSE
    /\ pc = [g \in Procs |-> "idle"]
    /\ held = [g \in Procs |-> NoBuf]
    /\ count = [g \in Procs |-> 0]
    /\ maxCount = [g \in Procs |-> 0]
    /\ ok = [p \in Putters |-> FALSE]
    /\ err = [g \in Procs |-> FALSE]
    /\ datum = [g \in Getters |-> NoData]
    /\ putIdx = [p \in Putters |-> 0]
    /\ getsDone = [g \in Getters |-> 0]
    /\ closerPc = "idle"
    /\ putResult = [d \in Data |-> "none"]
    /\ gotCount = [d \in Data |-> 0]

-----------------------------------------------------------------------------
(* myPool.Put                                                              *)

\* Finish putter p's call with result res ("ok" for a nil error).
EndPut(p, res) ==
    /\ pc' = [pc EXCEPT ![p] = "idle"]
    /\ putIdx' = [putIdx EXCEPT ![p] = @ + 1]
    /\ putResult' = [putResult EXCEPT ![Item(p)] = res]

\* Put entry: the closed check, then maxCount := BufferNumer() * 5.
PutBegin(p) ==
    /\ pc[p] = "idle" /\ putIdx[p] < Len(ToPut[p])
    /\ IF closed
         THEN /\ EndPut(p, "err")
              /\ UNCHANGED <<count, maxCount, ok, err>>
         ELSE /\ pc' = [pc EXCEPT ![p] = "range"]
              /\ count' = [count EXCEPT ![p] = 0]
              /\ maxCount' = [maxCount EXCEPT ![p] = bufferNumber * GrowFactor]
              /\ ok' = [ok EXCEPT ![p] = FALSE]
              /\ err' = [err EXCEPT ![p] = FALSE]
              /\ UNCHANGED <<putIdx, putResult>>
    /\ UNCHANGED <<poolVars, held, datum, getsDone, closerPc, gotCount>>

\* `for buf := range pool.buffCh`: receive an idle buffer (blocks while
\* buffCh is empty and open).  Shared by Put (next = "putData") and Get.
TakeBuffer(g, next) ==
    /\ pc[g] = "range" /\ buffCh # <<>>
    /\ held' = [held EXCEPT ![g] = Head(buffCh)]
    /\ buffCh' = Tail(buffCh)
    /\ pc' = [pc EXCEPT ![g] = next]
    /\ UNCHANGED <<bufs, bufClosed, chClosed, closed, bufferNumber, total, wlocked,
                   count, maxCount, ok, err, datum, putIdx, getsDone, closerPc, histVars>>

PutTake(p) == TakeBuffer(p, "putData")

\* The range loop ends because buffCh was closed and drained: Put returns
\* its named err, which is nil, although the item was stored nowhere.
PutRangeEnd(p) ==
    /\ pc[p] = "range" /\ buffCh = <<>> /\ chClosed
    /\ EndPut(p, IF err[p] THEN "err" ELSE "ok")
    /\ UNCHANGED <<poolVars, held, count, maxCount, ok, err, datum, getsDone,
                   closerPc, gotCount>>

\* putData up to its deferred function: the early closed check (which
\* returns before the defer is registered, so the buffer is never given
\* back), buf.Put, total++ on success, else count++ and the unlocked test
\* for growing.
PutData(p) ==
    LET b == held[p]
        c == Incr(count[p], maxCount[p])
    IN
    /\ pc[p] = "putData"
    /\ \/ /\ closed
          /\ held' = [held EXCEPT ![p] = NoBuf]
          /\ EndPut(p, "err")
          /\ UNCHANGED <<bufs, total, count, ok>>
       \/ /\ ~closed /\ BufPutOK(b)
          /\ bufs' = [bufs EXCEPT ![b] = Append(@, Item(p))]
          /\ total' = total + 1
          /\ ok' = [ok EXCEPT ![p] = TRUE]
          /\ pc' = [pc EXCEPT ![p] = "putReturn"]
          /\ UNCHANGED <<held, count, putIdx, putResult>>
       \/ /\ ~closed /\ ~BufPutOK(b)
          /\ count' = [count EXCEPT ![p] = c]
          /\ pc' = [pc EXCEPT ![p] =
                      IF c >= maxCount[p] /\ bufferNumber < MaxBufferNumber
                        THEN "grow" ELSE "putReturn"]
          /\ UNCHANGED <<bufs, total, held, ok, putIdx, putResult>>
    /\ UNCHANGED <<bufClosed, buffCh, chClosed, closed, bufferNumber, wlocked,
                   maxCount, err, datum, getsDone, closerPc, gotCount>>

\* The grow path under pool.rwlock.Lock(): the re-check of bufferNumber,
\* the closed check, then NewBuffer, newBuf.Put(datum) and
\* `pool.buffCh <- newBuf`.  The lock stays held until GrowCount.
GrowLock(p) ==
    /\ pc[p] = "grow" /\ ~wlocked
    /\ \/ /\ GrowRecheck /\ ~closed
          /\ \E nb \in {b \in BufferIds : bufClosed[b] /\ b \notin Live} :
               /\ bufs' = [bufs EXCEPT ![nb] = NewBufContent(p)]
               /\ bufClosed' = [bufClosed EXCEPT ![nb] = FALSE]
               /\ buffCh' = Append(buffCh, nb)
          /\ wlocked' = TRUE
          /\ pc' = [pc EXCEPT ![p] = "growCount"]
          /\ UNCHANGED count
       \/ /\ GrowRecheck /\ closed
          /\ pc' = [pc EXCEPT ![p] = "putReturn"]
          /\ UNCHANGED <<bufs, bufClosed, buffCh, wlocked, count>>
       \/ /\ ~GrowRecheck
          /\ count' = [count EXCEPT ![p] = 0]
          /\ pc' = [pc EXCEPT ![p] = "putReturn"]
          /\ UNCHANGED <<bufs, bufClosed, buffCh, wlocked>>
    /\ UNCHANGED <<chClosed, closed, bufferNumber, total, held, maxCount, ok, err,
                   datum, putIdx, getsDone, closerPc, histVars>>

\* The grow path without its atomic.AddUint64(&pool.total, 1).
GrowCountNoTotal(p) ==
    /\ pc[p] = "growCount"
    /\ bufferNumber' = bufferNumber + 1
    /\ ok' = [ok EXCEPT ![p] = TRUE]
    /\ wlocked' = FALSE
    /\ count' = [count EXCEPT ![p] = 0]
    /\ pc' = [pc EXCEPT ![p] = "putReturn"]
    /\ UNCHANGED <<bufs, bufClosed, buffCh, chClosed, closed, held, maxCount, err,
                   datum, putIdx, getsDone, closerPc, histVars, total>>

\* The rest of the grow path: bufferNumber++, total++, ok = true, Unlock,
\* *count = 0.
GrowCount(p) ==
    /\ pc[p] = "growCount"
    /\ bufferNumber' = bufferNumber + 1
    /\ total' = total + 1
    /\ ok' = [ok EXCEPT ![p] = TRUE]
    /\ wlocked' = FALSE
    /\ count' = [count EXCEPT ![p] = 0]
    /\ pc' = [pc EXCEPT ![p] = "putReturn"]
    /\ UNCHANGED <<bufs, bufClosed, buffCh, chClosed, closed, held, maxCount, err,
                   datum, putIdx, getsDone, closerPc, histVars>>

\* The deferred function of putData under RLock (bufferNumber-- and
\* ErrClosedBufferPool if the pool is closed, else `pool.buffCh <- buf`),
\* then Put's `if ok || err != nil { break }`.
PutReturn(p) ==
    /\ pc[p] = "putReturn" /\ ~wlocked
    /\ IF closed
         THEN /\ bufferNumber' = bufferNumber - 1
              /\ err' = [err EXCEPT ![p] = TRUE]
              /\ UNCHANGED buffCh
         ELSE /\ buffCh' = Append(buffCh, held[p])
              /\ UNCHANGED <<bufferNumber, err>>
    /\ held' = [held EXCEPT ![p] = NoBuf]
    /\ IF ok[p] \/ closed
         THEN EndPut(p, IF closed THEN "err" ELSE "ok")
         ELSE /\ pc' = [pc EXCEPT ![p] = "range"]
              /\ UNCHANGED <<putIdx, putResult>>
    /\ UNCHANGED <<bufs, bufClosed, chClosed, closed, total, wlocked, count,
                   maxCount, ok, datum, getsDone, closerPc, gotCount>>

-----------------------------------------------------------------------------
(* myPool.Get                                                              *)

\* Finish getter g's call; it returned item d (or nil).
EndGet(g, d) ==
    /\ pc' = [pc EXCEPT ![g] = "idle"]
    /\ getsDone' = [getsDone EXCEPT ![g] = @ + 1]
    /\ gotCount' = IF d = NoData THEN gotCount ELSE [gotCount EXCEPT ![d] = @ + 1]

\* Get entry: the closed check, then maxCount := BufferNumer() * 10.
GetBegin(g) ==
    /\ pc[g] = "idle" /\ getsDone[g] < GetCalls
    /\ datum' = [datum EXCEPT ![g] = NoData]
    /\ IF closed
         THEN /\ EndGet(g, NoData)
              /\ UNCHANGED <<count, maxCount, err>>
         ELSE /\ pc' = [pc EXCEPT ![g] = "range"]
              /\ count' = [count EXCEPT ![g] = 0]
              /\ maxCount' = [maxCount EXCEPT ![g] = bufferNumber * ShrinkFactor]
              /\ err' = [err EXCEPT ![g] = FALSE]
              /\ UNCHANGED <<getsDone, gotCount>>
    /\ UNCHANGED <<poolVars, held, ok, putIdx, closerPc, putResult>>

GetTake(g) == TakeBuffer(g, "getData")

\* The range loop ends on the closed, drained buffCh: Get returns nil, nil.
GetRangeEnd(g) ==
    /\ pc[g] = "range" /\ buffCh = <<>> /\ chClosed
    /\ EndGet(g, NoData)
    /\ UNCHANGED <<poolVars, held, count, maxCount, ok, err, datum, putIdx,
                   closerPc, putResult>>

\* getData up to its deferred function: the early closed check (buffer
\* not given back), buf.Get with total-- on an item, else count++; then the
\* shrink test of the defer, which reads bufferNumber without a lock.
GetData(g) ==
    LET b == held[g]
        d == BufGet(b)
        c == IF d = NoData THEN Incr(count[g], maxCount[g]) ELSE count[g]
        left == IF d = NoData THEN bufs[b] ELSE Tail(bufs[b])
    IN
    /\ pc[g] = "getData"
    /\ \/ /\ closed
          /\ held' = [held EXCEPT ![g] = NoBuf]
          /\ EndGet(g, NoData)
          /\ UNCHANGED <<bufs, total, count, datum>>
       \/ /\ ~closed
          /\ bufs' = [bufs EXCEPT ![b] = left]
          /\ total' = TotalAfterGet(d)
          /\ datum' = [datum EXCEPT ![g] = d]
          /\ count' = [count EXCEPT ![g] = c]
          /\ pc' = [pc EXCEPT ![g] =
                      IF ShrinkDue(g, c, left)
                        THEN "shrink" ELSE "getReturn"]
          /\ UNCHANGED <<held, getsDone, gotCount>>
    /\ UNCHANGED <<bufClosed, buffCh, chClosed, closed, bufferNumber, wlocked,
                   maxCount, ok, err, putIdx, closerPc, putResult>>

\* The shrink branch without atomic.AddUint32(&pool.bufferNumber, ^uint32(0)).
ShrinkNoDecrement(g) ==
    LET b == held[g] IN
    /\ pc[g] = "shrink"
    /\ bufClosed' = [bufClosed EXCEPT ![b] = TRUE]
    /\ count' = [count EXCEPT ![g] = 0]
    /\ held' = [held EXCEPT ![g] = NoBuf]
    /\ IF datum[g] # NoData
         THEN EndGet(g, datum[g])
         ELSE /\ pc' = [pc EXCEPT ![g] = "range"]
              /\ UNCHANGED <<getsDone, gotCount>>
    /\ UNCHANGED <<bufs, buffCh, chClosed, closed, total, wlocked, maxCount, ok,
                   err, datum, putIdx, closerPc, putResult, bufferNumber>>

\* The shrink branch of the defer: buf.Close(), bufferNumber--, count = 0;
\* the buffer is not given back.  Get returns if it got an item.
Shrink(g) ==
    LET b == held[g] IN
    /\ pc[g] = "shrink"
    /\ bufClosed' = [bufClosed EXCEPT ![b] = TRUE]
    /\ bufferNumber' = bufferNumber - 1
    /\ count' = [count EXCEPT ![g] = 0]
    /\ held' = [held EXCEPT ![g] = NoBuf]
    /\ IF datum[g] # NoData
         THEN EndGet(g, datum[g])
         ELSE /\ pc' = [pc EXCEPT ![g] = "range"]
              /\ UNCHANGED <<getsDone, gotCount>>
    /\ UNCHANGED <<bufs, buffCh, chClosed, closed, total, wlocked, maxCount, ok,
                   err, datum, putIdx, closerPc, putResult>>

\* The give-back branch of the defer under RLock, then Get's
\* `if datum != nil || err != nil { break }`.
GetReturn(g) ==
    /\ pc[g] = "getReturn" /\ ~wlocked
    /\ IF closed
         THEN /\ bufferNumber' = bufferNumber - 1
              /\ err' = [err EXCEPT ![g] = TRUE]
              /\ UNCHANGED buffCh
         ELSE /\ buffCh' = Append(buffCh, held[g])
              /\ UNCHANGED <<bufferNumber, err>>
    /\ held' = [held EXCEPT ![g] = NoBuf]
    /\ IF datum[g] # NoData \/ closed
         THEN EndGet(g, datum[g])
         ELSE /\ pc' = [pc EXCEPT ![g] = "range"]
              /\ UNCHANGED <<getsDone, gotCount>>
    /\ UNCHANGED <<bufs, bufClosed, chClosed, closed, total, wlocked, count,
                   maxCount, ok, datum, putIdx, closerPc, putResult>>

-----------------------------------------------------------------------------
(* myPool.Close                                                            *)

\* atomic.CompareAndSwapUint32(&pool.closed, 0, 1)
CloseCAS ==
    /\ closerPc = "idle" /\ ~closed
    /\ closed' = TRUE
    /\ closerPc' = "lock"
    /\ UNCHANGED <<bufs, bufClosed, buffCh, chClosed, bufferNumber, total, wlocked,
                   pc, held, count, maxCount, ok, err, datum, putIdx, getsDone, histVars>>

\* Under the write lock: close(pool.buffCh), then drain it closing every
\* idle buffer.  Buffers owned by a goroutine are not closed here.
CloseDrain ==
    /\ closerPc = "lock" /\ ~wlocked
    /\ chClosed' = TRUE
    /\ bufClosed' = [b \in BufferIds |-> bufClosed[b] \/ b \in ToSet(buffCh)]
    /\ buffCh' = <<>>
    /\ closerPc' = "done"
    /\ UNCHANGED <<bufs, closed, bufferNumber, total, wlocked, pc, held, count,
                   maxCount, ok, err, datum, putIdx, getsDone, histVars>>

-----------------------------------------------------------------------------
\* Every call has returned and the closer is not half-way through Close:
\* the program has nothing left to do.
Terminating ==
    /\ \A p \in Putters : pc[p] = "idle" /\ putIdx[p] = Len(ToPut[p])
    /\ \A g \in Getters : pc[g] = "idle" /\ getsDone[g] = GetCalls
    /\ closerPc # "lock"
    /\ UNCHANGED vars

\* The steps of one putter's and one getter's calls.
PutStep(p) ==
    \/ PutBegin(p) \/ PutTake(p) \/ PutRangeEnd(p) \/ PutData(p)
    \/ GrowLock(p) \/ GrowCount(p) \/ PutReturn(p)
GetStep(g) ==
    \/ GetBegin(g) \/ GetTake(g) \/ GetRangeEnd(g) \/ GetData(g)
    \/ Shrink(g) \/ GetReturn(g)

Next ==
    \/ \E p \in Putters : PutStep(p)
    \/ \E g \in Getters : GetStep(g)
    \/ CloseCAS \/ CloseDrain
    \/ Terminating

Spec == Init /\ [][Next]_vars

-----------------------------------------------------------------------------
(* Properties                                                              *)

TypeOK ==
    /\ bufs \in [BufferIds -> Seq(Data)]
    /\ bufClosed \in [BufferIds -> BOOLEAN]
    /\ buffCh \in Seq(BufferIds)
    /\ {chClosed, closed, wlocked} \subseteq BOOLEAN
    /\ bufferNumber \in Nat /\ total \in Nat
    /\ pc \in [Procs -> {"idle", "range", "putData", "grow", "growCount",
                         "putReturn", "getData", "shrink", "getReturn"}]
    /\ held \in [Procs -> BufferIds \cup {NoBuf}]
    /\ count \in [Procs -> Nat] /\ maxCount \in [Procs -> Nat]
    /\ ok \in [Putters -> BOOLEAN] /\ err \in [Procs -> BOOLEAN]
    /\ datum \in [Getters -> Data \cup {NoData}]
    /\ closerPc \in {"idle", "lock", "done"}
    /\ putResult \in [Data -> {"none", "ok", "err"}]
    /\ gotCount \in [Data -> Nat]

\* Number of copies of item d in the system: in buffers (idle, owned,
\* retired or dropped), taken by a getter whose call has not returned yet,
\* or returned by a Get.
Occurrences(s, d) == Len(SelectSeq(s, LAMBDA x : x = d))
Copies(d) ==
    MapThenSumSet(LAMBDA b : Occurrences(bufs[b], d), BufferIds)
      + Cardinality({g \in Getters : datum[g] = d /\ pc[g] \in {"getReturn", "shrink"}})
      + gotCount[d]

Stored == MapThenSumSet(LAMBDA b : Len(bufs[b]), BufferIds)
PendingGrow == Cardinality({p \in Putters : pc[p] = "growCount"})

\* Items are neither duplicated nor invented by concurrent Put/Get calls
\* on shared buffers, and while the pool is open an item whose Put returned
\* nil is in the pool or was returned by exactly one Get (putData, getData
\* and the grow path of putData).
ItemsConserved ==
    \A d \in Data :
        /\ Copies(d) <= 1
        /\ putResult[d] = "ok" /\ ~closed => Copies(d) = 1

\* Pool.Put's contract ("blocking ... returns non-nil error if the pool is
\* closed"): a Put that returned nil stored its item, even when Close ran
\* concurrently.
AckedItemsStored ==
    \A d \in Data : putResult[d] = "ok" => Copies(d) = 1

\* pool.total, maintained with atomic adds apart from the buffer
\* operations, equals the number of stored items except for the one item
\* a grower has published in its new buffer and not counted yet; in
\* particular the atomic decrement in getData never wraps below zero.
TotalAccounting == total + PendingGrow = Stored

\* While the pool is open, bufferNumber counts the buffers that exist
\* (idle or owned), but for a new buffer not counted yet: the unlocked
\* shrink in getData's defer and the locked grow keep it exact.
BufferNumberAccounting ==
    ~closed => bufferNumber + PendingGrow = Cardinality(Live)

\* The re-check of bufferNumber under the write lock keeps concurrent
\* growers from exceeding maxBufferNumber.
BufferNumberBounded == bufferNumber <= MaxBufferNumber

\* The shrink in getData's defer never retires the last buffer of an open
\* pool (spec: "reduces bufferNumber back toward 1 (never below 1)");
\* with no buffer left every Put and Get blocks forever on buffCh.
NeverEmptied == ~closed => bufferNumber >= 1

=============================================================================
