-------------------------------- MODULE Buffer --------------------------------
(***************************************************************************)
(* myBuffer of toolkit/buffer (buffer.go) shared by goroutines that call   *)
(* Put, Get and Close concurrently.                                        *)
(*                                                                         *)
(* Close sets the closed flag by CAS and only then takes closingLock for   *)
(* writing to close the channel; Put holds closingLock for reading from    *)
(* before its Closed() check until after its send.  A Put that passed the  *)
(* check before the CAS therefore sends before the channel is closed.      *)
(* closingLock is a sync.RWMutex: once a writer waits in Lock, new RLock   *)
(* calls block until it has had the lock.                                  *)
(*                                                                         *)
(* Putters, getters and closers loop: each step is one call or one atomic  *)
(* region of a call.  The lock is held by the closer only for close(ch),   *)
(* so taking it, closing and unlocking is one step.                        *)
(***************************************************************************)
EXTENDS Naturals, Sequences

CONSTANTS
    Cap,       \* the size given to NewBuffer
    Data,      \* items put
    Putters,   \* goroutines calling Put
    Getters,   \* goroutines calling Get
    Closers    \* goroutines calling Close

ASSUME Cap \in Nat \ {0}

VARIABLES
    ch,             \* buf.ch: the items in the channel, oldest first
    chClosed,       \* close(buf.ch) has happened
    closed,         \* buf.closed, set by CAS in Close
    readers,        \* goroutines holding closingLock for reading
    writerWaiting,  \* a Close is waiting in closingLock.Lock()
    pc,             \* pc[t]: where goroutine t is in its current call
    datum,          \* datum[p]: the item putter p is putting
    panicked        \* a send on the closed channel panicked

vars == <<ch, chClosed, closed, readers, writerWaiting, pc, datum, panicked>>

Goroutines == Putters \cup Getters \cup Closers

-----------------------------------------------------------------------------
\* The send case of Put's select: it is ready while the channel has room.
Fits == Len(ch) < Cap

Init ==
    \* NewBuffer(size): an open channel of capacity size
    /\ ch = <<>>
    /\ chClosed = FALSE
    /\ closed = FALSE
    /\ readers = {}
    /\ writerWaiting = FALSE
    /\ pc = [t \in Goroutines |-> "idle"]
    /\ datum = [p \in Putters |-> CHOOSE d \in Data : TRUE]
    /\ panicked = FALSE

-----------------------------------------------------------------------------
(* myBuffer.Put                                                            *)

\* Put without taking closingLock.
PutRLockNoop(p) ==
    /\ ~panicked /\ pc[p] = "idle"
    /\ \E d \in Data : datum' = [datum EXCEPT ![p] = d]
    /\ pc' = [pc EXCEPT ![p] = "check"]
    /\ UNCHANGED <<ch, chClosed, closed, readers, writerWaiting, panicked>>

\* An RLock that does not wait for a pending writer.
PutRLockIgnoringWriter(p) ==
    /\ ~panicked /\ pc[p] = "idle"
    /\ \E d \in Data : datum' = [datum EXCEPT ![p] = d]
    /\ readers' = readers \cup {p}
    /\ pc' = [pc EXCEPT ![p] = "check"]
    /\ UNCHANGED <<ch, chClosed, closed, writerWaiting, panicked>>

\* buf.closingLock.RLock(): blocks while a writer waits.
PutRLock(p) ==
    /\ ~panicked /\ pc[p] = "idle" /\ ~writerWaiting
    /\ \E d \in Data : datum' = [datum EXCEPT ![p] = d]
    /\ readers' = readers \cup {p}
    /\ pc' = [pc EXCEPT ![p] = "check"]
    /\ UNCHANGED <<ch, chClosed, closed, writerWaiting, panicked>>

\* if buf.Closed() { return false, ErrClosedBuffer } (the deferred RUnlock
\* runs on the way out).
PutCheck(p) ==
    /\ ~panicked /\ pc[p] = "check"
    /\ IF closed
         THEN /\ readers' = readers \ {p}
              /\ pc' = [pc EXCEPT ![p] = "idle"]
         ELSE /\ pc' = [pc EXCEPT ![p] = "send"]
              /\ UNCHANGED readers
    /\ UNCHANGED <<ch, chClosed, closed, writerWaiting, datum, panicked>>

\* The select: send if there is room (ok = true), else the default case
\* (ok = false); a send on a closed channel panics.  Then the deferred
\* RUnlock.
PutSend(p) ==
    /\ ~panicked /\ pc[p] = "send"
    /\ \/ /\ chClosed
          /\ panicked' = TRUE
          /\ UNCHANGED ch
       \/ /\ ~chClosed
          /\ ch' = IF Fits THEN Append(ch, datum[p]) ELSE ch
          /\ UNCHANGED panicked
    /\ readers' = readers \ {p}
    /\ pc' = [pc EXCEPT ![p] = "idle"]
    /\ UNCHANGED <<chClosed, closed, writerWaiting, datum>>

-----------------------------------------------------------------------------
(* myBuffer.Get: one non-blocking receive; on a closed channel it still    *)
(* returns the items left, then ErrClosedBuffer.                           *)

Get(g) ==
    /\ ~panicked
    /\ ch' = IF ch # <<>> THEN Tail(ch) ELSE ch
    /\ UNCHANGED <<chClosed, closed, readers, writerWaiting, pc, datum, panicked>>

-----------------------------------------------------------------------------
(* myBuffer.Close                                                          *)

\* atomic.CompareAndSwapUint32(&buf.closed, 0, 1); false if already closed.
CloseCAS(c) ==
    /\ ~panicked /\ pc[c] = "idle"
    /\ IF closed
         THEN /\ pc' = [pc EXCEPT ![c] = "done"]
              /\ UNCHANGED closed
         ELSE /\ closed' = TRUE
              /\ pc' = [pc EXCEPT ![c] = "lock"]
    /\ UNCHANGED <<ch, chClosed, readers, writerWaiting, datum, panicked>>

\* buf.closingLock.Lock(): the writer announces itself and waits for the
\* readers to leave.
CloseLock(c) ==
    /\ ~panicked /\ pc[c] = "lock"
    /\ writerWaiting' = TRUE
    /\ pc' = [pc EXCEPT ![c] = "wait"]
    /\ UNCHANGED <<ch, chClosed, closed, readers, datum, panicked>>

\* With no reader left: close(buf.ch); buf.closingLock.Unlock(); return true.
CloseFinish(c) ==
    /\ ~panicked /\ pc[c] = "wait" /\ readers = {}
    /\ chClosed' = TRUE
    /\ writerWaiting' = FALSE
    /\ pc' = [pc EXCEPT ![c] = "done"]
    /\ UNCHANGED <<ch, closed, readers, datum, panicked>>

-----------------------------------------------------------------------------
PutStep(p) == PutRLock(p) \/ PutCheck(p) \/ PutSend(p)
CloseStep(c) == CloseCAS(c) \/ CloseLock(c) \/ CloseFinish(c)

Next ==
    \/ \E p \in Putters : PutStep(p)
    \/ \E g \in Getters : Get(g)
    \/ \E c \in Closers : CloseStep(c)

\* The Go scheduler keeps running every runnable goroutine.
Fairness ==
    /\ \A p \in Putters : WF_vars(PutStep(p))
    /\ \A c \in Closers : WF_vars(CloseStep(c))

Spec == Init /\ [][Next]_vars /\ Fairness

-----------------------------------------------------------------------------
\* closingLock keeps Close from closing the channel between a Put's
\* Closed() check and its send: no Put ever sends on the closed channel.
NoSendOnClosed == ~panicked

\* A Close that won the CAS gets closingLock and closes the channel
\* although putters keep taking the read lock: RWMutex blocks new readers
\* once the writer waits.
CloseCompletes == \A c \in Closers : pc[c] = "lock" ~> pc[c] = "done"
=============================================================================
