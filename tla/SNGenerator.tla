----------------------------- MODULE SNGenerator -----------------------------
(***************************************************************************)
(* The serial-number generator of webcrawler/module (sn.go), whose Get     *)
(* hands out the serials of module IDs.  Get holds only the READ lock of   *)
(* s.lock while it reads and writes s.next and s.cycleCount, so concurrent *)
(* Get calls race.  A call is two steps: `id := s.next`, then the update   *)
(* of the if/else (each update a single read-modify-write; the race lets   *)
(* other calls run between the read of id and the update).                 *)
(***************************************************************************)
EXTENDS Naturals, Sequences, Functions

CONSTANTS
    Start,      \* NewSNGenertor's start
    Max,        \* NewSNGenertor's max (non-zero; 0 would mean MaxUint64)
    Callers,    \* goroutines calling Get
    Calls       \* Calls[c]: number of Get calls goroutine c makes

ASSUME Start \in Nat /\ Max \in Nat \ {0} /\ Start <= Max
ASSUME Calls \in [Callers -> Nat]

\* Number of serials in one cycle.
CycleLength == Max - Start + 1

VARIABLES
    next,        \* s.next
    cycleCount,  \* s.cycleCount
    pc,          \* pc[c]: "idle" or "update" (id read, update pending)
    id,          \* id[c]: the local id of c's current Get
    done,        \* done[c]: Get calls c has finished
    issued       \* the serials returned by Get, in the order the calls returned

vars == <<next, cycleCount, pc, id, done, issued>>

Init ==
    \* NewSNGenertor(Start, Max)
    /\ next = Start
    /\ cycleCount = 0
    /\ pc = [c \in Callers |-> "idle"]
    /\ id = [c \in Callers |-> Start]
    /\ done = [c \in Callers |-> 0]
    /\ issued = <<>>

\* s.lock.RLock(); id := s.next
GetRead(c) ==
    /\ pc[c] = "idle" /\ done[c] < Calls[c]
    /\ id' = [id EXCEPT ![c] = next]
    /\ pc' = [pc EXCEPT ![c] = "update"]
    /\ UNCHANGED <<next, cycleCount, done, issued>>

\* if id == s.max { s.next = s.start; s.cycleCount++ } else { s.next++ };
\* s.lock.RUnlock(); return id
GetUpdate(c) ==
    /\ pc[c] = "update"
    /\ IF id[c] = Max
         THEN /\ next' = Start
              /\ cycleCount' = cycleCount + 1
         ELSE /\ next' = next + 1
              /\ UNCHANGED cycleCount
    /\ pc' = [pc EXCEPT ![c] = "idle"]
    /\ done' = [done EXCEPT ![c] = @ + 1]
    /\ issued' = Append(issued, id[c])
    /\ UNCHANGED id

\* Every goroutine has made its calls.
Finished ==
    /\ \A c \in Callers : pc[c] = "idle" /\ done[c] = Calls[c]
    /\ UNCHANGED vars

Next == (\E c \in Callers : GetRead(c) \/ GetUpdate(c)) \/ Finished

Spec == Init /\ [][Next]_vars

-----------------------------------------------------------------------------
\* Module IDs are unique: Get calls made within one cycle (at most
\* CycleLength of them) never return the same serial, even when they run
\* concurrently.
UniqueSerials == Len(issued) <= CycleLength => IsInjective(issued)

=============================================================================
