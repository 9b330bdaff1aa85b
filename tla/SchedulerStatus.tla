--------------------------- MODULE SchedulerStatus ---------------------------
(***************************************************************************)
(* The lifecycle of webcrawler/scheduler: the status state machine of      *)
(* status.go and the Init, Start and Stop methods of myScheduler           *)
(* (scheduler.go) that drive it, called by concurrent goroutines.         *)
(*                                                                         *)
(* Each method first calls checkAndSetStatus, a check-and-set under        *)
(* statusLock, then does its work and, in a deferred function that takes   *)
(* statusLock again, writes the final status: the wanted one on success,   *)
(* the status it read (oldStatus) on error.  The work between the two      *)
(* locked sections touches no state another lifecycle call reads, so it    *)
(* is one step with the final write.                                       *)
(*                                                                         *)
(* The four buffer pools are abstracted to one flag (Init rebuilds all     *)
(* four, Stop closes all four), the registrar to how much of the module    *)
(* list Init registered, the worker goroutines to one flag.  Stop and      *)
(* checkBufferPoolForStart are not in the source tree and follow the spec. *)
(***************************************************************************)
EXTENDS Naturals, FiniteSets

CONSTANTS
    Callers,      \* goroutines calling Init, Start and Stop
    AllowPanic    \* whether launching the workers in Start may panic

\* Status (status.go)
UNINITIALIZED == 0
INITIALIZING  == 1
INITIALIZED   == 2
STARTING      == 3
STARTED       == 4
STOPPING      == 5
STOPPED       == 6
Status == 0 .. 6
NoStatus == 7     \* oldStatus of a caller that has not read the status

ASSUME Callers # {} /\ AllowPanic \in BOOLEAN

VARIABLES
    status,        \* myScheduler.status
    pc,            \* pc[c]: "idle" or the method c is inside
    oldStatus,     \* oldStatus[c]: the status c's checkAndSetStatus read
    checkFailed,   \* checkFailed[c]: c's checkAndSetStatus returned an error
    poolsOpen,     \* the four buffer pools exist and are not closed
    registered,    \* categories whose modules the last Init registered
    cancelled,     \* sched.ctx has been cancelled
    running,       \* the download/analyze/pick goroutines have been launched
    last           \* last[c]: method, returned error and status written by c's last call

vars == <<status, pc, oldStatus, checkFailed, poolsOpen, registered, cancelled,
          running, last>>

Transient == {INITIALIZING, STARTING, STOPPING}

\* Module categories, in the order registerModules registers them.
Categories == <<"downloader", "analyzer", "pipeline">>
AllCategories == {Categories[i] : i \in 1..3}
NoCall == [op |-> "none", ret |-> "nil", wrote |-> NoStatus]

-----------------------------------------------------------------------------
\* checkStatus: whether the wanted status may be entered from the current
\* one (nil error), rule by rule in the order of the code.
CheckStatusAllowsStopFromAny(current, wanted) ==
    /\ current \notin Transient
    /\ ~(current = INITIALIZED /\ wanted \in {INITIALIZING, STOPPING})
    /\ wanted = INITIALIZING => current # STARTED
    /\ wanted = STARTING => current \notin {UNINITIALIZED, STARTED}
    /\ wanted \in {INITIALIZING, STARTING, STOPPING}

CheckStatusAllowsInitWhileStarted(current, wanted) ==
    /\ current \notin Transient
    /\ ~(current = INITIALIZED /\ wanted \in {INITIALIZING, STOPPING})
    /\ wanted = STARTING => current \notin {UNINITIALIZED, STARTED}
    /\ wanted = STOPPING => current = STARTED
    /\ wanted \in {INITIALIZING, STARTING, STOPPING}

CheckStatus(current, wanted) ==
    /\ current \notin Transient
    /\ ~(current = INITIALIZED /\ wanted \in {INITIALIZING, STOPPING})
    /\ wanted = INITIALIZING => current # STARTED
    /\ wanted = STARTING => current \notin {UNINITIALIZED, STARTED}
    /\ wanted = STOPPING => current = STARTED
    /\ wanted \in {INITIALIZING, STARTING, STOPPING}

\* checkAndSetStatus: under statusLock, remember the status read and set
\* the wanted one if checkStatus allows it.
CheckAndSetStatusNoOld(c, wanted) ==
    /\ UNCHANGED oldStatus
    /\ checkFailed' = [checkFailed EXCEPT ![c] = ~CheckStatus(status, wanted)]
    /\ status' = IF CheckStatus(status, wanted) THEN wanted ELSE status

\* checkAndSetStatus returning the status as it is after the set.
CheckAndSetStatusOldIsNew(c, wanted) ==
    /\ oldStatus' = [oldStatus EXCEPT ![c] =
                        IF CheckStatus(status, wanted) THEN wanted ELSE status]
    /\ checkFailed' = [checkFailed EXCEPT ![c] = ~CheckStatus(status, wanted)]
    /\ status' = IF CheckStatus(status, wanted) THEN wanted ELSE status

CheckAndSetStatus(c, wanted) ==
    /\ oldStatus' = [oldStatus EXCEPT ![c] = status]
    /\ checkFailed' = [checkFailed EXCEPT ![c] = ~CheckStatus(status, wanted)]
    /\ status' = IF CheckStatus(status, wanted) THEN wanted ELSE status

\* initBufferPool: every open pool is closed and a new one created.
InitBufferPool == poolsOpen' = TRUE

\* resetContext: a fresh, uncancelled context.
ResetContext == cancelled' = FALSE

\* registerModules registering downloaders, analyzers and pipelines in turn
\* and failing (Register's error or false) at category k; k = 4: none fails.
RegisterModules(k) == registered' = {Categories[i] : i \in 1..k-1}

\* The deferred status write of Init and Start: oldStatus on error.
FinalStatus(c, failed, wanted) == IF failed THEN oldStatus[c] ELSE wanted

-----------------------------------------------------------------------------
Init ==
    /\ status = UNINITIALIZED
    /\ pc = [c \in Callers |-> "idle"]
    /\ oldStatus = [c \in Callers |-> NoStatus]
    /\ checkFailed = [c \in Callers |-> FALSE]
    /\ poolsOpen = FALSE
    /\ registered = {}
    /\ cancelled = FALSE
    /\ running = FALSE
    /\ last = [c \in Callers |-> NoCall]

-----------------------------------------------------------------------------
(* myScheduler.Init                                                        *)

\* checkAndSetStatus(INITIALIZING).  On error Init executes `return nil`:
\* the caller is told the call succeeded and nothing else happens.
InitCheck(c) ==
    /\ pc[c] = "idle"
    /\ CheckAndSetStatus(c, INITIALIZING)
    /\ IF CheckStatus(status, INITIALIZING)
         THEN /\ pc' = [pc EXCEPT ![c] = "init"]
              /\ UNCHANGED last
         ELSE /\ last' = [last EXCEPT ![c] = [op |-> "init", ret |-> "nil", wrote |-> NoStatus]]
              /\ UNCHANGED pc
    /\ UNCHANGED <<poolsOpen, registered, cancelled, running>>

\* The body of Init and its deferred status write.  Either an argument
\* check fails (nothing changed), or the fields are rebuilt (registrar
\* cleared, every pool closed and recreated, context reset) and
\* registerModules registers downloaders, analyzers and pipelines in turn,
\* failing at category k (k = 4: every module registered).
InitFinish(c) ==
    /\ pc[c] = "init"
    /\ \E outcome \in {"argsInvalid", "registered"}, k \in 1..4 :
         LET failed == outcome = "argsInvalid" \/ k < 4 IN
         /\ outcome = "argsInvalid" => k = 4
         /\ IF outcome = "argsInvalid"
              THEN UNCHANGED <<poolsOpen, registered, cancelled>>
              ELSE /\ InitBufferPool
                   /\ ResetContext
                   /\ RegisterModules(k)
         /\ status' = FinalStatus(c, failed, INITIALIZED)
         /\ last' = [last EXCEPT ![c] = [op |-> "init",
                                          ret |-> IF failed THEN "err" ELSE "nil",
                                          wrote |-> status']]
    /\ pc' = [pc EXCEPT ![c] = "idle"]
    /\ UNCHANGED <<oldStatus, checkFailed, running>>

-----------------------------------------------------------------------------
(* myScheduler.Start                                                       *)

\* checkAndSetStatus(STARTING); the deferred status write is registered
\* whether or not the check failed.
StartCheck(c) ==
    /\ pc[c] = "idle"
    /\ CheckAndSetStatus(c, STARTING)
    /\ pc' = [pc EXCEPT ![c] = "start"]
    /\ UNCHANGED <<poolsOpen, registered, cancelled, running, last>>

\* The body of Start and its deferred functions.  A failed check returns at
\* once and the defer writes back the status read by the check.  Otherwise
\* the first request may be nil or have no primary domain, the pools may be
\* closed (checkBufferPoolForStart), launching the workers may panic, or
\* the workers are launched and the seed request sent.  On a panic the
\* status defer runs before the recover defer has set err, so it writes
\* STARTED; the recover then turns the panic into the returned error.
StartFinish(c) ==
    /\ pc[c] = "start"
    /\ \/ /\ checkFailed[c]
          /\ status' = oldStatus[c]
          /\ last' = [last EXCEPT ![c] = [op |-> "start", ret |-> "err", wrote |-> status']]
          /\ UNCHANGED running
       \/ /\ ~checkFailed[c]
          /\ \E outcome \in {"badRequest", "poolClosed", "panic", "ok"} :
               /\ outcome = "poolClosed" <=> ~poolsOpen
               /\ outcome = "panic" => AllowPanic
               /\ status' = IF outcome = "panic" THEN STARTED
                            ELSE FinalStatus(c, outcome # "ok", STARTED)
               /\ running' = (outcome = "ok" \/ running)
               /\ last' = [last EXCEPT ![c] = [op |-> "start",
                                                ret |-> IF outcome = "ok" THEN "nil" ELSE "err",
                                                wrote |-> status']]
    /\ pc' = [pc EXCEPT ![c] = "idle"]
    /\ UNCHANGED <<oldStatus, checkFailed, poolsOpen, registered, cancelled>>

-----------------------------------------------------------------------------
(* myScheduler.Stop (spec 4.5): STOPPING, cancel, close the pools, STOPPED *)

StopCheck(c) ==
    /\ pc[c] = "idle"
    /\ CheckAndSetStatus(c, STOPPING)
    /\ IF CheckStatus(status, STOPPING)
         THEN /\ pc' = [pc EXCEPT ![c] = "stop"]
              /\ UNCHANGED last
         ELSE /\ last' = [last EXCEPT ![c] = [op |-> "stop", ret |-> "err", wrote |-> NoStatus]]
              /\ UNCHANGED pc
    /\ UNCHANGED <<poolsOpen, registered, cancelled, running>>

StopFinish(c) ==
    /\ pc[c] = "stop"
    /\ cancelled' = TRUE
    /\ poolsOpen' = FALSE
    /\ running' = FALSE
    /\ status' = STOPPED
    /\ last' = [last EXCEPT ![c] = [op |-> "stop", ret |-> "nil", wrote |-> STOPPED]]
    /\ pc' = [pc EXCEPT ![c] = "idle"]
    /\ UNCHANGED <<oldStatus, checkFailed, registered>>

-----------------------------------------------------------------------------
Next ==
    \E c \in Callers :
        \/ InitCheck(c) \/ InitFinish(c)
        \/ StartCheck(c) \/ StartFinish(c)
        \/ StopCheck(c) \/ StopFinish(c)

Spec == Init /\ [][Next]_vars

\* A call past its check runs to its end: Init, Start and Stop block on
\* nothing but statusLock, which every holder releases.
Finish(c) == InitFinish(c) \/ StartFinish(c) \/ StopFinish(c)

FairSpec == Spec /\ \A c \in Callers : WF_vars(Finish(c))

-----------------------------------------------------------------------------
(* Properties                                                              *)

TypeOK ==
    /\ status \in Status
    /\ pc \in [Callers -> {"idle", "init", "start", "stop"}]
    /\ oldStatus \in [Callers -> Status \cup {NoStatus}]
    /\ checkFailed \in [Callers -> BOOLEAN]
    /\ {poolsOpen, cancelled, running} \subseteq BOOLEAN
    /\ registered \subseteq AllCategories
    /\ last \in [Callers -> [op : {"none", "init", "start", "stop"},
                             ret : {"nil", "err"}, wrote : Status \cup {NoStatus}]]

\* The lifecycle of spec 4.3: every change of status is a step forward
\* along UNINITIALIZED -> ... -> STOPPED (re-init and restart from STOPPED
\* included) or the rollback of a failed Init or Start to the status it
\* started from.  Over any sequence of Init, Start and Stop calls.
Lifecycle ==
    { <<UNINITIALIZED, INITIALIZING>>, <<INITIALIZING, INITIALIZED>>,
      <<INITIALIZED, STARTING>>, <<STARTING, STARTED>>, <<STARTED, STOPPING>>,
      <<STOPPING, STOPPED>>, <<STOPPED, INITIALIZING>>, <<STOPPED, STARTING>>,
      <<INITIALIZING, UNINITIALIZED>>, <<INITIALIZING, STOPPED>>,
      <<STARTING, INITIALIZED>>, <<STARTING, STOPPED>> }
LegalTransitions ==
    [][status' # status => <<status, status'>> \in Lifecycle]_status

\* The worker goroutines run only while the status says started (or is
\* being stopped), on open pools and an uncancelled context: no Init can
\* rebuild the pools under running workers.
RunningConsistent ==
    running => /\ status \in {STARTED, STOPPING}
               /\ poolsOpen /\ ~cancelled

\* Spec 7(d): a Start that returned an error (a recovered panic included)
\* rolled the status back: it left the status its checkAndSetStatus found.
StartErrorRollsBack ==
    \A c \in Callers :
        last[c].op = "start" /\ last[c].ret = "err" => last[c].wrote = oldStatus[c]

\* Spec 4.3: INITIALIZING, STARTING and STOPPING are passing states set by
\* check-and-set for the duration of one call.  Whenever the status is
\* transient it later leaves it, so Init, Start and Stop can be called
\* again; a status stuck there rejects every later call.
StatusSettles == status \in Transient ~> status \notin Transient

=============================================================================
