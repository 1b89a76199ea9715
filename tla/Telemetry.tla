----------------------------- MODULE Telemetry -----------------------------
(***************************************************************************)
(* A node's telemetry service and the endpoint it reports to:              *)
(* telemetry/src/main.go (micro-task executor, monitoring collector),      *)
(* telemetry/src/heartbeat/pulse.go (pulse loop with retries),             *)
(* telemetry/src/reporter/reporter.go (three tries of one request) and the *)
(* heartbeat handler of backend/cmd/server/main.go.                        *)
(*                                                                         *)
(* Tasks run in other goroutines than the pulse loop; the executor's mutex *)
(* makes each of its methods one step.  A task's duration is the task      *)
(* itself, a sum of durations the set of the tasks summed.  Heartbeats are *)
(* numbered as they are gathered.                                          *)
(***************************************************************************)
EXTENDS Integers, Sequences

CONSTANTS
    Tasks,
    NoTask,
    Collectors,    \* the number of collectors; the last one updates the failure detector
    MaxRetries,    \* RetryConfig.MaxRetries
    Tries,         \* tries of Reporter.Post
    MaxPulses      \* bound: heartbeats gathered

ASSUME TelemetryConstants ==
    /\ NoTask \notin Tasks
    /\ Collectors \in Nat \ {0}
    /\ MaxRetries \in Nat
    /\ Tries \in Nat \ {0}
    /\ MaxPulses \in Nat

VARIABLES
    currentTask, processingDurations,     \* the executor
    started, completed,                   \* history: tasks given to and finished in it
    pc,            \* pulse loop: "waiting", "collecting", "collected", "totalled", "posting", "stopped"
    ticked,        \* ticker.C holds a tick
    cancelled,     \* the context is cancelled
    carried,       \* history: heartbeat -> the tasks whose durations it carries
    attempt, try,  \* loop counters of sendWithRetry and Post
    bodySpent,     \* the body of Post's one request has been read
    lastPulse,     \* heartbeat number the failure detector has last seen
    inflight,      \* heartbeat -> requests given up by the sender that the server may still handle
    handled, stored,   \* history: heartbeat -> how often handled, and inserted
    sent           \* history: heartbeats sendWithRetry reported as sent

executor == <<currentTask, processingDurations, started, completed>>
loop == <<pc, ticked, cancelled>>
request == <<attempt, try, bodySpent>>
backend == <<inflight, handled, stored>>
vars == <<executor, loop, request, backend, carried, lastPulse, sent>>

Init ==
    /\ currentTask = NoTask /\ processingDurations = {}
    /\ started = {} /\ completed = {}
    /\ pc = "waiting" /\ ticked = FALSE /\ cancelled = FALSE
    /\ carried = <<>>
    /\ attempt = 0 /\ try = 0 /\ bodySpent = FALSE
    /\ lastPulse = 0
    /\ sent = {}
    /\ inflight = [i \in 1..MaxPulses |-> 0]
    /\ handled = [i \in 1..MaxPulses |-> 0]
    /\ stored = [i \in 1..MaxPulses |-> 0]

-----------------------------------------------------------------------------
(* MicroTaskExecutor *)

(* A task already running is replaced. *)
ExecuteTask(t) ==
    /\ t \notin started
    /\ started' = started \cup {t}
    /\ currentTask' = t
    /\ UNCHANGED <<processingDurations, completed, loop, request, backend, carried, lastPulse, sent>>

CompleteTask ==
    /\ currentTask # NoTask
    /\ processingDurations' = processingDurations \cup {currentTask}
    /\ completed' = completed \cup {currentTask}
    /\ currentTask' = NoTask
    /\ UNCHANGED <<started, loop, request, backend, carried, lastPulse, sent>>

-----------------------------------------------------------------------------
(* The pulse loop *)

Current == Len(carried)

(* The ticker drops a tick nobody has received yet. *)
Tick ==
    /\ ~ticked /\ pc # "stopped"
    /\ ticked' = TRUE
    /\ UNCHANGED <<executor, pc, cancelled, request, backend, carried, lastPulse, sent>>

(* The select takes the tick. *)
BeginPulse ==
    /\ pc = "waiting" /\ ticked
    /\ ticked' = FALSE
    /\ pc' = "collecting"
    /\ UNCHANGED <<executor, cancelled, request, backend, carried, lastPulse, sent>>

(* The collectors before the first that succeeds have failed.  The first of them runs *)
(* a program (nvidia-smi) with no timeout, and may never come back.                   *)
Collect(first) ==
    /\ pc = "collecting"
    /\ Len(carried) < MaxPulses
    /\ pc' = "collected"
    /\ carried' = Append(carried, {})
    /\ lastPulse' = IF first = Collectors THEN Len(carried) + 1 ELSE lastPulse
    /\ UNCHANGED <<executor, ticked, cancelled, request, backend, sent>>

CollectFails ==
    /\ pc = "collecting"
    /\ pc' = "waiting"
    /\ UNCHANGED <<executor, ticked, cancelled, request, backend, carried, lastPulse, sent>>

TotalDurations ==
    /\ pc = "collected"
    /\ carried' = [carried EXCEPT ![Current] = processingDurations]
    /\ pc' = "totalled"
    /\ UNCHANGED <<executor, ticked, cancelled, request, backend, lastPulse, sent>>

(* Mutant: the reset after appending is forgotten. *)
KeepDurations ==
    /\ pc = "totalled"
    /\ pc' = "posting"
    /\ attempt' = 0 /\ try' = 1 /\ bodySpent' = FALSE
    /\ UNCHANGED <<executor, ticked, cancelled, backend, carried, lastPulse, sent>>

(* A second critical section of the executor: tasks may have completed in between. *)
ResetDurations ==
    /\ pc = "totalled"
    /\ processingDurations' = {}
    /\ pc' = "posting"
    /\ attempt' = 0 /\ try' = 1 /\ bodySpent' = FALSE
    /\ UNCHANGED <<currentTask, started, completed, ticked, cancelled, backend, carried, lastPulse, sent>>

-----------------------------------------------------------------------------
(* One try of the request *)

(* The handler inserts a row, or logs that it could not, and answers 200 either way. *)
Handle(hb, inserted) ==
    /\ handled' = [handled EXCEPT ![hb] = @ + 1]
    /\ stored' = [stored EXCEPT ![hb] = IF inserted THEN @ + 1 ELSE @]

RetriesLeft == attempt < MaxRetries

(* Mutant: every try sends the body anew. *)
BodyReusable(spent) ==
    \/ /\ try < Tries
       /\ try' = try + 1 /\ bodySpent' = FALSE
       /\ UNCHANGED <<pc, attempt>>
    \/ /\ try = Tries /\ RetriesLeft
       /\ attempt' = attempt + 1 /\ try' = 1 /\ bodySpent' = FALSE
       /\ UNCHANGED pc
    \/ /\ try = Tries /\ ~RetriesLeft
       /\ pc' = "waiting"
       /\ UNCHANGED request

(* Mutant: a pulse that was given up leaves the loop where it was. *)
LoopStuckAfterFailure(spent) ==
    \/ /\ try < Tries
       /\ try' = try + 1 /\ bodySpent' = spent
       /\ UNCHANGED <<pc, attempt>>
    \/ /\ try = Tries
       /\ attempt' = 0 /\ try' = 1 /\ bodySpent' = FALSE
       /\ UNCHANGED pc

(* After a failed try: the next try of this request, then the next attempt with a  *)
(* new one, then the heartbeat is given up.                                        *)
AfterFailure(spent) ==
    \/ /\ try < Tries
       /\ try' = try + 1 /\ bodySpent' = spent
       /\ UNCHANGED <<pc, attempt>>
    \/ /\ try = Tries /\ RetriesLeft
       /\ attempt' = attempt + 1 /\ try' = 1 /\ bodySpent' = FALSE
       /\ UNCHANGED pc
    \/ /\ try = Tries /\ ~RetriesLeft
       /\ pc' = "waiting"
       /\ UNCHANGED request

(* The connection is refused: the body is not read.  A request whose body was read by *)
(* an earlier try fails at once, with a body shorter than its announced length.        *)
TryRefused ==
    /\ pc = "posting"
    /\ AfterFailure(bodySpent)
    /\ UNCHANGED <<executor, ticked, cancelled, backend, carried, lastPulse, sent>>

TryAnswered(inserted) ==
    /\ pc = "posting" /\ ~bodySpent
    /\ Handle(Current, inserted)
    /\ sent' = sent \cup {Current}
    /\ pc' = "waiting"
    /\ UNCHANGED <<executor, ticked, cancelled, request, inflight, carried, lastPulse>>

(* The request left but no answer came in time; the server may still get to it. *)
TryUnanswered ==
    /\ pc = "posting" /\ ~bodySpent
    /\ inflight' = [inflight EXCEPT ![Current] = @ + 1]
    /\ AfterFailure(TRUE)
    /\ UNCHANGED <<executor, ticked, cancelled, handled, stored, carried, lastPulse, sent>>

(* The server handles a request whose sender has stopped listening, or never gets it. *)
LateDelivery(hb, inserted) ==
    /\ inflight[hb] > 0
    /\ inflight' = [inflight EXCEPT ![hb] = @ - 1]
    /\ Handle(hb, inserted)
    /\ UNCHANGED <<executor, loop, request, carried, lastPulse, sent>>

RequestLost(hb) ==
    /\ inflight[hb] > 0
    /\ inflight' = [inflight EXCEPT ![hb] = @ - 1]
    /\ UNCHANGED <<executor, loop, request, handled, stored, carried, lastPulse, sent>>

-----------------------------------------------------------------------------
(* Shutdown: the signal handler cancels; the loop sees it only in its select. *)

Cancel ==
    /\ ~cancelled
    /\ cancelled' = TRUE
    /\ UNCHANGED <<executor, pc, ticked, request, backend, carried, lastPulse, sent>>

(* Mutant: break, which leaves the select but not the loop around it. *)
BreakLeavesSelect ==
    /\ pc = "waiting" /\ cancelled
    /\ UNCHANGED vars

StopLoop ==
    /\ pc = "waiting" /\ cancelled
    /\ pc' = "stopped"
    /\ UNCHANGED <<executor, ticked, cancelled, request, backend, carried, lastPulse, sent>>

Post ==
    \/ TryRefused
    \/ \E inserted \in BOOLEAN : TryAnswered(inserted)
    \/ TryUnanswered

Gather == (\E first \in 1..Collectors : Collect(first)) \/ CollectFails

Network == \E hb \in 1..MaxPulses :
    (\E inserted \in BOOLEAN : LateDelivery(hb, inserted)) \/ RequestLost(hb)

Work == (\E t \in Tasks : ExecuteTask(t)) \/ CompleteTask

Next ==
    \/ Work
    \/ Tick \/ BeginPulse \/ Gather \/ TotalDurations \/ ResetDurations
    \/ Post \/ Network
    \/ Cancel \/ StopLoop

(* The loop's goroutine keeps running once it has gathered, every try ends (both the *)
(* context and the client have a 10 s timeout), and select chooses at random among   *)
(* the ready cases, so a stop that stays ready is chosen.  Gather has no fairness:   *)
(* nothing ends a collector that hangs.                                              *)
Fairness ==
    /\ WF_vars(TotalDurations) /\ WF_vars(ResetDurations)
    /\ WF_vars(Post)
    /\ SF_vars(StopLoop)

Spec == Init /\ [][Next]_vars /\ Fairness

-----------------------------------------------------------------------------
(* Properties *)

(* The type of every variable. *)
TypeOK ==
    /\ currentTask \in Tasks \cup {NoTask}
    /\ processingDurations \subseteq Tasks
    /\ started \subseteq Tasks /\ completed \subseteq started
    /\ pc \in {"waiting", "collecting", "collected", "totalled", "posting", "stopped"}
    /\ ticked \in BOOLEAN /\ cancelled \in BOOLEAN /\ bodySpent \in BOOLEAN
    /\ carried \in Seq(SUBSET Tasks) /\ Len(carried) <= MaxPulses
    /\ attempt \in 0..MaxRetries /\ try \in 0..Tries
    /\ lastPulse \in 0..MaxPulses
    /\ inflight \in [1..MaxPulses -> Nat] /\ sent \subseteq 1..MaxPulses
    /\ handled \in [1..MaxPulses -> Nat] /\ stored \in [1..MaxPulses -> Nat]

(* Nothing is reported twice beyond what retries make unavoidable.  No task's       *)
(* duration is reported by two heartbeats, or reported and still to be reported,     *)
(* except between the two halves of the read and reset.  A heartbeat reported as     *)
(* sent was handled by the server; retries may duplicate it there, but at most once  *)
(* per attempt: of the tries that share a request only one can deliver its body.     *)
ReportsBounded ==
    /\ \A i \in 1..Len(carried) :
          /\ \A k \in 1..Len(carried) : i # k => carried[i] \cap carried[k] = {}
          /\ (i = Current /\ pc = "totalled") \/ carried[i] \cap processingDurations = {}
    /\ \A hb \in 1..MaxPulses : /\ hb \in sent => handled[hb] > 0
                                /\ handled[hb] <= MaxRetries + 1
                                /\ stored[hb] <= handled[hb]

(* A pulse that has gathered its heartbeat ends, whatever the network does, and a    *)
(* cancelled service stops unless a collector hangs (Start, sendPulse, Post).        *)
PulsesEnd ==
    /\ (pc \in {"collected", "totalled", "posting"}) ~> (pc \in {"waiting", "stopped"})
    /\ []<>(pc # "collecting") => (cancelled ~> (pc = "stopped"))

-----------------------------------------------------------------------------
(* Statements of the service's comments that its code does not keep. *)

(* The daemon tracks a task's "execution time and appends that to the next heartbeat": *)
(* the duration of a completed task is in a heartbeat or still to be appended.          *)
CompletedIsReported ==
    completed \subseteq processingDurations \cup UNION {carried[i] : i \in 1..Len(carried)}

(* ... "when the Go backend proxies a micro-task to this node": every such task is the *)
(* current one or has been recorded.                                                    *)
StartedIsTracked == started \subseteq completed \cup {currentTask}

(* "Start the heartbeat service" with a context "that cancels on SIGINT/SIGTERM": a   *)
(* cancelled service stops, whatever its collectors do.                               *)
CancelStops == cancelled ~> (pc = "stopped")

(* "Wrap collector to update failure detector": the detector has seen the heartbeat *)
(* that was gathered last.                                                          *)
DetectorSeesPulse == lastPulse = Len(carried)

=============================================================================
