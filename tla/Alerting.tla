----------------------------- MODULE Alerting -----------------------------
(***************************************************************************)
(* The monitoring daemon of the backend: the monitor goroutines of         *)
(* cmd/daemon/main.go, the alerter they share (internal/alert/alerter.go), *)
(* its notifiers and the maintenance windows (internal/maintenance).       *)
(*                                                                         *)
(* A monitor is its metric.  What its query finds is the level of each     *)
(* node; nodes stand for jobs where a monitor reports jobs.  A point in    *)
(* time is kept as its distance from now, so the model has no clock to     *)
(* bound: the age of a rate-limiter entry stops growing at DedupWindow,    *)
(* where no check tells it from an entry that was never made.              *)
(***************************************************************************)
EXTENDS Integers, Sequences, FiniteSets, SequencesExt

CONSTANTS
    Metrics, Nodes,
    Notifiers,        \* how many notifiers are registered
    WindowIds,        \* <<node, name of the start time>>: what the id of a window is made of
    Idle,             \* nobody holds the alerter's mutex
    DedupWindow, RateInterval, CheckInterval,   \* in units of the model's time
    Horizon,          \* bound: how far ahead a window may start or end
    MaxHistory,       \* length at which the history is cut
    UseMaintenance    \* SetMaintenanceManager is called

ASSUME AlertingConstants ==
    /\ IsFiniteSet(Metrics) /\ IsFiniteSet(Nodes) /\ Nodes # {}
    /\ WindowIds \subseteq Nodes \X STRING
    /\ RateInterval \in Nat \ {0} /\ CheckInterval \in Nat \ {0}
    /\ DedupWindow \in Nat /\ DedupWindow > RateInterval
    /\ Notifiers \in Nat /\ Horizon \in Nat /\ MaxHistory \in Nat \ {0}
    /\ Metrics \subseteq STRING \ {"processor"}
    /\ UseMaintenance \in BOOLEAN

Severities == {"warning", "critical"}
Levels == Severities \cup {"ok"}
Alerts == [metric : Metrics, severity : Severities, node : Nodes]
RateKeys == Metrics \X Severities
RateKey(alert) == <<alert.metric, alert.severity>>
Processor == "processor"
Goroutines == Metrics \cup {Processor}

VARIABLES
    condition,     \* metric -> node -> what a query finds
    ticked,        \* metrics whose ticker holds a tick
    phase,         \* time to the next tick of the tickers
    pending,       \* metric -> alerts Evaluate returned that are not routed yet
    sending,       \* holder of the mutex: the alert it sends and the notifiers left
    idAge, rateAge,    \* rateLimiter: time since the entry of an id, of a rate key
    alertHistory,
    windows,       \* id -> window, for the ids scheduled so far
    maintManager,  \* the alerter knows the window manager
    cancelled, stopped,   \* the context; the goroutines that have returned
    quiet          \* history: time since an alert was handed to the notifiers

monitors == <<condition, ticked, phase, pending, cancelled, stopped>>
alerter == <<sending, idAge, rateAge, alertHistory, maintManager>>
vars == <<monitors, alerter, windows, quiet>>

NoSend == [by |-> Idle]

Init ==
    /\ condition = [m \in Metrics |-> [n \in Nodes |-> "ok"]]
    /\ ticked = {} /\ phase = CheckInterval
    /\ pending = [m \in Metrics |-> <<>>]
    /\ sending = NoSend
    /\ idAge = [a \in Alerts |-> DedupWindow]
    /\ rateAge = [k \in RateKeys |-> DedupWindow]
    /\ alertHistory = <<>>
    /\ windows = <<>>
    /\ maintManager = FALSE
    /\ cancelled = FALSE /\ stopped = {}
    /\ quiet = [a \in Alerts |-> DedupWindow]

-----------------------------------------------------------------------------
(* Maintenance windows *)

(* An id that exists is overwritten: same node, same start, a new end. *)
Schedule(id, start, end) ==
    /\ id \in DOMAIN windows => start = windows[id].start
    /\ windows' = [i \in DOMAIN windows \cup {id} |->
                     IF i = id THEN [start |-> start, end |-> end, status |-> "active"]
                               ELSE windows[i]]
    /\ UNCHANGED <<monitors, alerter, quiet>>

Abort(id) ==
    /\ id \in DOMAIN windows /\ windows[id].status = "active"
    /\ windows' = [windows EXCEPT ![id].status = "cancelled"]
    /\ UNCHANGED <<monitors, alerter, quiet>>

(* Strict on both sides: a window suppresses neither at its start nor at its end. *)
IsSuppressed(n) ==
    \E id \in DOMAIN windows :
        /\ id[1] = n
        /\ windows[id].status = "active"
        /\ windows[id].start < 0 /\ windows[id].end > 0

Expired(id) == id \in DOMAIN windows /\ windows[id].status = "active" /\ windows[id].end < 0

Process ==
    /\ Processor \notin stopped
    /\ \E id \in WindowIds : Expired(id)
    /\ windows' = [id \in DOMAIN windows |->
                     IF Expired(id) THEN [windows[id] EXCEPT !.status = "completed"]
                                    ELSE windows[id]]
    /\ UNCHANGED <<monitors, alerter, quiet>>

ProcessorStops ==
    /\ cancelled /\ Processor \notin stopped
    /\ stopped' = stopped \cup {Processor}
    /\ UNCHANGED <<condition, ticked, phase, pending, cancelled, alerter, windows, quiet>>

-----------------------------------------------------------------------------
(* The monitor goroutines *)

SetCondition(m, n, level) ==
    /\ condition[m][n] # level
    /\ condition' = [condition EXCEPT ![m][n] = level]
    /\ UNCHANGED <<ticked, phase, pending, cancelled, stopped, alerter, windows, quiet>>

Working(m) == pending[m] # <<>> \/ sending.by = m

Found(m) ==
    {[metric |-> m, severity |-> condition[m][n], node |-> n] :
       n \in {k \in Nodes : condition[m][k] # "ok"}}

(* One alert per node that is not well, in the order the database or a map gives. *)
Evaluate(m) ==
    /\ m \in ticked \ stopped /\ ~Working(m)
    /\ ticked' = ticked \ {m}
    /\ \E alerts \in SetToSeqs(Found(m)) : pending' = [pending EXCEPT ![m] = alerts]
    /\ UNCHANGED <<condition, phase, cancelled, stopped, alerter, windows, quiet>>

(* Mutant: break, which leaves the select but not the loop. *)
MonitorBreaks(m) ==
    /\ cancelled /\ m \notin stopped /\ ~Working(m)
    /\ UNCHANGED vars

MonitorStops(m) ==
    /\ cancelled /\ m \notin stopped /\ ~Working(m)
    /\ stopped' = stopped \cup {m}
    /\ UNCHANGED <<condition, ticked, phase, pending, cancelled, alerter, windows, quiet>>

Cancel ==
    /\ ~cancelled
    /\ cancelled' = TRUE
    /\ UNCHANGED <<condition, ticked, phase, pending, stopped, alerter, windows, quiet>>

-----------------------------------------------------------------------------
(* RouteAlert *)

(* Mutant: an entry of the same id is never looked at. *)
NeverDuplicate(alert) == FALSE

Duplicate(alert) == idAge[alert] < DedupWindow

(* An age of exactly the interval is a little less or a little more. *)
RateLimited(alert, early) ==
    \/ rateAge[RateKey(alert)] < RateInterval
    \/ rateAge[RateKey(alert)] = RateInterval /\ early

(* Mutant: the test for a missing manager is turned round. *)
SuppressedIfUnset(alert) == ~maintManager /\ IsSuppressed(alert.node)

Suppressed(alert) == maintManager /\ IsSuppressed(alert.node)

Dequeue(m) == pending' = [pending EXCEPT ![m] = Tail(@)]

(* Mutant: the rate limiter is written before maintenance is asked. *)
DropRemembered(m, early) ==
    LET alert == Head(pending[m]) IN
    /\ pending[m] # <<>> /\ sending = NoSend
    /\ Duplicate(alert) \/ RateLimited(alert, early) \/ Suppressed(alert)
    /\ Dequeue(m)
    /\ IF ~Duplicate(alert) /\ ~RateLimited(alert, early)
         THEN idAge' = [idAge EXCEPT ![alert] = 0] ELSE UNCHANGED idAge
    /\ UNCHANGED <<condition, ticked, phase, cancelled, stopped,
                   sending, rateAge, alertHistory, maintManager, windows, quiet>>

(* Mutant: a dropped alert counts against the rate, too. *)
DropCounted(m, early) ==
    LET alert == Head(pending[m]) IN
    /\ pending[m] # <<>> /\ sending = NoSend
    /\ Duplicate(alert) \/ RateLimited(alert, early) \/ Suppressed(alert)
    /\ Dequeue(m)
    /\ rateAge' = [rateAge EXCEPT ![RateKey(alert)] = 0]
    /\ UNCHANGED <<condition, ticked, phase, cancelled, stopped,
                   sending, idAge, alertHistory, maintManager, windows, quiet>>

DropAlert(m, early) ==
    LET alert == Head(pending[m]) IN
    /\ pending[m] # <<>> /\ sending = NoSend
    /\ Duplicate(alert) \/ RateLimited(alert, early) \/ Suppressed(alert)
    /\ Dequeue(m)
    /\ UNCHANGED <<condition, ticked, phase, cancelled, stopped, alerter, windows, quiet>>

(* The mutex stays held while the notifiers are called. *)
BeginSend(m, early) ==
    LET alert == Head(pending[m]) IN
    /\ pending[m] # <<>> /\ sending = NoSend
    /\ ~Duplicate(alert) /\ ~RateLimited(alert, early) /\ ~Suppressed(alert)
    /\ Dequeue(m)
    /\ idAge' = [idAge EXCEPT ![alert] = 0]
    /\ rateAge' = [rateAge EXCEPT ![RateKey(alert)] = 0]
    /\ sending' = [by |-> m, alert |-> alert, left |-> Notifiers]
    /\ quiet' = [quiet EXCEPT ![alert] = 0]
    /\ UNCHANGED <<condition, ticked, phase, cancelled, stopped, alertHistory, maintManager, windows>>

(* A call to the next notifier that returns; its outcome is not looked at.  None of *)
(* them has a timeout, so the call may never return.  Every notifier supports both  *)
(* severities the monitors use.                                                     *)
Notify ==
    /\ sending # NoSend /\ sending.left > 0
    /\ sending' = [sending EXCEPT !.left = @ - 1]
    /\ UNCHANGED <<monitors, idAge, rateAge, alertHistory, maintManager, windows, quiet>>

(* Mutant: the oldest records are kept. *)
KeepFirst(s) == IF Len(s) > MaxHistory THEN SubSeq(s, 1, MaxHistory) ELSE s

KeepLast(s) == IF Len(s) > MaxHistory THEN SubSeq(s, Len(s) - MaxHistory + 1, Len(s)) ELSE s

EndSend ==
    /\ sending # NoSend /\ sending.left = 0
    /\ alertHistory' = KeepLast(Append(alertHistory, sending.alert))
    /\ sending' = NoSend
    /\ UNCHANGED <<monitors, idAge, rateAge, maintManager, windows, quiet>>

SetMaintenanceManager ==
    /\ UseMaintenance /\ ~maintManager
    /\ maintManager' = TRUE
    /\ UNCHANGED <<monitors, sending, idAge, rateAge, alertHistory, windows, quiet>>

-----------------------------------------------------------------------------
(* Time *)

Older(age) == IF age < DedupWindow THEN age + 1 ELSE age

Nearer(distance) == IF distance < 0 THEN distance ELSE distance - 1

Tick ==
    /\ phase' = IF phase = 1 THEN CheckInterval ELSE phase - 1
    /\ ticked' = IF phase = 1 THEN Metrics \ stopped ELSE ticked
    /\ idAge' = [a \in Alerts |-> Older(idAge[a])]
    /\ rateAge' = [k \in RateKeys |-> Older(rateAge[k])]
    /\ quiet' = [a \in Alerts |-> Older(quiet[a])]
    /\ windows' = [id \in DOMAIN windows |->
                     [windows[id] EXCEPT !.start = Nearer(@), !.end = Nearer(@)]]
    /\ UNCHANGED <<condition, pending, cancelled, stopped, sending, alertHistory, maintManager>>

Route(m) == \E early \in BOOLEAN : DropAlert(m, early) \/ BeginSend(m, early)

Monitor(m) == Evaluate(m) \/ Route(m) \/ MonitorStops(m)

Operator ==
    \E id \in WindowIds :
        Abort(id) \/ \E start, end \in -1..Horizon : Schedule(id, start, end)

Next ==
    \/ \E m \in Metrics : Monitor(m)
    \/ \E m \in Metrics, n \in Nodes, level \in Levels : SetCondition(m, n, level)
    \/ Notify \/ EndSend
    \/ Operator \/ Process \/ ProcessorStops
    \/ SetMaintenanceManager
    \/ Cancel
    \/ Tick

Spec == Init /\ [][Next]_vars

(* The goroutines are scheduled, and a waiter that finds the mutex free again and    *)
(* again gets it; nothing makes a notifier return, or an operator or the monitored   *)
(* nodes do anything.                                                                *)
Fairness ==
    /\ \A m \in Metrics : WF_vars(Monitor(m)) /\ SF_vars(Route(m)) /\ SF_vars(MonitorStops(m))
    /\ WF_vars(EndSend)
    /\ WF_vars(Process) /\ WF_vars(ProcessorStops) /\ WF_vars(Tick)
    /\ WF_vars(SetMaintenanceManager)

FairSpec == Spec /\ Fairness

-----------------------------------------------------------------------------
(* Properties *)

Ages == 0..DedupWindow
Window == [start : -1..Horizon, end : -1..Horizon, status : {"active", "cancelled", "completed"}]

(* Every variable keeps its type; a monitor has no more alerts to route than one    *)
(* evaluation returns, and the history never grows beyond its limit (alerter.go).   *)
TypeOK ==
    /\ condition \in [Metrics -> [Nodes -> Levels]]
    /\ ticked \subseteq Metrics /\ stopped \subseteq Goroutines
    /\ phase \in 1..CheckInterval
    /\ \A m \in Metrics : /\ Len(pending[m]) =< Cardinality(Nodes)
                         /\ \A i \in 1..Len(pending[m]) : pending[m][i] \in Alerts
    /\ sending \in {NoSend} \cup [by : Metrics, alert : Alerts, left : 0..Notifiers]
    /\ idAge \in [Alerts -> Ages] /\ rateAge \in [RateKeys -> Ages] /\ quiet \in [Alerts -> Ages]
    /\ Len(alertHistory) =< MaxHistory
    /\ \A i \in 1..Len(alertHistory) : alertHistory[i] \in Alerts
    /\ DOMAIN windows \subseteq WindowIds
    /\ \A id \in DOMAIN windows : windows[id] \in Window
    /\ cancelled \in BOOLEAN /\ maintManager \in BOOLEAN

(* The rate limiter remembers exactly the alerts that went out: one that was dropped *)
(* as a duplicate, for its rate or during maintenance leaves no entry that would     *)
(* silence the next one.  And an alert of the last deduplication window is listed    *)
(* unless MaxHistory others went out since: the cut of the history drops the oldest  *)
(* records (RouteAlert writes its entries after all three checks).                   *)
LimiterRemembersSends ==
    /\ \A a \in Alerts : idAge[a] = quiet[a]
    /\ \A k \in RateKeys :
          rateAge[k] = Min({quiet[a] : a \in {b \in Alerts : RateKey(b) = k}})
    /\ \A a \in Alerts :
          \/ quiet[a] = DedupWindow
          \/ sending # NoSend /\ sending.alert = a
          \/ Cardinality({b \in Alerts \ {a} : quiet[b] =< quiet[a]}) >= MaxHistory
          \/ a \in Range(alertHistory)

(* Whatever the monitors find and however long a notifier takes, an alert goes out  *)
(* at most once in the deduplication window and alerts of one metric and severity   *)
(* at most once in the rate interval; and once the alerter knows the window manager *)
(* it starts no send about a node that is in a maintenance window at that moment,   *)
(* whenever the monitor found the condition (RouteAlert).                           *)
SendsAllowed ==
    [][\A a \in Alerts :
          sending = NoSend /\ sending' # NoSend /\ sending'.alert = a =>
             /\ quiet[a] = DedupWindow
             /\ \A b \in Alerts : RateKey(b) = RateKey(a) => quiet[b] >= RateInterval
             /\ maintManager => ~IsSuppressed(a.node)]_vars

Unwell(m, n, s) == condition[m][n] = s /\ ~IsSuppressed(n) /\ ~cancelled

Announced(m, n, s) == sending # NoSend /\ sending.alert = [metric |-> m, severity |-> s, node |-> n]

(* Every call of a notifier returns, so that the mutex is free again and again. *)
NotifiersReturn == []<>(sending = NoSend)

(* As long as some node stays unwell and the notifiers return, alerts of that metric *)
(* and severity go out again and again, about one node or another, however many share *)
(* the rate: neither deduplication nor the rate silences them for good (RouteAlert).  *)
LastingConditionAnnounced ==
    NotifiersReturn =>
        \A m \in Metrics, s \in Severities :
            <>[](\E n \in Nodes : Unwell(m, n, s)) => []<>(\E n \in Nodes : Announced(m, n, s))

(* After a signal the window processor returns whatever the notifiers do, and if they *)
(* return every monitor routes what it has found and returns, too: the daemon's wait  *)
(* for its goroutines ends (main.go, monitorWg.Wait).                                 *)
ShutdownEnds ==
    /\ cancelled ~> Processor \in stopped
    /\ NotifiersReturn => (cancelled ~> stopped = Goroutines)

-----------------------------------------------------------------------------
(* Statements of the daemon's comments that its code does not keep. *)

(* No alert about a node is sent while a maintenance window of the node is open     *)
(* (alerter.go line 81, and the ledger's "alert suppression during maintenance      *)
(* windows").                                                                       *)
NoAlertInMaintenance ==
    [][sending = NoSend /\ sending' # NoSend => ~IsSuppressed(sending'.alert.node)]_vars

(* "Check rate limit (max 10 per minute per metric)" bounds how often a node is        *)
(* announced, not whether: one that stays unwell is announced again and again.  But   *)
(* the nodes share one alert per rate interval, and when more are unwell than fit the *)
(* deduplication window those judged first may use it up every time.                  *)
EachNodeAnnounced ==
    NotifiersReturn =>
        \A m \in Metrics, n \in Nodes, s \in Severities :
            <>[]Unwell(m, n, s) => []<>Announced(m, n, s)

(* "shutdown signal received": the daemon's goroutines return.  A notifier that never  *)
(* answers keeps the mutex, and every monitor with an alert to route waits for it.     *)
ShutdownAlwaysEnds == cancelled ~> stopped = Goroutines

=============================================================================
