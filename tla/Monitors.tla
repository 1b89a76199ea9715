----------------------------- MODULE Monitors -----------------------------
(***************************************************************************)
(* The monitors of internal/monitor/monitor.go that read node_heartbeats.  *)
(* A row keeps the distance of its timestamp from now.  The evaluation of  *)
(* the heartbeat monitor takes time: it computes a threshold, queries the  *)
(* rows younger than it and compares each result with the clock again,     *)
(* until its context ends.  The other monitors are functions of the rows.  *)
(***************************************************************************)
EXTENDS Integers, FiniteSets

CONSTANTS
    Nodes,
    StaleAfter, OfflineAfter,    \* 45 and 60 seconds
    QueryTimeout,                \* 5 seconds
    Recent, Day,                 \* 5 minutes and 24 hours
    Expected,                    \* heartbeats of a day
    Utilizations,                \* VRAM use a heartbeat may carry, in per cent
    MaxLate,                     \* bound: age of a heartbeat when it is inserted
    MaxRows                      \* bound: rows of the table

ASSUME MonitorsConstants ==
    /\ StaleAfter \in Nat \ {0} /\ QueryTimeout \in Nat /\ OfflineAfter \in Nat
    /\ StaleAfter + QueryTimeout =< OfflineAfter
    /\ OfflineAfter < Recent /\ Recent =< Day /\ Recent \in Nat /\ Day \in Nat
    /\ Expected \in Nat \ {0}
    /\ Utilizations \subseteq Nat
    /\ Nodes # {}
    /\ MaxLate \in Nat /\ MaxLate < Day /\ MaxRows \in Nat

VARIABLES
    node_heartbeats,   \* place -> row; one of age Day is seen by no query and gives way
    silence,           \* history: node -> age of its newest timestamp, up to Day
    scanning,          \* the heartbeat monitor evaluates
    elapsed,           \* time since it computed its threshold
    last,              \* node -> age of the MAX(timestamp) the query returned
    todo,              \* nodes of the result not looked at yet
    alerts,            \* alerts of the evaluation so far
    evaluated          \* history: an evaluation has just returned

monitorsVars == <<node_heartbeats, silence, scanning, elapsed, last, todo, alerts, evaluated>>
evaluation == <<scanning, elapsed, last, todo, alerts>>

Rows == 1..MaxRows
Row == [node : Nodes, age : 0..Day, used : Nat]
Age(i) == node_heartbeats[i].age
RowsOf(n, window) == {i \in Rows : node_heartbeats[i].node = n /\ Age(i) < window}
Newest(rows) == CHOOSE a \in {Age(i) : i \in rows} : \A i \in rows : a =< Age(i)

MonitorsInit ==
    /\ \E n \in Nodes : node_heartbeats = [i \in Rows |-> [node |-> n, age |-> Day, used |-> 0]]
    /\ silence = [n \in Nodes |-> Day]
    /\ scanning = FALSE /\ elapsed = 0
    /\ last = [n \in Nodes |-> 0] /\ todo = {}
    /\ alerts = {}
    /\ evaluated = FALSE

-----------------------------------------------------------------------------
(* The table *)

(* The heartbeat carries the time at which its node made it. *)
Insert(i, n, age, used) ==
    /\ Age(i) = Day
    /\ node_heartbeats' = [node_heartbeats EXCEPT ![i] = [node |-> n, age |-> age, used |-> used]]
    /\ silence' = [silence EXCEPT ![n] = IF age < @ THEN age ELSE @]
    /\ evaluated' = FALSE
    /\ UNCHANGED evaluation

Older(age) == IF age < Day THEN age + 1 ELSE age

(* A query and the reading of its rows end with their context. *)
Tick ==
    /\ scanning => elapsed < QueryTimeout
    /\ node_heartbeats' = [i \in Rows |-> [node_heartbeats[i] EXCEPT !.age = Older(@)]]
    /\ silence' = [n \in Nodes |-> Older(silence[n])]
    /\ elapsed' = IF scanning THEN elapsed + 1 ELSE 0
    /\ last' = IF scanning THEN [n \in Nodes |-> last[n] + 1] ELSE last
    /\ evaluated' = FALSE
    /\ UNCHANGED <<scanning, todo, alerts>>

-----------------------------------------------------------------------------
(* HeartbeatMonitor.Evaluate *)

(* Mutant: the rows of the last five minutes, as the other monitors do. *)
QueryRecent ==
    /\ ~scanning
    /\ scanning' = TRUE /\ elapsed' = 0
    /\ todo' = {n \in Nodes : RowsOf(n, Recent) # {}}
    /\ last' = [n \in Nodes |-> IF n \in todo' THEN Newest(RowsOf(n, Recent)) ELSE 0]
    /\ alerts' = {} /\ evaluated' = FALSE
    /\ UNCHANGED <<node_heartbeats, silence>>

Query ==
    /\ ~scanning
    /\ scanning' = TRUE /\ elapsed' = 0
    /\ todo' = {n \in Nodes : RowsOf(n, StaleAfter) # {}}
    /\ last' = [n \in Nodes |-> IF n \in todo' THEN Newest(RowsOf(n, StaleAfter)) ELSE 0]
    /\ alerts' = {} /\ evaluated' = FALSE
    /\ UNCHANGED <<node_heartbeats, silence>>

(* Mutant: the two tests use each other's limit. *)
SwappedSeverity(gap) ==
    IF gap > StaleAfter THEN "critical" ELSE IF gap > OfflineAfter THEN "warning" ELSE "ok"

Severity(gap) ==
    IF gap > OfflineAfter THEN "critical" ELSE IF gap > StaleAfter THEN "warning" ELSE "ok"

Scan(n) ==
    /\ scanning /\ n \in todo
    /\ todo' = todo \ {n}
    /\ alerts' = IF Severity(last[n]) = "ok" THEN alerts
                 ELSE alerts \cup {[node |-> n, severity |-> Severity(last[n]), after |-> elapsed]}
    /\ UNCHANGED <<node_heartbeats, silence, scanning, elapsed, last, evaluated>>

(* The rows are used up, or the query failed or ran out of time. *)
Return ==
    /\ scanning
    /\ scanning' = FALSE /\ elapsed' = 0 /\ todo' = {}
    /\ evaluated' = (todo = {})
    /\ UNCHANGED <<node_heartbeats, silence, last, alerts>>

MonitorsNext ==
    \/ \E i \in Rows, n \in Nodes, age \in 0..MaxLate, used \in Utilizations :
          Insert(i, n, age, used)
    \/ Tick
    \/ Query \/ (\E n \in Nodes : Scan(n)) \/ Return

MonitorsSpec == MonitorsInit /\ [][MonitorsNext]_monitorsVars

-----------------------------------------------------------------------------
(* The monitors that are functions of the rows *)

(* Mutant: every row replaces the one before. *)
LastSeen(prev, i) == i

(* VRAMMonitor keeps a row if it is strictly newer than the one it has. *)
Later(prev, i) == IF Age(i) < Age(prev) THEN i ELSE prev

RowOrders(rows) == {f \in [1..Cardinality(rows) -> rows] : \A i, j \in DOMAIN f : f[i] = f[j] => i = j}

(* latest[nodeID] after the rows have been read in the given order. *)
Latest(order) ==
    LET keep[k \in DOMAIN order] == IF k = 1 THEN order[1] ELSE Later(keep[k - 1], order[k])
    IN  keep[Cardinality(DOMAIN order)]

VRAMLevel(i) ==
    IF node_heartbeats[i].used >= 99 THEN "critical"
    ELSE IF node_heartbeats[i].used >= 95 THEN "warning" ELSE "ok"

(* UptimeMonitor, in per cent of Expected. *)
UptimePct(n) == (Cardinality(RowsOf(n, Day)) * 100) \div Expected

-----------------------------------------------------------------------------
(* Properties *)

(* Every variable keeps its type, and an evaluation does not outlive its context. *)
MonitorsType ==
    /\ node_heartbeats \in [Rows -> Row]
    /\ silence \in [Nodes -> 0..Day]
    /\ scanning \in BOOLEAN /\ evaluated \in BOOLEAN
    /\ elapsed \in 0..QueryTimeout
    /\ last \in [Nodes -> Nat]
    /\ todo \subseteq Nodes
    /\ alerts \subseteq [node : Nodes, severity : {"warning", "critical"}, after : Nat]

(* Inductive: a node still to be looked at was heard of less than StaleAfter before *)
(* the evaluation began.                                                            *)
ScannedWereFresh == scanning => \A n \in todo : last[n] < StaleAfter + elapsed

(* The heartbeat monitor cannot report a node as offline: its query returns only    *)
(* nodes heard of less than StaleAfter ago, and its context ends before such a node  *)
(* can have been silent for OfflineAfter (monitor.go lines 52-72).                  *)
OfflineNeverRaised == \A a \in alerts : a.severity # "critical"

(* A node is reported as stale only if the query was slow: its heartbeat was young  *)
(* enough when the threshold was computed (monitor.go lines 52-83).                 *)
StaleOnlyAfterSlowQuery == \A a \in alerts : a.severity = "warning" => a.after > 0

(* Whatever order the rows come in, VRAMMonitor's verdict is that of a newest row   *)
(* (lines 235-246).                                                                 *)
VRAMJudgesNewest ==
    \A n \in Nodes :
        LET rows == RowsOf(n, Recent)
        IN  \A order \in RowOrders(rows) :
                rows # {} => \E i \in rows : /\ Age(i) = Newest(rows)
                                           /\ VRAMLevel(Latest(order)) = VRAMLevel(i)

(* "Evaluate checks for stale or offline nodes based on heartbeat gaps": after an   *)
(* evaluation every node that was heard of and is silent for OfflineAfter is         *)
(* reported.                                                                        *)
OfflineIsReported ==
    evaluated => \A n \in Nodes :
        silence[n] > OfflineAfter /\ silence[n] < Day => \E a \in alerts : a.node = n

(* "Evaluate calculates 24h uptime percentages": the share of the expected heartbeats *)
(* is at most all of them.                                                           *)
UptimeIsPercentage == \A n \in Nodes : UptimePct(n) =< 100


=============================================================================
