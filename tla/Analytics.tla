----------------------------- MODULE Analytics -----------------------------
(***************************************************************************)
(* The analytics page of the web application: hooks/use-analytics.ts,      *)
(* which turns rows into charts and figures, the cache they stay in        *)
(* (react-query, as web3-providers.tsx sets it up), and                    *)
(* (dashboard)/analytics, which shows them.                                *)
(*                                                                         *)
(* One of the three charts is on stage at a time, with the table it is     *)
(* drawn from: "uptime" with jobs, "volume" with node_assignments, "value" *)
(* with transactions.  Days are numbered; day 1 lies outside the fourteen  *)
(* days of two of the charts.  Every transaction has the same amount.      *)
(***************************************************************************)
EXTENDS Naturals, Sequences, FiniteSets, SequencesExt, Filters

CONSTANTS
    Viewers,       \* users of one browser
    MaxDays,       \* days on which rows are written
    MaxRecords,    \* bound: rows written
    MaxSignIns     \* bound: times the user of the browser changes

ASSUME AnalyticsConstants == {MaxDays, MaxRecords, MaxSignIns} \subseteq Nat /\ "none" \notin Viewers

VARIABLES
    chart,         \* "uptime", "volume" or "value"
    records,       \* the table, in the order the rows were created
    viewer,        \* the signed-in user, or "none"
    signIns,
    asking,        \* the user a query is under way for: getCurrentUser's answer
    cached         \* the last answer, whose it is, and whether it is still fresh

analyticsVars == <<chart, records, viewer, signIns, asking, cached>>

Days == 1..MaxDays
Statuses ==
    CASE chart = "uptime" -> {"completed", "failed", "running"}
      [] chart = "volume" -> {"completed", "failed", "assigned"}
      [] OTHER -> {"reward_payment", "job_payment", "slashing_credit"}
\* .gte("created_at", since)
Since == IF chart = "uptime" THEN 1 ELSE 2

(***************************************************************************)
(* From rows to charts.                                                    *)
(***************************************************************************)
Series == {"completed", "failed", "pending", "revenue", "cost", "nothing"}
Entry(day) == [date |-> day, counts |-> [s \in Series |-> 0]]

\* A row counts in the entry of its day, which is made when the first one comes
CountedFromSecond(byDate, day, series) ==
    IF \E i \in DOMAIN byDate : byDate[i].date = day
    THEN [i \in DOMAIN byDate |-> IF byDate[i].date = day THEN [byDate[i] EXCEPT !.counts[series] = @ + 1] ELSE byDate[i]]
    ELSE Append(byDate, Entry(day))
Counted(byDate, day, series) ==
    IF \E i \in DOMAIN byDate : byDate[i].date = day
    THEN [i \in DOMAIN byDate |-> IF byDate[i].date = day THEN [byDate[i] EXCEPT !.counts[series] = @ + 1] ELSE byDate[i]]
    ELSE Append(byDate, [Entry(day) EXCEPT !.counts[series] = 1])

\* forEach row, in their order
GroupedByDate(days, series) ==
    LET byDate[k \in 0..Len(days)] ==
          IF k = 0 THEN << >> ELSE Counted(byDate[k - 1], days[k], series[k])
    IN byDate[Len(days)]

\* entry.total counts the completed and the others
fetchUptimeHistory(rows) ==
    GroupedByDate([k \in DOMAIN rows |-> rows[k].day],
                  [k \in DOMAIN rows |-> IF rows[k].status = "completed" THEN "completed" ELSE "pending"])

\* order("started_at"): those that have not started come last
StartsBy(rows, i, j) ==
    LET a == rows[i].started
        b == rows[j].started
    IN \/ a # 0 /\ (b = 0 \/ a < b)
       \/ a = b /\ i <= j
ByStart(rows) ==
    [k \in DOMAIN rows |->
        rows[CHOOSE i \in DOMAIN rows : Cardinality({j \in DOMAIN rows : StartsBy(rows, j, i)}) = k]]
\* new Date(a.started_at || job.created_at)
DayShown(r) == IF chart = "volume" /\ r.started # 0 THEN r.started ELSE r.day
fetchJobVolumeHistory(rows) ==
    LET sorted == ByStart(rows)
    IN GroupedByDate([k \in DOMAIN sorted |-> DayShown(sorted[k])],
                     [k \in DOMAIN sorted |-> IF sorted[k].status \in {"completed", "failed"} THEN sorted[k].status ELSE "pending"])

\* the names the code compares with, which are not those of the table
fetchValueFlowHistory(rows) ==
    GroupedByDate([k \in DOMAIN rows |-> rows[k].day],
                  [k \in DOMAIN rows |-> CASE rows[k].status \in {"reward", "job_payment"} -> "revenue"
                                           [] rows[k].status = "slashing" -> "cost"
                                           [] OTHER -> "nothing"])

History(rows) ==
    CASE chart = "uptime" -> fetchUptimeHistory(rows)
      [] chart = "volume" -> fetchJobVolumeHistory(rows)
      [] OTHER -> fetchValueFlowHistory(rows)

\* The figures, of every row there is; rates in tenths of a percent, rounded half up; without a
\* heartbeat of an assigned node the uptime is made up
Number(rows, status) == Cardinality({k \in DOMAIN rows : rows[k].status = status})
fetchNodeAnalytics(rows, latencies) ==
    LET completed == IF chart = "volume" THEN Number(rows, "completed") ELSE 0
        failed == IF chart = "volume" THEN Number(rows, "failed") ELSE 0
        total == IF completed + failed = 0 THEN 1 ELSE completed + failed
        rate == (2000 * completed + total) \div (2 * total)
    IN [completed |-> completed, failed |-> failed, successRate |-> rate,
        uptimePercent |-> IF latencies THEN rate ELSE 995,
        totalRewardsEarned |-> IF chart = "value" THEN Number(rows, "reward") ELSE 0,
        totalSlashed |-> IF chart = "value" THEN Number(rows, "slashing") ELSE 0]

NoFigures == [completed |-> 0, failed |-> 0, successRate |-> 0, uptimePercent |-> 0,
              totalRewardsEarned |-> 0, totalSlashed |-> 0]
NotAsked == [of |-> "nobody", fresh |-> FALSE, read |-> << >>, entries |-> << >>, figures |-> NoFigures]

(***************************************************************************)
(* What the page shows of them.                                            *)
(***************************************************************************)
\* avgUptime: every day counts alike, however many jobs it had
AverageUptime(answer) ==
    LET percent(e) == (1000 * e.counts["completed"]) \div (e.counts["completed"] + e.counts["pending"])
    IN IF chart = "uptime" /\ answer.entries # << >>
       THEN FoldLeft(LAMBDA sum, e : sum + percent(e), 0, answer.entries) \div Len(answer.entries)
       ELSE answer.figures.uptimePercent
SLAComplianceGauge(answer) == IF AverageUptime(answer) >= 950 THEN "Compliant" ELSE "At Risk"
AnalyticsPage == [rewards |-> cached.figures.totalRewardsEarned, slashed |-> cached.figures.totalSlashed,
                  jobs |-> cached.figures.completed + cached.figures.failed, sla |-> SLAComplianceGauge(cached)]

AnalyticsInit ==
    /\ chart \in {"uptime", "volume", "value"}
    /\ records = << >> /\ viewer \in Viewers /\ signIns = 0
    /\ asking = "nobody" /\ cached = NotAsked

RecordWritten(u, day, status) ==
    /\ Len(records) < MaxRecords /\ status \in Statuses
    /\ records # << >> => Last(records).day <= day
    /\ \E started \in IF chart = "volume" /\ status # "assigned" THEN day..MaxDays ELSE {0} :
          records' = Append(records, [owner |-> u, day |-> day, started |-> started, status |-> status])
    /\ UNCHANGED <<chart, viewer, signIns, asking, cached>>

\* The page mounts, or asks again: an answer that is fresh is good enough.
\* The key of the query does not name the user.
useAnalyticsQuery ==
    /\ asking = "nobody" /\ ~cached.fresh /\ viewer # "none"
    /\ asking' = viewer
    /\ UNCHANGED <<chart, records, viewer, signIns, cached>>

\* The rows of that user, as far as the session of the moment may read them
QueryAnswered ==
    /\ asking # "nobody"
    /\ LET all == Filter(records, {r \in ToSet(records) : r.owner = asking /\ r.owner = viewer})
           rows == Filter(all, {r \in ToSet(all) : r.day >= Since})
       IN \E latencies \in IF chart = "volume" /\ all # << >> THEN BOOLEAN ELSE {FALSE} :
             cached' = [of |-> asking, fresh |-> TRUE, read |-> rows,
                        entries |-> History(rows), figures |-> fetchNodeAnalytics(all, latencies)]
    /\ asking' = "nobody"
    /\ UNCHANGED <<chart, records, viewer, signIns>>

\* staleTime
QueryTurnsStale ==
    /\ cached.fresh
    /\ cached' = [cached EXCEPT !.fresh = FALSE]
    /\ UNCHANGED <<chart, records, viewer, signIns, asking>>

\* Signing out and in: the cache is that of the page, which is not loaded again
ViewerChanges(u) ==
    /\ signIns < MaxSignIns /\ u # viewer
    /\ viewer' = u /\ signIns' = signIns + 1
    /\ UNCHANGED <<chart, records, asking, cached>>

AnalyticsNext ==
    \/ \E u \in Viewers, d \in Days, s \in Statuses : RecordWritten(u, d, s)
    \/ useAnalyticsQuery \/ QueryAnswered \/ QueryTurnsStale
    \/ \E u \in Viewers \cup {"none"} : ViewerChanges(u)

AnalyticsSpec == AnalyticsInit /\ [][AnalyticsNext]_analyticsVars

(***************************************************************************)
(* Properties.                                                             *)
(***************************************************************************)
\* A chart counts the rows it was drawn from: one entry for a day, and each
\* row of that day in one series of it, though the rows come ordered by
\* another column than the one they are grouped by; and no row of another
\* user, whoever signed in while the query was under way.
ChartsCountRows ==
    LET rows == cached.read
        of(day) == {k \in DOMAIN rows : DayShown(rows[k]) = day}
        sum(e) == SumFunction(e.counts)
    IN /\ \A k \in DOMAIN rows : rows[k].owner = cached.of
       /\ \A i, j \in DOMAIN cached.entries : cached.entries[i].date = cached.entries[j].date => i = j
       /\ \A day \in Days :
             IF of(day) = {} THEN \A i \in DOMAIN cached.entries : cached.entries[i].date # day
             ELSE \E i \in DOMAIN cached.entries :
                     cached.entries[i].date = day /\ sum(cached.entries[i]) = Cardinality(of(day))

\* What a reader of the page would expect, and TLC refutes:
\* the figures are those of the user who looks at them;
FiguresAreOwn == cached.of \in {"nobody", viewer} \/ viewer = "none" \/ ~cached.fresh
\* the days of a chart are in order;
DaysInOrder == \A i, j \in DOMAIN cached.entries : i < j => cached.entries[i].date < cached.entries[j].date
\* what was paid as a reward is among the rewards;
RewardsCounted == (\E k \in DOMAIN cached.read : cached.read[k].status = "reward_payment") => AnalyticsPage.rewards > 0
\* and who has lost no job is compliant.
DowntimeMeansFailure ==
    cached.of # "nobody" /\ (\A k \in DOMAIN cached.read : cached.read[k].status # "failed")
        => AnalyticsPage.sla = "Compliant"
=============================================================================
