---------------------------- MODULE SLAContract ----------------------------
(***************************************************************************)
(* contracts/contracts/SLAContract.sol: the terms agreed for a job, its    *)
(* verdict, and the metrics recorded against it.  Callers of restricted    *)
(* functions are authorized ones; a transaction that reverts is a step     *)
(* that is not enabled.  Events and the penalty they carry (a share of the *)
(* provider's stake, changing no state) are left out.                      *)
(***************************************************************************)
EXTENDS Integers, Sequences, SequencesExt

CONSTANTS
    JobIds,
    Clients,                   \* addresses setSLAClient may be given
    NoClient,                  \* address(0)
    SLA_METRICS_PERIOD,        \* 300 seconds
    MIN_DEADLINE_EXTENSION,    \* 1 hour
    RequiredUptimes, RequiredThroughputs,   \* arguments of recordSLA and updateSLA
    Uptimes, Throughputs,                   \* measured values
    MaxTime, MaxMetrics, MaxVersion         \* bounds: time, metrics per job, versions

ASSUME SLAConstants ==
    /\ NoClient \notin Clients
    /\ SLA_METRICS_PERIOD \in Nat \ {0}
    /\ MIN_DEADLINE_EXTENSION \in Nat
    /\ RequiredUptimes \cup RequiredThroughputs \cup Uptimes \cup Throughputs \subseteq Nat
    /\ MaxTime \in Nat \ {0} /\ MaxMetrics \in Nat /\ MaxVersion \in Nat \ {0}

VARIABLES
    slaBenchmarks,        \* job -> terms, with fulfilled and exists
    slaClient,
    historicalMetrics,    \* job -> sequence of checkpoints
    breachedSLAs, pendingTerminations, slaVersion,
    blockTime                   \* block.timestamp

slaVars == <<slaBenchmarks, slaClient, historicalMetrics, breachedSLAs,
             pendingTerminations, slaVersion, blockTime>>

NoSLA == [requiredUptime |-> 0, requiredThroughput |-> 0, deadline |-> 0,
          fulfilled |-> FALSE, exists |-> FALSE]

SLAInit ==
    /\ slaBenchmarks = [j \in JobIds |-> NoSLA]
    /\ slaClient = [j \in JobIds |-> NoClient]
    /\ historicalMetrics = [j \in JobIds |-> <<>>]
    /\ breachedSLAs = [j \in JobIds |-> FALSE]
    /\ pendingTerminations = [j \in JobIds |-> FALSE]
    /\ slaVersion = [j \in JobIds |-> 0]
    /\ blockTime = 1

-----------------------------------------------------------------------------
(* Terms *)

ValidTerms(uptime, throughput, deadline) ==
    /\ uptime > 0 /\ uptime <= 10000
    /\ throughput > 0
    /\ deadline > blockTime

Exists(j) == slaBenchmarks[j].exists

(* Mutant: the modifier that closes a fulfilled SLA is forgotten. *)
StillOpen(j) == Exists(j)

(* onlyExistingJob and onlyOnce *)
Open(j) == Exists(j) /\ ~slaBenchmarks[j].fulfilled

RecordSLA(j, uptime, throughput, deadline) ==
    /\ ~Exists(j)
    /\ ValidTerms(uptime, throughput, deadline)
    /\ slaBenchmarks' = [slaBenchmarks EXCEPT ![j] =
           [requiredUptime |-> uptime, requiredThroughput |-> throughput,
            deadline |-> deadline, fulfilled |-> FALSE, exists |-> TRUE]]
    /\ slaVersion' = [slaVersion EXCEPT ![j] = 1]
    /\ UNCHANGED <<slaClient, historicalMetrics, breachedSLAs, pendingTerminations, blockTime>>

UpdateSLA(j, uptime, throughput, deadline) ==
    /\ Open(j)
    /\ ValidTerms(uptime, throughput, deadline)
    /\ slaVersion[j] < MaxVersion
    /\ slaBenchmarks' = [slaBenchmarks EXCEPT ![j].requiredUptime = uptime,
                                              ![j].requiredThroughput = throughput,
                                              ![j].deadline = deadline]
    /\ slaVersion' = [slaVersion EXCEPT ![j] = @ + 1]
    /\ UNCHANGED <<slaClient, historicalMetrics, breachedSLAs, pendingTerminations, blockTime>>

(* The new deadline is compared with the old one, not with the time. *)
ExtendDeadline(j, deadline) ==
    /\ Open(j)
    /\ deadline > slaBenchmarks[j].deadline + MIN_DEADLINE_EXTENSION
    /\ slaVersion[j] < MaxVersion
    /\ slaBenchmarks' = [slaBenchmarks EXCEPT ![j].deadline = deadline]
    /\ slaVersion' = [slaVersion EXCEPT ![j] = @ + 1]
    /\ UNCHANGED <<slaClient, historicalMetrics, breachedSLAs, pendingTerminations, blockTime>>

MigrateSLA(j, version) ==
    /\ Exists(j)
    /\ slaVersion' = [slaVersion EXCEPT ![j] = version]
    /\ UNCHANGED <<slaBenchmarks, slaClient, historicalMetrics, breachedSLAs, pendingTerminations, blockTime>>

SetSLAClient(j, client) ==
    /\ Exists(j)
    /\ slaClient' = [slaClient EXCEPT ![j] = client]
    /\ UNCHANGED <<slaBenchmarks, historicalMetrics, breachedSLAs, pendingTerminations, slaVersion, blockTime>>

-----------------------------------------------------------------------------
(* Verdict *)

FulfillSLA(j, success) ==
    /\ Open(j)
    /\ slaBenchmarks' = [slaBenchmarks EXCEPT ![j].fulfilled = success]
    /\ breachedSLAs' = [breachedSLAs EXCEPT ![j] = @ \/ ~success]
    /\ UNCHANGED <<slaClient, historicalMetrics, pendingTerminations, slaVersion, blockTime>>

EmergencyTerminateSLA(j) ==
    /\ Open(j)
    /\ slaBenchmarks' = [slaBenchmarks EXCEPT ![j].fulfilled = FALSE]
    /\ breachedSLAs' = [breachedSLAs EXCEPT ![j] = TRUE]
    /\ pendingTerminations' = [pendingTerminations EXCEPT ![j] = TRUE]
    /\ UNCHANGED <<slaClient, historicalMetrics, slaVersion, blockTime>>

(* Mutant: agreeing on the end also wipes the breach. *)
ApproveAndForgive(j) ==
    /\ slaClient[j] # NoClient
    /\ Exists(j)
    /\ pendingTerminations[j]
    /\ slaBenchmarks' = [slaBenchmarks EXCEPT ![j].fulfilled = TRUE]
    /\ pendingTerminations' = [pendingTerminations EXCEPT ![j] = FALSE]
    /\ breachedSLAs' = [breachedSLAs EXCEPT ![j] = FALSE]
    /\ UNCHANGED <<slaClient, historicalMetrics, slaVersion, blockTime>>

(* Sent by the client itself. *)
ApproveTermination(j) ==
    /\ slaClient[j] # NoClient
    /\ Exists(j)
    /\ pendingTerminations[j]
    /\ slaBenchmarks' = [slaBenchmarks EXCEPT ![j].fulfilled = TRUE]
    /\ pendingTerminations' = [pendingTerminations EXCEPT ![j] = FALSE]
    /\ UNCHANGED <<slaClient, historicalMetrics, breachedSLAs, slaVersion, blockTime>>

-----------------------------------------------------------------------------
(* Metrics *)

(* measured is history: whether the checkpoint carries a measured uptime at all. *)
Push(j, uptime, throughput, measured) ==
    /\ Len(historicalMetrics[j]) < MaxMetrics
    /\ historicalMetrics' = [historicalMetrics EXCEPT ![j] =
           Append(@, [timestamp |-> blockTime, uptime |-> uptime,
                      throughput |-> throughput, measured |-> measured])]
    /\ UNCHANGED <<slaBenchmarks, slaClient, breachedSLAs, pendingTerminations, slaVersion, blockTime>>

WindowOver(j) ==
    historicalMetrics[j] # <<>> => Last(historicalMetrics[j]).timestamp + SLA_METRICS_PERIOD <= blockTime

(* _validateCheckpointTimestamps, which looks at the whole history with the new entry. *)
TimestampsIncreaseWith(j) ==
    LET stamps == [i \in 1..Len(historicalMetrics[j]) |-> historicalMetrics[j][i].timestamp]
    IN  \A i \in 2..Len(stamps) + 1 : Append(stamps, blockTime)[i] > stamps[i - 1]

RecordUptimeCheck(j, uptime) ==
    /\ Exists(j)
    /\ uptime <= 10000
    /\ WindowOver(j)
    /\ TimestampsIncreaseWith(j)
    /\ Push(j, uptime, 0, TRUE)

RecordThroughputCheck(j, throughput) ==
    /\ Exists(j)
    /\ WindowOver(j)
    /\ Push(j, 0, throughput, FALSE)

SubmitCheckpoint(j, uptime, throughput) ==
    /\ Exists(j)
    /\ uptime <= 10000
    /\ TimestampsIncreaseWith(j)
    /\ Push(j, uptime, throughput, TRUE)

SubmitFinalMetrics(j, uptime, throughput) ==
    /\ Open(j)
    /\ Push(j, uptime, throughput, TRUE)

NextSLABlock ==
    /\ blockTime < MaxTime
    /\ blockTime' = blockTime + 1
    /\ UNCHANGED <<slaBenchmarks, slaClient, historicalMetrics, breachedSLAs,
                   pendingTerminations, slaVersion>>

-----------------------------------------------------------------------------
(* Views *)

Sum(values) == FoldLeft(LAMBDA a, b : a + b, 0, values)

(* Zero means "not measured" and is skipped. *)
AveragePositive(values) ==
    LET counted == SelectSeq(values, LAMBDA v : v > 0)
    IN  IF counted = <<>> THEN 0 ELSE Sum(counted) \div Len(counted)

UptimesOf(j) == [i \in 1..Len(historicalMetrics[j]) |-> historicalMetrics[j][i].uptime]

ThroughputsOf(j) == [i \in 1..Len(historicalMetrics[j]) |-> historicalMetrics[j][i].throughput]

CalculateUptimeScore(j) == AveragePositive(UptimesOf(j))

GetCurrentThroughputRate(j) == AveragePositive(ThroughputsOf(j))

(* Mutant: the deadline itself already counts as missed. *)
BreachedAtDeadline(j) == blockTime >= slaBenchmarks[j].deadline /\ ~slaBenchmarks[j].fulfilled

IsBreached(j) == blockTime > slaBenchmarks[j].deadline /\ ~slaBenchmarks[j].fulfilled

VerifySLACompliance(j) ==
    \/ slaBenchmarks[j].fulfilled
    \/ /\ blockTime <= slaBenchmarks[j].deadline
       /\ CalculateUptimeScore(j) >= slaBenchmarks[j].requiredUptime
       /\ GetCurrentThroughputRate(j) >= slaBenchmarks[j].requiredThroughput

GetRemainingTime(j) ==
    IF blockTime >= slaBenchmarks[j].deadline THEN 0 ELSE slaBenchmarks[j].deadline - blockTime

GetSLARating(j) ==
    LET ratio == (GetCurrentThroughputRate(j) * 10000) \div slaBenchmarks[j].requiredThroughput
        combined == (CalculateUptimeScore(j) * 6000 + ratio * 4000) \div 10000
    IN  IF combined > 10000 THEN 10000 ELSE combined

-----------------------------------------------------------------------------
Deadlines == 1..MaxTime + 1

SLANext ==
    \E j \in JobIds :
        \/ \E u \in RequiredUptimes, t \in RequiredThroughputs, d \in Deadlines :
              RecordSLA(j, u, t, d) \/ UpdateSLA(j, u, t, d)
        \/ \E d \in Deadlines : ExtendDeadline(j, d)
        \/ \E v \in 0..MaxVersion : MigrateSLA(j, v)
        \/ \E c \in Clients \cup {NoClient} : SetSLAClient(j, c)
        \/ \E success \in BOOLEAN : FulfillSLA(j, success)
        \/ EmergencyTerminateSLA(j)
        \/ ApproveTermination(j)
        \/ \E u \in Uptimes : RecordUptimeCheck(j, u)
        \/ \E t \in Throughputs : RecordThroughputCheck(j, t)
        \/ \E u \in Uptimes, t \in Throughputs : SubmitCheckpoint(j, u, t) \/ SubmitFinalMetrics(j, u, t)
        \/ NextSLABlock

SLASpec == SLAInit /\ [][SLANext]_slaVars

-----------------------------------------------------------------------------
(* Properties *)

Metric == [timestamp : 1..MaxTime, uptime : Nat, throughput : Nat, measured : BOOLEAN]

(* The type of every variable; no checkpoint lies in the future. *)
SLATypeOK ==
    /\ slaBenchmarks \in [JobIds -> [requiredUptime : Nat, requiredThroughput : Nat, deadline : Nat,
                                     fulfilled : BOOLEAN, exists : BOOLEAN]]
    /\ slaClient \in [JobIds -> Clients \cup {NoClient}]
    /\ historicalMetrics \in [JobIds -> Seq(Metric)]
    /\ breachedSLAs \in [JobIds -> BOOLEAN]
    /\ pendingTerminations \in [JobIds -> BOOLEAN]
    /\ slaVersion \in [JobIds -> Nat]
    /\ blockTime \in 1..MaxTime

(* Verdicts are final.  Once fulfilled, an SLA keeps its verdict and terms; no call     *)
(* takes a recorded breach back, and a termination that waits for the client's approval *)
(* is always that of a recorded breach, whatever verdicts come in between.              *)
VerdictsAreFinal ==
    [][\A j \in JobIds :
          /\ slaBenchmarks[j].fulfilled => slaBenchmarks'[j] = slaBenchmarks[j]
          /\ breachedSLAs[j] \/ pendingTerminations'[j] => breachedSLAs'[j]]_slaVars

(* The three views of the deadline agree at and around it: no SLA is breached and       *)
(* compliant at once, one past its deadline is one of them, and none with time left is *)
(* breached.                                                                           *)
DeadlineViewsAgree ==
    \A j \in JobIds : Exists(j) =>
        /\ ~(IsBreached(j) /\ VerifySLACompliance(j))
        /\ blockTime > slaBenchmarks[j].deadline => IsBreached(j) \/ VerifySLACompliance(j)
        /\ GetRemainingTime(j) > 0 => ~IsBreached(j)

-----------------------------------------------------------------------------
(* Statements of the contract's comments that its code does not keep. *)

(* "fulfilled; // true if SLA was met": a breached SLA is not a fulfilled one. *)
FulfilledMeansMet == \A j \in JobIds : ~(slaBenchmarks[j].fulfilled /\ breachedSLAs[j])

(* "validate checkpoint timestamps are monotonically increasing": so the history is, and *)
(* a later check is never refused for what an earlier call recorded.                      *)
TimestampsIncrease ==
    \A j \in JobIds : \A i \in 2..Len(historicalMetrics[j]) :
        historicalMetrics[j][i].timestamp > historicalMetrics[j][i - 1].timestamp

(* "Average uptime percentage * 100" of the recorded checkpoints: one that measured 0% *)
(* counts like any other.                                                               *)
AverageCountsDowntime ==
    \A j \in JobIds :
        LET measured == SelectSeq(historicalMetrics[j], LAMBDA m : m.measured)
            uptimes == [i \in 1..Len(measured) |-> measured[i].uptime]
        IN  measured # <<>> => CalculateUptimeScore(j) = Sum(uptimes) \div Len(uptimes)

(* An uptime score is a percentage * 100. *)
UptimeIsPercentage == \A j \in JobIds : CalculateUptimeScore(j) <= 10000

(* "Rating 0-1000" *)
RatingAsDocumented == \A j \in JobIds : Exists(j) => GetSLARating(j) \in 0..1000

=============================================================================
