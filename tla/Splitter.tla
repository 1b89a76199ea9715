------------------------------ MODULE Splitter ------------------------------
(***************************************************************************)
(* The workload splitter of internal/orchestrator/splitter.go: which nodes *)
(* a job goes to, in which order, and which bytes each of them gets.       *)
(*                                                                         *)
(* The eligible nodes are a function from ids to capacities; a node's id   *)
(* stands for its address too.  sort.Slice is not stable: nodes that       *)
(* compare equal come in any order.                                        *)
(***************************************************************************)
EXTENDS Integers, FiniteSets
LOCAL INSTANCE FiniteSetsExt

CONSTANTS
    SplitNodes,      \* ids of nodes
    Capacities,      \* [reputation, availableMB, isOnline, latencyMs, isReservedPool]
    Sizes            \* totalBytes of a job

ASSUME SplitterConstants == Sizes \subseteq Nat /\ IsFiniteSet(SplitNodes)

VARIABLES
    eligibleNodes,   \* what SetEligibleNodes was given
    job,             \* the job split last, and into how many units
    workUnits        \* its units: index -> [nodeID, startOffset, endOffset]

splitterVars == <<eligibleNodes, job, workUnits>>

NoJob == [assignedNodes |-> {}, isServerless |-> FALSE, totalBytes |-> 0, numUnits |-> 0]

SplitterInit ==
    /\ eligibleNodes = [n \in {} |-> 0]
    /\ job = NoJob
    /\ workUnits = [i \in 1..0 |-> 0]

SetEligibleNodes ==
    /\ \E S \in SUBSET SplitNodes : eligibleNodes' \in [S -> Capacities]
    /\ UNCHANGED <<job, workUnits>>

-----------------------------------------------------------------------------
(* Which nodes *)

Online == {n \in DOMAIN eligibleNodes : eligibleNodes[n].isOnline}

GetEligibleNodes == {n \in Online : eligibleNodes[n].availableMB > 0}
GetServerlessNodes == {n \in GetEligibleNodes : ~eligibleNodes[n].isReservedPool}

\* no capacity is asked of the nodes a job is assigned to
GetDedicatedNodesFromJob(assigned) == {n \in Online : eligibleNodes[n].isReservedPool /\ n \in assigned}

TargetNodes(assigned, isServerless) ==
    IF assigned # {} THEN GetDedicatedNodesFromJob(assigned)
    ELSE IF isServerless THEN GetServerlessNodes ELSE GetEligibleNodes

\* for serverless jobs the lowest latency, then the highest reputation; else reputation
Before(m, n, isServerless) ==
    LET a == eligibleNodes[m]
        b == eligibleNodes[n]
    IN IF isServerless /\ a.latencyMs # b.latencyMs THEN a.latencyMs < b.latencyMs
       ELSE a.reputation > b.reputation

Orders(targets, isServerless) ==
    {order \in [1..Cardinality(targets) -> targets] :
        \A i, j \in DOMAIN order : i < j => order[i] # order[j] /\ ~Before(order[j], order[i], isServerless)}

-----------------------------------------------------------------------------
(* Which bytes *)

\* Units are numbered from 1.
StartOffset(i, bytesPerNode) == (i - 1) * bytesPerNode

\* Mutant: the remainder goes to the first node.
EndOffsetFirst(i, n, totalBytes) ==
    StartOffset(i, totalBytes \div n) + (totalBytes \div n) + (IF i = 1 THEN totalBytes % n ELSE 0)

EndOffset(i, n, totalBytes) ==
    StartOffset(i, totalBytes \div n) + (totalBytes \div n) + (IF i = n THEN totalBytes % n ELSE 0)

Units(order, n, totalBytes) ==
    [i \in 1..n |-> [nodeID |-> order[i], startOffset |-> StartOffset(i, totalBytes \div n),
                     endOffset |-> EndOffset(i, n, totalBytes)]]

\* Without a target the job is refused with an error.
SplitWorkload(assigned, isServerless, totalBytes) ==
    LET targets == TargetNodes(assigned, isServerless)
        numUnits == Cardinality(targets)
    IN /\ numUnits > 0
       /\ job' = [assignedNodes |-> assigned, isServerless |-> isServerless, totalBytes |-> totalBytes,
                   numUnits |-> numUnits]
       /\ \E order \in Orders(targets, isServerless) : workUnits' = Units(order, numUnits, totalBytes)
       /\ UNCHANGED eligibleNodes

\* any listed node will do, online or not
AssignWorkUnit(i, nodeID) ==
    /\ i \in DOMAIN workUnits /\ nodeID \in DOMAIN eligibleNodes
    /\ workUnits' = [workUnits EXCEPT ![i].nodeID = nodeID]
    /\ UNCHANGED <<eligibleNodes, job>>

\* How many of totalUnits each serverless node should handle; the code divides in
\* floating point, here the division is exact
CalculateLoadDistribution(totalUnits) ==
    LET totalCapacity == MapThenSumSet(LAMBDA n : eligibleNodes[n].availableMB, GetServerlessNodes)
        share(n) == (totalUnits * eligibleNodes[n].availableMB) \div totalCapacity
    IN [n \in GetServerlessNodes |-> IF share(n) < 1 THEN 1 ELSE share(n)]

SplitterNext ==
    \/ SetEligibleNodes
    \/ \E assigned \in SUBSET SplitNodes, isServerless \in BOOLEAN, totalBytes \in Sizes :
          SplitWorkload(assigned, isServerless, totalBytes)
    \/ \E n \in SplitNodes, i \in DOMAIN workUnits : AssignWorkUnit(i, n)

SplitterSpec == SplitterInit /\ [][SplitterNext]_splitterVars

-----------------------------------------------------------------------------
(* Properties *)

(* The type of every variable. *)
SplitterType ==
    /\ DOMAIN eligibleNodes \subseteq SplitNodes
    /\ job.numUnits \in Nat /\ job.totalBytes \in Nat
    /\ workUnits \in [1..job.numUnits -> [nodeID : SplitNodes, startOffset : Nat, endOffset : Nat]]

(* The units of a job cover its bytes from the first to the last without gap or     *)
(* overlap (SplitWorkload), whatever units are handed to other nodes afterwards.    *)
SplitIsPartition ==
    LET n == job.numUnits
        start(i) == workUnits[i].startOffset
        end(i) == workUnits[i].endOffset
    IN /\ DOMAIN workUnits = 1..n
       /\ n > 0 => start(1) = 0 /\ end(n) = job.totalBytes
       /\ \A i \in 1..n : start(i) <= end(i)
       /\ \A i \in 1..n : i < n => end(i) = start(i + 1)

-----------------------------------------------------------------------------
(* Statements of the splitter's comments that its code does not keep. *)

(* "If job.AssignedNodes is non-empty (enterprise dedicated): route exclusively to  *)
(* those nodes": AssignWorkUnit hands a unit to any node of the list.               *)
DedicatedIsExclusive ==
    job.assignedNodes # {} => \A i \in DOMAIN workUnits : workUnits[i].nodeID \in job.assignedNodes

(* "how many work units each node should handle": shares are rounded down, and then *)
(* up to one, so that they add up to less or more than the units there are.         *)
DistributionAddsUp ==
    \A totalUnits \in 1..3 :
        LET handled == CalculateLoadDistribution(totalUnits)
        IN  handled # << >> => MapThenSumSet(LAMBDA n : handled[n], DOMAIN handled) = totalUnits

(* "IsReservedPool   bool   // true = serverless multi-tenant, false = dedicated     *)
(* enterprise": the splitter reads it the other way round.                           *)
PoolAsDeclared == \A n \in GetServerlessNodes : eligibleNodes[n].isReservedPool
=============================================================================
