-------------------------- MODULE ReputationLedger --------------------------
(***************************************************************************)
(* contracts/contracts/ReputationLedger.sol: bounded reputation scores and *)
(* their decay with inactivity.  Scores keep the contract's own constants; *)
(* time is scaled so that DECAY_PERIOD (30 days) is a small number.  The   *)
(* callers of increment, decrement and initialize are the authorized ones. *)
(***************************************************************************)
EXTENDS Integers

CONSTANTS
    Nodes,
    DECAY_PERIOD,  \* 30 days
    Deltas,        \* arguments of incrementReputation and decrementReputation
    Waits,         \* time that may pass between two blocks
    StartTime,     \* block.timestamp of the deployment
    MaxTicks       \* bound: how often time passes

ASSUME ReputationConstants ==
    /\ DECAY_PERIOD \in Nat \ {0}
    /\ Deltas \subseteq Nat \ {0}
    /\ Waits \subseteq Nat \ {0}
    /\ StartTime \in Nat \ {0}
    /\ MaxTicks \in Nat

MAX_REPUTATION == 10000
MIN_REPUTATION == -1000
INITIAL_REPUTATION == 100
DECAY_RATE == 100

VARIABLES
    reputationScore,
    lastUpdate,
    registeredAt,
    now,      \* block.timestamp
    ticks     \* how often time has passed

ledgerVars == <<reputationScore, lastUpdate, registeredAt, now, ticks>>

Init ==
    /\ reputationScore = [n \in Nodes |-> 0]
    /\ lastUpdate = [n \in Nodes |-> 0]
    /\ registeredAt = [n \in Nodes |-> 0]
    /\ now = StartTime
    /\ ticks = 0

-----------------------------------------------------------------------------
HasReputation(n) == lastUpdate[n] > 0

(* The score an update starts from. *)
BaseScore(n) == IF HasReputation(n) THEN reputationScore[n] ELSE INITIAL_REPUTATION

(* Mutant: only the upper bound is enforced. *)
ClampAbove(s) == IF s > MAX_REPUTATION THEN MAX_REPUTATION ELSE s

Clamp(s) ==
    IF s > MAX_REPUTATION THEN MAX_REPUTATION
    ELSE IF s < MIN_REPUTATION THEN MIN_REPUTATION ELSE s

(* Mutant: registration restarts the score's clock at zero. *)
InitializeWithoutClock(n) ==
    /\ reputationScore' = [reputationScore EXCEPT ![n] = BaseScore(n)]
    /\ registeredAt' = [registeredAt EXCEPT ![n] = now]
    /\ UNCHANGED <<lastUpdate, now, ticks>>

InitializeNode(n) ==
    /\ reputationScore' = [reputationScore EXCEPT ![n] = BaseScore(n)]
    /\ registeredAt' = [registeredAt EXCEPT ![n] = now]
    /\ lastUpdate' = [lastUpdate EXCEPT ![n] = now]
    /\ UNCHANGED <<now, ticks>>

UpdateReputation(n, delta) ==
    /\ reputationScore' = [reputationScore EXCEPT ![n] = Clamp(BaseScore(n) + delta)]
    /\ lastUpdate' = [lastUpdate EXCEPT ![n] = now]
    /\ UNCHANGED <<registeredAt, now, ticks>>

IncrementReputation(n, delta) == delta > 0 /\ UpdateReputation(n, delta)

DecrementReputation(n, delta) == delta > 0 /\ UpdateReputation(n, -delta)

(* Solidity's signed division rounds towards zero. *)
TruncDiv(a, b) == IF a >= 0 THEN a \div b ELSE -((-a) \div b)

(* A score times a factor in units of 1/10000. *)
Scaled(s, factor) == TruncDiv(s * factor, 10000)

Periods(n) == (now - lastUpdate[n]) \div DECAY_PERIOD

DecayDue(n) == now - lastUpdate[n] >= DECAY_PERIOD

(* Mutant: the factor is computed on signed integers and its clamp forgotten. *)
NeverReverts(n) == FALSE

(* 10000 - DECAY_RATE * periods is computed on unsigned integers: beyond 100     *)
(* periods it underflows and reverts, before the clamp to 0 that follows it.     *)
DecayReverts(n) == DECAY_RATE * Periods(n) > 10000

DecayedScore(s, periods) ==
    LET scaled == Scaled(s, 10000 - DECAY_RATE * periods)
    IN  IF scaled < MIN_REPUTATION THEN MIN_REPUTATION ELSE scaled

DecayStamp(n) == now

(* A call for a node whose period is not over changes nothing.  A batch is one *)
(* transaction: a node it must revert for reverts it for every node.           *)
BatchApplyDecay(S) ==
    /\ \A n \in S : HasReputation(n) /\ (DecayDue(n) => ~DecayReverts(n))
    /\ reputationScore' = [n \in Nodes |-> IF n \in S /\ DecayDue(n)
                                           THEN DecayedScore(reputationScore[n], Periods(n))
                                           ELSE reputationScore[n]]
    /\ lastUpdate' = [n \in Nodes |-> IF n \in S /\ DecayDue(n) THEN DecayStamp(n) ELSE lastUpdate[n]]
    /\ UNCHANGED <<registeredAt, now, ticks>>

ApplyDecay(n) == BatchApplyDecay({n})

Tick(wait) ==
    /\ ticks < MaxTicks
    /\ ticks' = ticks + 1
    /\ now' = now + wait
    /\ UNCHANGED <<reputationScore, lastUpdate, registeredAt>>

Next ==
    \/ \E n \in Nodes : InitializeNode(n) \/ ApplyDecay(n)
    \/ \E n \in Nodes, d \in Deltas : IncrementReputation(n, d) \/ DecrementReputation(n, d)
    \/ \E S \in SUBSET Nodes : BatchApplyDecay(S)
    \/ \E w \in Waits : Tick(w)

Spec == Init /\ [][Next]_ledgerVars

-----------------------------------------------------------------------------
(* Properties *)

(* The type of every variable. *)
TypeOK ==
    /\ reputationScore \in [Nodes -> Int]
    /\ lastUpdate \in [Nodes -> Nat]
    /\ registeredAt \in [Nodes -> Nat]
    /\ now \in Nat \ {0}
    /\ ticks \in Nat

(* No sequence of updates and decays leaves the range; a node the ledger does not *)
(* know has no score.                                                             *)
ScoreInRange ==
    \A n \in Nodes : /\ MIN_REPUTATION <= reputationScore[n]
                     /\ reputationScore[n] <= MAX_REPUTATION
                     /\ ~HasReputation(n) => reputationScore[n] = 0

(* A node is registered no later than it was last updated, and never in the future, *)
(* so the elapsed time of applyDecay never underflows.                               *)
ClocksOrdered ==
    \A n \in Nodes : registeredAt[n] <= lastUpdate[n] /\ lastUpdate[n] <= now

(* The two together, of which neither is kept without the other: a score decays into *)
(* the range because the periods it has been idle for are counted from the past.     *)
LedgerConsistent == ScoreInRange /\ ClocksOrdered

(* Decay moves a score towards zero and never across it. *)
DecayTowardsZero ==
    [][\A n \in Nodes : lastUpdate'[n] # lastUpdate[n] /\ ApplyDecay(n) =>
          \/ 0 <= reputationScore'[n] /\ reputationScore'[n] <= reputationScore[n]
          \/ reputationScore[n] <= reputationScore'[n] /\ reputationScore'[n] <= 0]_ledgerVars

-----------------------------------------------------------------------------
(* Statements of the contract's comments that its code does not keep. *)

(* "Apply decay to a node's reputation (penalizes inactivity)": decay never raises a *)
(* score.  A negative score decays towards zero, that is upwards.                     *)
DecayPenalizes ==
    [][\A n \in Nodes : ApplyDecay(n) => reputationScore'[n] <= reputationScore[n]]_ledgerVars

(* Inactivity alone never makes a node undecayable: the branch that clamps a negative *)
(* factor to zero is there for nodes idle for more than 100 periods.                  *)
IdleNodeDecays == \A n \in Nodes : HasReputation(n) => ~DecayReverts(n)

(* "Decay is exponential": a late decay does what one decay per period does. *)
Compounded(s, periods) ==
    LET iter[k \in Nat] == IF k = 0 THEN s ELSE Scaled(iter[k - 1], 10000 - DECAY_RATE)
    IN  iter[periods]

DecayIsExponential ==
    \A n \in Nodes : HasReputation(n) /\ ~DecayReverts(n) =>
        DecayedScore(reputationScore[n], Periods(n)) = Compounded(reputationScore[n], Periods(n))

=============================================================================
