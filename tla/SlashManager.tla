---------------------------- MODULE SlashManager ----------------------------
(***************************************************************************)
(* contracts/contracts/SlashManager.sol on top of Escrow: penalties, the   *)
(* shares paid out of them, and staking rewards.                           *)
(*                                                                         *)
(* Escrow and the manager are one state: escrow.slash called by a manager  *)
(* function is part of that function's transaction, and the ether it sends *)
(* arrives in the manager's balance.  Callers are the authorized ones.     *)
(* isNodeFrozen, activeJobCount and rewardsAccrued are never written with  *)
(* another value than false and 0, so they have no variable.               *)
(***************************************************************************)
EXTENDS Escrow

CONSTANTS
    Manager,        \* the address of this contract, a possible slasher
    JobValues,      \* values of slashed jobs
    Percents,       \* percentBps of slashPartial
    Fundings,       \* ether sent to receive() of the manager
    REWARD_PERIOD,  \* 30 days
    MaxFunding,     \* bound: ether ever sent to the manager
    MaxEvents       \* bound: recorded slashes

ASSUME SlashManagerConstants ==
    /\ Manager \in Slashers
    /\ JobValues \subseteq Nat \ {0}
    /\ Percents \subseteq Nat
    /\ Fundings \subseteq Nat \ {0}
    /\ REWARD_PERIOD \in Nat \ {0}
    /\ MaxFunding \in Nat /\ MaxEvents \in Nat

SLASH_PERCENT == 1000
CREDIT_PERCENT == 7000
BASIS_POINTS == 10000
PROTOCOL_FEE_PERCENT == 25
VALIDATOR_REWARD_PERCENT == 5

Reasons == {"SlowResponse", "MissedHeartbeat"}

VARIABLES
    mgrBalance,          \* address(this).balance of the manager
    nodeSlashHistory,    \* node -> sequence of recorded slashes
    lastSlashTime,
    slashCountByReason,
    totalSlashEvents,
    totalSlashedAmount,
    totalSlashAmountByNode,
    lastRewardClaim,
    rewardPaused,
    rewardHistoryCount,
    \* history: ether received from Escrow per node, paid out and sent in,
    \* and reward periods paid per node
    taken, credited, feesPaid, rewardsPaid, withdrawn, funded, periodsPaid

records == <<nodeSlashHistory, lastSlashTime, slashCountByReason, totalSlashEvents,
             totalSlashedAmount, totalSlashAmountByNode>>
rewards == <<lastRewardClaim, rewardPaused, rewardHistoryCount, rewardsPaid, periodsPaid>>
mgrVars == <<mgrBalance, records, rewards, taken, credited, feesPaid, withdrawn, funded>>
smVars == <<escrowVars, mgrVars>>

SMInit ==
    /\ Init
    /\ mgrBalance = 0
    /\ nodeSlashHistory = [n \in Nodes |-> << >>]
    /\ lastSlashTime = [n \in Nodes |-> 0]
    /\ slashCountByReason = [r \in Reasons |-> 0]
    /\ totalSlashEvents = 0
    /\ totalSlashedAmount = 0
    /\ totalSlashAmountByNode = [n \in Nodes |-> 0]
    /\ lastRewardClaim = [n \in Nodes |-> 0]
    /\ rewardPaused = [n \in Nodes |-> FALSE]
    /\ rewardHistoryCount = [n \in Nodes |-> 0]
    /\ taken = [n \in Nodes |-> 0]
    /\ credited = 0 /\ feesPaid = 0 /\ withdrawn = 0 /\ funded = 0
    /\ rewardsPaid = [n \in Nodes |-> 0]
    /\ periodsPaid = [n \in Nodes |-> 0]

-----------------------------------------------------------------------------
CalculateSlash(jobValue) == (jobValue * SLASH_PERCENT) \div BASIS_POINTS

CalculateCredit(jobValue) == (CalculateSlash(jobValue) * CREDIT_PERCENT) \div BASIS_POINTS

ValidatorReward(slashAmount) == (slashAmount * VALIDATOR_REWARD_PERCENT) \div BASIS_POINTS

ProtocolFee(slashAmount) == (slashAmount * PROTOCOL_FEE_PERCENT) \div BASIS_POINTS

(* Mutants: the node's total is overwritten; the reason is not counted. *)
RecordOverwrites(n, amount, reason) ==
    /\ totalSlashEvents < MaxEvents
    /\ nodeSlashHistory' = [nodeSlashHistory EXCEPT ![n] = Append(@, amount)]
    /\ lastSlashTime' = [lastSlashTime EXCEPT ![n] = now]
    /\ slashCountByReason' = [slashCountByReason EXCEPT ![reason] = @ + 1]
    /\ totalSlashEvents' = totalSlashEvents + 1
    /\ totalSlashedAmount' = totalSlashedAmount + amount
    /\ totalSlashAmountByNode' = [totalSlashAmountByNode EXCEPT ![n] = amount]

RecordWithoutReason(n, amount, reason) ==
    /\ totalSlashEvents < MaxEvents
    /\ nodeSlashHistory' = [nodeSlashHistory EXCEPT ![n] = Append(@, amount)]
    /\ lastSlashTime' = [lastSlashTime EXCEPT ![n] = now]
    /\ totalSlashEvents' = totalSlashEvents + 1
    /\ totalSlashedAmount' = totalSlashedAmount + amount
    /\ totalSlashAmountByNode' = [totalSlashAmountByNode EXCEPT ![n] = @ + amount]
    /\ UNCHANGED slashCountByReason

RecordSlash(n, amount, reason) ==
    /\ totalSlashEvents < MaxEvents
    /\ nodeSlashHistory' = [nodeSlashHistory EXCEPT ![n] = Append(@, amount)]
    /\ lastSlashTime' = [lastSlashTime EXCEPT ![n] = now]
    /\ slashCountByReason' = [slashCountByReason EXCEPT ![reason] = @ + 1]
    /\ totalSlashEvents' = totalSlashEvents + 1
    /\ totalSlashedAmount' = totalSlashedAmount + amount
    /\ totalSlashAmountByNode' = [totalSlashAmountByNode EXCEPT ![n] = @ + amount]

(* Mutant: the shares are paid as if the whole nominal slash had arrived. *)
SlashAndCreditNominal(n, jobValue) ==
    LET slashAmount == CalculateSlash(jobValue)
        credit == CalculateCredit(jobValue)
        fees == ValidatorReward(slashAmount) + ProtocolFee(slashAmount)
    IN  /\ Slash(Manager, n, slashAmount)
        /\ mgrBalance' = mgrBalance + slashAmount - credit - fees
        /\ taken' = [taken EXCEPT ![n] = @ + ActualSlash(n, slashAmount)]
        /\ credited' = credited + credit
        /\ feesPaid' = feesPaid + fees
        /\ RecordSlash(n, slashAmount, "MissedHeartbeat")
        /\ UNCHANGED <<rewards, withdrawn, funded>>

(* The escrow caps the slash to the stake; credit, fees and record do not. *)
SlashAndCredit(n, jobValue) ==
    LET slashAmount == CalculateSlash(jobValue)
        credit == CalculateCredit(jobValue)
        fees == ValidatorReward(slashAmount) + ProtocolFee(slashAmount)
        received == ActualSlash(n, slashAmount)
    IN  /\ Slash(Manager, n, slashAmount)
        /\ mgrBalance + received >= credit + fees
        /\ mgrBalance' = mgrBalance + received - credit - fees
        /\ taken' = [taken EXCEPT ![n] = @ + received]
        /\ credited' = credited + credit
        /\ feesPaid' = feesPaid + fees
        /\ RecordSlash(n, slashAmount, "MissedHeartbeat")
        /\ UNCHANGED <<rewards, withdrawn, funded>>

SlashPartial(n, percentBps) ==
    LET amount == (stakeOf[n] * percentBps) \div BASIS_POINTS
    IN  /\ percentBps <= BASIS_POINTS
        /\ Slash(Manager, n, amount)
        /\ mgrBalance' = mgrBalance + amount
        /\ taken' = [taken EXCEPT ![n] = @ + amount]
        /\ RecordSlash(n, amount, "SlowResponse")
        /\ UNCHANGED <<rewards, credited, feesPaid, withdrawn, funded>>

(* Mutant: a started period counts as a whole one. *)
StartedPeriods(n) == (now - lastRewardClaim[n] + REWARD_PERIOD - 1) \div REWARD_PERIOD

RewardPeriods(n) == (now - lastRewardClaim[n]) \div REWARD_PERIOD

TimeWeightedReward(n) == (stakeOf[n] * 50 * RewardPeriods(n)) \div (BASIS_POINTS * 12)

ClaimReward(n) ==
    LET amount == TimeWeightedReward(n)
    IN  /\ ~rewardPaused[n]
        /\ amount > 0
        /\ mgrBalance >= amount
        /\ lastRewardClaim' = [lastRewardClaim EXCEPT ![n] = now]
        /\ rewardHistoryCount' = [rewardHistoryCount EXCEPT ![n] = @ + 1]
        /\ mgrBalance' = mgrBalance - amount
        /\ rewardsPaid' = [rewardsPaid EXCEPT ![n] = @ + amount]
        /\ periodsPaid' = [periodsPaid EXCEPT ![n] = @ + RewardPeriods(n)]
        /\ UNCHANGED <<escrowVars, records, rewardPaused, taken, credited, feesPaid,
                       withdrawn, funded>>

SetRewardPaused(n, b) ==
    /\ rewardPaused' = [rewardPaused EXCEPT ![n] = b]
    /\ UNCHANGED <<escrowVars, mgrBalance, records, lastRewardClaim, rewardHistoryCount,
                   rewardsPaid, periodsPaid, taken, credited, feesPaid, withdrawn, funded>>

EmergencyWithdrawRewards(amount) ==
    /\ mgrBalance >= amount
    /\ mgrBalance' = mgrBalance - amount
    /\ withdrawn' = withdrawn + amount
    /\ UNCHANGED <<escrowVars, records, rewards, taken, credited, feesPaid, funded>>

ManagerReceive(v) ==
    /\ funded + v <= MaxFunding
    /\ funded' = funded + v
    /\ mgrBalance' = mgrBalance + v
    /\ UNCHANGED <<escrowVars, records, rewards, taken, credited, feesPaid, withdrawn>>

ManagerCall ==
    \/ \E n \in Nodes, j \in JobValues : SlashAndCredit(n, j)
    \/ \E n \in Nodes, p \in Percents : SlashPartial(n, p)
    \/ \E n \in Nodes : ClaimReward(n)
    \/ \E n \in Nodes, b \in BOOLEAN : SetRewardPaused(n, b)
    \/ \E a \in Fundings : EmergencyWithdrawRewards(a)
    \/ \E v \in Fundings : ManagerReceive(v)

(* Another address authorized as slasher calls escrow.slash itself. *)
OtherSlash ==
    \E s \in Slashers \ {Manager}, n \in Nodes, a \in Amounts : Slash(s, n, a)

SMNext ==
    \/ ManagerCall
    \/ (EscrowCall \/ OtherSlash \/ Tick) /\ UNCHANGED mgrVars

SMSpec == SMInit /\ [][SMNext]_smVars

-----------------------------------------------------------------------------
(* Properties *)

(* The type of every manager variable. *)
SMTypeOK ==
    /\ TypeOK
    /\ mgrBalance \in Nat
    /\ nodeSlashHistory \in [Nodes -> Seq(Nat)]
    /\ lastSlashTime \in [Nodes -> Nat]
    /\ slashCountByReason \in [Reasons -> Nat]
    /\ totalSlashEvents \in Nat /\ totalSlashedAmount \in Nat
    /\ totalSlashAmountByNode \in [Nodes -> Nat]
    /\ lastRewardClaim \in [Nodes -> Nat]
    /\ rewardPaused \in [Nodes -> BOOLEAN]
    /\ rewardHistoryCount \in [Nodes -> Nat]
    /\ taken \in [Nodes -> Nat]
    /\ credited \in Nat /\ feesPaid \in Nat /\ withdrawn \in Nat /\ funded \in Nat
    /\ rewardsPaid \in [Nodes -> Nat] /\ periodsPaid \in [Nodes -> Nat]

(* The manager's record of a node never falls short of what the escrow really took  *)
(* from it at the manager's request, nor does the escrow's own slash total.          *)
RecordCoversTaken ==
    \A n \in Nodes : taken[n] <= totalSlashAmountByNode[n] /\ taken[n] <= slashed[n]

(* A reward period is paid at most once, however claims, pauses and stakes interleave. *)
PeriodPaidOnce ==
    \A n \in Nodes : periodsPaid[n] * REWARD_PERIOD <= lastRewardClaim[n]

(* The books of slashes agree: the per-node histories, their totals, the counter per   *)
(* reason and the two global totals (_recordSlash).                                    *)
HistorySum(n) == SumFunction(nodeSlashHistory[n])
SlashesRecorded ==
    /\ \A n \in Nodes : totalSlashAmountByNode[n] = HistorySum(n)
    /\ totalSlashedAmount = SumFunction(totalSlashAmountByNode)
    /\ totalSlashEvents = SumFunction(slashCountByReason)
    /\ totalSlashEvents = SumFunction([n \in Nodes |-> Len(nodeSlashHistory[n])])

(* And across both contracts no ether is created or lost: what nodes and donors sent   *)
(* in is in one of the two balances or went to a node, a client, a recipient or a      *)
(* withdrawal.                                                                         *)
EtherConserved ==
    balance + mgrBalance + SumFunction(paid) + credited + feesPaid + SumFunction(rewardsPaid)
          + withdrawn + drained + (SumFunction(slashed) - SumFunction(taken))
       = SumFunction(deposited) + donated + funded

SlashBooksBalance == SlashesRecorded /\ EtherConserved

(* The client's credit comes out of the slashed stake: over all slashes the client is *)
(* never paid more than CREDIT_PERCENT of what the escrow took.                       *)
CreditFromSlashed ==
    [][\A n \in Nodes : credited' # credited /\ taken'[n] # taken[n] =>
          (credited' - credited) * BASIS_POINTS <= (taken'[n] - taken[n]) * CREDIT_PERCENT]_smVars

(* The validator receives 5% and the protocol 2.5% of a slash. *)
FeeSharesAsDocumented ==
    [][\A n \in Nodes : feesPaid' # feesPaid /\ taken'[n] # taken[n] =>
          feesPaid' - feesPaid = ((taken'[n] - taken[n]) * 75) \div 1000]_smVars

=============================================================================
