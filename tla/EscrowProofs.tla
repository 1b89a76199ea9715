---------------------------- MODULE EscrowProofs ----------------------------
(***************************************************************************)
(* Proofs about Escrow.sol, alone and under SlashManager.sol, for every    *)
(* set of nodes, amounts, percentages, reward period and bounds.           *)
(*                                                                         *)
(* Part 1, Escrow: its types, its ledger, its list of stakers, its books   *)
(* and that it implements Custody.                                         *)
(*                                                                         *)
(* Part 2, SlashManager on top of it: what the manager records of a node   *)
(* covers what the escrow took, no reward period is paid twice, the        *)
(* ether of the two contracts adds up, and the escrow keeps its own        *)
(* promises although the manager slashes amounts that no caller of the     *)
(* escrow alone would choose.                                              *)
(***************************************************************************)
EXTENDS SlashManager, DataLemmas

-----------------------------------------------------------------------------
(* Part 1: Escrow. *)

(* The constructor establishes the type invariant. *)
LEMMA InitType == Init => TypeOK
  <1> SUFFICES ASSUME Init PROVE TypeOK
    OBVIOUS
  <1>1. stakes \in [Nodes -> StakeRecord]
    BY DEF Init, StakeRecord
  <1>2. BooksType
    BY <1>1 DEF Init, BooksType
  <1>3. MoneyType
    BY DEF Init, MoneyType
  <1>4. AdminType
    BY EscrowConstants DEF Init, AdminType
  <1> QED BY <1>2, <1>3, <1>4 DEF TypeOK

(* Writing the mirrored amount or the lock of one node keeps the type of _stakes. *)
LEMMA StakesUpdate ==
  ASSUME BooksType, NEW n \in Nodes, NEW a \in Nat, NEW t \in Nat
  PROVE  /\ [stakes EXCEPT ![n].amount = a] \in [Nodes -> StakeRecord]
         /\ [stakes EXCEPT ![n].locked = TRUE, ![n].unlockTime = t] \in [Nodes -> StakeRecord]
         /\ [stakes EXCEPT ![n].locked = FALSE, ![n].unlockTime = t] \in [Nodes -> StakeRecord]
         /\ [stakes EXCEPT ![n] = [amount |-> a, locked |-> FALSE, unlockTime |-> t]]
               \in [Nodes -> StakeRecord]
  <1>1. [stakes EXCEPT ![n].amount = a] \in [Nodes -> StakeRecord]
    BY DEF BooksType, StakeRecord
  <1>2. [stakes EXCEPT ![n].locked = TRUE, ![n].unlockTime = t] \in [Nodes -> StakeRecord]
    BY DEF BooksType, StakeRecord
  <1>3. [stakes EXCEPT ![n].locked = FALSE, ![n].unlockTime = t] \in [Nodes -> StakeRecord]
    BY DEF BooksType, StakeRecord
  <1>4. [stakes EXCEPT ![n] = [amount |-> a, locked |-> FALSE, unlockTime |-> t]]
           \in [Nodes -> StakeRecord]
    BY DEF BooksType, StakeRecord
  <1> QED BY <1>1, <1>2, <1>3, <1>4

LEMMA DebitType ==
  ASSUME BooksType, NEW n \in Nodes, NEW a \in Nat, a <= stakeOf[n], DebitStake(n, a)
  PROVE  /\ stakeOf' \in [Nodes -> Nat]
         /\ stakes' \in [Nodes -> StakeRecord]
         /\ totalStaked' \in Int
  <1>1. stakeOf[n] - a \in Nat /\ totalStaked - a \in Int
    BY DEF BooksType, DebitStake
  <1> DEFINE rest == stakeOf[n] - a
  <1>2. [stakes EXCEPT ![n].amount = rest] \in [Nodes -> StakeRecord]
    <2> HIDE DEF rest
    <2> QED BY <1>1, StakesUpdate DEF rest
  <1>3. stakeOf' \in [Nodes -> Nat]
    BY <1>1 DEF BooksType, DebitStake
  <1> QED BY <1>1, <1>2, <1>3 DEF DebitStake

LEMMA PayType ==
  ASSUME MoneyType, NEW n \in Nodes, NEW a \in Nat, PayNode(n, a)
  PROVE  balance' \in Nat /\ paid' \in [Nodes -> Nat]
  BY DEF MoneyType, PayNode

(* A variable group no action of the step writes keeps its type. *)
LEMMA UnchangedType ==
  /\ BooksType /\ UNCHANGED books => BooksType'
  /\ MoneyType /\ UNCHANGED money => MoneyType'
  /\ AdminType /\ UNCHANGED <<admin, now, requestedAt>> => AdminType'
  <1>1. BooksType /\ UNCHANGED books => BooksType'
    BY DEF books, BooksType
  <1>2. MoneyType /\ UNCHANGED money => MoneyType'
    BY DEF money, MoneyType
  <1>3. AdminType /\ UNCHANGED <<admin, now, requestedAt>> => AdminType'
    BY DEF admin, AdminType
  <1> QED BY <1>1, <1>2, <1>3

(* A slash of any natural amount, by whoever the slasher is, keeps every type: the *)
(* cap keeps the stake from going below zero.                                      *)
LEMMA SlashType ==
  ASSUME BooksType, MoneyType, AdminType, NEW s, NEW n \in Nodes, NEW a \in Nat, Slash(s, n, a)
  PROVE  BooksType' /\ MoneyType' /\ AdminType'
  <1>1. ActualSlash(n, a) \in Nat /\ ActualSlash(n, a) <= stakeOf[n]
    BY DEF ActualSlash, BooksType
  <1>2. BooksType'
    BY <1>1, DebitType DEF Slash, BooksType
  <1>3. MoneyType'
    BY <1>1 DEF Slash, MoneyType
  <1> QED BY <1>2, <1>3, UnchangedType DEF Slash

(* A step of the contract, the slasher or the clock keeps every type. *)
LEMMA NextType == TypeOK /\ [Next]_escrowVars => TypeOK'
  <1> SUFFICES ASSUME BooksType, MoneyType, AdminType, [Next]_escrowVars
               PROVE  BooksType' /\ MoneyType' /\ AdminType'
    BY DEF TypeOK
  <1> DEFINE Goal == BooksType' /\ MoneyType' /\ AdminType'
  <1> USE EscrowConstants, UnchangedType
  <1>1. ASSUME NEW n \in Nodes, NEW v \in Amounts, Stake(n, v) PROVE Goal
    <2>1. v \in Nat
      OBVIOUS
    <2>2. /\ stakeOf' \in [Nodes -> Nat] /\ deposited' \in [Nodes -> Nat]
          /\ totalStaked' \in Int /\ balance' \in Nat
      <3>1. stakeOf' \in [Nodes -> Nat]
        BY <1>1, <2>1 DEF Stake, BooksType
      <3>2. deposited' \in [Nodes -> Nat]
        BY <1>1, <2>1 DEF Stake, BooksType
      <3>3. totalStaked' \in Int /\ balance' \in Nat
        BY <1>1, <2>1 DEF Stake, BooksType, MoneyType
      <3> QED BY <3>1, <3>2, <3>3
    <2>3. stakes' \in [Nodes -> StakeRecord]
      <3>1. stakeOf[n] + v \in Nat
        BY <2>1 DEF BooksType
      <3> QED BY <1>1, <3>1, StakesUpdate DEF Stake
    <2>4. staked' \in [Nodes -> BOOLEAN]
      BY <1>1 DEF Stake, ListStaker, BooksType
    <2>5. stakerList' \in Seq(Nodes) /\ stakeIndex' \in [Nodes -> Nat]
      <3>1. CASE staked[n]
        BY <1>1, <3>1 DEF Stake, ListStaker, BooksType
      <3>2. CASE ~staked[n]
        <4>1. /\ stakerList' = Append(stakerList, n)
              /\ stakeIndex' = [stakeIndex EXCEPT ![n] = Len(stakerList)]
          BY <1>1, <3>2 DEF Stake, ListStaker
        <4>2. stakerList \in Seq(Nodes) /\ stakeIndex \in [Nodes -> Nat]
          BY DEF BooksType
        <4> QED BY <4>1, <4>2
      <3> QED BY <3>1, <3>2
    <2>6. BooksType'
      BY <1>1, <2>2, <2>3, <2>4, <2>5 DEF Stake, BooksType
    <2>7. MoneyType'
      BY <1>1, <2>2 DEF Stake, MoneyType
    <2> QED BY <1>1, <2>6, <2>7 DEF Stake
  <1>2. ASSUME NEW n \in Nodes, NEW v \in Amounts, Withdraw(n, v) PROVE Goal
    <2>1. BooksType'
      <3>1. v \in Nat /\ v <= stakeOf[n] /\ DebitStake(n, v)
        BY <1>2 DEF Withdraw, BooksType
      <3> QED BY <1>2, <3>1, DebitType DEF Withdraw, BooksType
    <2>2. MoneyType'
      BY <1>2, PayType DEF Withdraw, MoneyType
    <2> QED BY <1>2, <2>1, <2>2 DEF Withdraw
  <1>3. ASSUME NEW n \in Nodes, NEW v \in Amounts, RequestWithdrawal(n, v) PROVE Goal
    <2>1. pendingWithdrawals' \in [Nodes -> Nat]
      BY <1>3 DEF RequestWithdrawal, BooksType
    <2>2. BooksType'
      <3>1. v \in Nat /\ v <= stakeOf[n] /\ DebitStake(n, v)
        BY <1>3 DEF RequestWithdrawal, BooksType
      <3> QED BY <1>3, <2>1, <3>1, DebitType DEF RequestWithdrawal, BooksType
    <2>3. AdminType'
      BY <1>3 DEF RequestWithdrawal, AdminType, admin
    <2> QED BY <1>3, <2>2, <2>3 DEF RequestWithdrawal
  <1>4. ASSUME NEW n \in Nodes, ClaimWithdrawal(n) PROVE Goal
    <2>1. BooksType'
      BY <1>4 DEF ClaimWithdrawal, BooksType
    <2>2. MoneyType'
      BY <1>4, PayType DEF ClaimWithdrawal, MoneyType, BooksType
    <2> QED BY <1>4, <2>1, <2>2 DEF ClaimWithdrawal
  <1>5. ASSUME NEW n \in Nodes, NEW ids \in 0..2, BulkWithdraw(n, ids) PROVE Goal
    <2>1. BooksType'
      BY <1>5 DEF BulkWithdraw, BooksType
    <2>2. MoneyType'
      BY <1>5, PayType DEF BulkWithdraw, MoneyType, BooksType
    <2> QED BY <1>5, <2>1, <2>2 DEF BulkWithdraw
  <1>6. ASSUME NEW s \in Slashers, NEW n \in Nodes, NEW a \in Amounts, Slash(s, n, a)
        PROVE Goal
    BY <1>6, SlashType
  <1>7. ASSUME NEW v \in Amounts, Receive(v) PROVE Goal
    <2>1. MoneyType'
      BY <1>7 DEF Receive, MoneyType
    <2> QED BY <1>7, <2>1 DEF Receive
  <1>8. CASE OwnerCall
    <2>1. ASSUME NEW n \in Nodes, NEW d \in Durations, LockStake(n, d) PROVE Goal
      <3>1. now + d \in Nat
        BY DEF AdminType
      <3>2. stakes' \in [Nodes -> StakeRecord]
        BY <2>1, <3>1, StakesUpdate DEF LockStake
      <3>3. BooksType'
        BY <2>1, <3>2 DEF LockStake, BooksType
      <3> QED BY <2>1, <3>3 DEF LockStake
    <2>2. ASSUME NEW n \in Nodes, UnlockStake(n) PROVE Goal
      <3>1. stakes' \in [Nodes -> StakeRecord]
        BY <2>2, StakesUpdate DEF UnlockStake
      <3>2. BooksType'
        BY <2>2, <3>1 DEF UnlockStake, BooksType
      <3> QED BY <2>2, <3>2 DEF UnlockStake
    <2>3. ASSUME NEW s \in Slashers, AuthorizeSlasher(s) PROVE Goal
      BY <2>3 DEF AuthorizeSlasher, AdminType
    <2>4. CASE EmergencyWithdraw
      <3>1. MoneyType'
        BY <2>4 DEF EmergencyWithdraw, MoneyType
      <3> QED BY <2>4, <3>1 DEF EmergencyWithdraw
    <2>5. CASE PauseStake \/ UnpauseStake
      BY <2>5 DEF PauseStake, UnpauseStake, AdminType
    <2>6. ASSUME NEW d \in Durations, SetStakeLockDuration(d) PROVE Goal
      BY <2>6 DEF SetStakeLockDuration, AdminType
    <2>7. ASSUME NEW m \in MaxStakes, SetMaximumStakeAmount(m) PROVE Goal
      BY <2>7 DEF SetMaximumStakeAmount, AdminType
    <2>8. CASE RenounceOwnership
      BY <2>8 DEF RenounceOwnership, AdminType
    <2> QED BY <1>8, <2>1, <2>2, <2>3, <2>4, <2>5, <2>6, <2>7, <2>8 DEF OwnerCall
  <1>9. CASE Tick
    <2>1. AdminType'
      BY <1>9 DEF Tick, AdminType, admin
    <2> QED BY <1>9, <2>1 DEF Tick
  <1>10. CASE UNCHANGED escrowVars
    BY <1>10 DEF escrowVars
  <1> QED
    BY <1>1, <1>2, <1>3, <1>4, <1>5, <1>6, <1>7, <1>8, <1>9, <1>10
       DEF Next, EscrowCall, NodeCall

(* Amounts stay naturals under every sequence of calls: no subtraction of the *)
(* contract goes below zero.                                                  *)
THEOREM TypeCorrect == Spec => []TypeOK
  BY InitType, NextType, PTL DEF Spec

-----------------------------------------------------------------------------
(* The deposit ledger, the mirror and the rule on small stakes read only the  *)
(* variables below; a step that leaves them alone keeps all three.            *)
ledger == <<stakeOf, stakes, pendingWithdrawals, deposited, paid, slashed>>

LedgerInv == DepositConserved /\ StakeMirror /\ DustOnlyBySlash

(* A debit moves `a' out of stakeOf[n] and its mirror and touches no other node. *)
LEMMA DebitEffect ==
  ASSUME BooksType, StakeMirror, NEW n \in Nodes, NEW a \in Nat, DebitStake(n, a)
  PROVE  /\ \A m \in Nodes : stakeOf'[m] = IF m = n THEN stakeOf[n] - a ELSE stakeOf[m]
         /\ StakeMirror'
  <1>1. \A m \in Nodes : stakeOf'[m] = IF m = n THEN stakeOf[n] - a ELSE stakeOf[m]
    BY DEF BooksType, DebitStake
  <1>2. \A m \in Nodes : stakes'[m].amount = IF m = n THEN stakeOf[n] - a ELSE stakes[m].amount
    BY DEF BooksType, StakeRecord, DebitStake
  <1>3. StakeMirror'
    BY <1>1, <1>2 DEF StakeMirror
  <1> QED BY <1>1, <1>3

(* A slash moves what the stake covers to the slashed amount, and nothing else. *)
LEMMA SlashLedger ==
  ASSUME BooksType, MoneyType, LedgerInv, NEW s, NEW n \in Nodes, NEW a \in Nat, Slash(s, n, a)
  PROVE  LedgerInv'
  <1>a. DepositConserved /\ StakeMirror /\ DustOnlyBySlash
    BY DEF LedgerInv
  <1>b. \A m \in Nodes : /\ stakeOf[m] \in Nat /\ pendingWithdrawals[m] \in Nat /\ paid[m] \in Nat
                          /\ slashed[m] \in Nat /\ deposited[m] \in Nat
    BY DEF BooksType, MoneyType
  <1> DEFINE cut == ActualSlash(n, a)
  <1>1. /\ cut \in Nat /\ DebitStake(n, cut) /\ stakeOf[n] >= cut
        /\ (cut = 0 => stakeOf[n] = 0 \/ a = 0)
    BY DEF ActualSlash, BooksType, Slash
  <1>2. /\ \A m \in Nodes : slashed'[m] = IF m = n THEN slashed[n] + cut ELSE slashed[m]
        /\ pendingWithdrawals' = pendingWithdrawals /\ deposited' = deposited
        /\ paid' = paid
    BY DEF Slash, MoneyType
  <1> HIDE DEF cut
  <1>3. /\ \A m \in Nodes : stakeOf'[m] = IF m = n THEN stakeOf[n] - cut ELSE stakeOf[m]
        /\ StakeMirror'
    BY <1>a, <1>1, DebitEffect
  <1>4. DepositConserved'
    BY <1>a, <1>b, <1>1, <1>2, <1>3 DEF DepositConserved
  <1>5. DustOnlyBySlash'
    BY <1>a, <1>b, <1>1, <1>2, <1>3 DEF DustOnlyBySlash
  <1> QED BY <1>3, <1>4, <1>5 DEF LedgerInv

(* Every step keeps the ledger: no call pays, moves or slashes a wei twice. *)
LEMMA NextLedger == TypeOK /\ LedgerInv /\ [Next]_escrowVars => LedgerInv'
  <1> SUFFICES ASSUME BooksType, MoneyType, AdminType, LedgerInv, [Next]_escrowVars
               PROVE  LedgerInv'
    BY DEF TypeOK
  <1> USE EscrowConstants
  <1>0. DepositConserved /\ StakeMirror /\ DustOnlyBySlash
    BY DEF LedgerInv
  <1>t. \A m \in Nodes : /\ stakeOf[m] \in Nat /\ pendingWithdrawals[m] \in Nat /\ paid[m] \in Nat
                          /\ slashed[m] \in Nat /\ deposited[m] \in Nat
    BY DEF BooksType, MoneyType
  <1>1. ASSUME NEW n \in Nodes, NEW v \in Amounts, Stake(n, v) PROVE LedgerInv'
    <2>1. /\ \A m \in Nodes : stakeOf'[m] = IF m = n THEN stakeOf[n] + v ELSE stakeOf[m]
          /\ \A m \in Nodes : deposited'[m] = IF m = n THEN deposited[n] + v ELSE deposited[m]
          /\ pendingWithdrawals' = pendingWithdrawals /\ paid' = paid /\ slashed' = slashed
          /\ v \in Nat /\ v >= MIN_STAKE
      BY <1>1 DEF Stake, ValidStakeAmount, BooksType
    <2>2. \A m \in Nodes : stakes'[m].amount = IF m = n THEN stakeOf[n] + v ELSE stakes[m].amount
      BY <1>1 DEF Stake, BooksType, StakeRecord
    <2>3. StakeMirror'
      BY <1>0, <2>1, <2>2 DEF StakeMirror
    <2>4. DepositConserved'
      BY <1>0, <1>t, <2>1 DEF DepositConserved
    <2>5. DustOnlyBySlash'
      BY <1>0, <1>t, <2>1 DEF DustOnlyBySlash
    <2> QED BY <2>3, <2>4, <2>5 DEF LedgerInv
  <1>2. ASSUME NEW n \in Nodes, NEW v \in Amounts, Withdraw(n, v) PROVE LedgerInv'
    <2>1. /\ DebitStake(n, v) /\ v \in Nat /\ stakeOf[n] >= v
          /\ ValidRemainder(stakeOf[n] - v)
      BY <1>2 DEF Withdraw
    <2>2. /\ \A m \in Nodes : paid'[m] = IF m = n THEN paid[n] + v ELSE paid[m]
          /\ pendingWithdrawals' = pendingWithdrawals /\ deposited' = deposited
          /\ slashed' = slashed
      BY <1>2 DEF Withdraw, PayNode, MoneyType
    <2>3. /\ \A m \in Nodes : stakeOf'[m] = IF m = n THEN stakeOf[n] - v ELSE stakeOf[m]
          /\ StakeMirror'
      BY <1>0, <2>1, DebitEffect
    <2>4. DepositConserved'
      BY <1>0, <1>t, <2>1, <2>2, <2>3 DEF DepositConserved
    <2>5. DustOnlyBySlash'
      BY <1>0, <1>t, <2>1, <2>2, <2>3 DEF DustOnlyBySlash, ValidRemainder
    <2> QED BY <2>3, <2>4, <2>5 DEF LedgerInv
  <1>3. ASSUME NEW n \in Nodes, NEW v \in Amounts, RequestWithdrawal(n, v) PROVE LedgerInv'
    <2>1. /\ DebitStake(n, v) /\ v \in Nat /\ stakeOf[n] >= v
          /\ ValidRemainder(stakeOf[n] - v)
      BY <1>3 DEF RequestWithdrawal
    <2>2. /\ \A m \in Nodes : pendingWithdrawals'[m] =
                IF m = n THEN pendingWithdrawals[n] + v ELSE pendingWithdrawals[m]
          /\ paid' = paid /\ deposited' = deposited /\ slashed' = slashed
      BY <1>3 DEF RequestWithdrawal, money, BooksType
    <2>3. /\ \A m \in Nodes : stakeOf'[m] = IF m = n THEN stakeOf[n] - v ELSE stakeOf[m]
          /\ StakeMirror'
      BY <1>0, <2>1, DebitEffect
    <2>4. DepositConserved'
      BY <1>0, <1>t, <2>1, <2>2, <2>3 DEF DepositConserved
    <2>5. DustOnlyBySlash'
      BY <1>0, <1>t, <2>1, <2>2, <2>3 DEF DustOnlyBySlash, ValidRemainder
    <2> QED BY <2>3, <2>4, <2>5 DEF LedgerInv
  <1>4. ASSUME NEW n \in Nodes,
               \/ ClaimWithdrawal(n)
               \/ \E ids \in 0..2 : BulkWithdraw(n, ids)
        PROVE  LedgerInv'
    <2>1. /\ pendingWithdrawals' = [pendingWithdrawals EXCEPT ![n] = 0]
          /\ PayNode(n, pendingWithdrawals[n])
          /\ stakeOf' = stakeOf /\ stakes' = stakes
          /\ deposited' = deposited /\ slashed' = slashed
      BY <1>4 DEF ClaimWithdrawal, BulkWithdraw
    <2>2. /\ \A m \in Nodes : paid'[m] = IF m = n THEN paid[n] + pendingWithdrawals[n] ELSE paid[m]
          /\ \A m \in Nodes : pendingWithdrawals'[m] = IF m = n THEN 0 ELSE pendingWithdrawals[m]
      BY <2>1 DEF PayNode, MoneyType, BooksType
    <2>3. DepositConserved'
      BY <1>0, <1>t, <2>1, <2>2 DEF DepositConserved
    <2> QED BY <1>0, <2>1, <2>3 DEF LedgerInv, StakeMirror, DustOnlyBySlash
  <1>5. ASSUME NEW s \in Slashers, NEW n \in Nodes, NEW a \in Amounts, Slash(s, n, a)
        PROVE LedgerInv'
    BY <1>5, SlashLedger
  <1>6. ASSUME NEW n \in Nodes,
               \/ \E d \in Durations : LockStake(n, d)
               \/ UnlockStake(n)
        PROVE  LedgerInv'
    <2>1. /\ stakeOf' = stakeOf /\ pendingWithdrawals' = pendingWithdrawals
          /\ deposited' = deposited /\ paid' = paid /\ slashed' = slashed
      BY <1>6 DEF LockStake, UnlockStake, money
    <2>2. \A m \in Nodes : stakes'[m].amount = stakes[m].amount
      <3>1. CASE \E d \in Durations : LockStake(n, d)
        <4>1. PICK t : stakes' = [stakes EXCEPT ![n].locked = TRUE, ![n].unlockTime = t]
          BY <3>1 DEF LockStake
        <4>2. stakes \in [Nodes -> StakeRecord]
          BY DEF BooksType
        <4> QED BY <4>1, <4>2 DEF StakeRecord
      <3>2. CASE UnlockStake(n)
        BY <3>2 DEF UnlockStake, BooksType, StakeRecord
      <3> QED BY <1>6, <3>1, <3>2
    <2> QED BY <1>0, <2>1, <2>2 DEF LedgerInv, StakeMirror, DepositConserved, DustOnlyBySlash
  <1>7. ASSUME UNCHANGED ledger PROVE LedgerInv'
    BY <1>0, <1>7 DEF ledger, LedgerInv, StakeMirror, DepositConserved, DustOnlyBySlash
  <1>8. ASSUME \/ \E v \in Amounts : Receive(v)
               \/ \E s \in Slashers : AuthorizeSlasher(s)
               \/ EmergencyWithdraw \/ PauseStake \/ UnpauseStake \/ RenounceOwnership
               \/ \E d \in Durations : SetStakeLockDuration(d)
               \/ \E m \in MaxStakes : SetMaximumStakeAmount(m)
               \/ Tick
               \/ UNCHANGED escrowVars
        PROVE  UNCHANGED ledger
    BY <1>8 DEF ledger, escrowVars, books, money, Receive, AuthorizeSlasher, EmergencyWithdraw,
                PauseStake, UnpauseStake, RenounceOwnership, SetStakeLockDuration,
                SetMaximumStakeAmount, Tick
  <1> QED
    BY <1>1, <1>2, <1>3, <1>4, <1>5, <1>6, <1>7, <1>8 DEF Next, EscrowCall, NodeCall, OwnerCall

(* Every wei a node staked is still staked, pending, paid back or slashed, the two *)
(* copies of its stake agree, and only a slash leaves it below the minimum: for    *)
(* every set of nodes and every sequence of calls.                                 *)
THEOREM LedgerSafe == Spec => [](DepositConserved /\ StakeMirror /\ DustOnlyBySlash)
  <1>1. Init => LedgerInv
    BY EscrowConstants DEF Init, LedgerInv, DepositConserved, StakeMirror, DustOnlyBySlash
  <1>2. LedgerInv => DepositConserved /\ StakeMirror /\ DustOnlyBySlash
    BY DEF LedgerInv
  <1> QED BY <1>1, <1>2, NextLedger, TypeCorrect, PTL DEF Spec

-----------------------------------------------------------------------------
(* The enumeration of stakers, which getStakers and getStakeIndex read. *)
enumeration == <<staked, stakerList, stakeIndex>>

(* The clause of StakerListExact that ties the books to the enumeration. *)
UnlistedOwnsNothing == \A n \in Nodes : ~staked[n] => stakeOf[n] = 0 /\ pendingWithdrawals[n] = 0

(* A call that neither lists a node nor credits one that is not listed keeps it exact. *)
LEMMA ListKept ==
  ASSUME StakerListExact, UNCHANGED enumeration, UnlistedOwnsNothing'
  PROVE  StakerListExact'
  BY DEF StakerListExact, enumeration, UnlistedOwnsNothing

(* The first stake of a node appends it, and its index is that of the new last place. *)
LEMMA ListExtended ==
  ASSUME BooksType, StakerListExact, NEW n \in Nodes, ListStaker(n)
  PROVE  /\ \A m \in Nodes : staked'[m] = (staked[m] \/ m = n)
         /\ \A m \in Nodes : staked'[m] => /\ stakeIndex'[m] + 1 \in DOMAIN stakerList'
                                          /\ stakerList'[stakeIndex'[m] + 1] = m
         /\ \A i \in DOMAIN stakerList' : /\ staked'[stakerList'[i]]
                                          /\ stakeIndex'[stakerList'[i]] = i - 1
  <1>t. /\ staked \in [Nodes -> BOOLEAN] /\ stakerList \in Seq(Nodes)
        /\ stakeIndex \in [Nodes -> Nat]
    BY DEF BooksType
  <1>1. CASE staked[n]
    BY <1>t, <1>1 DEF ListStaker, StakerListExact
  <1>2. CASE ~staked[n]
    <2> DEFINE L == Len(stakerList)
    <2>1. /\ staked' = [staked EXCEPT ![n] = TRUE]
          /\ stakerList' = Append(stakerList, n)
          /\ stakeIndex' = [stakeIndex EXCEPT ![n] = L]
      BY <1>2 DEF ListStaker
    <2>2. /\ L \in Nat /\ DOMAIN stakerList = 1..L /\ DOMAIN stakerList' = 1..L + 1
          /\ \A i \in 1..L : stakerList'[i] = stakerList[i] /\ stakerList[i] \in Nodes
          /\ stakerList'[L + 1] = n
      BY <1>t, <2>1
    <2>3. \A i \in 1..L : stakerList[i] # n /\ staked[stakerList[i]]
                          /\ stakeIndex[stakerList[i]] = i - 1
      BY <1>2, <2>2 DEF StakerListExact
    <2>4. \A m \in Nodes : staked[m] => /\ m # n /\ stakeIndex[m] + 1 \in 1..L
                                       /\ stakerList[stakeIndex[m] + 1] = m
      BY <1>2, <2>2 DEF StakerListExact
    <2> HIDE DEF L
    <2>5. \A m \in Nodes : /\ staked'[m] = (staked[m] \/ m = n)
                          /\ stakeIndex'[m] = IF m = n THEN L ELSE stakeIndex[m]
      BY <1>t, <2>1
    <2>6. \A m \in Nodes : staked'[m] => /\ stakeIndex'[m] + 1 \in 1..L + 1
                                        /\ stakerList'[stakeIndex'[m] + 1] = m
      BY <1>t, <2>2, <2>4, <2>5
    <2>7. \A i \in 1..L + 1 : staked'[stakerList'[i]] /\ stakeIndex'[stakerList'[i]] = i - 1
      <3> SUFFICES ASSUME NEW i \in 1..L + 1
                   PROVE  staked'[stakerList'[i]] /\ stakeIndex'[stakerList'[i]] = i - 1
        OBVIOUS
      <3>1. CASE i = L + 1
        <4>1. stakerList'[i] = n /\ L = i - 1
          BY <2>2, <3>1
        <4>2. staked'[n] /\ stakeIndex'[n] = L
          BY <2>5
        <4> QED BY <4>1, <4>2
      <3>2. CASE i # L + 1
        <4>1. i \in 1..L
          BY <2>2, <3>2
        <4> QED BY <2>2, <2>3, <2>5, <4>1
      <3> QED BY <3>1, <3>2
    <2> QED BY <2>2, <2>5, <2>6, <2>7
  <1> QED BY <1>1, <1>2

LEMMA NextList == TypeOK /\ StakerListExact /\ [Next]_escrowVars => StakerListExact'
  <1> SUFFICES ASSUME BooksType, StakerListExact, [Next]_escrowVars PROVE StakerListExact'
    BY DEF TypeOK
  <1> USE EscrowConstants
  <1>t. /\ stakeOf \in [Nodes -> Nat] /\ pendingWithdrawals \in [Nodes -> Nat]
        /\ staked \in [Nodes -> BOOLEAN] /\ UnlistedOwnsNothing
    BY DEF BooksType, StakerListExact, UnlistedOwnsNothing
  <1>1. ASSUME NEW n \in Nodes, NEW v \in Amounts, Stake(n, v) PROVE StakerListExact'
    <2>1. /\ ListStaker(n) /\ pendingWithdrawals' = pendingWithdrawals
          /\ \A m \in Nodes : m # n => stakeOf'[m] = stakeOf[m]
      BY <1>1, <1>t DEF Stake
    <2>2. UnlistedOwnsNothing'
      BY <1>t, <2>1, ListExtended DEF UnlistedOwnsNothing
    <2> QED BY <2>1, <2>2, ListExtended DEF StakerListExact, UnlistedOwnsNothing
  <1>2. ASSUME NEW n \in Nodes, NEW a, DebitStake(n, a), HasStaked(n), UNCHANGED enumeration,
               \A m \in Nodes : m # n => pendingWithdrawals'[m] = pendingWithdrawals[m]
        PROVE  StakerListExact'
    <2>1. UnlistedOwnsNothing'
      BY <1>2, <1>t DEF DebitStake, HasStaked, enumeration, UnlistedOwnsNothing
    <2> QED BY <1>2, <2>1, ListKept
  <1>3. ASSUME NEW n \in Nodes, NEW v \in Amounts, Withdraw(n, v) \/ RequestWithdrawal(n, v)
        PROVE  StakerListExact'
    <2>1. \A m \in Nodes : m # n => pendingWithdrawals'[m] = pendingWithdrawals[m]
      BY <1>3, <1>t DEF Withdraw, RequestWithdrawal
    <2>2. DebitStake(n, v) /\ HasStaked(n) /\ UNCHANGED enumeration
      BY <1>3 DEF Withdraw, RequestWithdrawal, enumeration
    <2> QED BY <1>2, <2>1, <2>2
  <1>4. ASSUME NEW s \in Slashers, NEW n \in Nodes, NEW a \in Amounts, Slash(s, n, a)
        PROVE  StakerListExact'
    <2>1. DebitStake(n, ActualSlash(n, a)) /\ HasStaked(n) /\ UNCHANGED enumeration
          /\ pendingWithdrawals' = pendingWithdrawals
      BY <1>4 DEF Slash, enumeration
    <2> QED BY <1>2, <2>1
  <1>5. ASSUME NEW n \in Nodes, ClaimWithdrawal(n) \/ \E ids \in 0..2 : BulkWithdraw(n, ids)
        PROVE  StakerListExact'
    <2>1. /\ pendingWithdrawals' = [pendingWithdrawals EXCEPT ![n] = 0]
          /\ stakeOf' = stakeOf /\ UNCHANGED enumeration
      BY <1>5 DEF ClaimWithdrawal, BulkWithdraw, enumeration
    <2>2. UnlistedOwnsNothing'
      BY <1>t, <2>1 DEF enumeration, UnlistedOwnsNothing
    <2> QED BY <2>1, <2>2, ListKept
  <1>6. ASSUME \/ \E v \in Amounts : Receive(v)
               \/ OwnerCall \/ Tick
               \/ UNCHANGED escrowVars
        PROVE  StakerListExact'
    <2>1. UNCHANGED <<enumeration, stakeOf, pendingWithdrawals>>
      BY <1>6 DEF enumeration, escrowVars, books, money, Receive, OwnerCall, LockStake, UnlockStake,
                  AuthorizeSlasher, EmergencyWithdraw, PauseStake, UnpauseStake, RenounceOwnership,
                  SetStakeLockDuration, SetMaximumStakeAmount, Tick
    <2>2. UnlistedOwnsNothing'
      BY <1>t, <2>1 DEF enumeration, UnlistedOwnsNothing
    <2> QED BY <2>1, <2>2, ListKept
  <1> QED BY <1>1, <1>3, <1>4, <1>5, <1>6 DEF Next, EscrowCall, NodeCall

(* getStakers, getStakeIndex: whatever is staked, withdrawn and slashed, the list has *)
(* each node that ever staked once and at its index, and no other node owns anything. *)
THEOREM StakersListed == Spec => []StakerListExact
  <1>1. Init => StakerListExact
    BY DEF Init, StakerListExact
  <1> QED BY <1>1, NextList, TypeCorrect, PTL DEF Spec

-----------------------------------------------------------------------------
(* The pause. *)

(* What a paused contract leaves a node: only a slash moves anything, and only from *)
(* the stake to the slashed amount.                                                 *)
FreezesNodes ==
    paused => \A n \in Nodes :
        /\ paid'[n] = paid[n]
        /\ pendingWithdrawals'[n] = pendingWithdrawals[n]
        /\ stakeOf'[n] + slashed'[n] = stakeOf[n] + slashed[n]

LEMMA NextFreezes == TypeOK /\ [Next]_escrowVars => FreezesNodes
  <1> SUFFICES ASSUME BooksType, MoneyType, [Next]_escrowVars, paused PROVE FreezesNodes
    BY DEF TypeOK, FreezesNodes
  <1> USE EscrowConstants
  <1>1. ASSUME NEW n \in Nodes, NodeCall(n) PROVE FALSE
    BY <1>1 DEF NodeCall, Stake, Withdraw, RequestWithdrawal, ClaimWithdrawal, BulkWithdraw
  <1>2. ASSUME NEW s \in Slashers, NEW n \in Nodes, NEW a \in Amounts, Slash(s, n, a)
        PROVE  FreezesNodes
    <2> DEFINE cut == ActualSlash(n, a)
    <2>1. cut \in Nat
      BY DEF ActualSlash, BooksType
    <2>2. /\ stakeOf' = [stakeOf EXCEPT ![n] = @ - cut] /\ slashed' = [slashed EXCEPT ![n] = @ + cut]
          /\ paid' = paid /\ pendingWithdrawals' = pendingWithdrawals
      BY <1>2 DEF Slash, DebitStake
    <2>3. stakeOf \in [Nodes -> Nat] /\ slashed \in [Nodes -> Nat]
      BY DEF BooksType, MoneyType
    <2> HIDE DEF cut
    <2> QED BY <2>1, <2>2, <2>3 DEF FreezesNodes
  <1>3. ASSUME \/ \E v \in Amounts : Receive(v)
               \/ OwnerCall \/ Tick
               \/ UNCHANGED escrowVars
        PROVE  FreezesNodes
    <2>1. UNCHANGED <<stakeOf, pendingWithdrawals, paid, slashed>>
      BY <1>3 DEF escrowVars, books, money, Receive, OwnerCall, LockStake, UnlockStake,
                  AuthorizeSlasher, EmergencyWithdraw, PauseStake, UnpauseStake, RenounceOwnership,
                  SetStakeLockDuration, SetMaximumStakeAmount, Tick
    <2> QED BY <2>1 DEF FreezesNodes
  <1> QED BY <1>1, <1>2, <1>3 DEF Next, EscrowCall

(* whenNotPaused: while the contract is paused no call of anybody pays a node, moves *)
(* its stake to the pending amount, or takes from it more than it counts as slashed. *)
THEOREM PauseFreezes == Spec => PauseFreezesNodes
  <1>1. TypeOK /\ [Next]_escrowVars => [FreezesNodes]_escrowVars
    BY NextFreezes
  <1> QED BY <1>1, TypeCorrect, PTL DEF Spec, PauseFreezesNodes, FreezesNodes

-----------------------------------------------------------------------------
(* The sums over all nodes: _totalStaked, and the ether of the contract. *)
BooksInv == TotalIsSum /\ EtherAccounted

(* A call that changes what is staked and pending of one node, the total and the ether *)
(* by amounts that match.                                                              *)
LEMMA OneNodeBalances ==
  ASSUME TypeOK, TypeOK', BooksInv, NEW n \in Nodes, NEW a \in Int, NEW p \in Int,
         \A m \in Nodes \ {n} : stakeOf'[m] = stakeOf[m] /\ pendingWithdrawals'[m] = pendingWithdrawals[m],
         stakeOf'[n] = stakeOf[n] + a, totalStaked' = totalStaked + a,
         pendingWithdrawals'[n] = pendingWithdrawals[n] + p,
         balance' = balance + a + p, UNCHANGED <<donated, drained>>
  PROVE  BooksInv'
  <1>1. /\ IsFiniteSet(Nodes)
        /\ stakeOf \in [Nodes -> Int] /\ stakeOf' \in [Nodes -> Int]
        /\ pendingWithdrawals \in [Nodes -> Int] /\ pendingWithdrawals' \in [Nodes -> Int]
        /\ totalStaked \in Int /\ balance \in Int /\ drained \in Int /\ donated \in Int
    BY EscrowConstants DEF TypeOK, BooksType, MoneyType
  <1>2. SumFunction(stakeOf) \in Int /\ SumFunction(stakeOf') = SumFunction(stakeOf) + stakeOf'[n] - stakeOf[n]
    BY <1>1, SumUpdates
  <1>3. /\ SumFunction(pendingWithdrawals) \in Int
        /\ SumFunction(pendingWithdrawals')
             = SumFunction(pendingWithdrawals) + pendingWithdrawals'[n] - pendingWithdrawals[n]
    BY <1>1, SumUpdates
  <1>4. stakeOf[n] \in Int /\ pendingWithdrawals[n] \in Int
    BY <1>1
  <1>5. TotalIsSum'
    BY <1>2, <1>4 DEF BooksInv, TotalIsSum
  <1>6. EtherAccounted'
    BY <1>1, <1>3, <1>4 DEF BooksInv, EtherAccounted
  <1> QED BY <1>5, <1>6 DEF BooksInv

(* A slash takes what it takes out of the total and out of the ether held. *)
LEMMA SlashBalances ==
  ASSUME TypeOK, BooksInv, NEW s, NEW n \in Nodes, NEW a \in Nat, Slash(s, n, a)
  PROVE  BooksInv'
  <1>1. BooksType /\ MoneyType /\ AdminType
    BY DEF TypeOK
  <1>2. TypeOK'
    BY <1>1, SlashType DEF TypeOK
  <1> DEFINE cut == ActualSlash(n, a)
  <1>3. cut \in Nat /\ DebitStake(n, cut)
    BY <1>1 DEF ActualSlash, BooksType, Slash
  <1>4. /\ pendingWithdrawals' = pendingWithdrawals /\ UNCHANGED <<donated, drained>>
        /\ balance' = balance - cut
    BY DEF Slash
  <1> HIDE DEF cut
  <1>5. /\ stakeOf'[n] = stakeOf[n] - cut /\ totalStaked' = totalStaked - cut
        /\ \A m \in Nodes \ {n} : stakeOf'[m] = stakeOf[m]
    BY <1>1, <1>3 DEF DebitStake, BooksType
  <1>6. /\ -cut \in Int /\ 0 \in Int
        /\ stakeOf'[n] = stakeOf[n] + (-cut) /\ totalStaked' = totalStaked + (-cut)
        /\ pendingWithdrawals'[n] = pendingWithdrawals[n] + 0
        /\ balance' = balance + (-cut) + 0
    BY <1>1, <1>3, <1>4, <1>5 DEF BooksType, MoneyType
  <1> QED BY <1>2, <1>4, <1>5, <1>6, OneNodeBalances

LEMMA NextBooks == TypeOK /\ BooksInv /\ [Next]_escrowVars => BooksInv'
  <1> SUFFICES ASSUME TypeOK, BooksInv, [Next]_escrowVars PROVE BooksInv'
    OBVIOUS
  <1>1. TypeOK' /\ BooksType /\ MoneyType
    BY NextType DEF TypeOK
  <1>2. ASSUME NEW n \in Nodes, NEW v \in Amounts, Stake(n, v) PROVE BooksInv'
    <2>1. v \in Nat
      BY EscrowConstants
    <2>2. /\ pendingWithdrawals' = pendingWithdrawals /\ UNCHANGED <<donated, drained>>
          /\ stakeOf'[n] = stakeOf[n] + v /\ totalStaked' = totalStaked + v
          /\ \A m \in Nodes \ {n} : stakeOf'[m] = stakeOf[m]
      BY <1>1, <1>2 DEF Stake, BooksType
    <2>3. /\ v \in Int /\ 0 \in Int /\ pendingWithdrawals'[n] = pendingWithdrawals[n] + 0
          /\ balance' = balance + v + 0
      BY <1>1, <1>2, <2>1, <2>2 DEF Stake, BooksType, MoneyType
    <2> QED BY <1>1, <2>2, <2>3, OneNodeBalances
  <1>3. ASSUME NEW n \in Nodes, NEW v \in Amounts, Withdraw(n, v) PROVE BooksInv'
    <2>1. v \in Nat
      BY EscrowConstants
    <2>2. /\ pendingWithdrawals' = pendingWithdrawals /\ UNCHANGED <<donated, drained>>
          /\ stakeOf'[n] = stakeOf[n] - v /\ totalStaked' = totalStaked - v
          /\ \A m \in Nodes \ {n} : stakeOf'[m] = stakeOf[m]
      BY <1>1, <1>3 DEF Withdraw, DebitStake, BooksType
    <2>3. /\ -v \in Int /\ 0 \in Int /\ pendingWithdrawals'[n] = pendingWithdrawals[n] + 0
          /\ stakeOf'[n] = stakeOf[n] + (-v) /\ totalStaked' = totalStaked + (-v)
          /\ balance' = balance + (-v) + 0
      BY <1>1, <1>3, <2>1, <2>2 DEF Withdraw, PayNode, BooksType, MoneyType
    <2> QED BY <1>1, <2>2, <2>3, OneNodeBalances
  <1>4. ASSUME NEW n \in Nodes, NEW v \in Amounts, RequestWithdrawal(n, v) PROVE BooksInv'
    <2>1. v \in Nat
      BY EscrowConstants
    <2>2. /\ balance' = balance /\ UNCHANGED <<donated, drained>>
          /\ stakeOf'[n] = stakeOf[n] - v /\ totalStaked' = totalStaked - v
          /\ pendingWithdrawals'[n] = pendingWithdrawals[n] + v
          /\ \A m \in Nodes \ {n} : stakeOf'[m] = stakeOf[m] /\ pendingWithdrawals'[m] = pendingWithdrawals[m]
      BY <1>1, <1>4 DEF RequestWithdrawal, DebitStake, BooksType, money
    <2>3. /\ -v \in Int /\ v \in Int
          /\ stakeOf'[n] = stakeOf[n] + (-v) /\ totalStaked' = totalStaked + (-v)
          /\ balance' = balance + (-v) + v
      BY <1>1, <2>1, <2>2 DEF BooksType, MoneyType
    <2> QED BY <1>1, <2>2, <2>3, OneNodeBalances
  <1>5. ASSUME NEW n \in Nodes,
               \/ ClaimWithdrawal(n)
               \/ \E ids \in 0..2 : BulkWithdraw(n, ids)
        PROVE  BooksInv'
    <2> DEFINE w == pendingWithdrawals[n]
    <2>1. /\ PayNode(n, w) /\ pendingWithdrawals' = [pendingWithdrawals EXCEPT ![n] = 0]
          /\ stakeOf' = stakeOf /\ totalStaked' = totalStaked /\ UNCHANGED <<donated, drained>>
      BY <1>5 DEF ClaimWithdrawal, BulkWithdraw
    <2>2. /\ w \in Nat /\ pendingWithdrawals'[n] = 0
          /\ \A m \in Nodes \ {n} : pendingWithdrawals'[m] = pendingWithdrawals[m]
      BY <1>1, <2>1 DEF BooksType
    <2>3. /\ -w \in Int /\ 0 \in Int
          /\ stakeOf'[n] = stakeOf[n] + 0 /\ totalStaked' = totalStaked + 0
          /\ pendingWithdrawals'[n] = pendingWithdrawals[n] + (-w)
          /\ balance' = balance + 0 + (-w)
      BY <1>1, <2>1, <2>2 DEF PayNode, BooksType, MoneyType
    <2> HIDE DEF w
    <2> QED BY <1>1, <2>1, <2>2, <2>3, OneNodeBalances
  <1>6. ASSUME NEW s \in Slashers, NEW n \in Nodes, NEW a \in Amounts, Slash(s, n, a)
        PROVE BooksInv'
    BY <1>6, SlashBalances, EscrowConstants
  <1>7. ASSUME \/ UNCHANGED <<totalStaked, stakeOf, pendingWithdrawals>> /\ UNCHANGED money
               \/ EmergencyWithdraw
               \/ \E v \in Amounts : Receive(v)
        PROVE  BooksInv'
    <2>1. UNCHANGED <<totalStaked, stakeOf, pendingWithdrawals>>
      BY <1>7 DEF EmergencyWithdraw, Receive, books
    <2>2. PICK v \in Int : balance' + drained' = (balance + drained) + v /\ donated' = donated + v
      <3>1. CASE UNCHANGED money
        BY <1>1, <3>1 DEF money, MoneyType
      <3>2. CASE EmergencyWithdraw
        BY <1>1, <3>2 DEF EmergencyWithdraw, MoneyType
      <3>3. ASSUME NEW v \in Amounts, Receive(v)
            PROVE  balance' + drained' = (balance + drained) + v /\ donated' = donated + v /\ v \in Int
        BY <1>1, <3>3, EscrowConstants DEF Receive, MoneyType
      <3> QED BY <1>7, <3>1, <3>2, <3>3
    <2>3. totalStaked \in Int /\ donated \in Int
      BY <1>1 DEF BooksType, MoneyType
    <2>4. TotalIsSum'
      BY <2>1 DEF BooksInv, TotalIsSum
    <2> DEFINE P == SumFunction(pendingWithdrawals)
    <2>5. P \in Int
      <3>1. pendingWithdrawals \in [Nodes -> Int] /\ IsFiniteSet(Nodes)
        BY <1>1, EscrowConstants DEF BooksType
      <3> QED BY <3>1, SumIsInteger
    <2>6. balance + drained = totalStaked + P + donated
      BY DEF BooksInv, EtherAccounted
    <2>7. SumFunction(pendingWithdrawals') = P /\ totalStaked' = totalStaked
      BY <2>1
    <2> HIDE DEF P
    <2>8. totalStaked + P + (donated + v) = totalStaked + P + donated + v
      BY <2>3, <2>5
    <2>9. EtherAccounted'
      BY <2>2, <2>6, <2>7, <2>8 DEF EtherAccounted
    <2> QED BY <2>4, <2>9 DEF BooksInv
  <1>8. ASSUME \/ \E n \in Nodes, d \in Durations : LockStake(n, d)
               \/ \E n \in Nodes : UnlockStake(n)
               \/ \E s \in Slashers : AuthorizeSlasher(s)
               \/ PauseStake \/ UnpauseStake \/ RenounceOwnership
               \/ \E d \in Durations : SetStakeLockDuration(d)
               \/ \E m \in MaxStakes : SetMaximumStakeAmount(m)
               \/ Tick
               \/ UNCHANGED escrowVars
        PROVE  UNCHANGED <<totalStaked, stakeOf, pendingWithdrawals>> /\ UNCHANGED money
    BY <1>8 DEF escrowVars, books, LockStake, UnlockStake, AuthorizeSlasher, PauseStake, UnpauseStake,
                RenounceOwnership, SetStakeLockDuration, SetMaximumStakeAmount, Tick
  <1> QED
    BY <1>2, <1>3, <1>4, <1>5, <1>6, <1>7, <1>8 DEF Next, EscrowCall, NodeCall, OwnerCall

LEMMA InitBooks == Init => BooksInv
  <1> SUFFICES ASSUME Init PROVE BooksInv
    OBVIOUS
  <1>1. IsFiniteSet(Nodes) /\ stakeOf \in [Nodes -> Int] /\ pendingWithdrawals \in [Nodes -> Int]
    BY EscrowConstants DEF Init
  <1>2. (\A n \in Nodes : stakeOf[n] = 0) /\ \A n \in Nodes : pendingWithdrawals[n] = 0
    BY DEF Init
  <1>3. SumFunction(stakeOf) = 0 /\ SumFunction(pendingWithdrawals) = 0
    BY <1>1, <1>2, SumOfZeros
  <1> QED BY <1>3 DEF Init, BooksInv, TotalIsSum, EtherAccounted

(* _totalStaked is the sum of all stakes, and the ether held and drained is what is    *)
(* owed to nodes plus what was donated: for every set of nodes and sequence of calls.  *)
THEOREM BooksAlwaysBalance == Spec => []BooksBalance
  <1>1. TypeOK /\ BooksInv /\ [Next]_escrowVars => BooksInv'
    BY NextBooks
  <1>2. BooksInv /\ (DepositConserved /\ StakeMirror /\ DustOnlyBySlash) /\ StakerListExact => BooksBalance
    BY DEF BooksInv, BooksBalance
  <1> QED BY <1>1, <1>2, InitBooks, TypeCorrect, LedgerSafe, StakersListed, PTL DEF Spec

-----------------------------------------------------------------------------
(* The refinement.  What a call of node n does to the abstract accounts. *)

LEMMA OwedUpdate ==
  ASSUME NEW n \in Nodes, NEW x,
         \A m \in Nodes : stakeOf'[m] + pendingWithdrawals'[m]
                            = IF m = n THEN x ELSE stakeOf[m] + pendingWithdrawals[m]
  PROVE  owedTo' = [owedTo EXCEPT ![n] = x]
  BY DEF owedTo

(* A debit that pays what it takes, or that moves it to the pending amount. *)
LEMMA DebitOwed ==
  ASSUME BooksType, NEW n \in Nodes, NEW a \in Nat, DebitStake(n, a)
  PROVE  /\ stakeOf' = [stakeOf EXCEPT ![n] = @ - a]
         /\ lockOf' = lockOf
         /\ UNCHANGED pendingWithdrawals => owedTo' = [owedTo EXCEPT ![n] = @ - a]
         /\ pendingWithdrawals' = [pendingWithdrawals EXCEPT ![n] = @ + a] => owedTo' = owedTo
  <1>1. \A m \in Nodes : stakes'[m].locked = stakes[m].locked
    BY DEF DebitStake, BooksType, StakeRecord
  <1>2. lockOf' = lockOf
    BY <1>1 DEF lockOf
  <1>3. ASSUME UNCHANGED pendingWithdrawals
        PROVE  owedTo' = [owedTo EXCEPT ![n] = @ - a]
    <2>1. owedTo[n] = stakeOf[n] + pendingWithdrawals[n]
      BY DEF owedTo
    <2>2. \A m \in Nodes : stakeOf'[m] + pendingWithdrawals'[m]
                            = IF m = n THEN owedTo[n] - a ELSE stakeOf[m] + pendingWithdrawals[m]
      BY <1>3, <2>1 DEF DebitStake, BooksType
    <2> QED BY <2>2, OwedUpdate
  <1>4. ASSUME pendingWithdrawals' = [pendingWithdrawals EXCEPT ![n] = @ + a]
        PROVE  owedTo' = owedTo
    <2>1. \A m \in Nodes : stakeOf'[m] + pendingWithdrawals'[m] = stakeOf[m] + pendingWithdrawals[m]
      BY <1>4 DEF DebitStake, BooksType
    <2> QED BY <2>1 DEF owedTo
  <1> QED BY <1>2, <1>3, <1>4 DEF DebitStake

LEMMA InitRefines == Init => Abstract!CustodyInit
  BY DEF Init, Abstract!CustodyInit, owedTo, lockOf

(* A slash of any amount is a penalty of what the stake covers. *)
LEMMA SlashRefines ==
  ASSUME BooksType, MoneyType, NEW s, NEW n \in Nodes, NEW a \in Nat, Slash(s, n, a)
  PROVE  Abstract!CustodyNext
  <1> DEFINE cut == ActualSlash(n, a)
  <1>t. stakeOf \in [Nodes -> Nat] /\ pendingWithdrawals \in [Nodes -> Nat] /\ balance \in Nat
    BY DEF BooksType, MoneyType
  <1>o. owedTo[n] = stakeOf[n] + pendingWithdrawals[n] /\ owedTo[n] \in Nat
    BY <1>t DEF owedTo
  <1>1. cut \in Nat /\ cut <= stakeOf[n] /\ cut <= owedTo[n]
    BY <1>t, <1>o DEF ActualSlash
  <1>2. /\ DebitStake(n, cut) /\ UNCHANGED pendingWithdrawals
        /\ balance >= cut /\ balance' = balance - cut /\ paid' = paid /\ paused' = paused
    BY DEF Slash, admin
  <1> HIDE DEF cut
  <1>3. lockOf' = lockOf /\ owedTo' = [owedTo EXCEPT ![n] = @ - cut]
    BY <1>1, <1>2, DebitOwed
  <1>4. Abstract!Penalise(n, cut)
    BY <1>t, <1>1, <1>2, <1>3 DEF Abstract!Penalise
  <1>5. cut \in 0..owedTo[n]
    BY <1>o, <1>1
  <1> QED BY <1>4, <1>5 DEF Abstract!CustodyNext

(* Every call of the contract is a step of Custody, or changes none of its variables. *)
LEMMA NextRefines == TypeOK /\ [Next]_escrowVars => [Abstract!CustodyNext]_(Abstract!custodyVars)
  <1> SUFFICES ASSUME BooksType, MoneyType, AdminType, [Next]_escrowVars
               PROVE  Abstract!CustodyNext \/ UNCHANGED Abstract!custodyVars
    BY DEF TypeOK
  <1> DEFINE Goal == Abstract!CustodyNext \/ UNCHANGED Abstract!custodyVars
  <1> USE EscrowConstants
  <1>t. /\ stakeOf \in [Nodes -> Nat] /\ pendingWithdrawals \in [Nodes -> Nat]
        /\ balance \in Nat /\ paid \in [Nodes -> Nat] /\ paused \in BOOLEAN
    BY DEF BooksType, MoneyType, AdminType
  <1>o. \A n \in Nodes : /\ owedTo[n] = stakeOf[n] + pendingWithdrawals[n] /\ owedTo[n] \in Nat
                         /\ lockOf[n] = stakes[n].locked
    BY <1>t DEF owedTo, lockOf
  <1>pay. ASSUME NEW n \in Nodes, NEW v \in Nat, v <= owedTo[n], Abstract!PayOut(n, v) PROVE Goal
    <2>1. v \in 0..owedTo[n]
      BY <1>pay, <1>o
    <2> QED BY <1>pay, <2>1 DEF Abstract!CustodyNext
  <1>1. ASSUME NEW n \in Nodes, NEW v \in Amounts, Stake(n, v) PROVE Goal
    <2>0. \A m \in Nodes : stakeOf'[m] + pendingWithdrawals'[m]
                            = IF m = n THEN owedTo[n] + v ELSE stakeOf[m] + pendingWithdrawals[m]
      <3>1. v \in Nat
        OBVIOUS
      <3>2. stakeOf' = [stakeOf EXCEPT ![n] = @ + v] /\ pendingWithdrawals' = pendingWithdrawals
        BY <1>1 DEF Stake
      <3> QED BY <1>t, <1>o, <3>1, <3>2
    <2>1. owedTo' = [owedTo EXCEPT ![n] = @ + v]
      BY <2>0, OwedUpdate
    <2>2. lockOf' = [lockOf EXCEPT ![n] = FALSE]
      BY <1>1 DEF Stake, lockOf, BooksType, StakeRecord
    <2>3. Abstract!HandIn(n, v)
      BY <1>1, <2>1, <2>2 DEF Stake, admin, Abstract!HandIn
    <2> QED BY <2>3 DEF Abstract!CustodyNext
  <1>2. ASSUME NEW n \in Nodes, NEW v \in Amounts, Withdraw(n, v) PROVE Goal
    <2>0. v \in Nat /\ stakeOf[n] >= v
      BY <1>2 DEF Withdraw
    <2>1. v \in Nat /\ v <= stakeOf[n] /\ v <= owedTo[n]
      BY <1>t, <1>o, <2>0
    <2>2. DebitStake(n, v) /\ UNCHANGED pendingWithdrawals
      BY <1>2 DEF Withdraw
    <2>3. lockOf' = lockOf /\ owedTo' = [owedTo EXCEPT ![n] = @ - v]
      BY <2>1, <2>2, DebitOwed
    <2>4. Abstract!PayOut(n, v)
      BY <1>2, <1>o, <2>1, <2>3 DEF Withdraw, PayNode, admin, Abstract!PayOut
    <2> QED BY <1>pay, <2>1, <2>4
  <1>3. ASSUME NEW n \in Nodes, NEW v \in Amounts, RequestWithdrawal(n, v) PROVE Goal
    <2>1. v \in Nat
      OBVIOUS
    <2>2. DebitStake(n, v) /\ pendingWithdrawals' = [pendingWithdrawals EXCEPT ![n] = @ + v]
      BY <1>3 DEF RequestWithdrawal
    <2>3. lockOf' = lockOf /\ owedTo' = owedTo
      BY <2>1, <2>2, DebitOwed
    <2> QED BY <1>3, <2>3 DEF RequestWithdrawal, money, admin, Abstract!custodyVars
  <1>4. ASSUME NEW n \in Nodes, ClaimWithdrawal(n) \/ \E ids \in 0..2 : BulkWithdraw(n, ids) PROVE Goal
    <2> DEFINE v == pendingWithdrawals[n]
    <2>1. v \in Nat /\ v <= owedTo[n]
      BY <1>t, <1>o
    <2>2. /\ ~paused /\ ~stakes[n].locked
          /\ pendingWithdrawals' = [pendingWithdrawals EXCEPT ![n] = 0]
          /\ PayNode(n, v) /\ stakeOf' = stakeOf /\ stakes' = stakes /\ paused' = paused
      BY <1>4 DEF ClaimWithdrawal, BulkWithdraw, admin
    <2>0. \A m \in Nodes : stakeOf'[m] + pendingWithdrawals'[m]
                            = IF m = n THEN owedTo[n] - v ELSE stakeOf[m] + pendingWithdrawals[m]
      BY <1>t, <1>o, <2>2
    <2>3. owedTo' = [owedTo EXCEPT ![n] = @ - v]
      BY <2>0, OwedUpdate
    <2>4. lockOf' = lockOf
      BY <2>2 DEF lockOf
    <2>5. Abstract!PayOut(n, v)
      BY <1>o, <2>1, <2>2, <2>3, <2>4 DEF PayNode, Abstract!PayOut
    <2> QED BY <1>pay, <2>1, <2>5
  <1>5. ASSUME NEW s \in Slashers, NEW n \in Nodes, NEW a \in Amounts, Slash(s, n, a) PROVE Goal
    BY <1>5, SlashRefines
  <1>6. ASSUME NEW n \in Nodes, (\E d \in Durations : LockStake(n, d)) \/ UnlockStake(n) PROVE Goal
    <2>1. /\ stakeOf' = stakeOf /\ pendingWithdrawals' = pendingWithdrawals
          /\ balance' = balance /\ paid' = paid /\ paused' = paused
      BY <1>6 DEF LockStake, UnlockStake, money, admin
    <2>2. owedTo' = owedTo
      BY <2>1 DEF owedTo
    <2>3. PICK b \in BOOLEAN : lockOf' = [lockOf EXCEPT ![n] = b]
      <3>1. CASE \E d \in Durations : LockStake(n, d)
        <4>1. PICK t : stakes' = [stakes EXCEPT ![n].locked = TRUE, ![n].unlockTime = t]
          BY <3>1 DEF LockStake
        <4>2. lockOf' = [lockOf EXCEPT ![n] = TRUE]
          BY <4>1 DEF lockOf, BooksType, StakeRecord
        <4> QED BY <4>2
      <3>2. CASE UnlockStake(n)
        <4>1. lockOf' = [lockOf EXCEPT ![n] = FALSE]
          BY <3>2 DEF UnlockStake, lockOf, BooksType, StakeRecord
        <4> QED BY <4>1
      <3> QED BY <1>6, <3>1, <3>2
    <2>4. Abstract!Hold(n, b)
      BY <2>1, <2>2, <2>3 DEF Abstract!Hold
    <2> QED BY <2>4 DEF Abstract!CustodyNext
  <1>7. ASSUME NEW v \in Amounts, Receive(v) PROVE Goal
    <2>1. Abstract!Gift(v)
      BY <1>7 DEF Receive, books, admin, owedTo, lockOf, Abstract!Gift
    <2> QED BY <2>1 DEF Abstract!CustodyNext
  <1>8. ASSUME EmergencyWithdraw PROVE Goal
    <2>1. Abstract!TakeAll
      BY <1>8 DEF EmergencyWithdraw, books, admin, owedTo, lockOf, Abstract!TakeAll
    <2> QED BY <2>1 DEF Abstract!CustodyNext
  <1>9. ASSUME PauseStake \/ UnpauseStake PROVE Goal
    <2>1. Abstract!OpenOrClose
      BY <1>9 DEF PauseStake, UnpauseStake, books, money, owedTo, lockOf, Abstract!OpenOrClose
    <2> QED BY <2>1 DEF Abstract!CustodyNext
  <1>10. ASSUME \/ \E s \in Slashers : AuthorizeSlasher(s)
                \/ RenounceOwnership
                \/ \E d \in Durations : SetStakeLockDuration(d)
                \/ \E m \in MaxStakes : SetMaximumStakeAmount(m)
                \/ Tick
                \/ UNCHANGED escrowVars
         PROVE  Goal
    <2>1. UNCHANGED <<stakeOf, pendingWithdrawals, stakes, balance, paid, paused>>
      BY <1>10 DEF escrowVars, books, money, admin, AuthorizeSlasher, RenounceOwnership,
                   SetStakeLockDuration, SetMaximumStakeAmount, Tick
    <2> QED BY <2>1 DEF owedTo, lockOf, Abstract!custodyVars
  <1> QED
    BY <1>1, <1>2, <1>3, <1>4, <1>5, <1>6, <1>7, <1>8, <1>9, <1>10
       DEF Next, EscrowCall, NodeCall, OwnerCall

(* The contract implements Custody, for every set of nodes, amounts and bounds: it   *)
(* pays a node only out of what it owes that node, neither locked nor during a pause. *)
THEOREM EscrowRefines == Spec => ImplementsCustody
  BY InitRefines, NextRefines, TypeCorrect, PTL DEF Spec, ImplementsCustody, Abstract!CustodySpec

-----------------------------------------------------------------------------
(* Part 2: SlashManager.  Arithmetic of the shares and of the periods. *)

(* A share of at most the whole is at most the amount (slashPartial). *)
LEMMA ShareBounded ==
  ASSUME NEW x \in Nat, NEW p \in Nat, p <= 10000
  PROVE  (x * p) \div 10000 \in Nat /\ (x * p) \div 10000 <= x
  <1> DEFINE q == x * p
  <1>1. q \in Nat /\ q <= x * 10000
    BY SMT
  <1> HIDE DEF q
  <1>2. q \div 10000 \in Nat /\ q \div 10000 <= x
    BY <1>1, SMT
  <1> QED BY <1>2 DEF q

LEMMA ShareNat ==
  ASSUME NEW x \in Nat, NEW p \in Nat
  PROVE  (x * p) \div 10000 \in Nat
  <1> DEFINE q == x * p
  <1>1. q \in Nat
    BY SMT
  <1> HIDE DEF q
  <1>2. q \div 10000 \in Nat
    BY <1>1, SMT
  <1> QED BY <1>2 DEF q

(* Whole periods of P seconds take no more than the time they are counted in. *)
LEMMA WholePeriods ==
  ASSUME NEW t \in Nat, NEW P \in Nat \ {0}
  PROVE  t \div P \in Nat /\ (t \div P) * P <= t
  <1> DEFINE q == t \div P
             r == t % P
  <1>1. q \in Nat /\ r \in Nat /\ t = (P * q) + r
    BY SMT
  <1> HIDE DEF q, r
  <1>2. q \in Nat /\ q * P <= t
    BY <1>1, SMT
  <1> QED BY <1>2 DEF q

LEMMA PeriodsAdd ==
  ASSUME NEW a \in Nat, NEW b \in Nat, NEW P \in Nat, NEW s \in Nat, NEW t \in Nat,
         a * P <= s, b * P <= t
  PROVE  (a + b) * P <= s + t
  <1>1. (a + b) * P = a * P + b * P /\ a * P \in Nat /\ b * P \in Nat
    BY SMT
  <1> QED BY <1>1, SMT

(* What the functions that compute a slash return. *)
LEMMA SlashAmounts ==
  ASSUME NEW v \in Nat
  PROVE  /\ CalculateSlash(v) \in Nat
         /\ CalculateCredit(v) \in Nat
         /\ ValidatorReward(CalculateSlash(v)) \in Nat
         /\ ProtocolFee(CalculateSlash(v)) \in Nat
  <1>1. \A p \in Nat : (v * p) \div 10000 \in Nat
    BY ShareNat
  <1>2. CalculateSlash(v) \in Nat
    BY <1>1 DEF CalculateSlash, SLASH_PERCENT, BASIS_POINTS
  <1> DEFINE c == CalculateSlash(v)
  <1>3. c \in Nat
    BY <1>2
  <1> HIDE DEF c
  <1>4. \A p \in Nat : (c * p) \div 10000 \in Nat
    BY <1>3, ShareNat
  <1>5. (c * CREDIT_PERCENT) \div BASIS_POINTS \in Nat /\ ValidatorReward(c) \in Nat /\ ProtocolFee(c) \in Nat
    BY <1>4 DEF ValidatorReward, ProtocolFee, CREDIT_PERCENT, VALIDATOR_REWARD_PERCENT,
                PROTOCOL_FEE_PERCENT, BASIS_POINTS
  <1> QED BY <1>2, <1>5 DEF CalculateCredit, c

-----------------------------------------------------------------------------
(* The escrow under the manager. *)

(* Every step of the composition is a step of the escrow, leaves the escrow alone, or *)
(* is a slash by the manager, of an amount it computed itself.                        *)
LEMMA EscrowStep ==
  ASSUME SMTypeOK, [SMNext]_smVars
  PROVE  \/ [Next]_escrowVars
         \/ \E n \in Nodes, a \in Nat : Slash(Manager, n, a)
  <1> USE SlashManagerConstants
  <1>t. \A n \in Nodes : stakeOf[n] \in Nat
    BY DEF SMTypeOK, TypeOK, BooksType
  <1>1. ASSUME NEW n \in Nodes, NEW j \in JobValues, SlashAndCredit(n, j)
        PROVE  \E m \in Nodes, a \in Nat : Slash(Manager, m, a)
    <2>1. CalculateSlash(j) \in Nat
      BY SlashAmounts
    <2>2. Slash(Manager, n, CalculateSlash(j))
      BY <1>1 DEF SlashAndCredit
    <2> QED BY <2>1, <2>2
  <1>2. ASSUME NEW n \in Nodes, NEW p \in Percents, SlashPartial(n, p)
        PROVE  \E m \in Nodes, a \in Nat : Slash(Manager, m, a)
    <2>1. (stakeOf[n] * p) \div BASIS_POINTS \in Nat
      BY <1>t, ShareNat DEF BASIS_POINTS
    <2>2. Slash(Manager, n, (stakeOf[n] * p) \div BASIS_POINTS)
      BY <1>2 DEF SlashPartial
    <2> QED BY <2>1, <2>2
  <1>3. ASSUME \/ \E n \in Nodes : ClaimReward(n)
               \/ \E n \in Nodes, b \in BOOLEAN : SetRewardPaused(n, b)
               \/ \E a \in Fundings : EmergencyWithdrawRewards(a)
               \/ \E v \in Fundings : ManagerReceive(v)
               \/ UNCHANGED smVars
        PROVE  UNCHANGED escrowVars
    BY <1>3 DEF ClaimReward, SetRewardPaused, EmergencyWithdrawRewards, ManagerReceive, smVars
  <1>4. ASSUME EscrowCall \/ OtherSlash \/ Tick
        PROVE  Next
    BY <1>4 DEF OtherSlash, Next
  <1> QED BY <1>1, <1>2, <1>3, <1>4 DEF SMNext, ManagerCall

(* So the escrow's types and its ledger survive the manager, ... *)
LEMMA EscrowKept ==
  ASSUME SMTypeOK, LedgerInv, [SMNext]_smVars
  PROVE  TypeOK' /\ LedgerInv'
  <1>1. TypeOK /\ BooksType /\ MoneyType /\ AdminType
    BY DEF SMTypeOK, TypeOK
  <1>2. CASE [Next]_escrowVars
    BY <1>1, <1>2, NextType, NextLedger
  <1>3. ASSUME NEW n \in Nodes, NEW a \in Nat, Slash(Manager, n, a)
        PROVE  TypeOK' /\ LedgerInv'
    <2>1. BooksType' /\ MoneyType' /\ AdminType'
      BY <1>1, <1>3, SlashType
    <2>2. LedgerInv'
      BY <1>1, <1>3, SlashLedger
    <2> QED BY <2>1, <2>2 DEF TypeOK
  <1> QED BY <1>2, <1>3, EscrowStep

(* ... and so does the promise of custody. *)
LEMMA CustodyKept ==
  ASSUME SMTypeOK, [SMNext]_smVars
  PROVE  [Abstract!CustodyNext]_(Abstract!custodyVars)
  <1>1. TypeOK /\ BooksType /\ MoneyType
    BY DEF SMTypeOK, TypeOK
  <1>2. CASE [Next]_escrowVars
    BY <1>1, <1>2, NextRefines
  <1>3. ASSUME NEW n \in Nodes, NEW a \in Nat, Slash(Manager, n, a)
        PROVE  Abstract!CustodyNext
    BY <1>1, <1>3, SlashRefines
  <1> QED BY <1>2, <1>3, EscrowStep

-----------------------------------------------------------------------------
(* The manager's own variables. *)

RecordsType ==
    /\ nodeSlashHistory \in [Nodes -> Seq(Nat)]
    /\ lastSlashTime \in [Nodes -> Nat]
    /\ slashCountByReason \in [Reasons -> Nat]
    /\ totalSlashEvents \in Nat /\ totalSlashedAmount \in Nat
    /\ totalSlashAmountByNode \in [Nodes -> Nat]

RewardsType ==
    /\ lastRewardClaim \in [Nodes -> Nat]
    /\ rewardPaused \in [Nodes -> BOOLEAN]
    /\ rewardHistoryCount \in [Nodes -> Nat]
    /\ rewardsPaid \in [Nodes -> Nat] /\ periodsPaid \in [Nodes -> Nat]

FlowsType ==
    /\ mgrBalance \in Nat
    /\ taken \in [Nodes -> Nat]
    /\ credited \in Nat /\ feesPaid \in Nat /\ withdrawn \in Nat /\ funded \in Nat

(* No reward was claimed in the future: with it a claim counts whole periods. *)
ClaimsPast == \A n \in Nodes : lastRewardClaim[n] <= now

SMInv ==
    /\ SMTypeOK
    /\ LedgerInv
    /\ RecordCoversTaken
    /\ PeriodPaidOnce
    /\ ClaimsPast

LEMMA SMTypeParts == SMTypeOK <=> TypeOK /\ RecordsType /\ RewardsType /\ FlowsType
  BY DEF SMTypeOK, RecordsType, RewardsType, FlowsType

(* A recorded slash is appended to the node's history and added to its total. *)
LEMMA RecordEffect ==
  ASSUME SMTypeOK, NEW n \in Nodes, NEW a \in Nat, NEW reason \in Reasons, RecordSlash(n, a, reason)
  PROVE  /\ RecordsType'
         /\ totalSlashAmountByNode' = [totalSlashAmountByNode EXCEPT ![n] = @ + a]
  <1>1. RecordsType /\ now \in Nat
    BY SMTypeParts DEF TypeOK, AdminType
  <1>2. nodeSlashHistory' \in [Nodes -> Seq(Nat)]
    <2>1. nodeSlashHistory[n] \in Seq(Nat)
      BY <1>1 DEF RecordsType
    <2>2. Append(nodeSlashHistory[n], a) \in Seq(Nat)
      BY <2>1
    <2> QED BY <1>1, <2>2 DEF RecordsType, RecordSlash
  <1>3. slashCountByReason' \in [Reasons -> Nat] /\ lastSlashTime' \in [Nodes -> Nat]
    BY <1>1 DEF RecordsType, RecordSlash
  <1>4. totalSlashAmountByNode' \in [Nodes -> Nat]
    BY <1>1 DEF RecordsType, RecordSlash
  <1>5. totalSlashEvents' \in Nat /\ totalSlashedAmount' \in Nat
    BY <1>1 DEF RecordsType, RecordSlash
  <1> QED BY <1>2, <1>3, <1>4, <1>5 DEF RecordsType, RecordSlash

(* The manager's part of a slash: it records at least what it received, and what it *)
(* received the escrow counted as slashed.                                          *)
LEMMA SlashCovered ==
  ASSUME SMInv, NEW n \in Nodes, NEW a \in Nat, NEW r \in Nat, NEW reason \in Reasons,
         r <= a, r = ActualSlash(n, a),
         Slash(Manager, n, a), RecordSlash(n, a, reason),
         taken' = [taken EXCEPT ![n] = @ + r]
  PROVE  RecordCoversTaken' /\ taken' \in [Nodes -> Nat] /\ RecordsType'
  <1>1. /\ taken \in [Nodes -> Nat] /\ totalSlashAmountByNode \in [Nodes -> Nat]
        /\ slashed \in [Nodes -> Nat] /\ RecordCoversTaken
    BY DEF SMInv, SMTypeOK, TypeOK, MoneyType
  <1>2. slashed' = [slashed EXCEPT ![n] = @ + r]
    BY DEF Slash
  <1>3. totalSlashAmountByNode' = [totalSlashAmountByNode EXCEPT ![n] = @ + a] /\ RecordsType'
    BY RecordEffect DEF SMInv
  <1>4. \A m \in Nodes :
           /\ taken'[m] = IF m = n THEN taken[n] + r ELSE taken[m]
           /\ slashed'[m] = IF m = n THEN slashed[n] + r ELSE slashed[m]
           /\ totalSlashAmountByNode'[m] =
                 IF m = n THEN totalSlashAmountByNode[n] + a ELSE totalSlashAmountByNode[m]
    BY <1>1, <1>2, <1>3
  <1>5. RecordCoversTaken'
    BY <1>1, <1>4 DEF RecordCoversTaken
  <1> QED BY <1>1, <1>3, <1>5

(* Steps that leave the rewards alone keep what is said of them: time only advances. *)
LEMMA RewardsKept ==
  ASSUME SMInv, UNCHANGED rewards, now' >= now, now' \in Nat
  PROVE  RewardsType' /\ PeriodPaidOnce' /\ ClaimsPast'
  <1>1. /\ RewardsType /\ PeriodPaidOnce /\ ClaimsPast /\ now \in Nat
    BY SMTypeParts DEF SMInv, TypeOK, AdminType
  <1>2. \A n \in Nodes : lastRewardClaim[n] \in Nat
    BY <1>1 DEF RewardsType
  <1> QED BY <1>1, <1>2 DEF rewards, RewardsType, PeriodPaidOnce, ClaimsPast

(* Steps that leave the manager's records alone keep them covering what was taken, if *)
(* the escrow's own count of slashed ether only grows.                                *)
LEMMA RecordsKept ==
  ASSUME SMInv, UNCHANGED <<records, taken>>,
         \A n \in Nodes : slashed'[n] \in Nat /\ slashed'[n] >= slashed[n]
  PROVE  RecordsType' /\ RecordCoversTaken'
  <1>1. RecordsType /\ RecordCoversTaken /\ \A n \in Nodes : slashed[n] \in Nat /\ taken[n] \in Nat
    BY SMTypeParts DEF SMInv, TypeOK, MoneyType, FlowsType
  <1>2. RecordsType'
    BY <1>1 DEF records, RecordsType
  <1>3. RecordCoversTaken'
    BY <1>1 DEF records, RecordsType, RecordCoversTaken
  <1> QED BY <1>2, <1>3

(* The escrow's count of slashed ether never shrinks, and time never runs backwards. *)
LEMMA EscrowMonotone ==
  ASSUME TypeOK, [Next]_escrowVars
  PROVE  now' >= now /\ \A n \in Nodes : slashed'[n] >= slashed[n]
  <1> USE EscrowConstants
  <1>t. slashed \in [Nodes -> Nat] /\ now \in Nat /\ stakeOf \in [Nodes -> Nat]
    BY DEF TypeOK, MoneyType, AdminType, BooksType
  <1>1. ASSUME NEW s \in Slashers, NEW n \in Nodes, NEW a \in Amounts, Slash(s, n, a)
        PROVE  now' = now /\ \A m \in Nodes : slashed'[m] >= slashed[m]
    <2> DEFINE cut == ActualSlash(n, a)
    <2>1. cut \in Nat
      BY <1>t DEF ActualSlash
    <2>2. slashed' = [slashed EXCEPT ![n] = @ + cut] /\ now' = now
      BY <1>1 DEF Slash
    <2> HIDE DEF cut
    <2> QED BY <1>t, <2>1, <2>2
  <1>2. CASE EscrowCall
    <2>1. now' = now /\ slashed' = slashed
      BY <1>2 DEF EscrowCall, NodeCall, OwnerCall, Stake, Withdraw, RequestWithdrawal,
          ClaimWithdrawal, BulkWithdraw, Receive, LockStake, UnlockStake, AuthorizeSlasher,
          EmergencyWithdraw, PauseStake, UnpauseStake, SetStakeLockDuration,
          SetMaximumStakeAmount, RenounceOwnership, money
    <2> QED BY <1>t, <2>1
  <1>3. CASE Tick \/ UNCHANGED escrowVars
    BY <1>t, <1>3 DEF Tick, escrowVars, money, admin
  <1> QED BY <1>t, <1>1, <1>2, <1>3 DEF Next

LEMMA NextSMInv ==
  ASSUME SMInv, [SMNext]_smVars
  PROVE  SMInv'
  <1> USE SlashManagerConstants
  <1>a. SMTypeOK /\ LedgerInv /\ TypeOK /\ RecordsType /\ RewardsType /\ FlowsType
    BY SMTypeParts DEF SMInv
  <1>b. TypeOK' /\ LedgerInv'
    BY <1>a, EscrowKept
  <1>c. now \in Nat /\ now' \in Nat /\ \A n \in Nodes : slashed'[n] \in Nat /\ stakeOf[n] \in Nat
    BY <1>a, <1>b DEF TypeOK, AdminType, MoneyType, BooksType
  <1>g. ASSUME RecordsType', RewardsType', FlowsType', RecordCoversTaken', PeriodPaidOnce', ClaimsPast'
        PROVE  SMInv'
    BY <1>b, <1>g DEF SMInv, SMTypeOK, RecordsType, RewardsType, FlowsType
  <1>1. ASSUME NEW n \in Nodes, NEW j \in JobValues, SlashAndCredit(n, j) PROVE SMInv'
    <2> DEFINE a == CalculateSlash(j)
               c == CalculateCredit(j)
               f == ValidatorReward(a) + ProtocolFee(a)
               r == ActualSlash(n, a)
    <2>1. a \in Nat /\ c \in Nat /\ f \in Nat
      BY SlashAmounts
    <2>2. r \in Nat /\ r <= a
      BY <1>c, <2>1 DEF ActualSlash
    <2>3. /\ Slash(Manager, n, a) /\ RecordSlash(n, a, "MissedHeartbeat")
          /\ taken' = [taken EXCEPT ![n] = @ + r]
          /\ mgrBalance + r >= c + f /\ mgrBalance' = mgrBalance + r - c - f
          /\ credited' = credited + c /\ feesPaid' = feesPaid + f
          /\ UNCHANGED <<rewards, withdrawn, funded>>
      BY <1>1 DEF SlashAndCredit
    <2>4. now' = now
      BY <2>3 DEF Slash
    <2> HIDE DEF a, c, f
    <2>5. RecordCoversTaken' /\ taken' \in [Nodes -> Nat] /\ RecordsType'
      BY <2>1, <2>2, <2>3, SlashCovered DEF Reasons
    <2>6. FlowsType'
      BY <1>a, <2>1, <2>2, <2>3, <2>5 DEF FlowsType
    <2>7. RewardsType' /\ PeriodPaidOnce' /\ ClaimsPast'
      BY <1>c, <2>3, <2>4, RewardsKept
    <2> QED BY <1>g, <2>5, <2>6, <2>7
  <1>2. ASSUME NEW n \in Nodes, NEW p \in Percents, SlashPartial(n, p) PROVE SMInv'
    <2> DEFINE a == (stakeOf[n] * p) \div BASIS_POINTS
    <2>1. a \in Nat /\ a <= stakeOf[n] /\ a <= a
      <3>1. p \in Nat /\ p <= 10000 /\ stakeOf[n] \in Nat
        BY <1>c, <1>2 DEF SlashPartial, BASIS_POINTS
      <3>2. a \in Nat /\ a <= stakeOf[n]
        BY <3>1, ShareBounded DEF BASIS_POINTS
      <3> HIDE DEF a
      <3> QED BY <3>2
    <2>3. /\ Slash(Manager, n, a) /\ RecordSlash(n, a, "SlowResponse")
          /\ taken' = [taken EXCEPT ![n] = @ + a]
          /\ mgrBalance' = mgrBalance + a
          /\ UNCHANGED <<rewards, credited, feesPaid, withdrawn, funded>>
      BY <1>2 DEF SlashPartial
    <2> HIDE DEF a
    <2>2. a = ActualSlash(n, a)
      BY <1>c, <2>1 DEF ActualSlash
    <2>4. now' = now
      BY <2>3 DEF Slash
    <2>5. RecordCoversTaken' /\ taken' \in [Nodes -> Nat] /\ RecordsType'
      BY <2>1, <2>2, <2>3, SlashCovered DEF Reasons
    <2>6. FlowsType'
      BY <1>a, <2>1, <2>3, <2>5 DEF FlowsType
    <2>7. RewardsType' /\ PeriodPaidOnce' /\ ClaimsPast'
      BY <1>c, <2>3, <2>4, RewardsKept
    <2> QED BY <1>g, <2>5, <2>6, <2>7
  <1>3. ASSUME NEW n \in Nodes, ClaimReward(n) PROVE SMInv'
    <2> DEFINE amount == TimeWeightedReward(n)
               k == RewardPeriods(n)
               last == lastRewardClaim[n]
    <2>1. /\ last \in Nat /\ last <= now /\ now - last \in Nat
          /\ periodsPaid[n] \in Nat /\ periodsPaid[n] * REWARD_PERIOD <= last
      BY <1>a, <1>c DEF RewardsType, SMInv, PeriodPaidOnce, ClaimsPast
    <2>2. k \in Nat /\ k * REWARD_PERIOD <= now - last
      BY <2>1, WholePeriods DEF RewardPeriods
    <2>3. (periodsPaid[n] + k) * REWARD_PERIOD <= now
      <3> HIDE DEF k, last
      <3>1. (periodsPaid[n] + k) * REWARD_PERIOD <= last + (now - last)
        BY <2>1, <2>2, PeriodsAdd
      <3> QED BY <1>c, <2>1, <3>1
    <2>4. amount \in Nat
      <3>1. stakeOf[n] \in Nat /\ k \in Nat
        BY <1>c, <2>2
      <3> DEFINE q == stakeOf[n] * 50 * k
      <3>2. q \in Nat
        <4> HIDE DEF k
        <4> QED BY <3>1, SMT
      <3> HIDE DEF q
      <3>3. q \div 120000 \in Nat
        BY <3>2, SMT
      <3> QED BY <3>3 DEF q, TimeWeightedReward, BASIS_POINTS
    <2>5. /\ lastRewardClaim' = [lastRewardClaim EXCEPT ![n] = now]
          /\ rewardHistoryCount' = [rewardHistoryCount EXCEPT ![n] = @ + 1]
          /\ mgrBalance >= amount /\ mgrBalance' = mgrBalance - amount
          /\ rewardsPaid' = [rewardsPaid EXCEPT ![n] = @ + amount]
          /\ periodsPaid' = [periodsPaid EXCEPT ![n] = @ + k]
          /\ UNCHANGED <<escrowVars, records, rewardPaused, taken, credited, feesPaid, withdrawn, funded>>
      BY <1>3 DEF ClaimReward
    <2>6. now' = now /\ slashed' = slashed
      BY <2>5 DEF escrowVars, money
    <2> HIDE DEF amount, k
    <2>7. FlowsType'
      BY <1>a, <2>4, <2>5 DEF FlowsType
    <2>8. RewardsType'
      BY <1>a, <1>c, <2>2, <2>4, <2>5 DEF RewardsType
    <2>9. \A m \in Nodes : /\ lastRewardClaim'[m] = IF m = n THEN now ELSE lastRewardClaim[m]
                           /\ periodsPaid'[m] = IF m = n THEN periodsPaid[n] + k ELSE periodsPaid[m]
      BY <1>a, <2>5 DEF RewardsType
    <2>10. PeriodPaidOnce' /\ ClaimsPast'
      <3>1. PeriodPaidOnce /\ ClaimsPast
        BY DEF SMInv
      <3> QED BY <1>c, <2>3, <2>6, <2>9, <3>1 DEF PeriodPaidOnce, ClaimsPast
    <2>11. RecordsType' /\ RecordCoversTaken'
      BY <1>c, <2>5, <2>6, RecordsKept
    <2> QED BY <1>g, <2>7, <2>8, <2>10, <2>11
  <1>4. ASSUME NEW n \in Nodes, NEW b \in BOOLEAN, SetRewardPaused(n, b) PROVE SMInv'
    <2>1. now' = now /\ slashed' = slashed
      BY <1>4 DEF SetRewardPaused, escrowVars, money
    <2>2. RewardsType' /\ FlowsType'
      BY <1>a, <1>4 DEF SetRewardPaused, RewardsType, FlowsType
    <2>3. PeriodPaidOnce' /\ ClaimsPast'
      BY <1>4, <2>1 DEF SetRewardPaused, SMInv, PeriodPaidOnce, ClaimsPast
    <2>4. RecordsType' /\ RecordCoversTaken'
      <3>1. \A m \in Nodes : slashed'[m] >= slashed[m]
        BY <1>c, <2>1
      <3>2. UNCHANGED <<records, taken>>
        BY <1>4 DEF SetRewardPaused
      <3> QED BY <1>c, <3>1, <3>2, RecordsKept
    <2> QED BY <1>g, <2>2, <2>3, <2>4
  <1>5. ASSUME NEW v \in Fundings, EmergencyWithdrawRewards(v) \/ ManagerReceive(v) PROVE SMInv'
    <2>1. now' = now /\ slashed' = slashed /\ UNCHANGED <<records, rewards, taken>>
      BY <1>5 DEF EmergencyWithdrawRewards, ManagerReceive, escrowVars, money
    <2>2. FlowsType'
      BY <1>a, <1>5 DEF EmergencyWithdrawRewards, ManagerReceive, FlowsType
    <2>3. \A m \in Nodes : slashed'[m] >= slashed[m]
      BY <1>c, <2>1
    <2>4. RecordsType' /\ RecordCoversTaken'
      BY <1>c, <2>1, <2>3, RecordsKept
    <2>5. RewardsType' /\ PeriodPaidOnce' /\ ClaimsPast'
      BY <1>c, <2>1, RewardsKept
    <2> QED BY <1>g, <2>2, <2>4, <2>5
  <1>6. ASSUME [Next]_escrowVars, UNCHANGED mgrVars PROVE SMInv'
    <2>1. now' >= now /\ \A n \in Nodes : slashed'[n] >= slashed[n]
      BY <1>a, <1>6, EscrowMonotone
    <2>2. UNCHANGED <<records, taken>> /\ UNCHANGED rewards /\ FlowsType'
      BY <1>a, <1>6 DEF mgrVars, FlowsType
    <2>3. RecordsType' /\ RecordCoversTaken'
      BY <1>c, <2>1, <2>2, RecordsKept
    <2>4. RewardsType' /\ PeriodPaidOnce' /\ ClaimsPast'
      BY <1>c, <2>1, <2>2, RewardsKept
    <2> QED BY <1>g, <2>2, <2>3, <2>4
  <1>7. ASSUME (EscrowCall \/ OtherSlash \/ Tick) /\ UNCHANGED mgrVars PROVE SMInv'
    <2>1. Next
      BY <1>7 DEF OtherSlash, Next
    <2> QED BY <1>6, <1>7, <2>1
  <1>8. CASE UNCHANGED smVars
    <2>1. UNCHANGED escrowVars /\ UNCHANGED mgrVars
      BY <1>8 DEF smVars
    <2> QED BY <1>6, <2>1
  <1> QED BY <1>1, <1>2, <1>3, <1>4, <1>5, <1>7, <1>8 DEF SMNext, ManagerCall

LEMMA InitSMInv == SMInit => SMInv
  <1> SUFFICES ASSUME SMInit PROVE SMInv
    OBVIOUS
  <1>1. Init /\ TypeOK
    BY InitType DEF SMInit
  <1>2. LedgerInv
    BY <1>1 DEF Init, LedgerInv, DepositConserved, StakeMirror, DustOnlyBySlash
  <1>3. RecordsType /\ RewardsType /\ FlowsType
    BY SlashManagerConstants, EscrowConstants DEF SMInit, RecordsType, RewardsType, FlowsType
  <1>4. RecordCoversTaken
    <2> SUFFICES ASSUME NEW n \in Nodes
                 PROVE  taken[n] <= totalSlashAmountByNode[n] /\ taken[n] <= slashed[n]
      BY DEF RecordCoversTaken
    <2>1. taken[n] = 0 /\ totalSlashAmountByNode[n] = 0 /\ slashed[n] = 0
      BY <1>1 DEF SMInit, Init
    <2> QED BY <2>1
  <1>5. PeriodPaidOnce
    <2> SUFFICES ASSUME NEW n \in Nodes PROVE periodsPaid[n] * REWARD_PERIOD <= lastRewardClaim[n]
      BY DEF PeriodPaidOnce
    <2>1. periodsPaid[n] = 0 /\ lastRewardClaim[n] = 0
      BY DEF SMInit
    <2>2. 0 * REWARD_PERIOD = 0
      BY SlashManagerConstants
    <2> QED BY <2>1, <2>2
  <1>6. ClaimsPast
    <2> SUFFICES ASSUME NEW n \in Nodes PROVE lastRewardClaim[n] <= now
      BY DEF ClaimsPast
    <2>1. lastRewardClaim[n] = 0 /\ now = StartTime
      BY <1>1 DEF SMInit, Init
    <2> QED BY <2>1, EscrowConstants
  <1> QED BY <1>1, <1>2, <1>3, <1>4, <1>5, <1>6, SMTypeParts DEF SMInv

-----------------------------------------------------------------------------
(* The sums of the two contracts. *)

(* What the manager received is what it holds, paid out and withdrew. *)
ManagerFlow ==
    (mgrBalance + withdrawn) + (credited + feesPaid) + SumFunction(rewardsPaid)
       = SumFunction(taken) + funded

SlashBooksInv == BooksInv /\ SlashesRecorded /\ ManagerFlow

(* Escrow's part of the conservation: the sum of its ledger over all nodes. *)
LEMMA EscrowFlow ==
  ASSUME TypeOK, DepositConserved, BooksInv
  PROVE  /\ SumFunction(paid) \in Int /\ SumFunction(slashed) \in Int /\ SumFunction(deposited) \in Int
         /\ (balance + drained) + (SumFunction(paid) + SumFunction(slashed))
              = SumFunction(deposited) + donated
  <1> DEFINE held == [n \in Nodes |-> stakeOf[n] + pendingWithdrawals[n]]
             gone == [n \in Nodes |-> paid[n] + slashed[n]]
  <1>1. /\ IsFiniteSet(Nodes) /\ totalStaked \in Int
        /\ balance \in Int /\ drained \in Int /\ donated \in Int
        /\ stakeOf \in [Nodes -> Int] /\ pendingWithdrawals \in [Nodes -> Int]
        /\ paid \in [Nodes -> Int] /\ slashed \in [Nodes -> Int] /\ deposited \in [Nodes -> Int]
    BY EscrowConstants DEF TypeOK, BooksType, MoneyType
  <1>2. held \in [Nodes -> Int] /\ gone \in [Nodes -> Int]
    BY <1>1
  <1>3. \A n \in Nodes : deposited[n] = held[n] + gone[n]
    BY <1>1 DEF DepositConserved
  <1>4. \A n \in Nodes : held[n] = stakeOf[n] + pendingWithdrawals[n] /\ gone[n] = paid[n] + slashed[n]
    OBVIOUS
  <1> HIDE DEF held, gone
  <1>5. SumFunction(deposited) = SumFunction(held) + SumFunction(gone)
    BY <1>1, <1>2, <1>3, SumPlus
  <1>6. SumFunction(held) = SumFunction(stakeOf) + SumFunction(pendingWithdrawals)
    BY <1>1, <1>2, <1>4, SumPlus
  <1>7. SumFunction(gone) = SumFunction(paid) + SumFunction(slashed)
    BY <1>1, <1>2, <1>4, SumPlus
  <1> DEFINE A == SumFunction(stakeOf)
             P == SumFunction(pendingWithdrawals)
             Q == SumFunction(paid)
             R == SumFunction(slashed)
             T == SumFunction(deposited)
  <1>8. Q \in Int /\ R \in Int /\ A \in Int /\ P \in Int /\ T \in Int
    BY <1>1, SumIsInteger
  <1>9. totalStaked = A /\ balance + drained = totalStaked + P + donated
    BY DEF BooksInv, TotalIsSum, EtherAccounted
  <1>10. T = (A + P) + (Q + R)
    BY <1>5, <1>6, <1>7
  <1> HIDE DEF A, P, Q, R, T
  <1>11. (balance + drained) + (Q + R) = T + donated
    BY <1>1, <1>8, <1>9, <1>10
  <1> QED BY <1>8, <1>11 DEF Q, R, T

(* Together with the manager's part it is the conservation across both. *)
LEMMA BothConserve ==
  ASSUME SMTypeOK, DepositConserved, BooksInv, ManagerFlow
  PROVE  EtherConserved
  <1> DEFINE Q == SumFunction(paid)
             R == SumFunction(slashed)
             T == SumFunction(deposited)
             U == SumFunction(rewardsPaid)
             V == SumFunction(taken)
             k == balance + drained
             m == mgrBalance + withdrawn
             c == credited + feesPaid
  <1>1. TypeOK /\ RewardsType /\ FlowsType
    BY SMTypeParts
  <1>2. Q \in Int /\ R \in Int /\ T \in Int /\ k + (Q + R) = T + donated
    BY <1>1, EscrowFlow
  <1>3. U \in Int /\ V \in Int
    <2>1. IsFiniteSet(Nodes) /\ rewardsPaid \in [Nodes -> Int] /\ taken \in [Nodes -> Int]
      BY <1>1, EscrowConstants DEF RewardsType, FlowsType
    <2> QED BY <2>1, SumIsInteger
  <1>4. m + c + U = V + funded
    BY DEF ManagerFlow
  <1>5. /\ k \in Int /\ m \in Int /\ c \in Int /\ funded \in Int /\ donated \in Int
        /\ balance \in Int /\ drained \in Int /\ mgrBalance \in Int /\ withdrawn \in Int
        /\ credited \in Int /\ feesPaid \in Int
    BY <1>1 DEF TypeOK, MoneyType, FlowsType
  <1>6. balance + mgrBalance + Q + credited + feesPaid + U + withdrawn + drained + (R - V)
           = (k + (Q + R)) + ((m + c + U) - V)
    <2> HIDE DEF Q, R, U, V
    <2> QED BY <1>2, <1>3, <1>5
  <1>7. balance + mgrBalance + Q + credited + feesPaid + U + withdrawn + drained + (R - V) = T + donated + funded
    <2> HIDE DEF Q, R, T, U, V, k, m, c
    <2>1. (m + c + U) - V = funded
      BY <1>3, <1>4, <1>5
    <2> QED BY <1>2, <1>5, <1>6, <2>1
  <1> QED BY <1>7 DEF EtherConserved

(* A slash recorded: every one of the books gains the same. *)
LEMMA RecordBalances ==
  ASSUME RecordsType, RecordsType', SlashesRecorded,
         NEW n \in Nodes, NEW a \in Nat, NEW reason \in Reasons, RecordSlash(n, a, reason)
  PROVE  SlashesRecorded'
  <1> DEFINE lengths == [m \in Nodes |-> Len(nodeSlashHistory[m])]
  <1>1. IsFiniteSet(Nodes) /\ IsFiniteSet(Reasons)
    <2>1. IsFiniteSet({"SlowResponse"})
      BY FS_Singleton
    <2>2. IsFiniteSet({"SlowResponse"} \cup {"MissedHeartbeat"})
      BY <2>1, FS_AddElement
    <2>3. Reasons = {"SlowResponse"} \cup {"MissedHeartbeat"}
      BY DEF Reasons
    <2> QED BY <2>2, <2>3, EscrowConstants
  <1>h. \A m \in Nodes : nodeSlashHistory[m] \in Seq(Int) /\ Len(nodeSlashHistory[m]) \in Nat
    <2> TAKE m \in Nodes
    <2>1. nodeSlashHistory[m] \in Seq(Nat)
      BY DEF RecordsType
    <2> DEFINE h == nodeSlashHistory[m]
    <2>2. \A i \in 1..Len(h) : h[i] \in Int
      BY <2>1
    <2> QED BY <2>1, <2>2
  <1>2. /\ totalSlashAmountByNode \in [Nodes -> Int] /\ totalSlashAmountByNode' \in [Nodes -> Int]
        /\ slashCountByReason \in [Reasons -> Int] /\ slashCountByReason' \in [Reasons -> Int]
        /\ totalSlashEvents \in Int /\ totalSlashedAmount \in Int
    BY DEF RecordsType
  <1>3. /\ nodeSlashHistory'[n] = Append(nodeSlashHistory[n], a)
        /\ \A m \in Nodes \ {n} : nodeSlashHistory'[m] = nodeSlashHistory[m]
    BY DEF RecordSlash, RecordsType
  <1>4. /\ totalSlashAmountByNode'[n] = totalSlashAmountByNode[n] + a
        /\ \A m \in Nodes \ {n} : totalSlashAmountByNode'[m] = totalSlashAmountByNode[m]
        /\ slashCountByReason'[reason] = slashCountByReason[reason] + 1
        /\ \A r \in Reasons \ {reason} : slashCountByReason'[r] = slashCountByReason[r]
        /\ totalSlashEvents' = totalSlashEvents + 1 /\ totalSlashedAmount' = totalSlashedAmount + a
    BY DEF RecordSlash, RecordsType
  <1>5. \A m \in Nodes : totalSlashAmountByNode'[m] = HistorySum(m)'
    <2> TAKE m \in Nodes
    <2>1. CASE m = n
      <3>1. SumFunction(Append(nodeSlashHistory[n], a)) = SumFunction(nodeSlashHistory[n]) + a
        BY <1>h, SumAppends
      <3> QED BY <1>3, <1>4, <2>1, <3>1 DEF SlashesRecorded, HistorySum
    <2>2. CASE m # n
      BY <1>3, <1>4, <2>2 DEF SlashesRecorded, HistorySum
    <2> QED BY <2>1, <2>2
  <1>6. totalSlashedAmount' = SumFunction(totalSlashAmountByNode')
    <2>a. \A m \in Nodes \ {n} : totalSlashAmountByNode'[m] = totalSlashAmountByNode[m]
      BY <1>4
    <2>b. totalSlashAmountByNode \in [Nodes -> Int] /\ totalSlashAmountByNode' \in [Nodes -> Int]
      BY <1>2
    <2>1. /\ SumFunction(totalSlashAmountByNode) \in Int
          /\ SumFunction(totalSlashAmountByNode')
               = SumFunction(totalSlashAmountByNode) + totalSlashAmountByNode'[n] - totalSlashAmountByNode[n]
      BY <1>1, <2>a, <2>b, SumUpdates
    <2>2. totalSlashAmountByNode[n] \in Int /\ totalSlashedAmount = SumFunction(totalSlashAmountByNode)
      BY <1>2 DEF SlashesRecorded
    <2> QED BY <1>4, <2>1, <2>2
  <1>7. totalSlashEvents' = SumFunction(slashCountByReason')
    <2>a. \A r \in Reasons \ {reason} : slashCountByReason'[r] = slashCountByReason[r]
      BY <1>4
    <2>b. slashCountByReason \in [Reasons -> Int] /\ slashCountByReason' \in [Reasons -> Int]
      BY <1>2
    <2>1. /\ SumFunction(slashCountByReason) \in Int
          /\ SumFunction(slashCountByReason')
               = SumFunction(slashCountByReason) + slashCountByReason'[reason] - slashCountByReason[reason]
      BY <1>1, <2>a, <2>b, SumUpdates
    <2>2. slashCountByReason[reason] \in Int /\ totalSlashEvents = SumFunction(slashCountByReason)
      BY <1>2 DEF SlashesRecorded
    <2> QED BY <1>4, <2>1, <2>2
  <1>8. totalSlashEvents' = SumFunction(lengths')
    <2>1. lengths \in [Nodes -> Int] /\ lengths' \in [Nodes -> Int]
      BY DEF RecordsType
    <2>2. lengths'[n] = lengths[n] + 1 /\ \A m \in Nodes \ {n} : lengths'[m] = lengths[m]
      BY <1>h, <1>3
    <2>3. lengths[n] \in Int /\ totalSlashEvents = SumFunction(lengths)
      BY <2>1 DEF SlashesRecorded
    <2> HIDE DEF lengths
    <2>4. SumFunction(lengths) \in Int /\ SumFunction(lengths') = SumFunction(lengths) + lengths'[n] - lengths[n]
      BY <1>1, <2>1, <2>2, SumUpdates
    <2> QED BY <1>4, <2>2, <2>3, <2>4
  <1> QED BY <1>5, <1>6, <1>7, <1>8 DEF SlashesRecorded

(* One transaction with the manager: r wei arrive from the escrow, c go to the client, *)
(* f to validator and protocol, w to node n as a reward, d to the owner, u come in.    *)
LEMMA ManagerBalances ==
  ASSUME SMTypeOK, SMTypeOK', ManagerFlow, NEW n \in Nodes,
         NEW r \in Int, NEW c \in Int, NEW f \in Int, NEW w \in Int, NEW d \in Int, NEW u \in Int,
         mgrBalance' = mgrBalance + ((r + u) - (c + f + w + d)),
         credited' = credited + c, feesPaid' = feesPaid + f,
         withdrawn' = withdrawn + d, funded' = funded + u,
         taken'[n] = taken[n] + r, rewardsPaid'[n] = rewardsPaid[n] + w,
         \A m \in Nodes \ {n} : taken'[m] = taken[m] /\ rewardsPaid'[m] = rewardsPaid[m]
  PROVE  ManagerFlow'
  <1>1. /\ IsFiniteSet(Nodes)
        /\ rewardsPaid \in [Nodes -> Int] /\ rewardsPaid' \in [Nodes -> Int]
        /\ taken \in [Nodes -> Int] /\ taken' \in [Nodes -> Int]
    <2>1. rewardsPaid \in [Nodes -> Nat] /\ taken \in [Nodes -> Nat]
      BY DEF SMTypeOK
    <2>2. rewardsPaid' \in [Nodes -> Nat] /\ taken' \in [Nodes -> Nat]
      BY DEF SMTypeOK
    <2> QED BY <2>1, <2>2, EscrowConstants
  <1>2. /\ mgrBalance \in Int /\ credited \in Int /\ feesPaid \in Int
        /\ withdrawn \in Int /\ funded \in Int
    BY DEF SMTypeOK
  <1> DEFINE U == SumFunction(rewardsPaid)
             V == SumFunction(taken)
  <1>3. U \in Int /\ SumFunction(rewardsPaid') = U + w
    <2>1. U \in Int /\ SumFunction(rewardsPaid') = U + rewardsPaid'[n] - rewardsPaid[n]
      BY <1>1, SumUpdates
    <2>2. rewardsPaid[n] \in Int
      BY <1>1
    <2> HIDE DEF U
    <2> QED BY <2>1, <2>2
  <1>4. V \in Int /\ SumFunction(taken') = V + r
    <2>1. V \in Int /\ SumFunction(taken') = V + taken'[n] - taken[n]
      BY <1>1, SumUpdates
    <2>2. taken[n] \in Int
      BY <1>1
    <2> HIDE DEF V
    <2> QED BY <2>1, <2>2
  <1>5. (mgrBalance + withdrawn) + (credited + feesPaid) + U = V + funded
    BY DEF ManagerFlow
  <1> HIDE DEF U, V
  <1> DEFINE mb == mgrBalance + ((r + u) - (c + f + w + d))
  <1>6. (mb + (withdrawn + d)) + ((credited + c) + (feesPaid + f)) + (U + w)
           = ((mgrBalance + withdrawn) + (credited + feesPaid) + U) + (r + u)
    BY <1>2, <1>3
  <1>7. ((mgrBalance + withdrawn) + (credited + feesPaid) + U) + (r + u) = (V + r) + (funded + u)
    BY <1>2, <1>4, <1>5
  <1>8. (mgrBalance' + withdrawn') + (credited' + feesPaid') + (U + w) = (V + r) + funded'
    BY <1>6, <1>7
  <1> QED BY <1>3, <1>4, <1>8 DEF ManagerFlow

LEMMA NextSlashBooks ==
  ASSUME SMInv, SlashBooksInv, [SMNext]_smVars
  PROVE  SlashBooksInv'
  <1> USE SlashManagerConstants
  <1>a. /\ SMTypeOK /\ TypeOK /\ RecordsType /\ RewardsType /\ FlowsType
        /\ BooksInv /\ SlashesRecorded /\ ManagerFlow
    BY SMTypeParts DEF SMInv, SlashBooksInv
  <1>b. SMTypeOK' /\ RecordsType'
    BY NextSMInv DEF SMInv, SMTypeOK, RecordsType
  <1>c. /\ \A n \in Nodes : stakeOf[n] \in Nat /\ taken[n] \in Nat /\ rewardsPaid[n] \in Nat
        /\ mgrBalance \in Nat /\ credited \in Nat /\ feesPaid \in Nat /\ withdrawn \in Nat /\ funded \in Nat
        /\ taken \in [Nodes -> Nat] /\ rewardsPaid \in [Nodes -> Nat]
    BY <1>a DEF TypeOK, BooksType, FlowsType, RewardsType
  <1>d. ASSUME UNCHANGED records PROVE SlashesRecorded'
    BY <1>a, <1>d DEF records, SlashesRecorded, HistorySum
  <1>e. ASSUME UNCHANGED escrowVars PROVE BooksInv'
    BY <1>a, <1>e DEF escrowVars, books, money, BooksInv, TotalIsSum, EtherAccounted
  <1>1. ASSUME NEW n \in Nodes, NEW j \in JobValues, SlashAndCredit(n, j) PROVE SlashBooksInv'
    <2> DEFINE a == CalculateSlash(j)
               c == CalculateCredit(j)
               f == ValidatorReward(a) + ProtocolFee(a)
               r == ActualSlash(n, a)
    <2>1. a \in Nat /\ c \in Nat /\ f \in Nat
      BY SlashAmounts
    <2>2. r \in Nat
      BY <1>c, <2>1 DEF ActualSlash
    <2>3. /\ Slash(Manager, n, a) /\ RecordSlash(n, a, "MissedHeartbeat")
          /\ taken' = [taken EXCEPT ![n] = @ + r]
          /\ mgrBalance' = mgrBalance + r - c - f
          /\ credited' = credited + c /\ feesPaid' = feesPaid + f
          /\ UNCHANGED <<rewards, withdrawn, funded>>
      BY <1>1 DEF SlashAndCredit
    <2> HIDE DEF a, c, f, r
    <2>4. BooksInv'
      BY <1>a, <2>1, <2>3, SlashBalances
    <2>5. SlashesRecorded'
      BY <1>a, <1>b, <2>1, <2>3, RecordBalances DEF Reasons
    <2>6. /\ mgrBalance' = mgrBalance + ((r + 0) - (c + f + 0 + 0))
          /\ withdrawn' = withdrawn + 0 /\ funded' = funded + 0
          /\ taken'[n] = taken[n] + r /\ rewardsPaid'[n] = rewardsPaid[n] + 0
          /\ \A m \in Nodes \ {n} : taken'[m] = taken[m] /\ rewardsPaid'[m] = rewardsPaid[m]
      BY <1>c, <2>1, <2>2, <2>3 DEF rewards
    <2>7. ManagerFlow'
      <3>1. r \in Int /\ c \in Int /\ f \in Int /\ 0 \in Int
        BY <2>1, <2>2
      <3> QED BY <1>a, <1>b, <2>3, <2>6, <3>1, ManagerBalances
    <2> QED BY <2>4, <2>5, <2>7 DEF SlashBooksInv
  <1>2. ASSUME NEW n \in Nodes, NEW p \in Percents, SlashPartial(n, p) PROVE SlashBooksInv'
    <2> DEFINE a == (stakeOf[n] * p) \div BASIS_POINTS
    <2>1. a \in Nat
      <3>1. p \in Nat /\ stakeOf[n] \in Nat
        BY <1>c, <1>2
      <3> QED BY <3>1, ShareNat DEF BASIS_POINTS
    <2>3. /\ Slash(Manager, n, a) /\ RecordSlash(n, a, "SlowResponse")
          /\ taken' = [taken EXCEPT ![n] = @ + a]
          /\ mgrBalance' = mgrBalance + a
          /\ UNCHANGED <<rewards, credited, feesPaid, withdrawn, funded>>
      BY <1>2 DEF SlashPartial
    <2> HIDE DEF a
    <2>4. BooksInv'
      BY <1>a, <2>1, <2>3, SlashBalances
    <2>5. SlashesRecorded'
      BY <1>a, <1>b, <2>1, <2>3, RecordBalances DEF Reasons
    <2>6. /\ mgrBalance' = mgrBalance + ((a + 0) - (0 + 0 + 0 + 0))
          /\ credited' = credited + 0 /\ feesPaid' = feesPaid + 0
          /\ withdrawn' = withdrawn + 0 /\ funded' = funded + 0
          /\ taken'[n] = taken[n] + a /\ rewardsPaid'[n] = rewardsPaid[n] + 0
          /\ \A m \in Nodes \ {n} : taken'[m] = taken[m] /\ rewardsPaid'[m] = rewardsPaid[m]
      BY <1>c, <2>1, <2>3 DEF rewards
    <2>7. ManagerFlow'
      <3>1. a \in Int /\ 0 \in Int
        BY <2>1
      <3> QED BY <1>a, <1>b, <2>6, <3>1, ManagerBalances
    <2> QED BY <2>4, <2>5, <2>7 DEF SlashBooksInv
  <1>3. ASSUME NEW n \in Nodes, ClaimReward(n) PROVE SlashBooksInv'
    <2> DEFINE w == TimeWeightedReward(n)
    <2>1. /\ mgrBalance' = mgrBalance - w
          /\ rewardsPaid' = [rewardsPaid EXCEPT ![n] = @ + w]
          /\ UNCHANGED <<escrowVars, records, taken, credited, feesPaid, withdrawn, funded>>
      BY <1>3 DEF ClaimReward
    <2>2. w \in Int
      <3>1. lastRewardClaim[n] \in Nat /\ now \in Nat
        BY <1>a DEF RewardsType, TypeOK, AdminType
      <3>2. now - lastRewardClaim[n] \in Int
        BY <3>1
      <3> DEFINE t == now - lastRewardClaim[n]
      <3>3. t \div REWARD_PERIOD \in Int
        <4>1. t \in Int
          BY <3>2
        <4> HIDE DEF t
        <4> QED BY <4>1, SMT
      <3> DEFINE k == t \div REWARD_PERIOD
                 q == stakeOf[n] * 50 * k
      <3>4. q \in Int
        <4>1. k \in Int /\ stakeOf[n] \in Int
          BY <1>c, <3>3
        <4> HIDE DEF k
        <4> QED BY <4>1, SMT
      <3>5. q \div 120000 \in Int
        <4> HIDE DEF q
        <4> QED BY <3>4, SMT
      <3> QED BY <3>5 DEF TimeWeightedReward, RewardPeriods, BASIS_POINTS
    <2> HIDE DEF w
    <2>3. /\ mgrBalance' = mgrBalance + ((0 + 0) - (0 + 0 + w + 0))
          /\ credited' = credited + 0 /\ feesPaid' = feesPaid + 0
          /\ withdrawn' = withdrawn + 0 /\ funded' = funded + 0
          /\ taken'[n] = taken[n] + 0 /\ rewardsPaid'[n] = rewardsPaid[n] + w
          /\ \A m \in Nodes \ {n} : taken'[m] = taken[m] /\ rewardsPaid'[m] = rewardsPaid[m]
      BY <1>c, <2>1, <2>2
    <2>4. ManagerFlow'
      BY <1>a, <1>b, <2>2, <2>3, ManagerBalances
    <2> QED BY <1>d, <1>e, <2>1, <2>4 DEF SlashBooksInv
  <1>4. ASSUME NEW v \in Fundings, EmergencyWithdrawRewards(v) \/ ManagerReceive(v) PROVE SlashBooksInv'
    <2>1. v \in Nat /\ UNCHANGED <<escrowVars, records, rewards, taken, credited, feesPaid>>
      BY <1>4 DEF EmergencyWithdrawRewards, ManagerReceive
    <2>2. UNCHANGED rewardsPaid
      BY <2>1 DEF rewards
    <2>3. (mgrBalance' + withdrawn') + (credited + feesPaid) = ((mgrBalance + withdrawn) + (credited + feesPaid)) + (funded' - funded)
          /\ funded' \in Nat
      BY <1>4, <1>c, <2>1 DEF EmergencyWithdrawRewards, ManagerReceive
    <2> DEFINE U == SumFunction(rewardsPaid)
               V == SumFunction(taken)
    <2>4. U \in Int /\ V \in Int
      <3>1. IsFiniteSet(Nodes) /\ rewardsPaid \in [Nodes -> Int] /\ taken \in [Nodes -> Int]
        BY <1>c, EscrowConstants
      <3> QED BY <3>1, SumIsInteger
    <2>5. (mgrBalance + withdrawn) + (credited + feesPaid) + U = V + funded
      BY <1>a DEF ManagerFlow
    <2>6. SumFunction(rewardsPaid') = U /\ SumFunction(taken') = V
      BY <2>1, <2>2
    <2> HIDE DEF U, V
    <2> DEFINE k == (mgrBalance + withdrawn) + (credited + feesPaid)
    <2>7. k + (funded' - funded) + U = V + funded'
      <3>1. k \in Int /\ k + U = V + funded
        BY <1>c, <2>5
      <3> HIDE DEF k
      <3> QED BY <1>c, <2>3, <2>4, <3>1
    <2>8. ManagerFlow'
      BY <2>1, <2>3, <2>6, <2>7 DEF ManagerFlow
    <2> QED BY <1>d, <1>e, <2>1, <2>8 DEF SlashBooksInv
  <1>5. ASSUME NEW n \in Nodes, NEW b \in BOOLEAN, SetRewardPaused(n, b) PROVE SlashBooksInv'
    <2>1. UNCHANGED <<escrowVars, records, mgrBalance, withdrawn, credited, feesPaid, rewardsPaid, taken, funded>>
      BY <1>5 DEF SetRewardPaused
    <2>2. ManagerFlow'
      BY <1>a, <2>1 DEF ManagerFlow
    <2> QED BY <1>d, <1>e, <2>1, <2>2 DEF SlashBooksInv
  <1>6. ASSUME [Next]_escrowVars, UNCHANGED mgrVars PROVE SlashBooksInv'
    <2>1. UNCHANGED <<records, rewards, mgrBalance, withdrawn, credited, feesPaid, taken, funded>>
      BY <1>6 DEF mgrVars
    <2>2. ManagerFlow'
      BY <1>a, <2>1 DEF ManagerFlow, rewards
    <2>3. BooksInv'
      BY <1>6, <1>a, NextBooks
    <2> QED BY <1>d, <2>1, <2>2, <2>3 DEF SlashBooksInv
  <1>7. ASSUME (EscrowCall \/ OtherSlash \/ Tick) /\ UNCHANGED mgrVars PROVE SlashBooksInv'
    <2>1. Next
      BY <1>7 DEF OtherSlash, Next
    <2> QED BY <1>6, <1>7, <2>1
  <1>8. CASE UNCHANGED smVars
    <2>1. UNCHANGED escrowVars /\ UNCHANGED mgrVars
      BY <1>8 DEF smVars
    <2> QED BY <1>6, <2>1
  <1> QED BY <1>1, <1>2, <1>3, <1>4, <1>5, <1>7, <1>8 DEF SMNext, ManagerCall

LEMMA InitSlashBooks == SMInit => SlashBooksInv
  <1> SUFFICES ASSUME SMInit PROVE SlashBooksInv
    OBVIOUS
  <1>1. BooksInv
    BY InitBooks DEF SMInit
  <1>2. IsFiniteSet(Nodes) /\ IsFiniteSet(Reasons)
    <2>1. IsFiniteSet({"SlowResponse"})
      BY FS_Singleton
    <2>2. IsFiniteSet({"SlowResponse"} \cup {"MissedHeartbeat"})
      BY <2>1, FS_AddElement
    <2>3. Reasons = {"SlowResponse"} \cup {"MissedHeartbeat"}
      BY DEF Reasons
    <2> QED BY <2>2, <2>3, EscrowConstants
  <1>3. /\ SumFunction(rewardsPaid) = 0 /\ SumFunction(taken) = 0
        /\ SumFunction(totalSlashAmountByNode) = 0 /\ SumFunction(slashCountByReason) = 0
        /\ SumFunction([n \in Nodes |-> Len(nodeSlashHistory[n])]) = 0
    <2>1. ASSUME NEW S, IsFiniteSet(S) PROVE SumFunction([x \in S |-> 0]) = 0
      BY <2>1, SumOfZeros
    <2>2. [n \in Nodes |-> Len(nodeSlashHistory[n])] = [n \in Nodes |-> 0]
      BY DEF SMInit
    <2> QED BY <1>2, <2>1, <2>2 DEF SMInit
  <1>4. SumFunction(<< >>) = 0
    <2>1. << >> \in [1..0 -> Int] /\ IsFiniteSet(1..0) /\ \A i \in 1..0 : << >>[i] = 0
      BY FS_Interval
    <2> QED BY <2>1, SumOfZeros
  <1>5. SlashesRecorded
    BY <1>3, <1>4 DEF SMInit, SlashesRecorded, HistorySum
  <1>6. ManagerFlow
    BY <1>3 DEF SMInit, ManagerFlow
  <1> QED BY <1>1, <1>5, <1>6 DEF SlashBooksInv

-----------------------------------------------------------------------------
(* The invariant of the two contracts together. *)
LEMMA SMInvariant == SMSpec => []SMInv
  BY InitSMInv, NextSMInv, PTL DEF SMSpec

(* slashPartial, slashNodeWithReason and _recordSlash: a node's recorded total never   *)
(* falls short of what the escrow took from it for the manager, whoever else slashes.  *)
THEOREM RecordsCover == SMSpec => []RecordCoversTaken
  <1>1. SMInv => RecordCoversTaken
    BY DEF SMInv
  <1> QED BY <1>1, SMInvariant, PTL

(* claimReward: for any period and any times of claiming, the whole periods paid for   *)
(* fit between the epoch and the last claim, so that none is paid twice.               *)
THEOREM PeriodsPaidOnce == SMSpec => []PeriodPaidOnce
  <1>1. SMInv => PeriodPaidOnce
    BY DEF SMInv
  <1> QED BY <1>1, SMInvariant, PTL

(* The escrow's ledger holds with the manager as its slasher: every staked wei is      *)
(* staked, pending, paid back or slashed, whatever amounts the manager computes.       *)
THEOREM LedgerSafeUnderManager == SMSpec => [](TypeOK /\ DepositConserved)
  <1>1. SMInv => TypeOK /\ DepositConserved
    BY DEF SMInv, SMTypeOK, LedgerInv
  <1> QED BY <1>1, SMInvariant, PTL

(* _recordSlash and every transfer of ether: the histories, the totals per node, per   *)
(* reason and of all agree, and across both contracts no ether is created or lost, for *)
(* every set of nodes and sequence of calls.                                           *)
THEOREM SlashBooksAlwaysBalance == SMSpec => []SlashBooksBalance
  <1>1. SMInv /\ SlashBooksInv /\ [SMNext]_smVars => SlashBooksInv'
    BY NextSlashBooks
  <1>2. SMInv /\ SlashBooksInv => SlashBooksBalance
    BY BothConserve DEF SMInv, LedgerInv, SlashBooksInv, SlashBooksBalance
  <1> QED BY <1>1, <1>2, InitSlashBooks, SMInvariant, PTL DEF SMSpec

(* And Escrow with SlashManager on top implements Custody, with every call of either:  *)
(* what the manager's functions take from a node is a penalty within what the node is  *)
(* owed, locked or not, paused or not, and no lock, pause, donation or drain meanwhile *)
(* lets anyone be paid who is not served.                                              *)
THEOREM CustodyUnderManager == SMSpec => ImplementsCustody
  <1>1. SMInit => Abstract!CustodyInit
    BY InitRefines DEF SMInit
  <1>2. SMInv /\ [SMNext]_smVars => [Abstract!CustodyNext]_(Abstract!custodyVars)
    BY CustodyKept DEF SMInv
  <1> QED BY <1>1, <1>2, SMInvariant, PTL DEF SMSpec, ImplementsCustody, Abstract!CustodySpec

=============================================================================
