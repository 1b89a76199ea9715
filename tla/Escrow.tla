------------------------------- MODULE Escrow -------------------------------
(***************************************************************************)
(* contracts/contracts/Escrow.sol: collateral staking of GPU nodes.        *)
(*                                                                         *)
(* A transaction is one step.  A failed `require' and a refused ether      *)
(* transfer revert the transaction, so they are guards.  Solidity 0.8 also *)
(* reverts on underflow; no guard says so here, and TypeOK shows that no   *)
(* subtraction ever needs it.  Amounts are wei scaled to small naturals.   *)
(*                                                                         *)
(* `deposited', the sum of the audit trail stakeHistory[n], stands for     *)
(* that trail.  The history variables paid, slashed, donated, drained and  *)
(* requestedAt do not exist in the contract: they record where ether went  *)
(* and when a withdrawal was last requested.                               *)
(***************************************************************************)
EXTENDS Integers, Sequences, FiniteSets, Functions

CONSTANTS
    Nodes,        \* addresses that stake
    Slashers,     \* addresses the owner may authorize to slash
    Deployer,     \* msg.sender of the constructor: the first slasher
    MIN_STAKE,    \* 0.05 ether
    Amounts,      \* values passed to payable and amount-taking functions
    MaxStakes,    \* values of maximumStakeAmount; the greatest is 1000 ether
    Durations,    \* lock durations
    MaxDeposit,   \* bound: ether a node ever stakes
    MaxDonation,  \* bound: ether ever sent to receive()
    StartTime,    \* block.timestamp of the deployment
    MaxTime       \* bound: block.timestamp

ASSUME EscrowConstants ==
    /\ Deployer \in Slashers
    /\ MIN_STAKE \in Nat \ {0}
    /\ Amounts \subseteq Nat
    /\ MaxStakes \subseteq Nat
    /\ Durations \subseteq Nat
    /\ MaxDeposit \in Nat /\ MaxDonation \in Nat
    /\ StartTime \in Nat /\ MaxTime \in Nat
    /\ IsFiniteSet(Nodes)

VARIABLES
    stakeOf,             \* _stakeOf
    stakes,              \* _stakes: mirrored amount, lock flag, unlock time
    staked,              \* _hasStaked
    stakerList,          \* _stakerList
    stakeIndex,          \* _stakeIndex, 0-based
    totalStaked,         \* _totalStaked
    pendingWithdrawals,
    deposited,           \* sum of stakeHistory[n]
    balance,             \* address(this).balance
    slasher,
    owned,               \* owner # address(0), the negation of _ownershipRenounced
    paused,
    maximumStakeAmount,
    stakeLockDuration,
    now,                 \* block.timestamp
    paid, slashed, donated, drained, requestedAt

books == <<stakeOf, stakes, staked, stakerList, stakeIndex, totalStaked,
           pendingWithdrawals, deposited>>
money == <<balance, paid, slashed, donated, drained>>
admin == <<slasher, owned, paused, maximumStakeAmount, stakeLockDuration>>
escrowVars == <<books, money, admin, now, requestedAt>>

StakeRecord == [amount : Nat, locked : BOOLEAN, unlockTime : Nat]

Init ==
    /\ stakeOf = [n \in Nodes |-> 0]
    /\ stakes = [n \in Nodes |-> [amount |-> 0, locked |-> FALSE, unlockTime |-> 0]]
    /\ staked = [n \in Nodes |-> FALSE]
    /\ stakerList = << >>
    /\ stakeIndex = [n \in Nodes |-> 0]
    /\ totalStaked = 0
    /\ pendingWithdrawals = [n \in Nodes |-> 0]
    /\ deposited = [n \in Nodes |-> 0]
    /\ balance = 0
    /\ slasher = Deployer
    /\ owned = TRUE
    /\ paused = FALSE
    /\ maximumStakeAmount \in {m \in MaxStakes : m >= MIN_STAKE /\ \A x \in MaxStakes : x <= m}
    /\ stakeLockDuration \in Durations
    /\ now = StartTime
    /\ paid = [n \in Nodes |-> 0]
    /\ slashed = [n \in Nodes |-> 0]
    /\ donated = 0
    /\ drained = 0
    /\ requestedAt = [n \in Nodes |-> 0]

-----------------------------------------------------------------------------
HasStaked(n) == staked[n] /\ stakeOf[n] > 0

ValidStakeAmount(v) == v >= MIN_STAKE /\ (maximumStakeAmount = 0 \/ v <= maximumStakeAmount)

(* Mutant: the minimum is not enforced on what remains. *)
AnyRemainder(r) == r >= 0

(* What withdraw and requestWithdrawal may leave behind. *)
ValidRemainder(r) == r = 0 \/ r >= MIN_STAKE

(* Mutant: the copy of the amount in _stakes is not updated. *)
DebitKeepsMirror(n, amount) ==
    /\ stakeOf' = [stakeOf EXCEPT ![n] = @ - amount]
    /\ totalStaked' = totalStaked - amount
    /\ UNCHANGED stakes

(* Take `amount' out of n's stake: the two books and the mirror in _stakes. *)
DebitStake(n, amount) ==
    /\ stakeOf' = [stakeOf EXCEPT ![n] = @ - amount]
    /\ totalStaked' = totalStaked - amount
    /\ stakes' = [stakes EXCEPT ![n].amount = stakeOf[n] - amount]

(* msg.sender.call{value: amount}, for a node; a transfer beyond the balance reverts. *)
PayNode(n, amount) ==
    /\ balance >= amount
    /\ balance' = balance - amount
    /\ paid' = [paid EXCEPT ![n] = @ + amount]

(* Mutant: every stake enters the node again. *)
ListStakerAgain(n) ==
    /\ staked' = [staked EXCEPT ![n] = TRUE]
    /\ stakerList' = Append(stakerList, n)
    /\ stakeIndex' = [stakeIndex EXCEPT ![n] = Len(stakerList)]

(* The first stake of a node enters it in the enumeration. *)
ListStaker(n) ==
    IF staked[n] THEN UNCHANGED <<staked, stakerList, stakeIndex>>
    ELSE /\ staked' = [staked EXCEPT ![n] = TRUE]
         /\ stakerList' = Append(stakerList, n)
         /\ stakeIndex' = [stakeIndex EXCEPT ![n] = Len(stakerList)]

Stake(n, v) ==
    /\ ~paused
    /\ v > 0
    /\ ValidStakeAmount(v)
    /\ deposited[n] + v <= MaxDeposit
    /\ ListStaker(n)
    /\ stakeOf' = [stakeOf EXCEPT ![n] = @ + v]
    /\ totalStaked' = totalStaked + v
    /\ stakes' = [stakes EXCEPT ![n] =
                     [amount |-> stakeOf[n] + v, locked |-> FALSE, unlockTime |-> 0]]
    /\ deposited' = [deposited EXCEPT ![n] = @ + v]
    /\ balance' = balance + v
    /\ UNCHANGED <<pendingWithdrawals, paid, slashed, donated, drained, admin, now, requestedAt>>

Withdraw(n, amount) ==
    /\ HasStaked(n)
    /\ ~paused
    /\ amount > 0
    /\ stakeOf[n] >= amount
    /\ ~stakes[n].locked
    /\ ValidRemainder(stakeOf[n] - amount)
    /\ DebitStake(n, amount)
    /\ PayNode(n, amount)
    /\ UNCHANGED <<staked, stakerList, stakeIndex, pendingWithdrawals, deposited,
                   slashed, donated, drained, admin, now, requestedAt>>

(* Mutant: the slash is not capped to the stake. *)
UncappedSlash(n, amount) == amount

(* The part of `amount' that n's stake can cover. *)
ActualSlash(n, amount) == IF amount > stakeOf[n] THEN stakeOf[n] ELSE amount

Slash(caller, n, amount) ==
    /\ caller = slasher
    /\ HasStaked(n)
    /\ balance >= ActualSlash(n, amount)
    /\ DebitStake(n, ActualSlash(n, amount))
    /\ balance' = balance - ActualSlash(n, amount)
    /\ slashed' = [slashed EXCEPT ![n] = @ + ActualSlash(n, amount)]
    /\ UNCHANGED <<staked, stakerList, stakeIndex, pendingWithdrawals, deposited,
                   paid, donated, drained, admin, now, requestedAt>>

(* Mutant: whenNotPaused is missing. *)
RequestWhilePaused(n, amount) ==
    /\ HasStaked(n)
    /\ amount > 0
    /\ stakeOf[n] >= amount
    /\ ValidRemainder(stakeOf[n] - amount)
    /\ DebitStake(n, amount)
    /\ pendingWithdrawals' = [pendingWithdrawals EXCEPT ![n] = @ + amount]
    /\ requestedAt' = [requestedAt EXCEPT ![n] = now]
    /\ UNCHANGED <<staked, stakerList, stakeIndex, deposited, money, admin, now>>

RequestWithdrawal(n, amount) ==
    /\ HasStaked(n)
    /\ ~paused
    /\ amount > 0
    /\ stakeOf[n] >= amount
    /\ ValidRemainder(stakeOf[n] - amount)
    /\ DebitStake(n, amount)
    /\ pendingWithdrawals' = [pendingWithdrawals EXCEPT ![n] = @ + amount]
    /\ requestedAt' = [requestedAt EXCEPT ![n] = now]
    /\ UNCHANGED <<staked, stakerList, stakeIndex, deposited, money, admin, now>>

(* Mutants: the pending entry is not cleared; the lock is not checked. *)
ClaimWithoutClearing(n) ==
    /\ ~paused
    /\ pendingWithdrawals[n] > 0
    /\ ~stakes[n].locked
    /\ PayNode(n, pendingWithdrawals[n])
    /\ UNCHANGED <<books, slashed, donated, drained, admin, now, requestedAt>>

ClaimWhileLocked(n) ==
    /\ ~paused
    /\ pendingWithdrawals[n] > 0
    /\ pendingWithdrawals' = [pendingWithdrawals EXCEPT ![n] = 0]
    /\ PayNode(n, pendingWithdrawals[n])
    /\ UNCHANGED <<stakeOf, stakes, staked, stakerList, stakeIndex, totalStaked, deposited,
                   slashed, donated, drained, admin, now, requestedAt>>

ClaimWithdrawal(n) ==
    /\ ~paused
    /\ pendingWithdrawals[n] > 0
    /\ ~stakes[n].locked
    /\ pendingWithdrawals' = [pendingWithdrawals EXCEPT ![n] = 0]
    /\ PayNode(n, pendingWithdrawals[n])
    /\ UNCHANGED <<stakeOf, stakes, staked, stakerList, stakeIndex, totalStaked, deposited,
                   slashed, donated, drained, admin, now, requestedAt>>

(* The loop runs over `ids' but every round reads and clears the same entry,  *)
(* pendingWithdrawals[msg.sender]: a second round finds 0 and reverts.         *)
BulkWithdraw(n, ids) ==
    /\ ~paused
    /\ \A i \in 1..ids : (IF i = 1 THEN pendingWithdrawals[n] ELSE 0) > 0
    /\ ids > 0
    /\ ~stakes[n].locked
    /\ pendingWithdrawals' = [pendingWithdrawals EXCEPT ![n] = 0]
    /\ PayNode(n, pendingWithdrawals[n])
    /\ UNCHANGED <<stakeOf, stakes, staked, stakerList, stakeIndex, totalStaked, deposited,
                   slashed, donated, drained, admin, now, requestedAt>>

(* Mutant: a plain transfer is added to the stake total. *)
ReceiveAsStake(v) ==
    /\ v > 0
    /\ donated + v <= MaxDonation
    /\ donated' = donated + v
    /\ balance' = balance + v
    /\ totalStaked' = totalStaked + v
    /\ UNCHANGED <<stakeOf, stakes, staked, stakerList, stakeIndex, pendingWithdrawals,
                   deposited, paid, slashed, drained, admin, now, requestedAt>>

Receive(v) ==
    /\ v > 0
    /\ donated + v <= MaxDonation
    /\ donated' = donated + v
    /\ balance' = balance + v
    /\ UNCHANGED <<books, paid, slashed, drained, admin, now, requestedAt>>

-----------------------------------------------------------------------------
(* Owner functions. *)
LockStake(n, duration) ==
    /\ owned
    /\ staked[n]
    /\ stakes' = [stakes EXCEPT ![n].locked = TRUE, ![n].unlockTime = now + duration]
    /\ UNCHANGED <<stakeOf, staked, stakerList, stakeIndex, totalStaked,
                   pendingWithdrawals, deposited, money, admin, now, requestedAt>>

UnlockStake(n) ==
    /\ owned
    /\ stakes[n].locked
    /\ stakes' = [stakes EXCEPT ![n].locked = FALSE, ![n].unlockTime = 0]
    /\ UNCHANGED <<stakeOf, staked, stakerList, stakeIndex, totalStaked,
                   pendingWithdrawals, deposited, money, admin, now, requestedAt>>

AuthorizeSlasher(s) ==
    /\ owned
    /\ slasher' = s
    /\ UNCHANGED <<books, money, owned, paused, maximumStakeAmount, stakeLockDuration,
                   now, requestedAt>>

EmergencyWithdraw ==
    /\ owned
    /\ balance > 0
    /\ balance' = 0
    /\ drained' = drained + balance
    /\ UNCHANGED <<books, paid, slashed, donated, admin, now, requestedAt>>

PauseStake ==
    /\ owned
    /\ paused' = TRUE
    /\ UNCHANGED <<books, money, slasher, owned, maximumStakeAmount, stakeLockDuration,
                   now, requestedAt>>

UnpauseStake ==
    /\ owned
    /\ paused' = FALSE
    /\ UNCHANGED <<books, money, slasher, owned, maximumStakeAmount, stakeLockDuration,
                   now, requestedAt>>

SetStakeLockDuration(duration) ==
    /\ owned
    /\ stakeLockDuration' = duration
    /\ UNCHANGED <<books, money, slasher, owned, paused, maximumStakeAmount, now, requestedAt>>

SetMaximumStakeAmount(amount) ==
    /\ owned
    /\ amount >= MIN_STAKE
    /\ maximumStakeAmount' = amount
    /\ UNCHANGED <<books, money, slasher, owned, paused, stakeLockDuration, now, requestedAt>>

RenounceOwnership ==
    /\ owned
    /\ totalStaked = 0
    /\ owned' = FALSE
    /\ UNCHANGED <<books, money, slasher, paused, maximumStakeAmount, stakeLockDuration,
                   now, requestedAt>>

(* A later block. *)
Tick ==
    /\ now < MaxTime
    /\ now' = now + 1
    /\ UNCHANGED <<books, money, admin, requestedAt>>

NodeCall(n) ==
    \/ \E v \in Amounts : Stake(n, v) \/ Withdraw(n, v) \/ RequestWithdrawal(n, v)
    \/ ClaimWithdrawal(n)
    \/ \E ids \in 0..2 : BulkWithdraw(n, ids)

OwnerCall ==
    \/ \E n \in Nodes, d \in Durations : LockStake(n, d)
    \/ \E n \in Nodes : UnlockStake(n)
    \/ \E s \in Slashers : AuthorizeSlasher(s)
    \/ EmergencyWithdraw
    \/ PauseStake
    \/ UnpauseStake
    \/ \E d \in Durations : SetStakeLockDuration(d)
    \/ \E m \in MaxStakes : SetMaximumStakeAmount(m)
    \/ RenounceOwnership

(* Everything but a slash, whose caller another contract may be. *)
EscrowCall ==
    \/ \E n \in Nodes : NodeCall(n)
    \/ OwnerCall
    \/ \E v \in Amounts : Receive(v)

Next ==
    \/ EscrowCall
    \/ \E s \in Slashers, n \in Nodes, a \in Amounts : Slash(s, n, a)
    \/ Tick

Spec == Init /\ [][Next]_escrowVars

-----------------------------------------------------------------------------
(* Properties *)

BooksType ==
    /\ stakeOf \in [Nodes -> Nat]
    /\ stakes \in [Nodes -> StakeRecord]
    /\ staked \in [Nodes -> BOOLEAN]
    /\ stakerList \in Seq(Nodes)
    /\ stakeIndex \in [Nodes -> Nat]
    /\ totalStaked \in Int
    /\ pendingWithdrawals \in [Nodes -> Nat]
    /\ deposited \in [Nodes -> Nat]

MoneyType ==
    /\ balance \in Nat
    /\ paid \in [Nodes -> Nat]
    /\ slashed \in [Nodes -> Nat]
    /\ donated \in Nat
    /\ drained \in Nat

AdminType ==
    /\ slasher \in Slashers
    /\ owned \in BOOLEAN
    /\ paused \in BOOLEAN
    /\ maximumStakeAmount \in MaxStakes
    /\ stakeLockDuration \in Durations
    /\ now \in Nat
    /\ requestedAt \in [Nodes -> Nat]

(* Every variable has its type.  Amounts and balances stay naturals although *)
(* stake, pending and balance are subtracted from without a check of their   *)
(* own: the guards and the cap of slash are enough.                          *)
TypeOK == BooksType /\ MoneyType /\ AdminType

(* Every wei a node ever staked is in exactly one place: still staked, pending, *)
(* paid back or slashed.  No sequence of withdraw, requestWithdrawal,           *)
(* claimWithdrawal, bulkWithdraw and slash pays one wei twice or loses one.     *)
DepositConserved ==
    \A n \in Nodes : deposited[n] = stakeOf[n] + pendingWithdrawals[n] + paid[n] + slashed[n]

(* getStakeDetails and getStake never disagree on the amount. *)
StakeMirror == \A n \in Nodes : stakes[n].amount = stakeOf[n]

(* The enumeration of stakers: getStakers lists a node once and exactly when it *)
(* has ever staked, getStakeIndex points at its place, and a node that is not   *)
(* listed owns nothing in the books.                                            *)
StakerListExact ==
    /\ \A n \in Nodes : staked[n] => /\ stakeIndex[n] + 1 \in DOMAIN stakerList
                                     /\ stakerList[stakeIndex[n] + 1] = n
    /\ \A i \in DOMAIN stakerList : /\ staked[stakerList[i]]
                                    /\ stakeIndex[stakerList[i]] = i - 1
    /\ \A n \in Nodes : ~staked[n] => stakeOf[n] = 0 /\ pendingWithdrawals[n] = 0

(* Only a slash can leave a node with a stake strictly between zero and the minimum. *)
DustOnlyBySlash ==
    \A n \in Nodes : stakeOf[n] > 0 /\ stakeOf[n] < MIN_STAKE => slashed[n] > 0

(* The books balance.  The three places stake, withdraw, slash and requestWithdrawal *)
(* write a stake to agree: getStake, getStakeDetails, and _totalStaked as the sum     *)
(* over all nodes.  The ether the contract holds, plus what the owner drained with    *)
(* emergencyWithdraw, is exactly what it owes to nodes plus what was donated to       *)
(* receive(): unless drained, every claim and withdrawal can be paid.  Only a slash   *)
(* leaves a node below the minimum stake, and getStakers lists each node that ever    *)
(* staked once.                                                                       *)
TotalIsSum == totalStaked = SumFunction(stakeOf)
EtherAccounted == balance + drained = totalStaked + SumFunction(pendingWithdrawals) + donated
BooksBalance == StakeMirror /\ TotalIsSum /\ EtherAccounted /\ DustOnlyBySlash /\ StakerListExact

(* What is owed to a node is its stake and what it has asked to withdraw. *)
owedTo == [n \in Nodes |-> stakeOf[n] + pendingWithdrawals[n]]
lockOf == [n \in Nodes |-> stakes[n].locked]

Abstract == INSTANCE Custody WITH
    Clients <- Nodes, Sums <- Amounts, vault <- balance, owed <- owedTo,
    received <- paid, held <- lockOf, closed <- paused

(* Escrow.sol implements Custody: whichever of stake, withdraw, requestWithdrawal,    *)
(* claimWithdrawal, bulkWithdraw and slash is called, in whichever order, a node is   *)
(* paid only out of what it is owed, neither while it is locked nor during a pause,   *)
(* and what one node is owed changes by no call of another's.                         *)
ImplementsCustody == Abstract!CustodySpec

(* While paused, a node's stake, pending amount and payouts change only by a slash. *)
PauseFreezesNodes ==
    [][paused => \A n \in Nodes :
          /\ paid'[n] = paid[n]
          /\ pendingWithdrawals'[n] = pendingWithdrawals[n]
          /\ stakeOf'[n] + slashed'[n] = stakeOf[n] + slashed[n]]_escrowVars

-----------------------------------------------------------------------------
(* Statements of the contract's comments that its code does not keep. *)

(* "Maximum stake per node": no deposit lifts a node's stake above it.  The code  *)
(* compares each deposit, not the node's stake, with the maximum.                  *)
MaxStakePerNode ==
    [][\A n \in Nodes : stakeOf'[n] > stakeOf[n] => stakeOf'[n] <= maximumStakeAmount]_escrowVars

(* "Claim pending withdrawal after lock period": a claim pays only when              *)
(* stakeLockDuration has passed since the request.  Nothing reads that duration.     *)
ClaimAfterLockPeriod ==
    [][\A n \in Nodes : ClaimWithdrawal(n) => now >= requestedAt[n] + stakeLockDuration]_escrowVars

(* "Unlock a node's stake (called when job completes)": only unlockStake ends a lock. *)
(* stake() overwrites the record, so a top-up during a job ends it too.               *)
OnlyUnlockEndsLock ==
    [][\A n \in Nodes : stakes[n].locked /\ ~stakes'[n].locked => UnlockStake(n)]_escrowVars

(* "Lock a node's stake (called when node takes a job)": a locked stake shrinks only  *)
(* by a slash.  requestWithdrawal moves it out of the slasher's reach all the same.   *)
LockHoldsStake ==
    [][\A n \in Nodes : stakes[n].locked =>
          stakeOf'[n] + slashed'[n] >= stakeOf[n] + slashed[n]]_escrowVars

(* "This prevents permanent loss of contract control": once nobody owns the contract,  *)
(* no amount owed to a node is behind a pause or a lock only an owner could lift.       *)
NoLockOut ==
    ~owned => \A n \in Nodes : pendingWithdrawals[n] > 0 => ~paused /\ ~stakes[n].locked

=============================================================================
