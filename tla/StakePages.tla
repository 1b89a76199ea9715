---------------------------- MODULE StakePages ----------------------------
(***************************************************************************)
(* Staking from the browser: app/(dashboard)/wallet/page.tsx with its two  *)
(* modals, and the pair of modals exported by                              *)
(* components/wallet/stake-modals.tsx, which no page mounts yet.           *)
(*                                                                         *)
(* A modal stays mounted while it is closed, so what wagmi does for it     *)
(* goes on: a signature asked for before it was closed arrives in a modal  *)
(* that has been reset, or opened again.  The wallet, the chain and the    *)
(* cache of wagmi's reads are outside the page.                            *)
(*                                                                         *)
(* Ether is counted in units of which the display shows every second one.  *)
(***************************************************************************)
EXTENDS Integers, FiniteSets

CONSTANTS
    MIN_STAKE,     \* the 10 ETH the modals ask for
    Balances,      \* ether a wallet may start with
    Stakes,        \* stakes it may start with
    Typed,         \* amounts a user types
    MaxTx,         \* bound: transactions sent to the wallet
    MaxMounts      \* bound: times the page mounts its modals

ASSUME StakePagesConstants ==
    /\ {MIN_STAKE, MaxTx, MaxMounts} \subseteq Nat \ {0}
    /\ Balances \cup Stakes \cup Typed \subseteq Nat

VARIABLES
    host,          \* "page" or "component": whose modals are mounted
    chain,         \* the account on chain: ether and stake
    reads,         \* what useBalance and getStake last answered
    mount,         \* number of the mount on screen, 0 while disconnected
    modals,        \* modal -> its state
    txs,           \* transactions: what was asked for and where it is
    watch          \* transaction -> wagmi's query for its receipt: "on", "failed"
                   \* when it gave up, "again" when it was resumed after that

stakePagesVars == <<host, chain, reads, mount, modals, txs, watch>>

ModalNames == {"stake", "unstake"}
Blank == -1
NoHash == 0
TxIds == 1..MaxTx
Txs == {t \in TxIds : txs[t].at # "unused"}

Parsed(amount) == IF amount = Blank THEN 0 ELSE amount
\* toFixed(4): the nearest amount that can be shown, the higher of two
ToFixed(x) == 2 * ((x + 1) \div 2)

Closed == [open |-> FALSE, amount |-> Blank, ack |-> FALSE, txHash |-> NoHash, writeError |-> FALSE]
NoTransaction == [modal |-> "stake", mount |-> 0, amount |-> 0, at |-> "unused", dismissed |-> FALSE]

StakePagesInit ==
    /\ host \in {"page", "component"}
    /\ \E b \in Balances, s \in Stakes :
          chain = [balance |-> b, stake |-> s] /\ reads = [balance |-> 0, stake |-> 0]
    /\ mount = 0
    /\ modals = [m \in ModalNames |-> Closed]
    /\ txs = [t \in TxIds |-> NoTransaction]
    /\ watch = [t \in TxIds |-> "on"]

(***************************************************************************)
(* What wagmi derives for a modal.                                         *)
(***************************************************************************)
\* useWriteContract: the mutation of this mount that waits for the wallet
isSigning(m) == \E t \in Txs : txs[t].modal = m /\ txs[t].mount = mount /\ txs[t].at = "signing"

\* useWaitForTransactionReceipt, of which the modals read isLoading and
\* isSuccess: neither holds for an unknown hash, for a transaction that was
\* reverted or for a query that failed, and no modal shows that error.  The
\* receipt of a transaction that replaced the awaited one answers for it.
Watched(m) == modals[m].txHash # NoHash /\ watch[modals[m].txHash] # "failed"
isConfirming(m) == Watched(m) /\ txs[modals[m].txHash].at = "pending"
isConfirmedByReceipt(m) == Watched(m) /\ txs[modals[m].txHash].at \in {"mined", "replaced", "reverted"}

isConfirmed(m) == Watched(m) /\ txs[modals[m].txHash].at \in {"mined", "replaced"}

(***************************************************************************)
(* The forms of the page.                                                  *)
(***************************************************************************)
StakeErrMsg(amount) ==
    LET newStake == reads.stake + Parsed(amount)
    IN /\ amount # Blank
       /\ \/ Parsed(amount) <= 0
          \/ Parsed(amount) > reads.balance
          \/ newStake < MIN_STAKE /\ newStake > reads.stake

UnstakeErrMsg(amount) ==
    LET remaining == reads.stake - Parsed(amount)
    IN /\ amount # Blank
       /\ \/ Parsed(amount) <= 0
          \/ Parsed(amount) > reads.stake
          \/ remaining < MIN_STAKE /\ remaining >= 0

canSubmit(m) ==
    LET amount == modals[m].amount
    IN /\ amount # Blank /\ Parsed(amount) > 0 /\ Parsed(amount) <= reads.stake
       /\ reads.stake - Parsed(amount) >= MIN_STAKE
       /\ modals[m].ack /\ ~isSigning(m) /\ ~isConfirming(m)

StakeFormWhileConfirming(m) ==
    /\ modals[m].amount # Blank /\ ~StakeErrMsg(modals[m].amount)
    /\ ~isSigning(m)

\* the submit buttons; a disabled one also keeps Enter from submitting
StakeForm(m) ==
    /\ modals[m].amount # Blank /\ ~StakeErrMsg(modals[m].amount)
    /\ ~isSigning(m) /\ ~isConfirming(m)
UnstakeForm(m) == canSubmit(m)

\* the amounts the buttons beside the field set
StakeQuick == {2, ToFixed(reads.balance)}
UnstakeQuick == {ToFixed(reads.stake \div 2), ToFixed(IF reads.stake > MIN_STAKE THEN reads.stake - MIN_STAKE ELSE 0)}

(***************************************************************************)
(* The forms of stake-modals.tsx: the errors are computed for an empty     *)
(* field too, the minimum is the host's.                                   *)
(***************************************************************************)
ComponentStakeErrors(amount) ==
    LET newStake == reads.stake + Parsed(amount)
    IN \/ amount # Blank /\ Parsed(amount) <= 0
       \/ Parsed(amount) > reads.balance
       \/ newStake < MIN_STAKE /\ newStake > reads.stake

ComponentStakeForm(m) ==
    /\ ~isSigning(m) /\ ~isConfirming(m)
    /\ modals[m].amount # Blank /\ ~ComponentStakeErrors(modals[m].amount)

ComponentUnstakeErrors(amount) ==
    LET remainingStake == reads.stake - Parsed(amount)
    IN \/ amount # Blank /\ Parsed(amount) <= 0
       \/ Parsed(amount) > reads.stake
       \/ remainingStake < MIN_STAKE /\ remainingStake >= 0

ComponentUnstakeForm(m) ==
    LET amount == modals[m].amount
    IN /\ amount # Blank /\ ~ComponentUnstakeErrors(amount)
       /\ modals[m].ack /\ ~isSigning(m) /\ ~isConfirming(m)

Submittable(m) ==
    CASE host = "page" /\ m = "stake" -> StakeForm(m)
      [] host = "page" /\ m = "unstake" -> UnstakeForm(m)
      [] host = "component" /\ m = "stake" -> ComponentStakeForm(m)
      [] host = "component" /\ m = "unstake" -> ComponentUnstakeForm(m)

\* the view of success, and the amount it says was moved: what the field holds now
StakeSubmitted(m) == isConfirmed(m)
UnstakingInitiated(m) == isConfirmed(m)
ComponentSuccess(m) == isConfirmed(m)
ShowsSuccess(m) ==
    modals[m].open /\
    CASE host = "component" -> ComponentSuccess(m)
      [] host = "page" /\ m = "stake" -> StakeSubmitted(m)
      [] OTHER -> UnstakingInitiated(m)
AmountShown(m) == ToFixed(Parsed(modals[m].amount))

(***************************************************************************)
(* The page.                                                               *)
(***************************************************************************)
outside == <<host, chain, reads, watch>>
ShowsForm(m) == mount > 0 /\ modals[m].open /\ ~ShowsSuccess(m)

\* WalletPage shows its connected view, whose hooks read the chain; the
\* number of the mount stands for a fresh state of both modals
ConnectedWalletView ==
    /\ mount = 0
    /\ \E k \in 1..MaxMounts :
          /\ \A t \in Txs : txs[t].mount < k
          /\ \A j \in 1..(k - 1) : \E t \in Txs : txs[t].mount >= j
          /\ mount' = k
    /\ modals' = [m \in ModalNames |-> Closed]
    /\ reads' = chain
    /\ UNCHANGED <<host, chain, txs, watch>>

DisconnectedWalletView ==
    /\ mount > 0
    /\ mount' = 0
    /\ txs' = [t \in TxIds |-> [txs[t] EXCEPT !.dismissed = TRUE]]
    /\ modals' = [m \in ModalNames |-> Closed]
    /\ UNCHANGED outside

\* the buttons lie below an open modal
OpenModal(m) ==
    /\ mount > 0 /\ \A o \in ModalNames : ~modals[o].open
    /\ modals' = [modals EXCEPT ![m].open = TRUE]
    /\ UNCHANGED <<outside, mount, txs>>

SetAmount(m) ==
    /\ ShowsForm(m)
    /\ \E a \in Typed \cup {Blank} \cup (IF m = "stake" THEN StakeQuick ELSE UnstakeQuick) :
          modals' = [modals EXCEPT ![m].amount = a]
    /\ UNCHANGED <<outside, mount, txs>>

SetAck ==
    /\ ShowsForm("unstake")
    /\ modals' = [modals EXCEPT !["unstake"].ack = ~@]
    /\ UNCHANGED <<outside, mount, txs>>

\* writeContract: the wallet is asked; a new mutation clears the last error
handleSubmit(m) ==
    /\ ShowsForm(m) /\ Submittable(m)
    /\ \E t \in TxIds \ Txs :
          /\ \A u \in TxIds \ Txs : t <= u
          /\ txs' = [txs EXCEPT ![t] =
                       [modal |-> m, mount |-> mount, amount |-> modals[m].amount,
                        at |-> "signing", dismissed |-> FALSE]]
    /\ modals' = [modals EXCEPT ![m].writeError = FALSE]
    /\ UNCHANGED <<outside, mount>>

handleClose(m) ==
    /\ mount > 0 /\ modals[m].open
    /\ modals' = [modals EXCEPT ![m] = [Closed EXCEPT !.writeError = modals[m].writeError]]
    /\ txs' = [t \in TxIds |-> IF txs[t].modal = m THEN [txs[t] EXCEPT !.dismissed = TRUE] ELSE txs[t]]
    /\ UNCHANGED <<outside, mount>>

(***************************************************************************)
(* The wallet and the chain.                                               *)
(***************************************************************************)
\* onSuccess: the modals of the page remember the hash, open or not; those of
\* the component pass no callback
onSuccess(t) ==
    IF host = "page" /\ txs[t].mount = mount
    THEN modals' = [modals EXCEPT ![txs[t].modal].txHash = t]
    ELSE UNCHANGED modals

Signed(t) ==
    /\ txs[t].at = "signing"
    /\ txs' = [txs EXCEPT ![t].at = "pending"]
    /\ onSuccess(t)
    /\ UNCHANGED <<outside, mount>>

Rejected(t) ==
    /\ txs[t].at = "signing"
    /\ txs' = [txs EXCEPT ![t].at = "rejected"]
    /\ modals' = IF txs[t].mount = mount
                 THEN [modals EXCEPT ![txs[t].modal].writeError = TRUE] ELSE modals
    /\ UNCHANGED <<outside, mount>>

\* Escrow.stake and Escrow.withdraw: the ether moves at once, both ways
Executes(t) ==
    IF txs[t].modal = "stake" THEN txs[t].amount <= chain.balance
    ELSE txs[t].amount <= chain.stake /\ chain.stake - txs[t].amount \in {0} \cup {x \in 0..chain.stake : x >= MIN_STAKE}

Mined(t) ==
    /\ txs[t].at = "pending" /\ Executes(t)
    /\ txs' = [txs EXCEPT ![t].at = "mined"]
    /\ LET moved == IF txs[t].modal = "stake" THEN txs[t].amount ELSE -txs[t].amount
       IN chain' = [balance |-> chain.balance - moved, stake |-> chain.stake + moved]
    /\ UNCHANGED <<host, reads, mount, modals, watch>>

Reverted(t) ==
    /\ txs[t].at = "pending"
    /\ txs' = [txs EXCEPT ![t].at = "reverted"]
    /\ UNCHANGED <<outside, mount, modals>>

\* the user cancels it in the wallet: another one with its nonce is mined
Replaced(t) ==
    /\ txs[t].at = "pending"
    /\ txs' = [txs EXCEPT ![t].at = "replaced"]
    /\ UNCHANGED <<outside, mount, modals>>

\* the node of the wallet's provider stops answering, and is asked again
\* when the window is focused or the connection is back
Awaits(t) == \E m \in ModalNames : modals[m].txHash = t

WatchFails(t) ==
    /\ Awaits(t) /\ txs[t].at = "pending" /\ watch[t] # "failed"
    /\ watch' = [watch EXCEPT ![t] = "failed"]
    /\ UNCHANGED <<host, chain, reads, mount, modals, txs>>

WatchAgain(t) ==
    /\ Awaits(t) /\ watch[t] = "failed"
    /\ watch' = [watch EXCEPT ![t] = "again"]
    /\ UNCHANGED <<host, chain, reads, mount, modals, txs>>

\* a slash, by a slasher the page knows nothing of
Slashed ==
    /\ chain.stake > 0
    /\ chain' = [chain EXCEPT !.stake = 0]
    /\ UNCHANGED <<host, reads, mount, modals, txs, watch>>

\* the answers go stale after five minutes; a confirmation refreshes nothing
Refetch ==
    /\ mount > 0 /\ reads # chain
    /\ reads' = chain
    /\ UNCHANGED <<host, chain, mount, modals, txs, watch>>

StakePagesNext ==
    \/ ConnectedWalletView \/ DisconnectedWalletView
    \/ \E m \in ModalNames : OpenModal(m) \/ SetAmount(m) \/ handleSubmit(m) \/ handleClose(m)
    \/ SetAck
    \/ \E t \in Txs : Signed(t) \/ Rejected(t) \/ Mined(t) \/ Reverted(t) \/ Replaced(t)
                    \/ WatchFails(t) \/ WatchAgain(t)
    \/ Slashed \/ Refetch

StakePagesSpec == StakePagesInit /\ [][StakePagesNext]_stakePagesVars

(***************************************************************************)
(* Properties.                                                             *)
(***************************************************************************)
\* What is under way for modal m: asked of the wallet or pending, and not
\* given up by closing the modal.
UnderWay(m) == {t \in Txs : txs[t].modal = m /\ ~txs[t].dismissed /\ txs[t].at \in {"signing", "pending"}}

\* A modal of the wallet page follows one transaction: of those under way for
\* it at most one is still watched as it was from the start, so only a query
\* for a receipt that failed makes room for a second.  A signature that
\* arrives in a modal closed and opened again counts.  And its view of
\* success is shown for a transaction that this mount of this modal sent and
\* whose nonce is used, by itself or by its replacement, and that was not
\* reverted; the modals of stake-modals.tsx, which never learn a hash, do not
\* show it at all.
ModalFollowsOneTransaction ==
    \A m \in ModalNames :
        /\ host = "page" => Cardinality({t \in UnderWay(m) : watch[t] = "on"}) <= 1
        /\ ShowsSuccess(m) =>
              /\ host = "page"
              /\ LET t == modals[m].txHash
                 IN txs[t].at \in {"mined", "replaced"} /\ txs[t].modal = m /\ txs[t].mount = mount

\* Not kept: the button stays disabled while a transaction is on its way.
OneTransactionAtATime ==
    host = "page" => \A m \in ModalNames : Cardinality(UnderWay(m)) <= 1

\* Not kept: what is shown as staked was staked.
SuccessWasMined ==
    \A m \in ModalNames : ShowsSuccess(m) => txs[modals[m].txHash].at = "mined"

\* Not kept: the amount shown as staked is the field's, not the transaction's.
SuccessShowsAmount ==
    \A m \in ModalNames : ShowsSuccess(m) => AmountShown(m) = txs[modals[m].txHash].amount
=============================================================================
