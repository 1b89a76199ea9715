---------------------------- MODULE NodeRegistry ----------------------------
(***************************************************************************)
(* NodeRegistry.sol: the registration of nodes with their collateral,      *)
(* status, heartbeat and a reputation of its own, beside Escrow and        *)
(* ReputationLedger.  The list of authorized callers and the minimum are   *)
(* changed by calls that ask nothing of who makes them.                    *)
(*                                                                         *)
(* A call is one transaction; one that reverts is a step that is not       *)
(* enabled.                                                                *)
(***************************************************************************)
EXTENDS Integers, Sequences, FiniteSets, Functions

CONSTANTS
    Registrants,     \* addresses that may register
    Callers,         \* addresses that may be authorized; one of them deploys
    MIN_STAKE,       \* 0.1 ether
    MinStakes,       \* values updateMinStake is called with
    Payments,        \* ether of a call, and amounts to withdraw or slash
    Scores,          \* deltas of updateReputation
    MaxEther,        \* bound on the contract's ether
    MaxScore,        \* bound on the size of a reputation
    MaxBlocks        \* bound on the block time

ASSUME RegistryConstants ==
    /\ IsFiniteSet(Registrants)
    /\ MIN_STAKE \in Nat /\ MinStakes \subseteq Nat /\ Payments \subseteq Nat
    /\ Scores \subseteq Int
    /\ MaxEther \in Nat /\ MaxScore \in Nat /\ MaxBlocks \in Nat

VARIABLES
    _nodes,          \* address -> Node
    _registered,     \* the addresses that are registered
    _nodeList,       \* them in order
    _minStake,
    _authorizedCallers,
    registryBalance, \* the contract's ether
    timestamp,       \* block.timestamp
    slashedAway      \* history: the sum of what slashStake has deducted

registryVars == <<_nodes, _registered, _nodeList, _minStake, _authorizedCallers, registryBalance, timestamp,
                  slashedAway>>

Statuses == {"Offline", "Online", "Stale", "Slashed"}
NoNode == [stakeAmount |-> 0, status |-> "Offline", registeredAt |-> 0, lastHeartbeat |-> 0, reputationScore |-> 0]

RegistryInit ==
    /\ _nodes = [n \in Registrants |-> NoNode]
    /\ _registered = {} /\ _nodeList = <<>>
    /\ _minStake = MIN_STAKE
    /\ \E c \in Callers : _authorizedCallers = {c}
    /\ registryBalance = 0 /\ timestamp = 1 /\ slashedAway = 0

-----------------------------------------------------------------------------
\* Mutant: the stake that was announced is entered, not the ether that came.
registerNodeAnnounced(n, initialStake, value) ==
    /\ initialStake >= _minStake /\ n \notin _registered /\ value >= initialStake
    /\ registryBalance + value <= MaxEther
    /\ _nodes' = [_nodes EXCEPT ![n] = [stakeAmount |-> initialStake, status |-> "Online",
                                        registeredAt |-> timestamp, lastHeartbeat |-> timestamp,
                                        reputationScore |-> 0]]
    /\ _registered' = _registered \union {n} /\ _nodeList' = Append(_nodeList, n)
    /\ registryBalance' = registryBalance + value
    /\ UNCHANGED <<_minStake, _authorizedCallers, timestamp, slashedAway>>

registerNode(n, initialStake, value) ==
    /\ initialStake >= _minStake /\ n \notin _registered /\ value >= initialStake
    /\ registryBalance + value <= MaxEther
    /\ _nodes' = [_nodes EXCEPT ![n] = [stakeAmount |-> value, status |-> "Online", registeredAt |-> timestamp,
                                        lastHeartbeat |-> timestamp, reputationScore |-> 0]]
    /\ _registered' = _registered \union {n} /\ _nodeList' = Append(_nodeList, n)
    /\ registryBalance' = registryBalance + value
    /\ UNCHANGED <<_minStake, _authorizedCallers, timestamp, slashedAway>>

updateStake(n, additionalStake, value) ==
    /\ n \in _registered /\ value >= additionalStake
    /\ registryBalance + value <= MaxEther
    /\ _nodes' = [_nodes EXCEPT ![n].stakeAmount = @ + value]
    /\ registryBalance' = registryBalance + value
    /\ UNCHANGED <<_registered, _nodeList, _minStake, _authorizedCallers, timestamp, slashedAway>>

withdrawStake(n, amount) ==
    /\ n \in _registered
    /\ _nodes[n].stakeAmount >= amount /\ _nodes[n].stakeAmount - amount >= _minStake
    /\ amount <= registryBalance
    /\ _nodes' = [_nodes EXCEPT ![n].stakeAmount = @ - amount]
    /\ registryBalance' = registryBalance - amount
    /\ UNCHANGED <<_registered, _nodeList, _minStake, _authorizedCallers, timestamp, slashedAway>>

onlyAuthorized(c) == c \in _authorizedCallers

updateNodeStatus(c, n, newStatus) ==
    /\ onlyAuthorized(c) /\ n \in _registered
    /\ _nodes' = [_nodes EXCEPT ![n].status = newStatus]
    /\ UNCHANGED <<_registered, _nodeList, _minStake, _authorizedCallers, registryBalance, timestamp, slashedAway>>

\* A heartbeat brings a stale node back, and no other.
Revived(status) == IF status = "Stale" THEN "Online" ELSE status

updateHeartbeat(n) ==
    /\ n \in _registered
    /\ _nodes' = [_nodes EXCEPT ![n].lastHeartbeat = timestamp, ![n].status = Revived(@)]
    /\ UNCHANGED <<_registered, _nodeList, _minStake, _authorizedCallers, registryBalance, timestamp, slashedAway>>

updateReputation(c, n, delta) ==
    /\ onlyAuthorized(c) /\ n \in _registered
    /\ _nodes[n].reputationScore + delta \in -MaxScore..MaxScore
    /\ _nodes' = [_nodes EXCEPT ![n].reputationScore = @ + delta]
    /\ UNCHANGED <<_registered, _nodeList, _minStake, _authorizedCallers, registryBalance, timestamp, slashedAway>>

Deducted(n, amount) == IF amount > _nodes[n].stakeAmount THEN _nodes[n].stakeAmount ELSE amount

\* What is deducted stays in the contract: no function pays it out.
slashStake(c, n, amount) ==
    /\ onlyAuthorized(c) /\ n \in _registered
    /\ _nodes' = [_nodes EXCEPT ![n].stakeAmount = @ - Deducted(n, amount), ![n].status = "Slashed"]
    /\ slashedAway' = slashedAway + Deducted(n, amount)
    /\ UNCHANGED <<_registered, _nodeList, _minStake, _authorizedCallers, registryBalance, timestamp>>

setAuthorization(c, isAuthorized) ==
    /\ _authorizedCallers' = IF isAuthorized THEN _authorizedCallers \union {c} ELSE _authorizedCallers \ {c}
    /\ UNCHANGED <<_nodes, _registered, _nodeList, _minStake, registryBalance, timestamp, slashedAway>>

updateMinStake(newMinStake) ==
    /\ _minStake' = newMinStake
    /\ UNCHANGED <<_nodes, _registered, _nodeList, _authorizedCallers, registryBalance, timestamp, slashedAway>>

NextBlock ==
    /\ timestamp < MaxBlocks /\ timestamp' = timestamp + 1
    /\ UNCHANGED <<_nodes, _registered, _nodeList, _minStake, _authorizedCallers, registryBalance, slashedAway>>

meetsMinStake(n) == n \in _registered /\ _nodes[n].stakeAmount >= _minStake

RegistryNext ==
    \/ \E n \in Registrants, v, w \in Payments : registerNode(n, v, w) \/ updateStake(n, v, w)
    \/ \E n \in Registrants, v \in Payments : withdrawStake(n, v)
    \/ \E n \in Registrants : updateHeartbeat(n)
    \/ \E c \in Callers, n \in Registrants :
        \/ \E s \in Statuses : updateNodeStatus(c, n, s)
        \/ \E d \in Scores : updateReputation(c, n, d)
        \/ \E v \in Payments : slashStake(c, n, v)
    \/ \E c \in Callers, isAuthorized \in BOOLEAN : setAuthorization(c, isAuthorized)
    \/ \E m \in MinStakes : updateMinStake(m)
    \/ NextBlock

RegistrySpec == RegistryInit /\ [][RegistryNext]_registryVars

-----------------------------------------------------------------------------
(* Properties *)

(* Every wei of the contract is some node's stake or was slashed (registerNode,     *)
(* updateStake, withdrawStake, slashStake), and getAllNodes lists exactly the nodes *)
(* with a record, each once.                                                        *)
stakesHeld == [n \in Registrants |-> _nodes[n].stakeAmount]
RegistryBalances ==
    /\ registryBalance = SumFunction(stakesHeld) + slashedAway
    /\ Len(_nodeList) = Cardinality(_registered)
    /\ {_nodeList[i] : i \in 1..Len(_nodeList)} = _registered
    /\ \A n \in Registrants \ _registered : _nodes[n] = NoNode

-----------------------------------------------------------------------------
(* Statements of the contract's comments that its code does not keep. *)

(* "Withdraw stake (must not go below minimum)": a registered node that was not     *)
(* slashed meets the minimum.  updateMinStake raises it under those who hold less.  *)
MinimumUpheld == \A n \in _registered : _nodes[n].status # "Slashed" => meetsMinStake(n)
=============================================================================
