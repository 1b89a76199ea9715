------------------------------- MODULE NodeApi -------------------------------
(***************************************************************************)
(* The node API, internal/api/handlers/node.go, with the Stake call of the *)
(* contract client: registering a node, and adding to its stake.           *)
(*                                                                         *)
(* A request goes through two steps that are not one: the node's record,   *)
(* in public.nodes or, without a database, in the handler's map; and a     *)
(* transaction of Escrow, where a contract client is set.  Registration    *)
(* takes them in this order, staking in the other.  Each may fail, having  *)
(* done its work or not, and a client that was refused may try again.      *)
(*                                                                         *)
(* The contract client calls the chain through a library, which here sends *)
(* a transaction or refuses it.  (Stake gives it no signer, for which it   *)
(* refuses all of them; nothing below depends on it.)                      *)
(***************************************************************************)
EXTENDS Integers, FiniteSets

CONSTANTS
    ApiNodes,        \* wallet addresses
    Requests,        \* requests that may be under way together
    Amounts,         \* stake amounts of a request; 0 is none
    MaxSent,         \* bound on what is sent to the escrow for a node
    MaxRecorded      \* bound on the stake in a record

ASSUME NodeApiConstants ==
    /\ IsFiniteSet(Requests)
    /\ Amounts \subseteq Nat
    /\ MaxSent \in Nat /\ MaxRecorded \in Nat

VARIABLES
    hasDB,           \* SetDB was called
    client,          \* SetContractClient: not called, with a nil pointer, or with a client
    nodes,           \* node -> [known, stake], in the table or in the map
    sent,            \* node -> what Stake transactions carried to the escrow
    pending,         \* request -> its call; applied is history: a row was updated
    acknowledged     \* history: node -> amounts answered as staked that an UPDATE has added

nodeApiVars == <<hasDB, client, nodes, sent, pending, acknowledged>>

NoRequest == [op |-> "none", node |-> "none", amount |-> 0, step |-> "none", applied |-> FALSE]

NodeApiInit ==
    /\ hasDB \in BOOLEAN /\ client \in {"unset", "nil", "set"}
    /\ nodes = [n \in ApiNodes |-> [known |-> FALSE, stake |-> 0]]
    /\ sent = [n \in ApiNodes |-> 0] /\ acknowledged = [n \in ApiNodes |-> 0]
    /\ pending = [r \in Requests |-> NoRequest]

-----------------------------------------------------------------------------
\* Mutant: staking writes the record before the transaction is made.
FirstStepRecord(op) == "record"

FirstStep(op) == IF op = "register" THEN "record" ELSE "escrow"

\* the step that comes after; "answer" is success
NextStep(op, step) ==
    CASE step = FirstStep(op) -> IF step = "record" THEN "escrow" ELSE "record"
      [] OTHER -> "answer"

\* RegisterNode or StakeNode with a request that is well formed
Receive(r, op, n, amount) ==
    /\ pending[r] = NoRequest
    /\ op = "stake" => amount > 0
    /\ pending' = [pending EXCEPT ![r] = [op |-> op, node |-> n, amount |-> amount, step |-> FirstStep(op),
                                       applied |-> FALSE]]
    /\ UNCHANGED <<hasDB, client, nodes, sent, acknowledged>>

GoOn(r) == pending' = [pending EXCEPT ![r].step = NextStep(pending[r].op, @)]
Refuse(r) == pending' = [pending EXCEPT ![r] = NoRequest]

\* What the record is afterwards.  The INSERT of a registration names no stake, and
\* leaves that of a node that is there; the map's entry is made anew, with what the
\* request says.  An UPDATE of a node that is not there changes nothing.
Recorded(op, old, amount) ==
    CASE op = "register" /\ hasDB -> [old EXCEPT !.known = TRUE]
      [] op = "register" /\ ~hasDB -> [known |-> TRUE, stake |-> amount]
      [] op = "stake" /\ old.known -> [old EXCEPT !.stake = @ + amount]
      [] OTHER -> old

Record(r) ==
    LET q == pending[r]
        done == nodes' = [nodes EXCEPT ![q.node] = Recorded(q.op, @, q.amount)]
    IN /\ q.step = "record"
       /\ nodes[q.node].stake + q.amount <= MaxRecorded
       /\ \/ /\ hasDB \/ q.op = "register" \/ nodes[q.node].known
             /\ done
             /\ pending' = [pending EXCEPT ![r].step = NextStep(q.op, @),
                                           ![r].applied = hasDB /\ q.op = "stake" /\ nodes[q.node].known]
          \* the map answers "node not found"
          \/ ~hasDB /\ q.op = "stake" /\ ~nodes[q.node].known /\ UNCHANGED nodes /\ Refuse(r)
          \* the database fails, or its answer is lost
          \/ hasDB /\ (UNCHANGED nodes \/ done) /\ Refuse(r)
       /\ UNCHANGED <<hasDB, client, sent, acknowledged>>

\* Nothing is sent for a registration without a stake, or by a handler that was
\* never given a client.  One that was given a nil pointer holds an interface that is
\* not nil, calls through it, and the request dies of the panic.
StakeOnContract(r) ==
    LET q == pending[r]
        carried == sent' = [sent EXCEPT ![q.node] = @ + q.amount]
    IN /\ q.step = "escrow"
       /\ \/ (client = "unset" \/ q.amount = 0) /\ UNCHANGED sent /\ GoOn(r)
          \/ /\ client = "set" /\ q.amount > 0 /\ sent[q.node] + q.amount <= MaxSent
             /\ carried /\ (GoOn(r) \/ Refuse(r))
          \/ client # "unset" /\ q.amount > 0 /\ UNCHANGED sent /\ Refuse(r)
       /\ UNCHANGED <<hasDB, client, nodes, acknowledged>>

Answer(r) ==
    LET q == pending[r]
    IN /\ q.step = "answer"
       /\ acknowledged' = IF q.applied
                          THEN [acknowledged EXCEPT ![q.node] = @ + q.amount] ELSE acknowledged
       /\ Refuse(r)
       /\ UNCHANGED <<hasDB, client, nodes, sent>>

\* The handler's map dies with the process, and requests with it.
RestartServer ==
    /\ pending' = [r \in Requests |-> NoRequest]
    /\ nodes' = IF hasDB THEN nodes ELSE [n \in ApiNodes |-> [known |-> FALSE, stake |-> 0]]
    /\ UNCHANGED <<hasDB, client, sent, acknowledged>>

NodeApiNext ==
    \/ \E r \in Requests : \/ \E op \in {"register", "stake"}, n \in ApiNodes, v \in Amounts : Receive(r, op, n, v)
                           \/ Record(r) \/ StakeOnContract(r) \/ Answer(r)
    \/ RestartServer

NodeApiSpec == NodeApiInit /\ [][NodeApiNext]_nodeApiVars

-----------------------------------------------------------------------------
(* Properties *)

(* With a database, a row holds every stake that was answered as added to it, and   *)
(* with a chain it claims none that was not sent to the escrow, through failures of *)
(* either step, lost answers, retries and restarts (RegisterNode, StakeNode).       *)
RowsAreBacked ==
    hasDB => \A n \in ApiNodes : /\ acknowledged[n] <= nodes[n].stake
                                 /\ client # "unset" => nodes[n].stake <= sent[n]

-----------------------------------------------------------------------------
(* What the answers of the API say and its code does not keep. *)

(* "successfully staked": an UPDATE that finds no row is no error, and the stake is  *)
(* answered as added to a node nobody registered.                                    *)
StakedIsRecorded ==
    \A r \in Requests : pending[r].op = "stake" /\ pending[r].step = "answer" => nodes[pending[r].node].known

(* "failed to stake on contract", "failed to update node": a request that is refused *)
(* leaves no stake on the chain that no record shows.                                *)
RefusedLeavesNothing ==
    [][\A r \in Requests : Record(r) /\ pending[r].op = "stake" /\ pending'[r] = NoRequest =>
          nodes'[pending[r].node].stake > nodes[pending[r].node].stake]_nodeApiVars

(* Registering again leaves the stake of a node as it is: the handler's map forgets  *)
(* it, the table does not.                                                           *)
RegisteredKeepsStake ==
    [][\A r \in Requests, n \in ApiNodes :
          Record(r) /\ pending[r].op = "register" => nodes'[n].stake >= nodes[n].stake]_nodeApiVars
=============================================================================
