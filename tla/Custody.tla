------------------------------ MODULE Custody ------------------------------
(***************************************************************************)
(* What a node is promised by the escrow, and nothing of how the contract  *)
(* keeps its books: ether that is handed in is owed to the node that sent  *)
(* it, and goes down only when that node is paid, which a pause and a lock *)
(* prevent, or when it is penalised; never below zero, and for one node at *)
(* a time.  Whoever governs may pause, lock and unlock, and may take the   *)
(* vault away; that changes nothing of what is owed.                       *)
(***************************************************************************)
EXTENDS Integers

CONSTANTS
    Clients,     \* who may be owed something
    Sums         \* amounts that may be handed in

VARIABLES
    vault,       \* the ether at hand
    owed,        \* client -> what it is owed
    received,    \* client -> what it was paid so far
    held,        \* client -> whether payment is withheld
    closed       \* whether nobody is served

custodyVars == <<vault, owed, received, held, closed>>

CustodyInit ==
    /\ vault = 0 /\ closed = FALSE
    /\ owed = [c \in Clients |-> 0] /\ received = [c \in Clients |-> 0]
    /\ held = [c \in Clients |-> FALSE]

\* handing something in ends a hold
HandIn(c, v) ==
    /\ ~closed
    /\ vault' = vault + v /\ owed' = [owed EXCEPT ![c] = @ + v]
    /\ held' = [held EXCEPT ![c] = FALSE]
    /\ UNCHANGED <<received, closed>>

PayOut(c, v) ==
    /\ ~closed /\ ~held[c]
    /\ v <= vault /\ v <= owed[c]
    /\ vault' = vault - v /\ owed' = [owed EXCEPT ![c] = @ - v]
    /\ received' = [received EXCEPT ![c] = @ + v]
    /\ UNCHANGED <<held, closed>>

Penalise(c, v) ==
    /\ v <= vault /\ v <= owed[c]
    /\ vault' = vault - v /\ owed' = [owed EXCEPT ![c] = @ - v]
    /\ UNCHANGED <<received, held, closed>>

Gift(v) == vault' = vault + v /\ UNCHANGED <<owed, received, held, closed>>

TakeAll == vault' = 0 /\ UNCHANGED <<owed, received, held, closed>>

Hold(c, withheld) ==
    /\ held' = [held EXCEPT ![c] = withheld]
    /\ UNCHANGED <<vault, owed, received, closed>>

OpenOrClose == closed' \in BOOLEAN /\ UNCHANGED <<vault, owed, received, held>>

CustodyNext ==
    \/ \E c \in Clients : \/ \E v \in Sums : HandIn(c, v)
                          \/ \E v \in 0..owed[c] : PayOut(c, v) \/ Penalise(c, v)
                          \/ \E withheld \in BOOLEAN : Hold(c, withheld)
    \/ \E v \in Sums : Gift(v)
    \/ TakeAll \/ OpenOrClose

CustodySpec == CustodyInit /\ [][CustodyNext]_custodyVars
=============================================================================
