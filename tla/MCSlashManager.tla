--------------------------- MODULE MCSlashManager ---------------------------
(* TLC instance of SlashManager over Escrow. *)
EXTENDS SlashManager, TLC

(* The escrow calls that change a stake, the slasher or, by a drain, whether a slash    *)
(* can be paid.  Locks, the pause, the limits and ownership are read by no slash, and a  *)
(* donation only adds to the balance: the theorems cover them, the run leaves them out   *)
(* for its size.                                                                         *)
StakeMovingCall ==
    \/ \E n \in Nodes : NodeCall(n)
    \/ \E s \in Slashers : AuthorizeSlasher(s)
    \/ EmergencyWithdraw

StakeMovingNext ==
    \/ ManagerCall
    \/ (StakeMovingCall \/ OtherSlash \/ Tick) /\ UNCHANGED mgrVars

StakeMovingSpec == SMInit /\ [][StakeMovingNext]_smVars

SMSymmetry == Permutations(Nodes)

=============================================================================
