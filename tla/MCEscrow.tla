------------------------------ MODULE MCEscrow ------------------------------
(* TLC instance of Escrow. *)
EXTENDS Escrow, TLC

(* Nodes are interchangeable: no definition orders or names one. *)
NodeSymmetry == Permutations(Nodes)

=============================================================================
