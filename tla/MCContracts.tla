----------------------------- MODULE MCContracts -----------------------------
(***************************************************************************)
(* The contracts that call no other and that none calls on small           *)
(* instances: ReputationLedger, NodeRegistry and SLAContract.  They share  *)
(* no state, so a run explores one at a time, the others resting in an     *)
(* initial state.                                                          *)
(***************************************************************************)
EXTENDS ReputationLedger, NodeRegistry, SLAContract, TLC

VARIABLE contract

contractVars == <<contract, ledgerVars, registryVars, slaVars>>

NodeSymmetry == Permutations(Nodes) \union Permutations(Registrants)

MCScores == {-1, 1}

ContractsInit ==
    /\ contract \in {"ReputationLedger", "NodeRegistry", "SLAContract"}
    /\ Init /\ RegistryInit /\ SLAInit

ContractsNext ==
    /\ UNCHANGED contract
    /\ \/ contract = "ReputationLedger" /\ Next /\ UNCHANGED <<registryVars, slaVars>>
       \/ contract = "NodeRegistry" /\ RegistryNext /\ UNCHANGED <<ledgerVars, slaVars>>
       \/ contract = "SLAContract" /\ SLANext /\ UNCHANGED <<ledgerVars, registryVars>>

ContractsSpec == ContractsInit /\ [][ContractsNext]_contractVars
=============================================================================
