------------------------------ MODULE MCBackend ------------------------------
(***************************************************************************)
(* The parts of the backend beside the job API on small instances: the     *)
(* orchestrator's checkpoint manager, splitter and sandbox driver, and the *)
(* node API.  They share no state, so a run explores one at a time, the    *)
(* others resting in an initial state.                                     *)
(***************************************************************************)
EXTENDS Checkpoint, Splitter, Sandbox, NodeApi, TLC

VARIABLE part

backendVars == <<part, checkpointVars, splitterVars, sandboxVars, nodeApiVars>>

Capacity(rep, mb, online, ms, reserved) ==
    [reputation |-> rep, availableMB |-> mb, isOnline |-> online, latencyMs |-> ms, isReservedPool |-> reserved]

\* a fast node, a slow one of better reputation, a reserved one without room, one offline
MCCapacities == {Capacity(1, 2, TRUE, 5, FALSE), Capacity(2, 1, TRUE, 9, FALSE), Capacity(1, 0, TRUE, 5, TRUE),
                 Capacity(2, 1, FALSE, 5, FALSE)}

BackendInit ==
    /\ part \in {"checkpoint", "splitter", "sandbox", "nodes"}
    /\ CheckpointInit /\ SplitterInit /\ SandboxInit /\ NodeApiInit
    /\ part # "nodes" => hasDB /\ client = "set"

BackendNext ==
    /\ UNCHANGED part
    /\ \/ part = "checkpoint" /\ CheckpointNext /\ UNCHANGED <<splitterVars, sandboxVars, nodeApiVars>>
       \/ part = "splitter" /\ SplitterNext /\ UNCHANGED <<checkpointVars, sandboxVars, nodeApiVars>>
       \/ part = "sandbox" /\ SandboxNext /\ UNCHANGED <<checkpointVars, splitterVars, nodeApiVars>>
       \/ part = "nodes" /\ NodeApiNext /\ UNCHANGED <<checkpointVars, splitterVars, sandboxVars>>

BackendSpec == BackendInit /\ [][BackendNext]_backendVars

DaemonSymmetry == Permutations(Daemons)

=============================================================================
