------------------------------- MODULE Sandbox -------------------------------
(***************************************************************************)
(* The sandbox driver of internal/orchestrator/sandbox.go: containers that *)
(* run workloads, and the map of those it tracks.                          *)
(*                                                                         *)
(* Every caller is a goroutine.  The runtime is called without the mutex:  *)
(* a container may be running before it is tracked, and be untracked       *)
(* before it ends.  The runtime is outside: containers exit when they do,  *)
(* and any call of it may fail, having done its work or not.  The id of a  *)
(* container that has exited and that nobody refers to may come again.     *)
(***************************************************************************)
EXTENDS FiniteSets

CONSTANTS
    Workers,         \* goroutines that call the driver
    Containers       \* ids the runtime gives out

VARIABLES
    runtime,         \* container -> "none", "running" or "exited"
    activeContainers,\* ids the driver tracks
    calls,           \* worker -> the call it is in
    handedOut,       \* ids LaunchContainer has returned to a caller
    mishaps          \* history: ids a launch, a wait or a kill has failed for

sandboxVars == <<runtime, activeContainers, calls, handedOut, mishaps>>

Idle == [op |-> "none", at |-> "none", id |-> "none"]
At(op, at, id) == [op |-> op, at |-> at, id |-> id]

SandboxInit ==
    /\ runtime = [c \in Containers |-> "none"]
    /\ activeContainers = {} /\ handedOut = {} /\ mishaps = {}
    /\ calls = [w \in Workers |-> Idle]

InUse(c) == c \in handedOut \/ \E w \in Workers : calls[w].id = c

-----------------------------------------------------------------------------
\* LaunchContainer ("launch"), or ExecuteWorkload ("execute"), which goes on to
\* wait; a configuration that is refused ends the call where it began.
Launch(w, op) ==
    /\ calls[w] = Idle
    /\ \E c \in Containers :
        /\ runtime[c] # "running" /\ ~InUse(c)
        /\ runtime' = [runtime EXCEPT ![c] = "running"]
        /\ \/ /\ calls' = [calls EXCEPT ![w] = At(op, "register", c)]
              /\ mishaps' = mishaps \ {c}
           \* an error leaves the caller without the id of what may have started
           \/ mishaps' = mishaps \union {c} /\ UNCHANGED calls
    /\ UNCHANGED <<activeContainers, handedOut>>

\* Mutant: the id is returned and nothing is entered.
RegisterNothing(w) ==
    /\ calls[w].at = "register"
    /\ IF calls[w].op = "execute"
       THEN calls' = [calls EXCEPT ![w].at = "wait"] /\ UNCHANGED handedOut
       ELSE calls' = [calls EXCEPT ![w] = Idle] /\ handedOut' = handedOut \union {calls[w].id}
    /\ UNCHANGED <<runtime, activeContainers, mishaps>>

\* under the mutex; then a launch returns the id
Register(w) ==
    /\ calls[w].at = "register"
    /\ activeContainers' = activeContainers \union {calls[w].id}
    /\ IF calls[w].op = "execute"
       THEN calls' = [calls EXCEPT ![w].at = "wait"] /\ UNCHANGED handedOut
       ELSE calls' = [calls EXCEPT ![w] = Idle] /\ handedOut' = handedOut \union {calls[w].id}
    /\ UNCHANGED <<runtime, mishaps>>

StartWait(w, c) ==
    /\ calls[w] = Idle /\ c \in handedOut
    /\ calls' = [calls EXCEPT ![w] = At("wait", "wait", c)]
    /\ UNCHANGED <<runtime, activeContainers, handedOut, mishaps>>

\* The runtime's wait returns: the container has exited, or the context ended
\* (or the wait failed) before it.
WaitReturns(w) ==
    /\ calls[w].at = "wait"
    /\ \/ runtime[calls[w].id] = "exited" /\ UNCHANGED mishaps
       \/ mishaps' = mishaps \union {calls[w].id}
    /\ calls' = [calls EXCEPT ![w].at = "unregister"]
    /\ UNCHANGED <<runtime, activeContainers, handedOut>>

Unregister(w) ==
    /\ calls[w].at = "unregister"
    /\ activeContainers' = activeContainers \ {calls[w].id}
    /\ calls' = [calls EXCEPT ![w] = Idle]
    /\ UNCHANGED <<runtime, handedOut, mishaps>>

\* Mutant: the id is dropped and nothing is killed.
TerminateDropsOnly(w, c) ==
    /\ calls[w] = Idle /\ c \in handedOut
    /\ activeContainers' = activeContainers \ {c}
    /\ UNCHANGED <<runtime, calls, handedOut, mishaps>>

\* TerminateImmediately: untracked under the mutex, then killed without it
Terminate(w, c) ==
    /\ calls[w] = Idle /\ c \in handedOut
    /\ activeContainers' = activeContainers \ {c}
    /\ calls' = [calls EXCEPT ![w] = At("terminate", "kill", c)]
    /\ UNCHANGED <<runtime, handedOut, mishaps>>

\* The runtime may fail to kill, and say so
Kill(w) ==
    /\ calls[w].at = "kill"
    /\ \/ runtime' = [runtime EXCEPT ![calls[w].id] = "exited"] /\ UNCHANGED mishaps
       \/ mishaps' = mishaps \union {calls[w].id} /\ UNCHANGED runtime
    /\ calls' = [calls EXCEPT ![w] = Idle]
    /\ UNCHANGED <<activeContainers, handedOut>>

Exit(c) ==
    /\ runtime[c] = "running"
    /\ runtime' = [runtime EXCEPT ![c] = "exited"]
    /\ UNCHANGED <<activeContainers, calls, handedOut, mishaps>>

\* a caller drops the id of a container that is over and that is not tracked
Forget(c) ==
    /\ c \in handedOut /\ runtime[c] = "exited" /\ c \notin activeContainers
    /\ handedOut' = handedOut \ {c}
    /\ UNCHANGED <<runtime, activeContainers, calls, mishaps>>

SandboxNext ==
    \/ \E w \in Workers : \/ \E op \in {"launch", "execute"} : Launch(w, op)
                          \/ Register(w) \/ WaitReturns(w) \/ Unregister(w) \/ Kill(w)
                          \/ \E c \in Containers : StartWait(w, c) \/ Terminate(w, c)
    \/ \E c \in Containers : Exit(c) \/ Forget(c)

SandboxSpec == SandboxInit /\ [][SandboxNext]_sandboxVars

-----------------------------------------------------------------------------
(* Properties *)

Registering(c) == \E w \in Workers : calls[w].at = "register" /\ calls[w].id = c

Killing(c) == \E w \in Workers : calls[w].at = "kill" /\ calls[w].id = c

(* No order of launches, waits and terminations beside each other lets a container  *)
(* slip out of the driver (LaunchContainer, WaitForCompletion, TerminateImmediately): *)
(* one that runs untracked is about to be entered or killed, or the runtime failed   *)
(* its launch, its kill or a wait for it.                                            *)
RunawayHasCause ==
    \A c \in Containers :
        runtime[c] = "running" /\ c \notin activeContainers =>
            Registering(c) \/ Killing(c) \/ c \in mishaps

-----------------------------------------------------------------------------
(* Statements of the driver's comments that its code does not keep. *)

(* "activeContainers tracks containers that are currently running": one whose wait  *)
(* was cut short or that could not be killed runs untracked, ...                     *)
RunningAreTracked == \A c \in Containers : runtime[c] = "running" => c \in activeContainers

(* ... and one nobody waits for stays tracked when it has exited                     *)
(* ("ActiveContainerCount returns the number of currently running containers").     *)
TrackedAreRunning == \A c \in activeContainers : runtime[c] = "running"
=============================================================================
