---------------------------- MODULE BackendProofs ----------------------------
(***************************************************************************)
(* Proofs about the parts of the backend beside the job API, for every     *)
(* number of nodes, containers, callers and requests: that the units of a  *)
(* job partition its bytes, that the sandbox driver loses no container by  *)
(* an accident of order, that the rows of the node API are backed, that    *)
(* the offline monitor misses no outage, and that the maps of a checkpoint *)
(* manager agree and resume a job from its newest checkpoint.              *)
(***************************************************************************)
EXTENDS Splitter, Sandbox, NodeApi, Monitors, DataLemmas, Checkpoint, MCBackend

-----------------------------------------------------------------------------
(* The splitter *)

(* What division by the number of nodes leaves (bytesPerNode and remainder). *)
LEMMA Division ==
  ASSUME NEW t \in Nat, NEW n \in Nat \ {0}
  PROVE  /\ t \div n \in Nat
         /\ t % n \in Nat
         /\ t = (n * (t \div n)) + (t % n)
  BY SMT

(* Where a unit begins and ends (startOffset and endOffset of SplitWorkload). *)
LEMMA Offsets ==
  ASSUME NEW t \in Nat, NEW n \in Nat \ {0}, NEW i \in 1..n
  PROVE  /\ StartOffset(i, t \div n) \in Nat
         /\ EndOffset(i, n, t) \in Nat
         /\ StartOffset(i, t \div n) <= EndOffset(i, n, t)
         /\ i < n => EndOffset(i, n, t) = StartOffset(i + 1, t \div n)
         /\ i = n => EndOffset(i, n, t) = t
         /\ StartOffset(1, t \div n) = 0
  <1> DEFINE q == t \div n
             r == t % n
  <1>1. q \in Nat /\ r \in Nat /\ t = (n * q) + r
    BY Division
  <1> HIDE DEF q, r
  <1>2. ((i - 1) * q) \in Nat /\ ((i - 1) * q) + q = i * q
    BY <1>1, SMT
  <1>3. StartOffset(i, q) = (i - 1) * q /\ StartOffset(i + 1, q) = i * q /\ StartOffset(1, q) = 0
    BY <1>1, SMT DEF StartOffset
  <1>4. EndOffset(i, n, t) = i * q + (IF i = n THEN r ELSE 0)
    <2>1. EndOffset(i, n, t) = StartOffset(i, q) + q + (IF i = n THEN r ELSE 0)
      BY DEF EndOffset, q, r
    <2> QED BY <2>1, <1>1, <1>2, <1>3
  <1>5. StartOffset(i, q) \in Nat /\ EndOffset(i, n, t) \in Nat /\ StartOffset(i, q) <= EndOffset(i, n, t)
    BY <1>1, <1>2, <1>3, <1>4
  <1>6. i < n => EndOffset(i, n, t) = StartOffset(i + 1, q)
    BY <1>1, <1>2, <1>3, <1>4
  <1>7. i = n => EndOffset(i, n, t) = t
    BY <1>1, <1>4
  <1> QED BY <1>3, <1>5, <1>6, <1>7 DEF q

-----------------------------------------------------------------------------
(* A job is split among finitely many nodes, all of them listed (TargetNodes). *)
LEMMA TargetsCounted ==
  ASSUME SplitterType, NEW assigned, NEW isServerless
  PROVE  /\ TargetNodes(assigned, isServerless) \subseteq SplitNodes
         /\ Cardinality(TargetNodes(assigned, isServerless)) \in Nat
  <1>1. TargetNodes(assigned, isServerless) \subseteq SplitNodes
    BY DEF SplitterType, TargetNodes, GetDedicatedNodesFromJob, GetServerlessNodes, GetEligibleNodes, Online
  <1>2. IsFiniteSet(TargetNodes(assigned, isServerless))
    BY <1>1, SplitterConstants, FS_Subset
  <1> QED BY <1>1, <1>2, FS_CardinalityType

(* The invariant: SplitIsPartition speaks of fields, which records of the right type have. *)
SplitInv == SplitterType /\ SplitIsPartition

LEMMA InitSplit == SplitterInit => SplitInv
  <1> SUFFICES ASSUME SplitterInit PROVE SplitInv
    OBVIOUS
  <1>1. job.numUnits = 0 /\ job.totalBytes = 0 /\ workUnits = [i \in 1..0 |-> 0] /\ 1..0 = {}
    BY DEF SplitterInit, NoJob
  <1> QED BY <1>1 DEF SplitterInit, SplitInv, SplitterType, SplitIsPartition

(* The units of one call of SplitWorkload. *)
LEMMA UnitsPartition ==
  ASSUME NEW t \in Nat, NEW n \in Nat \ {0}, NEW order \in [1..n -> SplitNodes]
  PROVE  /\ Units(order, n, t) \in [1..n -> [nodeID : SplitNodes, startOffset : Nat, endOffset : Nat]]
         /\ Units(order, n, t)[1].startOffset = 0
         /\ Units(order, n, t)[n].endOffset = t
         /\ \A i \in 1..n : Units(order, n, t)[i].startOffset <= Units(order, n, t)[i].endOffset
         /\ \A i \in 1..n : i < n => Units(order, n, t)[i].endOffset = Units(order, n, t)[i + 1].startOffset
  <1> DEFINE unit(i) == [nodeID |-> order[i], startOffset |-> StartOffset(i, t \div n),
                         endOffset |-> EndOffset(i, n, t)]
  <1>1. Units(order, n, t) = [i \in 1..n |-> unit(i)]
    BY DEF Units
  <1>2. \A i \in 1..n : /\ StartOffset(i, t \div n) \in Nat /\ EndOffset(i, n, t) \in Nat
                        /\ StartOffset(i, t \div n) <= EndOffset(i, n, t)
                        /\ i < n => EndOffset(i, n, t) = StartOffset(i + 1, t \div n)
                        /\ i = n => EndOffset(i, n, t) = t
                        /\ StartOffset(1, t \div n) = 0
    BY Offsets
  <1>3. 1 \in 1..n /\ n \in 1..n /\ \A i \in 1..n : i < n => i + 1 \in 1..n
    OBVIOUS
  <1>4. \A i \in 1..n : unit(i) \in [nodeID : SplitNodes, startOffset : Nat, endOffset : Nat]
    BY <1>2
  <1> HIDE DEF unit
  <1>5. Units(order, n, t) \in [1..n -> [nodeID : SplitNodes, startOffset : Nat, endOffset : Nat]]
    BY <1>1, <1>4
  <1>6. \A i \in 1..n : /\ Units(order, n, t)[i].startOffset = StartOffset(i, t \div n)
                        /\ Units(order, n, t)[i].endOffset = EndOffset(i, n, t)
    BY <1>1 DEF unit
  <1> QED BY <1>2, <1>3, <1>5, <1>6

LEMMA NextSplit == SplitInv /\ [SplitterNext]_splitterVars => SplitInv'
  <1> SUFFICES ASSUME SplitInv, [SplitterNext]_splitterVars PROVE SplitInv'
    OBVIOUS
  <1> USE DEF SplitInv
  <1>1. CASE SetEligibleNodes
    <2>1. PICK S \in SUBSET SplitNodes : eligibleNodes' \in [S -> Capacities]
      BY <1>1 DEF SetEligibleNodes
    <2>2. DOMAIN eligibleNodes' = S /\ job' = job /\ workUnits' = workUnits
      BY <1>1, <2>1 DEF SetEligibleNodes
    <2> QED BY <2>1, <2>2 DEF SplitterType, SplitIsPartition
  <1>2. ASSUME NEW assigned \in SUBSET SplitNodes, NEW isServerless \in BOOLEAN, NEW t \in Sizes,
               SplitWorkload(assigned, isServerless, t)
        PROVE  SplitInv'
    <2> DEFINE targets == TargetNodes(assigned, isServerless)
               n == Cardinality(targets)
    <2>1. targets \subseteq SplitNodes /\ n \in Nat /\ t \in Nat
      BY TargetsCounted, SplitterConstants
    <2> HIDE DEF targets
    <2>2. /\ n > 0
          /\ job' = [assignedNodes |-> assigned, isServerless |-> isServerless, totalBytes |-> t, numUnits |-> n]
          /\ eligibleNodes' = eligibleNodes
      BY <1>2 DEF SplitWorkload, targets
    <2>3. PICK order \in Orders(targets, isServerless) : workUnits' = Units(order, n, t)
      BY <1>2 DEF SplitWorkload, targets
    <2> HIDE DEF n
    <2>4. order \in [1..n -> SplitNodes]
      BY <2>1, <2>3 DEF Orders, n
    <2>5. job'.numUnits = n /\ job'.totalBytes = t /\ n \in Nat \ {0}
      BY <2>1, <2>2
    <2>6. /\ workUnits' \in [1..n -> [nodeID : SplitNodes, startOffset : Nat, endOffset : Nat]]
          /\ workUnits'[1].startOffset = 0 /\ workUnits'[n].endOffset = t
          /\ \A i \in 1..n : workUnits'[i].startOffset <= workUnits'[i].endOffset
          /\ \A i \in 1..n : i < n => workUnits'[i].endOffset = workUnits'[i + 1].startOffset
      BY <2>1, <2>3, <2>4, <2>5, UnitsPartition
    <2> QED BY <2>1, <2>2, <2>5, <2>6 DEF SplitterType, SplitIsPartition
  <1>3. ASSUME NEW nodeID \in SplitNodes, NEW k \in DOMAIN workUnits, AssignWorkUnit(k, nodeID)
        PROVE  SplitInv'
    <2> DEFINE n == job.numUnits
    <2>1. /\ workUnits' = [workUnits EXCEPT ![k].nodeID = nodeID]
          /\ job' = job /\ eligibleNodes' = eligibleNodes
      BY <1>3 DEF AssignWorkUnit
    <2>2. workUnits \in [1..n -> [nodeID : SplitNodes, startOffset : Nat, endOffset : Nat]] /\ n \in Nat
      BY DEF SplitterType
    <2> HIDE DEF n
    <2>3. /\ workUnits' \in [1..n -> [nodeID : SplitNodes, startOffset : Nat, endOffset : Nat]]
          /\ \A i \in 1..n : /\ workUnits'[i].startOffset = workUnits[i].startOffset
                             /\ workUnits'[i].endOffset = workUnits[i].endOffset
      BY <2>1, <2>2
    <2>4. SplitterType'
      BY <2>1, <2>3 DEF SplitterType, n
    <2>5. /\ n > 0 => 1 \in 1..n /\ n \in 1..n
          /\ \A i \in 1..n : i < n => i + 1 \in 1..n
      BY <2>2
    <2>6. SplitIsPartition'
      BY <2>1, <2>2, <2>3, <2>5 DEF SplitIsPartition, n
    <2> QED BY <2>4, <2>6
  <1>4. CASE UNCHANGED splitterVars
    BY <1>4 DEF splitterVars, SplitterType, SplitIsPartition
  <1> QED BY <1>1, <1>2, <1>3, <1>4 DEF SplitterNext

(* However many nodes and bytes there are, the units of a job cover it from its     *)
(* first byte to its last, each byte once (SplitWorkload, AssignWorkUnit).          *)
THEOREM SplitCovers == SplitterSpec => []SplitIsPartition
  <1>1. SplitInv => SplitIsPartition
    BY DEF SplitInv
  <1> QED BY InitSplit, NextSplit, <1>1, PTL DEF SplitterSpec

-----------------------------------------------------------------------------
(* The sandbox driver *)

Ops == {"none", "launch", "execute", "wait", "terminate"}
Points == {"none", "register", "wait", "unregister", "kill"}

(* The type of every variable. *)
SandboxType ==
    /\ runtime \in [Containers -> {"none", "running", "exited"}]
    /\ calls \in [Workers -> [op : Ops, at : Points, id : Containers \union {"none"}]]
    /\ activeContainers \subseteq Containers /\ handedOut \subseteq Containers /\ mishaps \subseteq Containers
    /\ \A w \in Workers : calls[w].at # "none" => calls[w].id \in Containers

\* Between the runtime's launch and the entry in the map nobody else knows the id.
FreshIsPrivate ==
    \A w \in Workers : calls[w].at = "register" =>
        /\ calls[w].id \notin handedOut \union activeContainers
        /\ \A v \in Workers : v # w /\ calls[v].at # "none" => calls[v].id # calls[w].id

\* Somebody refers to every container of the map, so its id does not come again.
TrackedIsKnown ==
    \A c \in activeContainers :
        c \in handedOut \/ \E w \in Workers : calls[w].id = c /\ calls[w].at \in {"wait", "unregister"}

\* A wait that is about to untrack its container has seen it end, or was cut short.
WaitsAreOver ==
    \A w \in Workers : calls[w].at = "unregister" =>
        runtime[calls[w].id] # "running" \/ calls[w].id \in mishaps

SandboxInv == SandboxType /\ FreshIsPrivate /\ TrackedIsKnown /\ WaitsAreOver /\ RunawayHasCause

-----------------------------------------------------------------------------
LEMMA InitTracks == SandboxInit => SandboxInv
  BY DEF SandboxInit, SandboxInv, SandboxType, FreshIsPrivate, TrackedIsKnown, WaitsAreOver, RunawayHasCause, Idle, Ops, Points

(* LaunchContainer and the runtime's launch in it: the id is nobody's. *)
LEMMA LaunchKeeps ==
  ASSUME SandboxInv, NEW w \in Workers, NEW op \in {"launch", "execute"}, Launch(w, op)
  PROVE  SandboxInv'
  <1> USE DEF SandboxInv
  <1>1. PICK c \in Containers :
          /\ runtime[c] # "running" /\ ~InUse(c)
          /\ runtime' = [runtime EXCEPT ![c] = "running"]
          /\ \/ /\ calls' = [calls EXCEPT ![w] = At(op, "register", c)] /\ mishaps' = mishaps \ {c}
             \/ mishaps' = mishaps \union {c} /\ UNCHANGED calls
    BY DEF Launch
  <1>2. UNCHANGED <<activeContainers, handedOut>> /\ calls[w] = Idle
    BY DEF Launch
  <1>3. c \notin handedOut /\ \A v \in Workers : calls[v].id # c
    BY <1>1 DEF InUse
  <1>4. c \notin activeContainers
    BY <1>3 DEF TrackedIsKnown
  <1>5. CASE calls' = [calls EXCEPT ![w] = At(op, "register", c)] /\ mishaps' = mishaps \ {c}
    <2>1. SandboxType'
      BY <1>1, <1>2, <1>5 DEF SandboxType, At, Ops, Points
    <2>2. calls'[w].id = c /\ calls'[w].at = "register" /\ \A v \in Workers : v # w => calls'[v] = calls[v]
      BY <1>5 DEF SandboxType, At
    <2>3. FreshIsPrivate'
      BY <1>2, <1>3, <1>4, <1>5, <2>2 DEF FreshIsPrivate
    <2>4. TrackedIsKnown'
      BY <1>2, <2>2 DEF TrackedIsKnown, Idle
    <2>5. Registering(c)'
      BY <2>2 DEF Registering
    <2>6. \A d \in Containers : d # c => (Registering(d) => Registering(d)') /\ (Killing(d) => Killing(d)')
      BY <1>2, <2>2 DEF Registering, Killing, Idle
    <2>7. \A d \in Containers : d # c => runtime'[d] = runtime[d] /\ (d \in mishaps => d \in mishaps')
      BY <1>1, <1>5 DEF SandboxType
    <2>8. RunawayHasCause'
      BY <1>2, <2>5, <2>6, <2>7 DEF RunawayHasCause
    <2>9. WaitsAreOver'
      BY <1>3, <2>2, <2>7 DEF WaitsAreOver, SandboxType
    <2> QED BY <2>1, <2>3, <2>4, <2>8, <2>9
  <1>6. CASE mishaps' = mishaps \union {c} /\ UNCHANGED calls
    <2>1. SandboxType'
      BY <1>1, <1>2, <1>6 DEF SandboxType
    <2>2. FreshIsPrivate' /\ TrackedIsKnown'
      BY <1>2, <1>3, <1>6 DEF FreshIsPrivate, TrackedIsKnown
    <2>3. \A d \in Containers : (Registering(d) => Registering(d)') /\ (Killing(d) => Killing(d)')
      BY <1>6 DEF Registering, Killing
    <2>4. RunawayHasCause'
      BY <1>1, <1>2, <1>6, <2>3 DEF RunawayHasCause, SandboxType
    <2>5. WaitsAreOver'
      BY <1>1, <1>3, <1>6 DEF WaitsAreOver, SandboxType
    <2> QED BY <2>1, <2>2, <2>4, <2>5
  <1> QED BY <1>1, <1>5, <1>6

(* The entry in the map: what is entered was nobody's until now. *)
LEMMA RegisterKeeps ==
  ASSUME SandboxInv, NEW w \in Workers, Register(w)
  PROVE  SandboxInv'
  <1> USE DEF SandboxInv
  <1> DEFINE c == calls[w].id
  <1>1. /\ calls[w].at = "register" /\ c \in Containers /\ calls[w] \in [op : Ops, at : Points, id : Containers \union {"none"}]
        /\ c \notin handedOut \union activeContainers
        /\ \A v \in Workers : v # w /\ calls[v].at # "none" => calls[v].id # c
    BY DEF Register, SandboxType, FreshIsPrivate
  <1>2. activeContainers' = activeContainers \union {c} /\ UNCHANGED <<runtime, mishaps>>
    BY DEF Register
  <1>3. /\ \A v \in Workers : v # w => calls'[v] = calls[v]
        /\ \/ calls'[w] = [calls[w] EXCEPT !.at = "wait"] /\ handedOut' = handedOut
           \/ calls'[w] = Idle /\ handedOut' = handedOut \union {c}
        /\ DOMAIN calls' = Workers
    BY DEF Register, SandboxType
  <1>4. calls' \in [Workers -> [op : Ops, at : Points, id : Containers \union {"none"}]]
    BY <1>1, <1>3 DEF Register, SandboxType, Idle, Ops, Points
  <1>5. SandboxType'
    BY <1>1, <1>2, <1>3, <1>4 DEF SandboxType, Idle
  <1>6. \A v \in Workers : calls'[v].at = "register" => v # w /\ calls[v].at = "register"
    BY <1>1, <1>3 DEF Idle
  <1>7. \A v \in Workers : calls'[v].at # "none" => calls[v].at # "none" /\ calls'[v].id = calls[v].id
    BY <1>1, <1>3 DEF Idle
  <1>8. FreshIsPrivate'
    BY <1>1, <1>2, <1>3, <1>6, <1>7 DEF FreshIsPrivate
  <1>9. TrackedIsKnown'
    <2> SUFFICES ASSUME NEW d \in activeContainers'
                 PROVE  d \in handedOut' \/ \E v \in Workers : calls'[v].id = d /\ calls'[v].at \in {"wait", "unregister"}
      BY DEF TrackedIsKnown
    <2>1. CASE d = c
      BY <2>1, <1>1, <1>3
    <2>2. CASE d # c
      BY <2>2, <1>1, <1>2, <1>3 DEF TrackedIsKnown
    <2> QED BY <2>1, <2>2
  <1>10. \A d \in Containers : (Registering(d) => d = c \/ Registering(d)') /\ (Killing(d) => Killing(d)')
    BY <1>1, <1>3 DEF Registering, Killing
  <1>11. RunawayHasCause'
    BY <1>1, <1>2, <1>10 DEF RunawayHasCause
  <1>12. WaitsAreOver'
    <2>1. \A v \in Workers : calls'[v].at = "unregister" => v # w /\ calls[v].at = "unregister"
      BY <1>1, <1>3 DEF Idle
    <2> QED BY <1>2, <1>3, <2>1 DEF WaitsAreOver
  <1> QED BY <1>5, <1>8, <1>9, <1>11, <1>12

(* A wait that begins: on a container LaunchContainer has returned. *)
LEMMA StartWaitKeeps ==
  ASSUME SandboxInv, NEW w \in Workers, NEW c \in Containers, StartWait(w, c)
  PROVE  SandboxInv'
  <1> USE DEF SandboxInv
  <1>1. /\ calls[w] = Idle /\ c \in handedOut
        /\ calls' = [calls EXCEPT ![w] = At("wait", "wait", c)]
        /\ UNCHANGED <<runtime, activeContainers, handedOut, mishaps>>
    BY DEF StartWait
  <1>2. SandboxType'
    BY <1>1 DEF SandboxType, At, Ops, Points
  <1>3. calls'[w] = At("wait", "wait", c) /\ \A v \in Workers : v # w => calls'[v] = calls[v]
    BY <1>1 DEF SandboxType
  <1>4. FreshIsPrivate'
    BY <1>1, <1>3 DEF FreshIsPrivate, At
  <1>5. TrackedIsKnown'
    BY <1>1, <1>3 DEF TrackedIsKnown, Idle
  <1>6. \A d \in Containers : (Registering(d) => Registering(d)') /\ (Killing(d) => Killing(d)')
    BY <1>1, <1>3 DEF Registering, Killing, Idle
  <1>7. RunawayHasCause'
    BY <1>1, <1>6 DEF RunawayHasCause
  <1>8. WaitsAreOver'
    BY <1>1, <1>3 DEF WaitsAreOver, At
  <1> QED BY <1>2, <1>4, <1>5, <1>7, <1>8

(* A wait that returns: its container has ended, or it was cut short. *)
LEMMA WaitReturnsKeeps ==
  ASSUME SandboxInv, NEW w \in Workers, WaitReturns(w)
  PROVE  SandboxInv'
  <1> USE DEF SandboxInv
  <1>1. /\ calls[w].at = "wait" /\ calls' = [calls EXCEPT ![w].at = "unregister"]
        /\ UNCHANGED <<runtime, activeContainers, handedOut>> /\ calls[w].id \in Containers
        /\ \/ runtime[calls[w].id] = "exited" /\ mishaps' = mishaps
           \/ mishaps' = mishaps \union {calls[w].id}
    BY DEF WaitReturns, SandboxType
  <1>2. /\ calls'[w].id = calls[w].id /\ calls'[w].at = "unregister"
        /\ \A v \in Workers : v # w => calls'[v] = calls[v]
        /\ calls' \in [Workers -> [op : Ops, at : Points, id : Containers \union {"none"}]]
    BY <1>1 DEF SandboxType, Points
  <1>3. SandboxType'
    BY <1>1, <1>2 DEF SandboxType
  <1>4. FreshIsPrivate' /\ TrackedIsKnown'
    BY <1>1, <1>2 DEF FreshIsPrivate, TrackedIsKnown
  <1>5. \A d \in Containers : (Registering(d) => Registering(d)') /\ (Killing(d) => Killing(d)')
    BY <1>1, <1>2 DEF Registering, Killing
  <1>6. RunawayHasCause'
    BY <1>1, <1>5 DEF RunawayHasCause
  <1>7. WaitsAreOver'
    BY <1>1, <1>2 DEF WaitsAreOver
  <1> QED BY <1>3, <1>4, <1>6, <1>7

(* What a wait takes out of the map has ended, or the wait was cut short. *)
LEMMA UnregisterKeeps ==
  ASSUME SandboxInv, NEW w \in Workers, Unregister(w)
  PROVE  SandboxInv'
  <1> USE DEF SandboxInv
  <1> DEFINE c == calls[w].id
  <1>1. /\ calls[w].at = "unregister" /\ c \in Containers
        /\ activeContainers' = activeContainers \ {c}
        /\ UNCHANGED <<runtime, handedOut, mishaps>>
        /\ runtime[c] # "running" \/ c \in mishaps
    BY DEF Unregister, SandboxType, WaitsAreOver
  <1>2. calls'[w] = Idle /\ \A v \in Workers : v # w => calls'[v] = calls[v]
    BY DEF Unregister, SandboxType
  <1>3. SandboxType'
    BY <1>1, <1>2 DEF SandboxType, Unregister, Idle, Ops, Points
  <1>4. FreshIsPrivate'
    BY <1>1, <1>2 DEF FreshIsPrivate, Idle
  <1>5. TrackedIsKnown'
    BY <1>1, <1>2 DEF TrackedIsKnown
  <1>6. \A d \in Containers : (Registering(d) => Registering(d)') /\ (Killing(d) => Killing(d)')
    BY <1>1, <1>2 DEF Registering, Killing
  <1>7. RunawayHasCause'
    BY <1>1, <1>6 DEF RunawayHasCause
  <1>8. WaitsAreOver'
    BY <1>1, <1>2 DEF WaitsAreOver, Idle
  <1> QED BY <1>3, <1>4, <1>5, <1>7, <1>8

(* What a termination takes out of the map it is about to kill. *)
LEMMA TerminateKeeps ==
  ASSUME SandboxInv, NEW w \in Workers, NEW c \in Containers, Terminate(w, c)
  PROVE  SandboxInv'
  <1> USE DEF SandboxInv
  <1>1. /\ calls[w] = Idle /\ c \in handedOut
        /\ activeContainers' = activeContainers \ {c}
        /\ UNCHANGED <<runtime, handedOut, mishaps>>
    BY DEF Terminate
  <1>2. calls'[w] = At("terminate", "kill", c) /\ \A v \in Workers : v # w => calls'[v] = calls[v]
    BY DEF Terminate, SandboxType
  <1>3. SandboxType'
    BY <1>1, <1>2 DEF SandboxType, Terminate, At, Ops, Points
  <1>4. FreshIsPrivate'
    BY <1>1, <1>2 DEF FreshIsPrivate, At
  <1>5. TrackedIsKnown'
    BY <1>1, <1>2 DEF TrackedIsKnown, Idle
  <1>6. /\ \A d \in Containers : (Registering(d) => Registering(d)') /\ (Killing(d) => Killing(d)')
        /\ Killing(c)'
    BY <1>1, <1>2 DEF Registering, Killing, Idle, At
  <1>7. RunawayHasCause'
    BY <1>1, <1>6 DEF RunawayHasCause
  <1>8. WaitsAreOver'
    BY <1>1, <1>2 DEF WaitsAreOver, At
  <1> QED BY <1>3, <1>4, <1>5, <1>7, <1>8

(* A kill: the container is gone, or the runtime has failed. *)

LEMMA KillKeeps ==
  ASSUME SandboxInv, NEW w \in Workers, Kill(w)
  PROVE  SandboxInv'
  <1> USE DEF SandboxInv
  <1>1. /\ calls[w].at = "kill" /\ calls[w].id \in Containers
        /\ \/ runtime' = [runtime EXCEPT ![calls[w].id] = "exited"] /\ mishaps' = mishaps
           \/ mishaps' = mishaps \union {calls[w].id} /\ runtime' = runtime
        /\ UNCHANGED <<activeContainers, handedOut>>
    BY DEF Kill, SandboxType
  <1>2. calls'[w] = Idle /\ \A v \in Workers : v # w => calls'[v] = calls[v]
    BY DEF Kill, SandboxType
  <1>3. SandboxType'
    BY <1>1, <1>2 DEF SandboxType, Kill, Idle, Ops, Points
  <1>4. FreshIsPrivate' /\ TrackedIsKnown'
    BY <1>1, <1>2 DEF FreshIsPrivate, TrackedIsKnown, Idle
  <1>5. \A d \in Containers :
          (Registering(d) => Registering(d)') /\ (Killing(d) => Killing(d)' \/ d = calls[w].id)
    BY <1>1, <1>2 DEF Registering, Killing
  <1>6. /\ \A d \in Containers : runtime'[d] = "running" => runtime[d] = "running"
        /\ runtime'[calls[w].id] = "running" => calls[w].id \in mishaps'
        /\ mishaps \subseteq mishaps'
    BY <1>1 DEF SandboxType
  <1>7. RunawayHasCause'
    BY <1>1, <1>5, <1>6 DEF RunawayHasCause
  <1>8. WaitsAreOver'
    BY <1>2, <1>6 DEF WaitsAreOver, Idle, SandboxType
  <1> QED BY <1>3, <1>4, <1>7, <1>8

(* A container that exits by itself, and one whose id nobody needs any more. *)
LEMMA ContainerKeeps ==
  ASSUME SandboxInv, NEW c \in Containers, Exit(c) \/ Forget(c)
  PROVE  SandboxInv'
  <1> USE DEF SandboxInv
  <1>1. UNCHANGED <<activeContainers, calls, mishaps>>
    BY DEF Exit, Forget
  <1>2. /\ handedOut' \subseteq handedOut /\ \A d \in activeContainers : d \in handedOut => d \in handedOut'
        /\ runtime' \in [Containers -> {"none", "running", "exited"}]
        /\ \A d \in Containers : runtime'[d] = "running" => runtime[d] = "running"
    BY DEF Exit, Forget, SandboxType
  <1>3. SandboxType' /\ FreshIsPrivate' /\ TrackedIsKnown'
    BY <1>1, <1>2 DEF SandboxType, FreshIsPrivate, TrackedIsKnown
  <1>4. \A d \in Containers : (Registering(d) => Registering(d)') /\ (Killing(d) => Killing(d)')
    BY <1>1 DEF Registering, Killing
  <1>5. RunawayHasCause' /\ WaitsAreOver'
    BY <1>1, <1>2, <1>4 DEF RunawayHasCause, WaitsAreOver, SandboxType
  <1> QED BY <1>3, <1>5

(* Whatever callers do beside each other, a running container is tracked, about to  *)
(* be entered or killed, or the runtime failed its launch, its kill or a wait for it *)
(* (LaunchContainer, WaitForCompletion, TerminateImmediately).                       *)
THEOREM DriverKeepsTrack == SandboxSpec => []RunawayHasCause
  <1>1. SandboxInv /\ [SandboxNext]_sandboxVars => SandboxInv'
    <2> SUFFICES ASSUME SandboxInv, [SandboxNext]_sandboxVars PROVE SandboxInv'
      OBVIOUS
    <2>1. CASE UNCHANGED sandboxVars
      <3>1. \A c \in Containers : (Registering(c) <=> Registering(c)') /\ (Killing(c) <=> Killing(c)')
        BY <2>1 DEF Registering, Killing, sandboxVars
      <3> QED BY <2>1, <3>1
              DEF sandboxVars, SandboxInv, SandboxType, FreshIsPrivate, TrackedIsKnown, WaitsAreOver, RunawayHasCause
    <2>2. CASE SandboxNext
      BY <2>2, LaunchKeeps, RegisterKeeps, StartWaitKeeps, WaitReturnsKeeps, UnregisterKeeps, TerminateKeeps,
         KillKeeps, ContainerKeeps DEF SandboxNext
    <2> QED BY <2>1, <2>2
  <1>2. SandboxInv => RunawayHasCause
    BY DEF SandboxInv
  <1> QED BY InitTracks, <1>1, <1>2, PTL DEF SandboxSpec

-----------------------------------------------------------------------------
(* The node API *)

ApiOps == {"none", "register", "stake"}
ApiSteps == {"none", "record", "escrow", "answer"}

NodeApiType ==
    /\ hasDB \in BOOLEAN
    /\ nodes \in [ApiNodes -> [known : BOOLEAN, stake : Nat]]
    /\ sent \in [ApiNodes -> Nat] /\ acknowledged \in [ApiNodes -> Nat]
    /\ pending \in [Requests -> [op : ApiOps, node : ApiNodes \cup {"none"}, amount : Nat, step : ApiSteps, applied : BOOLEAN]]

(* What of a request counts for node n: a stake that was recorded and is not yet     *)
(* answered, and one that was sent and is not yet recorded.                          *)
RecordedFor(q, n) == IF q.applied /\ q.node = n THEN q.amount ELSE 0
SentFor(q, n) == IF q.op = "stake" /\ q.step = "record" /\ q.node = n THEN q.amount ELSE 0

Unanswered(n) == [r \in Requests |-> RecordedFor(pending[r], n)]
Unrecorded(n) == [r \in Requests |-> SentFor(pending[r], n)]

(* With the requests under way counted, both inequalities are kept by each step. *)
Backed ==
    /\ \A r \in Requests : pending[r].applied => pending[r].step = "answer"
    /\ hasDB => \A n \in ApiNodes :
          /\ acknowledged[n] + SumFunction(Unanswered(n)) <= nodes[n].stake
          /\ client # "unset" => nodes[n].stake + SumFunction(Unrecorded(n)) <= sent[n]

NodeApiInv == NodeApiType /\ Backed

LEMMA CountsNat ==
  ASSUME NEW q \in [op : ApiOps, node : ApiNodes \cup {"none"}, amount : Nat, step : ApiSteps, applied : BOOLEAN],
         NEW n \in ApiNodes
  PROVE  RecordedFor(q, n) \in Nat /\ SentFor(q, n) \in Nat
  BY DEF RecordedFor, SentFor

LEMMA UnderwayNat ==
  ASSUME NodeApiType, NEW n \in ApiNodes
  PROVE  /\ Unanswered(n) \in [Requests -> Nat] /\ Unrecorded(n) \in [Requests -> Nat]
         /\ SumFunction(Unanswered(n)) \in Nat /\ SumFunction(Unrecorded(n)) \in Nat
  <1>1. Unanswered(n) \in [Requests -> Nat] /\ Unrecorded(n) \in [Requests -> Nat]
    BY CountsNat DEF NodeApiType, Unanswered, Unrecorded
  <1> QED BY <1>1, NodeApiConstants, SumIsNatural

(* A step of one request changes the sums by what that request counts for. *)
LEMMA OneRequest ==
  ASSUME NodeApiType, NodeApiType', NEW r \in Requests, NEW n \in ApiNodes,
         \A s \in Requests \ {r} : pending'[s] = pending[s]
  PROVE  /\ SumFunction(Unanswered(n)')
              = SumFunction(Unanswered(n)) + RecordedFor(pending'[r], n) - RecordedFor(pending[r], n)
         /\ SumFunction(Unrecorded(n)')
              = SumFunction(Unrecorded(n)) + SentFor(pending'[r], n) - SentFor(pending[r], n)
  <1>1. /\ Unanswered(n) \in [Requests -> Int] /\ Unanswered(n)' \in [Requests -> Int]
        /\ Unrecorded(n) \in [Requests -> Int] /\ Unrecorded(n)' \in [Requests -> Int]
    <2>1. Unanswered(n) \in [Requests -> Nat] /\ Unrecorded(n) \in [Requests -> Nat]
      BY UnderwayNat
    <2>2. Unanswered(n)' \in [Requests -> Nat] /\ Unrecorded(n)' \in [Requests -> Nat]
      BY CountsNat DEF NodeApiType, Unanswered, Unrecorded
    <2> QED BY <2>1, <2>2
  <1>2. /\ \A s \in Requests : Unanswered(n)[s] = RecordedFor(pending[s], n)
        /\ \A s \in Requests : Unanswered(n)'[s] = RecordedFor(pending'[s], n)
    BY DEF Unanswered
  <1>3. /\ \A s \in Requests : Unrecorded(n)[s] = SentFor(pending[s], n)
        /\ \A s \in Requests : Unrecorded(n)'[s] = SentFor(pending'[s], n)
    BY DEF Unrecorded
  <1>4. SumFunction(Unanswered(n)') = SumFunction(Unanswered(n)) + Unanswered(n)'[r] - Unanswered(n)[r]
    <2>1. \A s \in Requests \ {r} : Unanswered(n)'[s] = Unanswered(n)[s]
      BY <1>2
    <2> QED BY <1>1, <2>1, NodeApiConstants, SumUpdates
  <1>5. SumFunction(Unrecorded(n)') = SumFunction(Unrecorded(n)) + Unrecorded(n)'[r] - Unrecorded(n)[r]
    <2>1. \A s \in Requests \ {r} : Unrecorded(n)'[s] = Unrecorded(n)[s]
      BY <1>3
    <2> QED BY <1>1, <2>1, NodeApiConstants, SumUpdates
  <1> QED BY <1>2, <1>3, <1>4, <1>5

(* So a step of one request keeps the rows backed if it does so for that request. *)
LEMMA OneKeeps ==
  ASSUME NodeApiInv, NodeApiType', NEW r \in Requests,
         \A s \in Requests \ {r} : pending'[s] = pending[s],
         pending'[r].applied => pending'[r].step = "answer",
         UNCHANGED <<hasDB, client>>,
         ASSUME hasDB, NEW n \in ApiNodes
         PROVE  /\ acknowledged'[n] + RecordedFor(pending'[r], n) + nodes[n].stake
                     <= nodes'[n].stake + acknowledged[n] + RecordedFor(pending[r], n)
                /\ client # "unset" =>
                     nodes'[n].stake + SentFor(pending'[r], n) + sent[n]
                       <= sent'[n] + nodes[n].stake + SentFor(pending[r], n)
  PROVE  NodeApiInv'
  <1>1. \A s \in Requests : pending'[s].applied => pending'[s].step = "answer"
    BY DEF NodeApiInv, Backed
  <1>2. ASSUME hasDB, NEW n \in ApiNodes
        PROVE  /\ acknowledged'[n] + SumFunction(Unanswered(n)') <= nodes'[n].stake
               /\ client # "unset" => nodes'[n].stake + SumFunction(Unrecorded(n)') <= sent'[n]
    <2> DEFINE a == SumFunction(Unanswered(n))
               u == SumFunction(Unrecorded(n))
               a1 == RecordedFor(pending'[r], n)
               a0 == RecordedFor(pending[r], n)
               u1 == SentFor(pending'[r], n)
               u0 == SentFor(pending[r], n)
    <2>1. SumFunction(Unanswered(n)') = a + a1 - a0 /\ SumFunction(Unrecorded(n)') = u + u1 - u0
      BY OneRequest DEF NodeApiInv
    <2>2. a \in Nat /\ u \in Nat
      BY UnderwayNat DEF NodeApiInv
    <2>3. a1 \in Nat /\ a0 \in Nat /\ u1 \in Nat /\ u0 \in Nat
      BY CountsNat DEF NodeApiInv, NodeApiType
    <2>4. a + acknowledged[n] <= nodes[n].stake /\ (client # "unset" => nodes[n].stake + u <= sent[n])
      BY <1>2, <2>2 DEF NodeApiInv, NodeApiType, Backed
    <2>5. /\ acknowledged'[n] + a1 + nodes[n].stake <= nodes'[n].stake + acknowledged[n] + a0
          /\ client # "unset" => nodes'[n].stake + u1 + sent[n] <= sent'[n] + nodes[n].stake + u0
      BY <1>2
    <2>6. /\ nodes[n].stake \in Nat /\ nodes'[n].stake \in Nat /\ sent[n] \in Nat /\ sent'[n] \in Nat
          /\ acknowledged[n] \in Nat /\ acknowledged'[n] \in Nat
      BY DEF NodeApiInv, NodeApiType
    <2> HIDE DEF a, u, a0, a1, u0, u1
    <2>7. acknowledged'[n] + (a + a1 - a0) <= nodes'[n].stake
      BY <2>2, <2>3, <2>4, <2>5, <2>6
    <2>8. client # "unset" => nodes'[n].stake + (u + u1 - u0) <= sent'[n]
      BY <2>2, <2>3, <2>4, <2>5, <2>6
    <2> QED BY <2>1, <2>7, <2>8
  <1>3. hasDB' = hasDB /\ client' = client
    OBVIOUS
  <1> QED BY <1>1, <1>2, <1>3 DEF NodeApiInv, Backed

LEMMA RefusedCountsNothing ==
  ASSUME NEW n PROVE RecordedFor(NoRequest, n) = 0 /\ SentFor(NoRequest, n) = 0
  BY DEF RecordedFor, SentFor, NoRequest

LEMMA ReceiveKeeps ==
  ASSUME NodeApiInv, NEW r \in Requests, NEW op \in {"register", "stake"}, NEW m \in ApiNodes, NEW v \in Amounts,
         Receive(r, op, m, v)
  PROVE  NodeApiInv'
  <1> DEFINE q == [op |-> op, node |-> m, amount |-> v, step |-> FirstStep(op), applied |-> FALSE]
  <1>1. v \in Nat /\ pending[r] = NoRequest /\ pending' = [pending EXCEPT ![r] = q]
        /\ UNCHANGED <<hasDB, client, nodes, sent, acknowledged>>
    BY NodeApiConstants DEF Receive
  <1>2. q \in [op : ApiOps, node : ApiNodes \cup {"none"}, amount : Nat, step : ApiSteps, applied : BOOLEAN]
    BY <1>1 DEF ApiOps, ApiSteps, FirstStep
  <1>3. ~q.applied /\ \A n \in ApiNodes : RecordedFor(q, n) = 0 /\ SentFor(q, n) = 0
    BY DEF RecordedFor, SentFor, FirstStep
  <1> HIDE DEF q
  <1>4. pending'[r] = q /\ \A s \in Requests \ {r} : pending'[s] = pending[s]
    BY <1>1 DEF NodeApiInv, NodeApiType
  <1>5. NodeApiType'
    BY <1>1, <1>2 DEF NodeApiInv, NodeApiType
  <1>6. ASSUME hasDB, NEW n \in ApiNodes
        PROVE  /\ acknowledged'[n] + RecordedFor(pending'[r], n) + nodes[n].stake
                     <= nodes'[n].stake + acknowledged[n] + RecordedFor(pending[r], n)
               /\ client # "unset" =>
                     nodes'[n].stake + SentFor(pending'[r], n) + sent[n]
                       <= sent'[n] + nodes[n].stake + SentFor(pending[r], n)
    <2>1. nodes[n].stake \in Nat /\ sent[n] \in Nat /\ acknowledged[n] \in Nat
      BY DEF NodeApiInv, NodeApiType
    <2>2. /\ RecordedFor(pending'[r], n) = 0 /\ SentFor(pending'[r], n) = 0
          /\ RecordedFor(pending[r], n) = 0 /\ SentFor(pending[r], n) = 0
      BY <1>1, <1>3, <1>4, RefusedCountsNothing
    <2> QED BY <1>1, <2>1, <2>2
  <1> QED BY <1>1, <1>3, <1>4, <1>5, <1>6, OneKeeps

LEMMA RecordedType ==
  ASSUME NEW op, NEW old \in [known : BOOLEAN, stake : Nat], NEW v \in Nat
  PROVE  Recorded(op, old, v) \in [known : BOOLEAN, stake : Nat]
  <1>1. CASE op = "register" /\ hasDB
    BY <1>1 DEF Recorded
  <1>2. CASE op = "register" /\ ~hasDB
    BY <1>2 DEF Recorded
  <1>3. CASE op = "stake" /\ old.known
    <2>1. Recorded(op, old, v) = [old EXCEPT !.stake = @ + v]
      BY <1>3 DEF Recorded
    <2>2. old.stake + v \in Nat
      OBVIOUS
    <2> QED BY <2>1, <2>2
  <1>4. CASE op # "register" /\ ~(op = "stake" /\ old.known)
    BY <1>4 DEF Recorded
  <1> QED BY <1>1, <1>2, <1>3, <1>4

(* The row of the request's node, and no other, changes with a record. *)
LEMMA RecordKeeps ==
  ASSUME NodeApiInv, NEW r \in Requests, Record(r)
  PROVE  NodeApiInv'
  <1> DEFINE q == pending[r]
             old == nodes[q.node]
             new == Recorded(q.op, old, q.amount)
  <1>1. /\ q \in [op : ApiOps, node : ApiNodes \cup {"none"}, amount : Nat, step : ApiSteps, applied : BOOLEAN]
        /\ q.step = "record" /\ ~q.applied /\ UNCHANGED <<hasDB, client, sent, acknowledged>>
        /\ hasDB \in BOOLEAN
    BY DEF Record, NodeApiInv, NodeApiType, Backed
  <1>2. /\ nodes' = nodes \/ nodes' = [nodes EXCEPT ![q.node] = new]
        /\ \/ pending' = [pending EXCEPT ![r] = NoRequest]
           \/ /\ pending' = [pending EXCEPT ![r].step = NextStep(q.op, @),
                                           ![r].applied = hasDB /\ q.op = "stake" /\ nodes[q.node].known]
              /\ nodes' = [nodes EXCEPT ![q.node] = new]
    BY DEF Record, Refuse
  <1>3. NextStep(q.op, "record") \in {"escrow", "answer"} /\ (q.op = "stake" => NextStep(q.op, "record") = "answer")
    BY DEF NextStep, FirstStep
  <1>t. nodes \in [ApiNodes -> [known : BOOLEAN, stake : Nat]]
    BY DEF NodeApiInv, NodeApiType
  <1>4. /\ \/ nodes' = nodes
           \/ q.node \in ApiNodes /\ new \in [known : BOOLEAN, stake : Nat]
              /\ nodes' = [nodes EXCEPT ![q.node] = new]
           \/ q.node \notin ApiNodes /\ nodes' = nodes
    <2>1. CASE q.node \in ApiNodes
      <3>1. old \in [known : BOOLEAN, stake : Nat] /\ q.amount \in Nat
        BY <1>1, <1>t, <2>1
      <3>2. new \in [known : BOOLEAN, stake : Nat]
        BY <3>1, RecordedType
      <3> QED BY <1>2, <2>1, <3>2
    <2>2. CASE q.node \notin ApiNodes
      <3>1. [nodes EXCEPT ![q.node] = new] = nodes
        BY <1>t, <2>2
      <3> QED BY <1>2, <2>2, <3>1
    <2> QED BY <2>1, <2>2
  <1>5. nodes' \in [ApiNodes -> [known : BOOLEAN, stake : Nat]]
    BY <1>t, <1>4
  <1>6. /\ pending'[r] \in [op : ApiOps, node : ApiNodes \cup {"none"}, amount : Nat, step : ApiSteps, applied : BOOLEAN]
        /\ pending'[r].applied => pending'[r].step = "answer"
        /\ \A s \in Requests \ {r} : pending'[s] = pending[s]
        /\ pending' \in [Requests -> [op : ApiOps, node : ApiNodes \cup {"none"}, amount : Nat, step : ApiSteps,
                                      applied : BOOLEAN]]
    <2>1. pending \in [Requests -> [op : ApiOps, node : ApiNodes \cup {"none"}, amount : Nat, step : ApiSteps,
                                   applied : BOOLEAN]]
      BY DEF NodeApiInv, NodeApiType
    <2>2. CASE pending' = [pending EXCEPT ![r] = NoRequest]
      BY <2>1, <2>2 DEF NoRequest, ApiOps, ApiSteps
    <2> DEFINE b == hasDB /\ q.op = "stake" /\ nodes[q.node].known
               t == NextStep(q.op, "record")
    <2>3. CASE pending' = [pending EXCEPT ![r].step = NextStep(q.op, @), ![r].applied = b]
      <3>1. pending' = [pending EXCEPT ![r] = [q EXCEPT !.step = t, !.applied = b]]
        BY <1>1, <2>1, <2>3
      <3>2. b \in BOOLEAN /\ t \in ApiSteps /\ (b => t = "answer")
        BY <1>3 DEF ApiSteps
      <3> HIDE DEF b, t
      <3> QED BY <1>1, <2>1, <3>1, <3>2
    <2> QED BY <1>2, <2>2, <2>3
  <1>7. NodeApiType'
    BY <1>1, <1>5, <1>6 DEF NodeApiInv, NodeApiType
  <1>8. ASSUME hasDB, NEW n \in ApiNodes
        PROVE  /\ acknowledged'[n] + RecordedFor(pending'[r], n) + nodes[n].stake
                     <= nodes'[n].stake + acknowledged[n] + RecordedFor(pending[r], n)
               /\ client # "unset" =>
                     nodes'[n].stake + SentFor(pending'[r], n) + sent[n]
                       <= sent'[n] + nodes[n].stake + SentFor(pending[r], n)
    <2> DEFINE d == IF q.op = "stake" /\ q.node = n /\ nodes[n].known THEN q.amount ELSE 0
    <2>1. nodes[n].stake \in Nat /\ sent[n] \in Nat /\ acknowledged[n] \in Nat /\ q.amount \in Nat /\ d \in Nat
      BY <1>1 DEF NodeApiInv, NodeApiType
    <2>2. nodes'[n].stake = nodes[n].stake \/ nodes'[n].stake = nodes[n].stake + d
      <3>1. CASE q.node = n /\ nodes' = [nodes EXCEPT ![q.node] = new]
        <4>1. nodes'[n] = Recorded(q.op, nodes[n], q.amount)
          BY <1>t, <3>1
        <4> QED BY <1>8, <1>t, <2>1, <3>1, <4>1 DEF Recorded
      <3>2. CASE q.node # n \/ nodes' = nodes
        <4>1. nodes'[n] = nodes[n]
          BY <1>2, <1>t, <3>2
        <4> QED BY <4>1
      <3> QED BY <1>2, <3>1, <3>2
    <2>3. RecordedFor(pending[r], n) = 0 /\ d <= SentFor(pending[r], n) /\ SentFor(pending[r], n) \in Nat
      BY <1>1, <2>1 DEF RecordedFor, SentFor
    <2>4. SentFor(pending'[r], n) = 0 /\ RecordedFor(pending'[r], n) <= nodes'[n].stake - nodes[n].stake
          /\ RecordedFor(pending'[r], n) \in Nat
      <3>1. CASE pending' = [pending EXCEPT ![r] = NoRequest]
        <4>1. pending'[r] = NoRequest
          BY <3>1 DEF NodeApiInv, NodeApiType
        <4> QED BY <2>1, <2>2, <4>1, RefusedCountsNothing
      <3>2. CASE /\ pending' = [pending EXCEPT ![r].step = NextStep(q.op, @),
                                              ![r].applied = hasDB /\ q.op = "stake" /\ nodes[q.node].known]
                 /\ nodes' = [nodes EXCEPT ![q.node] = new]
        <4>1. /\ pending'[r].node = q.node /\ pending'[r].amount = q.amount /\ pending'[r].op = q.op
              /\ pending'[r].step = NextStep(q.op, "record")
              /\ pending'[r].applied = (hasDB /\ q.op = "stake" /\ nodes[q.node].known)
          BY <1>1, <3>2 DEF NodeApiInv, NodeApiType
        <4>2. SentFor(pending'[r], n) = 0
          BY <1>3, <4>1 DEF SentFor
        <4>3. RecordedFor(pending'[r], n) = d
          BY <1>8, <4>1 DEF RecordedFor
        <4>4. nodes'[n].stake = nodes[n].stake + d
          <5>1. CASE q.node = n
            <6>1. nodes'[n] = Recorded(q.op, nodes[n], q.amount)
              BY <1>t, <3>2, <5>1
            <6> QED BY <1>8, <1>t, <2>1, <5>1, <6>1 DEF Recorded
          <5>2. CASE q.node # n
            <6>1. nodes'[n] = nodes[n] /\ d = 0
              BY <1>t, <3>2, <5>2
            <6> QED BY <2>1, <6>1
          <5> QED BY <5>1, <5>2
        <4> QED BY <2>1, <4>2, <4>3, <4>4
      <3> QED BY <1>2, <3>1, <3>2
    <2>5. nodes'[n].stake \in Nat
      BY <1>5
    <2> HIDE DEF d
    <2>6. acknowledged' = acknowledged /\ sent' = sent
      BY <1>1
    <2> QED BY <2>1, <2>2, <2>3, <2>4, <2>5, <2>6
  <1>9. UNCHANGED <<hasDB, client>>
    BY <1>1
  <1> QED BY <1>6, <1>7, <1>8, <1>9, OneKeeps

LEMMA StakeOnContractKeeps ==
  ASSUME NodeApiInv, NEW r \in Requests, StakeOnContract(r)
  PROVE  NodeApiInv'
  <1> DEFINE q == pending[r]
             t == NextStep(q.op, "escrow")
  <1>1. /\ q \in [op : ApiOps, node : ApiNodes \cup {"none"}, amount : Nat, step : ApiSteps, applied : BOOLEAN]
        /\ q.step = "escrow" /\ ~q.applied /\ UNCHANGED <<hasDB, client, nodes, acknowledged>>
    BY DEF StakeOnContract, NodeApiInv, NodeApiType, Backed
  <1>t. /\ sent \in [ApiNodes -> Nat] /\ nodes \in [ApiNodes -> [known : BOOLEAN, stake : Nat]]
        /\ acknowledged \in [ApiNodes -> Nat]
        /\ pending \in [Requests -> [op : ApiOps, node : ApiNodes \cup {"none"}, amount : Nat, step : ApiSteps,
                                     applied : BOOLEAN]]
    BY DEF NodeApiInv, NodeApiType
  <1>2. t \in {"record", "answer"}
    BY DEF NextStep, FirstStep
  <1>3. \/ pending' = [pending EXCEPT ![r] = NoRequest] /\ sent' = sent
        \/ pending' = [pending EXCEPT ![r] = NoRequest] /\ sent' = [sent EXCEPT ![q.node] = @ + q.amount]
        \/ /\ pending' = [pending EXCEPT ![r].step = t]
           /\ sent' = [sent EXCEPT ![q.node] = @ + q.amount]
        \/ /\ pending' = [pending EXCEPT ![r].step = t]
           /\ sent' = sent /\ (client = "unset" \/ q.amount = 0)
    BY <1>1, <1>t DEF StakeOnContract, GoOn, Refuse
  <1>4. /\ sent' \in [ApiNodes -> Nat]
        /\ \A n \in ApiNodes : \/ sent'[n] = sent[n]
                               \/ sent'[n] = sent[n] + q.amount /\ n = q.node
        /\ sent' = [sent EXCEPT ![q.node] = @ + q.amount] =>
             \A n \in ApiNodes : sent'[n] = IF n = q.node THEN sent[n] + q.amount ELSE sent[n]
    BY <1>1, <1>t, <1>3
  <1>5. /\ \A s \in Requests \ {r} : pending'[s] = pending[s]
        /\ pending' \in [Requests -> [op : ApiOps, node : ApiNodes \cup {"none"}, amount : Nat, step : ApiSteps,
                                      applied : BOOLEAN]]
        /\ ~pending'[r].applied
        /\ \/ pending'[r] = NoRequest
           \/ /\ pending'[r] = [q EXCEPT !.step = t]
              /\ \/ sent' = [sent EXCEPT ![q.node] = @ + q.amount]
                 \/ sent' = sent /\ (client = "unset" \/ q.amount = 0)
    <2>1. CASE pending' = [pending EXCEPT ![r] = NoRequest]
      BY <1>t, <2>1 DEF NoRequest, ApiOps, ApiSteps
    <2>2. CASE pending' = [pending EXCEPT ![r].step = t]
      <3>1. pending' = [pending EXCEPT ![r] = [q EXCEPT !.step = t]] /\ t \in ApiSteps
        BY <1>t, <1>2, <2>2 DEF ApiSteps
      <3>2. [q EXCEPT !.step = t] # NoRequest
        BY <1>1, <1>2, <1>t, <3>1 DEF NoRequest
      <3> HIDE DEF t
      <3>3. pending'[r] # NoRequest
        BY <1>t, <3>1, <3>2
      <3>4. pending' # [pending EXCEPT ![r] = NoRequest]
        BY <1>t, <3>3
      <3> QED BY <1>1, <1>t, <1>3, <3>1, <3>4 DEF t
    <2> QED BY <1>3, <2>1, <2>2
  <1>6. NodeApiType'
    BY <1>1, <1>4, <1>5 DEF NodeApiInv, NodeApiType
  <1>7. ASSUME hasDB, NEW n \in ApiNodes
        PROVE  /\ acknowledged'[n] + RecordedFor(pending'[r], n) + nodes[n].stake
                     <= nodes'[n].stake + acknowledged[n] + RecordedFor(pending[r], n)
               /\ client # "unset" =>
                     nodes'[n].stake + SentFor(pending'[r], n) + sent[n]
                       <= sent'[n] + nodes[n].stake + SentFor(pending[r], n)
    <2>1. /\ nodes[n].stake \in Nat /\ sent[n] \in Nat /\ sent'[n] \in Nat /\ acknowledged[n] \in Nat
          /\ q.amount \in Nat /\ sent'[n] >= sent[n]
      BY <1>1, <1>4, <1>t
    <2>2. RecordedFor(pending[r], n) = 0 /\ SentFor(pending[r], n) = 0 /\ RecordedFor(pending'[r], n) = 0
      BY <1>1, <1>5 DEF RecordedFor, SentFor
    <2>3. client # "unset" => SentFor(pending'[r], n) <= sent'[n] - sent[n] /\ SentFor(pending'[r], n) \in Nat
      <3>1. CASE pending'[r] = NoRequest
        BY <2>1, <3>1, RefusedCountsNothing
      <3>2. CASE /\ pending'[r] = [q EXCEPT !.step = t]
                 /\ sent' = [sent EXCEPT ![q.node] = @ + q.amount]
        <4>1. pending'[r].node = q.node /\ pending'[r].amount = q.amount
          BY <1>1, <3>2
        <4> QED BY <1>4, <2>1, <3>2, <4>1 DEF SentFor
      <3>3. CASE /\ pending'[r] = [q EXCEPT !.step = t]
                 /\ sent' = sent /\ (client = "unset" \/ q.amount = 0)
        <4>1. pending'[r].amount = q.amount
          BY <1>1, <3>3
        <4> QED BY <2>1, <3>3, <4>1 DEF SentFor
      <3> QED BY <1>5, <3>1, <3>2, <3>3
    <2> QED BY <1>1, <2>1, <2>2, <2>3
  <1>8. UNCHANGED <<hasDB, client>>
    BY <1>1
  <1> QED BY <1>5, <1>6, <1>7, <1>8, OneKeeps

LEMMA AnswerKeeps ==
  ASSUME NodeApiInv, NEW r \in Requests, Answer(r)
  PROVE  NodeApiInv'
  <1> DEFINE q == pending[r]
  <1>1. /\ q \in [op : ApiOps, node : ApiNodes \cup {"none"}, amount : Nat, step : ApiSteps, applied : BOOLEAN]
        /\ q.step = "answer" /\ UNCHANGED <<hasDB, client, nodes, sent>>
        /\ pending' = [pending EXCEPT ![r] = NoRequest]
        /\ acknowledged' = IF q.applied
                           THEN [acknowledged EXCEPT ![q.node] = @ + q.amount] ELSE acknowledged
    BY DEF Answer, Refuse, NodeApiInv, NodeApiType
  <1>t. /\ sent \in [ApiNodes -> Nat] /\ nodes \in [ApiNodes -> [known : BOOLEAN, stake : Nat]]
        /\ acknowledged \in [ApiNodes -> Nat]
        /\ pending \in [Requests -> [op : ApiOps, node : ApiNodes \cup {"none"}, amount : Nat, step : ApiSteps,
                                     applied : BOOLEAN]]
    BY DEF NodeApiInv, NodeApiType
  <1>2. /\ pending'[r] = NoRequest /\ \A s \in Requests \ {r} : pending'[s] = pending[s]
        /\ pending' \in [Requests -> [op : ApiOps, node : ApiNodes \cup {"none"}, amount : Nat, step : ApiSteps,
                                      applied : BOOLEAN]]
    BY <1>1, <1>t DEF NoRequest, ApiOps, ApiSteps
  <1>3. /\ acknowledged' \in [ApiNodes -> Nat]
        /\ \A n \in ApiNodes : acknowledged'[n] = acknowledged[n] + RecordedFor(q, n)
    <2>1. CASE q.applied
      <3>1. acknowledged' = [acknowledged EXCEPT ![q.node] = @ + q.amount]
        BY <1>1, <2>1
      <3>2. q.amount \in Nat
        BY <1>1
      <3>3. \A n \in ApiNodes : acknowledged'[n] = IF n = q.node THEN acknowledged[n] + q.amount ELSE acknowledged[n]
        BY <1>t, <3>1
      <3>4. acknowledged' \in [ApiNodes -> Nat]
        <4>1. acknowledged' = [n \in ApiNodes |-> IF n = q.node THEN acknowledged[n] + q.amount ELSE acknowledged[n]]
          BY <1>t, <3>1
        <4>2. \A n \in ApiNodes : acknowledged[n] + q.amount \in Nat /\ acknowledged[n] \in Nat
          BY <1>t, <3>2
        <4> HIDE DEF q
        <4> QED BY <4>1, <4>2
      <3>5. \A n \in ApiNodes : RecordedFor(q, n) = IF q.node = n THEN q.amount ELSE 0
        BY <2>1 DEF RecordedFor
      <3>6. \A n \in ApiNodes : acknowledged[n] \in Nat
        BY <1>t
      <3> HIDE DEF q
      <3> QED BY <3>2, <3>3, <3>4, <3>5, <3>6
    <2>2. CASE ~q.applied
      BY <1>1, <1>t, <2>2 DEF RecordedFor
    <2> QED BY <2>1, <2>2
  <1>4. NodeApiType'
    BY <1>1, <1>2, <1>3 DEF NodeApiInv, NodeApiType
  <1>5. ASSUME hasDB, NEW n \in ApiNodes
        PROVE  /\ acknowledged'[n] + RecordedFor(pending'[r], n) + nodes[n].stake
                     <= nodes'[n].stake + acknowledged[n] + RecordedFor(pending[r], n)
               /\ client # "unset" =>
                     nodes'[n].stake + SentFor(pending'[r], n) + sent[n]
                       <= sent'[n] + nodes[n].stake + SentFor(pending[r], n)
    <2>1. /\ nodes[n].stake \in Nat /\ sent[n] \in Nat /\ acknowledged[n] \in Nat
          /\ RecordedFor(q, n) \in Nat
      BY <1>1, <1>t, CountsNat
    <2>2. /\ SentFor(pending[r], n) = 0 /\ RecordedFor(pending'[r], n) = 0 /\ SentFor(pending'[r], n) = 0
      BY <1>1, <1>2, RefusedCountsNothing DEF SentFor
    <2>3. acknowledged'[n] = acknowledged[n] + RecordedFor(q, n)
      BY <1>3
    <2> QED BY <1>1, <2>1, <2>2, <2>3
  <1>6. ~pending'[r].applied /\ UNCHANGED <<hasDB, client>>
    BY <1>1, <1>2 DEF NoRequest
  <1> QED BY <1>2, <1>4, <1>5, <1>6, OneKeeps

(* With a database a restart drops the requests only, of which nothing was answered. *)
LEMMA RestartKeeps ==
  ASSUME NodeApiInv, RestartServer
  PROVE  NodeApiInv'
  <1>1. /\ pending' = [r \in Requests |-> NoRequest] /\ UNCHANGED <<hasDB, client, sent, acknowledged>>
        /\ (hasDB => nodes' = nodes) /\ \A r \in Requests : pending'[r] = NoRequest
    BY DEF RestartServer
  <1>2. nodes' \in [ApiNodes -> [known : BOOLEAN, stake : Nat]]
    BY DEF RestartServer, NodeApiInv, NodeApiType
  <1>3. NodeApiType'
    BY <1>1, <1>2 DEF NodeApiInv, NodeApiType, NoRequest, ApiOps, ApiSteps
  <1>4. ASSUME hasDB, NEW n \in ApiNodes
        PROVE  /\ acknowledged'[n] + SumFunction(Unanswered(n)') <= nodes'[n].stake
               /\ client # "unset" => nodes'[n].stake + SumFunction(Unrecorded(n)') <= sent'[n]
    <2>1. SumFunction(Unanswered(n)') = 0 /\ SumFunction(Unrecorded(n)') = 0
      <3>1. Unanswered(n)' = [r \in Requests |-> 0] /\ Unrecorded(n)' = [r \in Requests |-> 0]
        BY <1>1, RefusedCountsNothing DEF Unanswered, Unrecorded
      <3>2. SumFunction([r \in Requests |-> 0]) = 0
        BY NodeApiConstants, SumOfZeros
      <3> QED BY <3>1, <3>2
    <2>2. SumFunction(Unanswered(n)) \in Nat /\ SumFunction(Unrecorded(n)) \in Nat
      BY UnderwayNat DEF NodeApiInv
    <2>3. nodes[n].stake \in Nat /\ sent[n] \in Nat /\ acknowledged[n] \in Nat
      BY DEF NodeApiInv, NodeApiType
    <2>4. /\ acknowledged[n] + SumFunction(Unanswered(n)) <= nodes[n].stake
          /\ client # "unset" => nodes[n].stake + SumFunction(Unrecorded(n)) <= sent[n]
      BY <1>4 DEF NodeApiInv, Backed
    <2> DEFINE a == SumFunction(Unanswered(n))
               u == SumFunction(Unrecorded(n))
    <2>5. acknowledged[n] <= nodes[n].stake /\ (client # "unset" => nodes[n].stake <= sent[n])
      <3>1. /\ a \in Nat /\ u \in Nat /\ acknowledged[n] + a <= nodes[n].stake
            /\ client # "unset" => nodes[n].stake + u <= sent[n]
        BY <2>2, <2>4
      <3> HIDE DEF a, u
      <3> QED BY <2>3, <3>1
    <2> QED BY <1>1, <1>4, <2>1, <2>3, <2>5
  <1> QED BY <1>1, <1>3, <1>4 DEF NodeApiInv, Backed, NoRequest

LEMMA InitBacked == NodeApiInit => NodeApiInv
  <1> SUFFICES ASSUME NodeApiInit PROVE NodeApiInv
    OBVIOUS
  <1>1. NodeApiType
    BY DEF NodeApiInit, NodeApiType, NoRequest, ApiOps, ApiSteps
  <1>2. ASSUME NEW n \in ApiNodes
        PROVE  SumFunction(Unanswered(n)) = 0 /\ SumFunction(Unrecorded(n)) = 0
    <2>1. Unanswered(n) = [r \in Requests |-> 0] /\ Unrecorded(n) = [r \in Requests |-> 0]
      BY RefusedCountsNothing DEF NodeApiInit, Unanswered, Unrecorded
    <2>2. SumFunction([r \in Requests |-> 0]) = 0
      BY NodeApiConstants, SumOfZeros
    <2> QED BY <2>1, <2>2
  <1>3. \A n \in ApiNodes : nodes[n].stake = 0 /\ sent[n] = 0 /\ acknowledged[n] = 0
    BY DEF NodeApiInit
  <1> QED BY <1>1, <1>2, <1>3 DEF NodeApiInv, Backed, NodeApiInit, NoRequest

(* With a database, whatever fails, is lost, retried or restarted between the two     *)
(* steps of a request, a row holds every stake that was answered as added to it, and  *)
(* with a chain none that was not sent to the escrow (RegisterNode, StakeNode).       *)
THEOREM RowsBacked == NodeApiSpec => []RowsAreBacked
  <1>1. NodeApiInv /\ [NodeApiNext]_nodeApiVars => NodeApiInv'
    <2> SUFFICES ASSUME NodeApiInv, [NodeApiNext]_nodeApiVars PROVE NodeApiInv'
      OBVIOUS
    <2>1. CASE UNCHANGED nodeApiVars
      <3>1. UNCHANGED <<hasDB, client, nodes, sent, pending, acknowledged>>
        BY <2>1 DEF nodeApiVars
      <3>2. \A n \in ApiNodes : Unanswered(n)' = Unanswered(n) /\ Unrecorded(n)' = Unrecorded(n)
        BY <3>1 DEF Unanswered, Unrecorded
      <3> QED BY <3>1, <3>2 DEF NodeApiInv, NodeApiType, Backed
    <2>2. CASE NodeApiNext
      BY <2>2, ReceiveKeeps, RecordKeeps, StakeOnContractKeeps, AnswerKeeps, RestartKeeps DEF NodeApiNext
    <2> QED BY <2>1, <2>2
  <1>2. NodeApiInv => RowsAreBacked
    <2> SUFFICES ASSUME NodeApiInv, hasDB, NEW n \in ApiNodes
                 PROVE  /\ acknowledged[n] <= nodes[n].stake
                        /\ client # "unset" => nodes[n].stake <= sent[n]
      BY DEF RowsAreBacked
    <2> DEFINE a == SumFunction(Unanswered(n))
               u == SumFunction(Unrecorded(n))
    <2>1. a \in Nat /\ u \in Nat
      BY UnderwayNat DEF NodeApiInv
    <2>2. nodes[n].stake \in Nat /\ sent[n] \in Nat /\ acknowledged[n] \in Nat
      BY DEF NodeApiInv, NodeApiType
    <2>3. acknowledged[n] + a <= nodes[n].stake /\ (client # "unset" => nodes[n].stake + u <= sent[n])
      BY DEF NodeApiInv, Backed
    <2> HIDE DEF a, u
    <2> QED BY <2>1, <2>2, <2>3
  <1> QED BY <1>1, <1>2, InitBacked, PTL DEF NodeApiSpec

-----------------------------------------------------------------------------
(* The monitors of the heartbeat table *)

(* What MAX(timestamp) returns for a node with a row in the window. *)
LEMMA NewestInWindow ==
  ASSUME MonitorsType, NEW n \in Nodes, NEW w \in Nat, RowsOf(n, w) # {}
  PROVE  Newest(RowsOf(n, w)) \in Nat /\ Newest(RowsOf(n, w)) < w
  <1> DEFINE rows == RowsOf(n, w)
             ages == {Age(i) : i \in rows}
  <1>1. \A i \in rows : Age(i) \in Nat /\ Age(i) < w
    BY MonitorsConstants DEF MonitorsType, RowsOf, Age, Row
  <1>2. ages \subseteq Nat /\ ages # {}
    BY <1>1
  <1>3. PICK a \in ages : \A b \in ages : a =< b
    <2> HIDE DEF ages
    <2> QED BY <1>2, LeastNatural
  <1>4. \A i \in rows : a =< Age(i)
    BY <1>3
  <1>5. Newest(rows) \in ages
    BY <1>4 DEF Newest
  <1> QED BY <1>1, <1>5

-----------------------------------------------------------------------------

(* The empty table and an idle monitor are of the right type. *)
LEMMA MonitorsStart == MonitorsInit => MonitorsType /\ ScannedWereFresh /\ OfflineNeverRaised /\ StaleOnlyAfterSlowQuery
  <1> SUFFICES ASSUME MonitorsInit
               PROVE  MonitorsType /\ ScannedWereFresh /\ OfflineNeverRaised /\ StaleOnlyAfterSlowQuery
    OBVIOUS
  <1>1. node_heartbeats \in [Rows -> Row]
    BY MonitorsConstants DEF MonitorsInit, Row
  <1>2. scanning \in BOOLEAN /\ evaluated \in BOOLEAN
    BY Zenon DEF MonitorsInit
  <1>3. elapsed \in 0..QueryTimeout /\ silence \in [Nodes -> 0..Day] /\ last \in [Nodes -> Nat]
    BY MonitorsConstants DEF MonitorsInit
  <1>4. todo \subseteq Nodes /\ alerts = {}
    BY DEF MonitorsInit
  <1>5. MonitorsType
    BY <1>1, <1>2, <1>3, <1>4 DEF MonitorsType
  <1> QED BY <1>5 DEF MonitorsInit, ScannedWereFresh, OfflineNeverRaised, StaleOnlyAfterSlowQuery

(* No step leaves the type. *)
LEMMA MonitorsTypeKept == MonitorsType /\ [MonitorsNext]_monitorsVars => MonitorsType'
  <1> SUFFICES ASSUME MonitorsType, [MonitorsNext]_monitorsVars PROVE MonitorsType'
    OBVIOUS
  <1> USE MonitorsConstants
  <1>1. ASSUME NEW i \in Rows, NEW n \in Nodes, NEW age \in 0..MaxLate, NEW used \in Utilizations,
               Insert(i, n, age, used)
        PROVE  MonitorsType'
    <2>1. node_heartbeats' \in [Rows -> Row]
      BY <1>1 DEF MonitorsType, Insert, Row
    <2>2. silence' \in [Nodes -> 0..Day]
      BY <1>1 DEF MonitorsType, Insert
    <2> QED BY <1>1, <2>1, <2>2 DEF MonitorsType, Insert, evaluation
  <1>2. CASE Tick
    <2>1. node_heartbeats' \in [Rows -> Row]
      <3>1. \A i \in Rows : [node_heartbeats[i] EXCEPT !.age = Older(@)] \in Row
        BY DEF MonitorsType, Row, Older
      <3> QED BY <1>2, <3>1 DEF Tick
    <2>2. silence' \in [Nodes -> 0..Day]
      BY <1>2 DEF MonitorsType, Tick, Older
    <2>3. elapsed' \in 0..QueryTimeout
      BY <1>2 DEF MonitorsType, Tick
    <2>4. last' \in [Nodes -> Nat]
      BY <1>2 DEF MonitorsType, Tick
    <2> QED BY <1>2, <2>1, <2>2, <2>3, <2>4 DEF MonitorsType, Tick
  <1>3. CASE Query
    <2>1. todo' \subseteq Nodes
      BY <1>3 DEF Query
    <2>2. \A n \in todo' : Newest(RowsOf(n, StaleAfter)) \in Nat
      BY <1>3, NewestInWindow DEF Query
    <2>3. last' \in [Nodes -> Nat]
      BY <1>3, <2>2 DEF Query
    <2>4. scanning' \in BOOLEAN /\ evaluated' \in BOOLEAN
      BY <1>3, Zenon DEF Query
    <2>5. elapsed' \in 0..QueryTimeout /\ alerts' = {}
      BY <1>3 DEF Query
    <2> QED BY <1>3, <2>1, <2>3, <2>4, <2>5 DEF MonitorsType, Query
  <1>4. ASSUME NEW n \in Nodes, Scan(n) PROVE MonitorsType'
    <2>1. Severity(last[n]) \in {"ok", "warning", "critical"}
      BY DEF Severity
    <2>2. alerts' \subseteq [node : Nodes, severity : {"warning", "critical"}, after : Nat]
      BY <1>4, <2>1 DEF MonitorsType, Scan
    <2> QED BY <1>4, <2>2 DEF MonitorsType, Scan
  <1>5. CASE Return
    <2>1. scanning' \in BOOLEAN /\ evaluated' \in BOOLEAN
      BY <1>5, Zenon DEF Return
    <2>2. elapsed' \in 0..QueryTimeout /\ todo' \subseteq Nodes
      BY <1>5 DEF Return
    <2> QED BY <1>5, <2>1, <2>2 DEF MonitorsType, Return
  <1>6. CASE UNCHANGED monitorsVars
    BY <1>6 DEF MonitorsType, monitorsVars
  <1> QED BY <1>1, <1>2, <1>3, <1>4, <1>5, <1>6 DEF MonitorsNext

(* Time passes alike for the results of the query and for the evaluation. *)
LEMMA FreshKept == MonitorsType /\ ScannedWereFresh /\ [MonitorsNext]_monitorsVars => ScannedWereFresh'
  <1> SUFFICES ASSUME MonitorsType, ScannedWereFresh, [MonitorsNext]_monitorsVars PROVE ScannedWereFresh'
    OBVIOUS
  <1> USE MonitorsConstants
  <1>1. ASSUME NEW i \in Rows, NEW n \in Nodes, NEW age \in 0..MaxLate, NEW used \in Utilizations,
               Insert(i, n, age, used)
        PROVE  ScannedWereFresh'
    BY <1>1 DEF ScannedWereFresh, Insert, evaluation
  <1>2. CASE Tick
    BY <1>2 DEF MonitorsType, ScannedWereFresh, Tick
  <1>3. CASE Query
    <2>1. \A n \in todo' : n \in Nodes /\ last'[n] = Newest(RowsOf(n, StaleAfter))
      BY <1>3 DEF Query
    <2>2. \A n \in todo' : last'[n] < StaleAfter
      BY <1>3, <2>1, NewestInWindow DEF Query
    <2> QED BY <1>3, <2>2 DEF ScannedWereFresh, Query
  <1>4. ASSUME NEW n \in Nodes, Scan(n) PROVE ScannedWereFresh'
    BY <1>4 DEF ScannedWereFresh, Scan
  <1>5. CASE Return
    BY <1>5 DEF ScannedWereFresh, Return
  <1>6. CASE UNCHANGED monitorsVars
    BY <1>6 DEF ScannedWereFresh, monitorsVars
  <1> QED BY <1>1, <1>2, <1>3, <1>4, <1>5, <1>6 DEF MonitorsNext

(* What an evaluation may raise, from how fresh the heartbeats were when it began. *)
LEMMA ScanRaises ==
  ASSUME MonitorsType, ScannedWereFresh, NEW n \in Nodes, Scan(n)
  PROVE  /\ Severity(last[n]) # "critical"
         /\ Severity(last[n]) = "warning" => elapsed > 0
  <1>1. last[n] < StaleAfter + elapsed /\ last[n] \in Nat
    BY DEF ScannedWereFresh, MonitorsType, Scan
  <1>2. elapsed \in Nat /\ elapsed =< QueryTimeout
    BY MonitorsConstants DEF MonitorsType
  <1>3. ~(last[n] > OfflineAfter)
    BY <1>1, <1>2, MonitorsConstants
  <1>4. last[n] > StaleAfter => elapsed > 0
    BY <1>1, <1>2, MonitorsConstants
  <1> QED BY <1>3, <1>4 DEF Severity

LEMMA RaisesKept ==
  MonitorsType /\ ScannedWereFresh /\ OfflineNeverRaised /\ StaleOnlyAfterSlowQuery /\ [MonitorsNext]_monitorsVars
    => OfflineNeverRaised' /\ StaleOnlyAfterSlowQuery'
  <1> SUFFICES ASSUME MonitorsType, ScannedWereFresh, OfflineNeverRaised, StaleOnlyAfterSlowQuery, [MonitorsNext]_monitorsVars
               PROVE  OfflineNeverRaised' /\ StaleOnlyAfterSlowQuery'
    OBVIOUS
  <1>1. ASSUME NEW n \in Nodes, Scan(n) PROVE OfflineNeverRaised' /\ StaleOnlyAfterSlowQuery'
    <2>1. alerts' = alerts \/ alerts' = alerts \cup {[node |-> n, severity |-> Severity(last[n]), after |-> elapsed]}
      BY <1>1 DEF Scan
    <2> QED BY <1>1, <2>1, ScanRaises DEF OfflineNeverRaised, StaleOnlyAfterSlowQuery
  <1>2. CASE Query
    BY <1>2 DEF Query, OfflineNeverRaised, StaleOnlyAfterSlowQuery
  <1>3. CASE UNCHANGED alerts
    BY <1>3 DEF OfflineNeverRaised, StaleOnlyAfterSlowQuery
  <1>4. (\E n \in Nodes : Scan(n)) \/ Query \/ UNCHANGED alerts
    BY DEF MonitorsNext, Insert, Tick, Return, evaluation, monitorsVars
  <1> QED BY <1>1, <1>2, <1>3, <1>4

(* All of the monitor's invariants hold together. *)
LEMMA MonitorInv ==
  MonitorsSpec => [](MonitorsType /\ ScannedWereFresh /\ OfflineNeverRaised /\ StaleOnlyAfterSlowQuery)
  <1> DEFINE Inv == MonitorsType /\ ScannedWereFresh /\ OfflineNeverRaised /\ StaleOnlyAfterSlowQuery
  <1>1. MonitorsInit => Inv
    BY MonitorsStart
  <1>2. Inv /\ [MonitorsNext]_monitorsVars => Inv'
    BY MonitorsTypeKept, FreshKept, RaisesKept
  <1> QED BY <1>1, <1>2, PTL DEF MonitorsSpec

(* The heartbeat monitor never reports a node as offline: for every table, every    *)
(* order of insertions and all thresholds with StaleAfter + QueryTimeout =<          *)
(* OfflineAfter (monitor.go lines 44-97).                                            *)
THEOREM HeartbeatMonitorMisses == MonitorsSpec => []OfflineNeverRaised
  BY MonitorInv, PTL

(* It reports a node as stale only if its query took time (lines 52-83). *)
THEOREM StaleMeansSlow == MonitorsSpec => []StaleOnlyAfterSlowQuery
  BY MonitorInv, PTL

-----------------------------------------------------------------------------
(* VRAMMonitor: the row kept after each row of the query's result. *)

KeepStep(order, keep, k) == IF k = 1 THEN order[1] ELSE Later(keep[k - 1], order[k])
KeptRow(order) == CHOOSE keep : keep = [k \in DOMAIN order |-> KeepStep(order, keep, k)]

LEMMA LatestIsKeptRow ==
  ASSUME NEW order
  PROVE  Latest(order) = KeptRow(order)[Cardinality(DOMAIN order)]
  BY DEF Latest, KeptRow, KeepStep
Keeps(order, N, S, keep) ==
    keep \in [1..N -> S] /\ \A k \in 1..N : keep[k] = KeepStep(order, keep, k)

(* The recursion of Latest defines a function. *)
LEMMA KeptExists ==
  ASSUME NEW N \in Nat, NEW S, NEW order \in [1..N -> S]
  PROVE  \E keep : Keeps(order, N, S, keep)
  <1> USE DEF Keeps
  <1> DEFINE missing == {m \in Nat : m =< N /\ ~ \E g : Keeps(order, m, S, g)}
  <1>1. missing = {}
    <2> SUFFICES ASSUME missing # {} PROVE FALSE
      OBVIOUS
    <2>1. PICK m \in missing : \A l \in missing : m =< l
      <3>1. missing \subseteq Nat
        OBVIOUS
      <3> HIDE DEF missing
      <3> QED BY <3>1, LeastNatural
    <2>2. m \in Nat /\ m =< N
      BY <2>1
    <2>3. m # 0
      <3> SUFFICES ASSUME m = 0 PROVE FALSE
        OBVIOUS
      <3> DEFINE g == [k \in 1..0 |-> order[k]]
      <3>1. Keeps(order, 0, S, g)
        OBVIOUS
      <3> QED BY <3>1, <2>1
    <2>4. m - 1 \in Nat /\ m - 1 =< N /\ m - 1 \notin missing
      <3> HIDE DEF missing
      <3> QED BY <2>1, <2>2, <2>3
    <2>5. PICK g : Keeps(order, m - 1, S, g)
      BY <2>4
    <2> DEFINE h == [k \in 1..m |-> KeepStep(order, g, k)]
    <2>6. ASSUME NEW k \in 1..(m - 1) PROVE h[k] = g[k]
      BY <2>2, <2>5, <2>6
    <2>7. ASSUME NEW k \in 1..m PROVE h[k] \in S /\ h[k] = KeepStep(order, h, k)
      <3>1. order[k] \in S
        BY <2>2
      <3>2. CASE k = 1
        BY <3>1, <3>2 DEF KeepStep
      <3>3. CASE k # 1
        <4>1. k - 1 \in 1..(m - 1)
          BY <2>2, <3>3
        <4>2. g[k - 1] \in S /\ h[k - 1] = g[k - 1]
          BY <2>5, <2>6, <4>1
        <4> QED BY <3>1, <3>3, <4>2 DEF KeepStep, Later
      <3> QED BY <3>2, <3>3
    <2>8. Keeps(order, m, S, h)
      BY <2>7
    <2> QED BY <2>1, <2>8
  <1> QED BY <1>1

(* The row kept is one of the result, and none before it is newer. *)
LEMMA KeepsNewest ==
  ASSUME NEW N \in Nat \ {0}, NEW S, NEW order \in [1..N -> S], \A i \in S : Age(i) \in Nat
  PROVE  /\ KeptRow(order)[N] \in S
         /\ \A j \in 1..N : Age(KeptRow(order)[N]) =< Age(order[j])
  <1> DEFINE keep == KeptRow(order)
  <1>1. keep \in [1..N -> S] /\ \A k \in 1..N : keep[k] = KeepStep(order, keep, k)
    <2>1. PICK g : Keeps(order, N, S, g)
      BY KeptExists
    <2>2. g = [k \in DOMAIN order |-> KeepStep(order, g, k)]
      BY <2>1 DEF Keeps
    <2>3. keep = [k \in DOMAIN order |-> KeepStep(order, keep, k)]
      BY <2>2, Zenon DEF KeptRow
    <2>4. DOMAIN order = 1..N /\ \A k \in 1..N : order[k] \in S
      OBVIOUS
    <2> HIDE DEF keep
    <2>5. DOMAIN keep = 1..N /\ \A k \in 1..N : keep[k] = KeepStep(order, keep, k)
      BY <2>3, <2>4
    <2> DEFINE outside == {k \in 1..N : keep[k] \notin S}
    <2>6. outside = {}
      <3> SUFFICES ASSUME outside # {} PROVE FALSE
        OBVIOUS
      <3>1. outside \subseteq Nat
        OBVIOUS
      <3>2. PICK k \in outside : \A l \in outside : k =< l
        <4> HIDE DEF outside
        <4> QED BY <3>1, LeastNatural
      <3>3. k # 1 => k - 1 \in 1..N /\ keep[k - 1] \in S
        BY <3>2
      <3>4. keep[k] \in S
        BY <2>4, <2>5, <3>2, <3>3 DEF KeepStep, Later
      <3> QED BY <3>2, <3>4
    <2>7. keep = [k \in 1..N |-> keep[k]]
      BY <2>3, <2>4, <2>5
    <2> QED BY <2>5, <2>6, <2>7
  <1> HIDE DEF keep
  <1> DEFINE late == {k \in 1..N : \E j \in 1..k : ~(Age(keep[k]) =< Age(order[j]))}
  <1>2. late = {}
    <2> SUFFICES ASSUME late # {} PROVE FALSE
      OBVIOUS
    <2>1. late \subseteq Nat
      OBVIOUS
    <2>2. PICK k \in late : \A l \in late : k =< l
      <3> HIDE DEF late
      <3> QED BY <2>1, LeastNatural
    <2>3. k \in 1..N /\ keep[k] = KeepStep(order, keep, k)
      BY <1>1, <2>2
    <2>4. Age(order[k]) \in Nat
      BY <2>3
    <2>5. CASE k = 1
      BY <2>2, <2>3, <2>4, <2>5 DEF KeepStep
    <2>6. CASE k # 1
      <3>1. k - 1 \in 1..N /\ k - 1 \notin late
        <4> HIDE DEF late
        <4> QED BY <2>2, <2>3, <2>6
      <3>2. \A j \in 1..(k - 1) : Age(keep[k - 1]) =< Age(order[j])
        BY <3>1
      <3>3. Age(keep[k - 1]) \in Nat
        BY <1>1, <3>1
      <3>4. /\ Age(keep[k]) =< Age(keep[k - 1]) /\ Age(keep[k]) =< Age(order[k])
            /\ Age(keep[k]) \in Nat
        BY <2>3, <2>4, <2>6, <3>3 DEF KeepStep, Later
      <3>5. ASSUME NEW j \in 1..k PROVE Age(keep[k]) =< Age(order[j])
        <4>1. CASE j = k
          BY <3>4, <4>1
        <4>2. CASE j # k
          <5>1. j \in 1..(k - 1) /\ Age(order[j]) \in Nat
            BY <2>3, <4>2
          <5> QED BY <3>2, <3>3, <3>4, <5>1
        <4> QED BY <4>1, <4>2
      <3> QED BY <2>2, <3>5
    <2> QED BY <2>5, <2>6
  <1>3. N \in 1..N
    OBVIOUS
  <1>4. \A j \in 1..N : Age(keep[N]) =< Age(order[j])
    BY <1>2, <1>3
  <1> QED BY <1>1, <1>3, <1>4 DEF keep

(* In every order of a query's rows, the row kept is a newest one. *)
LEMMA LatestIsNewest ==
  ASSUME MonitorsType, NEW n \in Nodes, RowsOf(n, Recent) # {}, NEW order \in RowOrders(RowsOf(n, Recent))
  PROVE  /\ Latest(order) \in RowsOf(n, Recent)
         /\ Age(Latest(order)) = Newest(RowsOf(n, Recent))
  <1> DEFINE rows == RowsOf(n, Recent)
             N == Cardinality(rows)
  <1>1. \A i \in rows : Age(i) \in Nat
    BY MonitorsConstants DEF MonitorsType, RowsOf, Age, Row
  <1>2. IsFiniteSet(rows)
    <2>1. IsFiniteSet(Rows) /\ rows \subseteq Rows
      BY MonitorsConstants, FS_Interval DEF Rows, RowsOf
    <2> QED BY <2>1, FS_Subset
  <1>3. N \in Nat \ {0}
    BY <1>2, FS_CardinalityType, FS_EmptySet
  <1>4. order \in [1..N -> rows] /\ \A i, j \in 1..N : order[i] = order[j] => i = j
    BY DEF RowOrders
  <1>5. Cardinality(1..N) = N /\ IsFiniteSet(1..N)
    BY <1>3, FS_Interval
  <1>6. \A i \in rows : \E j \in 1..N : order[j] = i
    <2>1. order \in Injection(1..N, rows)
      BY <1>4 DEF Injection, IsInjective
    <2>2. order \in Surjection(1..N, rows)
      BY <2>1, <1>2, <1>5, FS_Injection
    <2> QED BY <2>2 DEF Surjection
  <1> HIDE DEF rows, N
  <1>7. Latest(order) = KeptRow(order)[N]
    BY <1>4, <1>5, LatestIsKeptRow
  <1>8. Latest(order) \in rows /\ \A j \in 1..N : Age(Latest(order)) =< Age(order[j])
    <2>1. order \in [1..N -> rows]
      BY <1>4
    <2>2. KeptRow(order)[N] \in rows /\ \A j \in 1..N : Age(KeptRow(order)[N]) =< Age(order[j])
      BY <1>1, <1>3, <2>1, KeepsNewest, Zenon
    <2> QED BY <1>7, <2>2, Zenon
  <1>9. \A i \in rows : Age(Latest(order)) =< Age(i)
    BY <1>6, <1>8
  <1>10. Newest(rows) \in {Age(i) : i \in rows} /\ \A i \in rows : Newest(rows) =< Age(i)
    BY <1>8, <1>9 DEF Newest
  <1>11. Newest(rows) = Age(Latest(order))
    BY <1>1, <1>8, <1>9, <1>10
  <1> QED BY <1>8, <1>11 DEF rows

(* Whatever order the database returns a node's rows in, VRAMMonitor's verdict is that *)
(* of a newest row: for every table and every number of rows (lines 235-246).          *)
THEOREM VerdictOfNewest == MonitorsSpec => []VRAMJudgesNewest
  <1>1. MonitorsType => VRAMJudgesNewest
    BY LatestIsNewest DEF VRAMJudgesNewest
  <1> QED BY <1>1, MonitorInv, PTL

-----------------------------------------------------------------------------
(* The checkpoint manager *)

RefsOf(cps, j) == {cp.ref : cp \in {c \in cps : c.job = j}}

(* What an instance holds, what it is about to merge and the table are copies *)
(* of checkpoints that were made, and of these a ref names one.               *)
CopiesOfSaved ==
    /\ IsFiniteSet(saved)
    /\ \A a \in saved : a.ref <= clock
    /\ \A a, b \in saved : a.ref = b.ref => a = b
    /\ table \subseteq saved
    /\ \A d \in Daemons :
          /\ storage[d] \subseteq saved
          /\ \A rows \in loading[d] : rows \in Seq(saved) /\ InTableOrder(rows)

(* The list and the pointer of each job fit the storage. *)
MapsFit ==
    \A d \in Daemons, j \in Jobs :
        /\ ToSet(byJobID[d][j]) = RefsOf(storage[d], j)
        /\ IF \E cp \in storage[d] : cp.job = j
           THEN lastCheckpoint[d][j] \in storage[d] /\ lastCheckpoint[d][j].job = j
           ELSE lastCheckpoint[d][j] = NoCheckpoint

(* A job whose saves were all informed ones has numbers up to its count. *)
NumbersInCount ==
    \A a \in saved : a.job \notin uninformed => a.seq <= Cardinality(RefsOf(saved, a.job))

CheckpointInv ==
    CheckpointType /\ CopiesOfSaved /\ MapsFit /\ NumbersInCount /\ SequenceOrdersCheckpoints /\ LastIsMostRecent

(* Rows that were read: some of a job's, its numbers ascending as in the table. *)
OfJob(got, j) == Filter(got, {cp \in ToSet(got) : cp.job = j})

(* What reading does to those of a job. *)
JobRows(T, got, j) ==
    /\ got \in Seq(T)
    /\ ToSet(got) \subseteq T
    /\ OfJob(got, j) \in Seq(T)
    /\ \A k \in 1..Len(OfJob(got, j)) : OfJob(got, j)[k] \in ToSet(got) /\ OfJob(got, j)[k].job = j
    /\ \A cp \in ToSet(got) : cp.job = j => \E k \in 1..Len(OfJob(got, j)) : OfJob(got, j)[k] = cp
    /\ \A k, l \in 1..Len(OfJob(got, j)) : k < l => OfJob(got, j)[k].seq =< OfJob(got, j)[l].seq

LEMMA RowsOfJob ==
  ASSUME NEW T, \A cp \in T : cp.seq \in Nat /\ cp.job \in Nat,
         NEW rows \in Seq(T), InTableOrder(rows), NEW read \in 0..Len(rows),
         NEW got, got = SubSeq(rows, 1, read), NEW j
  PROVE  JobRows(T, got, j)
  <1> DEFINE S == {cp \in ToSet(got) : cp.job = j}
             M == Filter(got, S)
  <1>1. got \in Seq(T) /\ Len(got) = read /\ \A i \in 1..read : got[i] = rows[i] /\ i \in 1..Len(rows)
    OBVIOUS
  <1>2. ToSet(got) = {got[i] : i \in 1..read} /\ ToSet(got) \subseteq T
    <2>1. DOMAIN got = 1..read /\ \A i \in 1..read : got[i] \in T
      BY <1>1
    <2> QED BY <2>1 DEF ToSet
  <1>3. PICK m : Places(got, S, read, M, m)
    BY <1>1, FilterPlaces
  <1>4. M \in Seq(T)
    BY <1>1, FilterType
  <1> HIDE DEF M
  <1>5. /\ m \in [1..Len(M) -> 1..read]
        /\ \A k \in 1..Len(M) : M[k] = got[m[k]] /\ M[k] \in S
        /\ \A k, l \in 1..Len(M) : k < l => m[k] < m[l]
        /\ \A i \in 1..read : got[i] \in S => \E k \in 1..Len(M) : m[k] = i
    BY <1>3 DEF Places
  <1>6. \A k \in 1..Len(M) : M[k] \in ToSet(got) /\ M[k].job = j
    BY <1>5
  <1>7. ASSUME NEW cp \in ToSet(got), cp.job = j PROVE \E k \in 1..Len(M) : M[k] = cp
    <2>1. PICK i \in 1..read : got[i] = cp
      BY <1>2
    <2>2. PICK k \in 1..Len(M) : m[k] = i
      BY <1>5, <1>7, <2>1
    <2> QED BY <1>5, <2>1, <2>2
  <1>8. ASSUME NEW k \in 1..Len(M), NEW l \in 1..Len(M), k < l PROVE M[k].seq =< M[l].seq
    <2>1. m[k] \in 1..Len(rows) /\ m[l] \in 1..Len(rows) /\ m[k] < m[l]
          /\ M[k] = rows[m[k]] /\ M[l] = rows[m[l]]
      BY <1>1, <1>5, <1>8
    <2>2. rows[m[k]].job = j /\ rows[m[l]].job = j
      BY <1>6, <2>1
    <2>3. \/ rows[m[k]].job < rows[m[l]].job
          \/ rows[m[k]].job = rows[m[l]].job /\ rows[m[k]].seq <= rows[m[l]].seq
      BY <2>1 DEF InTableOrder
    <2>4. j \in Nat
      BY <2>1, <2>2
    <2> QED BY <2>1, <2>2, <2>3, <2>4
  <1> QED BY <1>1, <1>2, <1>4, <1>6, <1>7, <1>8 DEF M, OfJob, S, JobRows

(* The pointer after a load: what it was, or a row that was read, whichever has *)
(* the greatest number.                                                         *)
LEMMA PointerLoaded ==
  ASSUME NEW T, \A cp \in T : cp.seq \in Nat, NEW mine \in Seq(T), NEW existing \in T \cup {NoCheckpoint},
         NoCheckpoint \notin T,
         \A k, l \in 1..Len(mine) : k < l => mine[k].seq =< mine[l].seq
  PROVE  /\ mine = << >> => LoadedLast(existing, mine) = existing
         /\ \/ LoadedLast(existing, mine) = existing /\ (mine # << >> => existing # NoCheckpoint)
            \/ \E k \in 1..Len(mine) : LoadedLast(existing, mine) = mine[k]
         /\ \A k \in 1..Len(mine) : mine[k].seq =< LoadedLast(existing, mine).seq
         /\ existing # NoCheckpoint => existing.seq =< LoadedLast(existing, mine).seq
  <1> DEFINE L == Len(mine)
             First(i) == /\ mine[i].seq = Last(mine).seq
                         /\ \A k \in 1..(i - 1) : mine[k].seq # Last(mine).seq
             g == CHOOSE i \in 1..L : First(i)
  <1>1. L \in Nat /\ \A k \in 1..L : mine[k] \in T /\ mine[k].seq \in Nat
    OBVIOUS
  <1>2. CASE mine = << >>
    <2>1. LoadedLast(existing, mine) = existing /\ L = 0
      BY <1>2 DEF LoadedLast
    <2> QED BY <1>1, <1>2, <2>1
  <1>3. CASE mine # << >>
    <2>1. L \in 1..L /\ Last(mine) = mine[L]
      BY <1>1, <1>3 DEF Last
    <2>2. \A k \in 1..L : mine[k].seq =< Last(mine).seq
      <3> TAKE k \in 1..L
      <3>1. k < L \/ k = L
        BY <1>1
      <3> QED BY <1>1, <2>1, <3>1
    <2>3. g \in 1..L /\ First(g)
      <3> DEFINE Q == {i \in 1..L : mine[i].seq = Last(mine).seq}
      <3>1. Q # {} /\ Q \subseteq Nat
        BY <2>1
      <3>2. PICK i \in Q : \A k \in Q : i =< k
        <4> HIDE DEF Q
        <4> QED BY <3>1, LeastNatural
      <3>3. ASSUME NEW k \in 1..(i - 1) PROVE mine[k].seq # Last(mine).seq
        <4>1. k \in 1..L /\ k < i
          BY <1>1, <3>2
        <4> QED BY <3>2, <4>1
      <3>4. i \in 1..L /\ First(i)
        BY <3>2, <3>3
      <3> HIDE DEF First
      <3> QED BY <3>4
    <2>4. LoadedLast(existing, mine)
            = IF existing # NoCheckpoint /\ existing.seq >= Last(mine).seq THEN existing ELSE mine[g]
      BY <1>3 DEF LoadedLast
    <2> HIDE DEF g
    <2>5. CASE existing # NoCheckpoint /\ existing.seq >= Last(mine).seq
      <3>1. LoadedLast(existing, mine) = existing /\ existing.seq \in Nat /\ Last(mine).seq \in Nat
        BY <1>1, <2>1, <2>4, <2>5
      <3>2. \A k \in 1..L : mine[k].seq =< existing.seq
        BY <1>1, <2>2, <2>5, <3>1
      <3> QED BY <1>3, <2>5, <3>1, <3>2
    <2>6. CASE ~ (existing # NoCheckpoint /\ existing.seq >= Last(mine).seq)
      <3>1. LoadedLast(existing, mine) = mine[g] /\ mine[g].seq = Last(mine).seq /\ Last(mine).seq \in Nat
        BY <1>1, <2>1, <2>3, <2>4, <2>6
      <3>2. existing # NoCheckpoint => existing.seq =< mine[g].seq
        BY <2>6, <3>1
      <3> QED BY <1>1, <1>3, <2>2, <2>3, <3>1, <3>2
    <2> QED BY <2>5, <2>6
  <1> QED BY <1>2, <1>3

(* A list after another lists what both list. *)
LEMMA ToSetJoins ==
  ASSUME NEW T, NEW s \in Seq(T), NEW t \in Seq(T)
  PROVE  s \o t \in Seq(T) /\ ToSet(s \o t) = ToSet(s) \cup ToSet(t)
  <1> DEFINE u == s \o t
  <1>1. /\ u \in Seq(T) /\ Len(s) \in Nat /\ Len(t) \in Nat /\ Len(u) = Len(s) + Len(t)
        /\ \A i \in 1..Len(s) : u[i] = s[i] /\ i \in 1..Len(u)
        /\ \A i \in 1..Len(t) : u[Len(s) + i] = t[i] /\ Len(s) + i \in 1..Len(u)
    OBVIOUS
  <1>2. \A i \in 1..Len(u) : i \in 1..Len(s) \/ \E k \in 1..Len(t) : i = Len(s) + k
    <2> TAKE i \in 1..Len(u)
    <2>1. CASE i =< Len(s)
      BY <1>1, <2>1
    <2>2. CASE ~ (i =< Len(s))
      <3>1. i - Len(s) \in 1..Len(t) /\ i = Len(s) + (i - Len(s))
        BY <1>1, <2>2
      <3> QED BY <3>1
    <2> QED BY <2>1, <2>2
  <1>3. DOMAIN s = 1..Len(s) /\ DOMAIN t = 1..Len(t) /\ DOMAIN u = 1..Len(u)
    BY <1>1
  <1> HIDE DEF u
  <1>4. ASSUME NEW x \in ToSet(s) \cup ToSet(t) PROVE x \in ToSet(u)
    BY <1>1, <1>3, <1>4 DEF ToSet
  <1>5. ASSUME NEW x \in ToSet(u) PROVE x \in ToSet(s) \cup ToSet(t)
    <2>1. PICK i \in 1..Len(u) : u[i] = x
      BY <1>3, <1>5 DEF ToSet
    <2>2. i \in 1..Len(s) \/ \E k \in 1..Len(t) : i = Len(s) + k
      BY <1>2
    <2> QED BY <1>1, <1>3, <2>1, <2>2 DEF ToSet
  <1> QED BY <1>1, <1>4, <1>5 DEF u

(* A list with one more entry lists that too. *)
LEMMA ToSetGrows ==
  ASSUME NEW T, NEW s \in Seq(T), NEW x \in T
  PROVE  ToSet(Append(s, x)) = ToSet(s) \cup {x}
  <1> DEFINE u == Append(s, x)
  <1>1. /\ Len(s) \in Nat /\ DOMAIN s = 1..Len(s) /\ DOMAIN u = 1..(Len(s) + 1)
        /\ u[Len(s) + 1] = x /\ \A i \in 1..Len(s) : u[i] = s[i] /\ i \in 1..(Len(s) + 1)
        /\ Len(s) + 1 \in 1..(Len(s) + 1)
    OBVIOUS
  <1>2. \A i \in 1..(Len(s) + 1) : i = Len(s) + 1 \/ i \in 1..Len(s)
    BY <1>1
  <1> HIDE DEF u
  <1>3. ToSet(u) = ToSet(s) \cup {x}
    BY <1>1, <1>2 DEF ToSet
  <1> QED BY <1>3 DEF u

(* A sequence over a set is one over any larger set. *)
LEMMA SeqOfMore ==
  ASSUME NEW S, NEW T, S \subseteq T, NEW s \in Seq(S)
  PROVE  s \in Seq(T)
  OBVIOUS

(* What the invariant says of single checkpoints. *)
LEMMA SavedFacts ==
  ASSUME CheckpointInv
  PROVE  /\ \A cp \in Checkpoints : cp.ref \in 1..MaxSaves /\ cp.job \in Jobs /\ cp.job \in Nat /\ cp.seq \in Nat
         /\ saved \subseteq Checkpoints
         /\ NoCheckpoint \notin Checkpoints
         /\ \A j : IsFiniteSet(RefsOf(saved, j)) /\ Cardinality(RefsOf(saved, j)) \in Nat
  <1>1. /\ MaxSaves \in Nat /\ saved \subseteq Checkpoints /\ clock \in 0..MaxSaves
        /\ \A cp \in Checkpoints : cp.ref \in 1..MaxSaves /\ cp.job \in Jobs /\ cp.job \in Nat /\ cp.seq \in Nat
    BY CheckpointConstants DEF CheckpointInv, CheckpointType, Checkpoints
  <1>2. NoCheckpoint \notin Checkpoints
    BY <1>1 DEF NoCheckpoint
  <1>3. ASSUME NEW j PROVE IsFiniteSet(RefsOf(saved, j)) /\ Cardinality(RefsOf(saved, j)) \in Nat
    <2>1. RefsOf(saved, j) \subseteq 1..MaxSaves
      BY <1>1 DEF RefsOf
    <2>2. IsFiniteSet(1..MaxSaves)
      BY <1>1, FS_Interval
    <2> QED BY <2>1, <2>2, FS_Subset, FS_CardinalityType
  <1> QED BY <1>1, <1>2, <1>3

(* Empty maps agree, and nothing was made (NewCheckpointManager). *)
LEMMA CheckpointStart == CheckpointInit => CheckpointInv
  <1> SUFFICES ASSUME CheckpointInit PROVE CheckpointInv
    OBVIOUS
  <1> USE DEF CheckpointInit
  <1>1. CheckpointType
    BY CheckpointConstants DEF CheckpointType
  <1>2. CopiesOfSaved
    BY FS_EmptySet DEF CopiesOfSaved
  <1>3. MapsFit
    <2>1. \A j : RefsOf({}, j) = {}
      BY DEF RefsOf
    <2>2. ToSet(<< >>) = {}
      BY DEF ToSet
    <2> QED BY <2>1, <2>2 DEF MapsFit
  <1>4. NumbersInCount /\ SequenceOrdersCheckpoints /\ LastIsMostRecent
    BY DEF NumbersInCount, SequenceOrdersCheckpoints, LastIsMostRecent
  <1> QED BY <1>1, <1>2, <1>3, <1>4 DEF CheckpointInv

(* A save by an instance that lists the job's checkpoints is numbered after all of *)
(* them; any other excludes the job from what is claimed (SaveCheckpoint).           *)
LEMMA SaveKeeps ==
  ASSUME CheckpointInv, NEW d \in Daemons, NEW j \in Jobs, NEW inserted \in BOOLEAN,
         SaveCheckpoint(d, j, inserted)
  PROVE  CheckpointInv'
  <1> DEFINE cp == [ref |-> clock + 1, job |-> j, seq |-> Len(byJobID[d][j]) + 1]
             mine == RefsOf(saved, j)
  <1>0. CheckpointType /\ CopiesOfSaved /\ MapsFit /\ NumbersInCount /\ SequenceOrdersCheckpoints /\ LastIsMostRecent
    BY DEF CheckpointInv
  <1>1. /\ clock < MaxSaves /\ clock' = clock + 1
        /\ storage' = [storage EXCEPT ![d] = @ \cup {cp}]
        /\ byJobID' = [byJobID EXCEPT ![d][j] = Append(@, clock + 1)]
        /\ lastCheckpoint' = [lastCheckpoint EXCEPT ![d][j] = cp]
        /\ table' = table \cup (IF inserted THEN {cp} ELSE {})
        /\ saved' = saved \cup {cp}
        /\ uninformed' = IF ListsAll(d, j) THEN uninformed ELSE uninformed \cup {j}
        /\ UNCHANGED <<loading, loads, restarts>>
    BY DEF SaveCheckpoint, NextSequence, SavedLast, Persist
  <1>2. /\ MaxSaves \in Nat /\ clock \in 0..MaxSaves /\ clock + 1 \in 1..MaxSaves
        /\ byJobID[d][j] \in Seq(1..MaxSaves) /\ Len(byJobID[d][j]) \in Nat
        /\ cp.ref = clock + 1 /\ cp.job = j /\ cp.seq = Len(byJobID[d][j]) + 1
        /\ cp \in Checkpoints /\ saved \subseteq Checkpoints
    BY <1>0, <1>1, CheckpointConstants DEF CheckpointType, Checkpoints
  <1>3. \A a \in saved : a.ref \in Nat /\ a.seq \in Nat /\ a.ref < cp.ref /\ a.job \in Jobs
    BY <1>0, <1>2, SavedFacts DEF CopiesOfSaved
  <1> HIDE DEF cp
  <1>4. CheckpointType'
    <2>1. storage' \in [Daemons -> SUBSET Checkpoints]
      BY <1>0, <1>1, <1>2 DEF CheckpointType
    <2>2. byJobID' \in [Daemons -> [Jobs -> Seq(1..MaxSaves)]]
      BY <1>0, <1>1, <1>2 DEF CheckpointType
    <2>3. lastCheckpoint' \in [Daemons -> [Jobs -> Checkpoints \cup {NoCheckpoint}]]
      BY <1>0, <1>1, <1>2 DEF CheckpointType
    <2>4. table' \subseteq Checkpoints /\ saved' \subseteq Checkpoints /\ uninformed' \subseteq Jobs
      BY <1>0, <1>1, <1>2 DEF CheckpointType
    <2>5. clock' \in 0..MaxSaves
      BY <1>1, <1>2
    <2> QED BY <1>0, <1>1, <2>1, <2>2, <2>3, <2>4, <2>5 DEF CheckpointType
  <1>5. CopiesOfSaved'
    <2>1. IsFiniteSet(saved')
      BY <1>0, <1>1, FS_AddElement DEF CopiesOfSaved
    <2>2. \A a \in saved' : a.ref =< clock'
      BY <1>0, <1>1, <1>2, <1>3 DEF CopiesOfSaved
    <2>3. \A a, b \in saved' : a.ref = b.ref => a = b
      BY <1>0, <1>1, <1>2, <1>3 DEF CopiesOfSaved
    <2>4. table' \subseteq saved'
      BY <1>0, <1>1 DEF CopiesOfSaved
    <2>5. ASSUME NEW e \in Daemons
          PROVE  storage'[e] \subseteq saved' /\ \A rows \in loading'[e] : rows \in Seq(saved') /\ InTableOrder(rows)
      <3>1. storage[e] \subseteq saved /\ \A rows \in loading[e] : rows \in Seq(saved) /\ InTableOrder(rows)
        BY <1>0 DEF CopiesOfSaved
      <3>2. storage'[e] = IF e = d THEN storage[d] \cup {cp} ELSE storage[e]
        BY <1>0, <1>1 DEF CheckpointType
      <3>3. \A rows \in loading[e] : rows \in Seq(saved')
        BY <1>1, <3>1, SeqOfMore
      <3> QED BY <1>1, <3>1, <3>2, <3>3
    <2> QED BY <2>1, <2>2, <2>3, <2>4, <2>5 DEF CopiesOfSaved
  <1>6. ASSUME NEW e \in Daemons, NEW k \in Jobs
        PROVE  /\ storage'[e] = IF e = d THEN storage[e] \cup {cp} ELSE storage[e]
               /\ byJobID'[e][k] = IF e = d /\ k = j THEN Append(byJobID[e][k], clock + 1) ELSE byJobID[e][k]
               /\ lastCheckpoint'[e][k] = IF e = d /\ k = j THEN cp ELSE lastCheckpoint[e][k]
    BY <1>0, <1>1 DEF CheckpointType
  <1>7. MapsFit'
    <2> SUFFICES ASSUME NEW e \in Daemons, NEW k \in Jobs
                 PROVE  /\ ToSet(byJobID'[e][k]) = RefsOf(storage'[e], k)
                        /\ IF \E c \in storage'[e] : c.job = k
                           THEN lastCheckpoint'[e][k] \in storage'[e] /\ lastCheckpoint'[e][k].job = k
                           ELSE lastCheckpoint'[e][k] = NoCheckpoint
      BY DEF MapsFit
    <2>1. /\ ToSet(byJobID[e][k]) = RefsOf(storage[e], k)
          /\ IF \E c \in storage[e] : c.job = k
             THEN lastCheckpoint[e][k] \in storage[e] /\ lastCheckpoint[e][k].job = k
             ELSE lastCheckpoint[e][k] = NoCheckpoint
      BY <1>0 DEF MapsFit
    <2>2. CASE e # d
      BY <1>6, <2>1, <2>2
    <2>3. CASE e = d /\ k # j
      <3>1. RefsOf(storage'[e], k) = RefsOf(storage[e], k)
        BY <1>2, <1>6, <2>3 DEF RefsOf
      <3>2. (\E c \in storage'[e] : c.job = k) <=> (\E c \in storage[e] : c.job = k)
        <4>1. storage'[e] = storage[e] \cup {cp} /\ cp.job # k
          BY <1>2, <1>6, <2>3
        <4> QED BY <4>1
      <3>3. storage[e] \subseteq storage'[e]
        BY <1>6
      <3> QED BY <1>6, <2>1, <2>3, <3>1, <3>2, <3>3
    <2>4. CASE e = d /\ k = j
      <3>0. /\ storage'[e] = storage[e] \cup {cp} /\ lastCheckpoint'[e][k] = cp
            /\ byJobID'[e][k] = Append(byJobID[e][k], clock + 1)
        BY <1>6, <2>4
      <3>1. ToSet(byJobID'[e][k]) = ToSet(byJobID[e][k]) \cup {clock + 1}
        BY <1>2, <2>4, <3>0, ToSetGrows
      <3>2. RefsOf(storage'[e], k) = RefsOf(storage[e], k) \cup {clock + 1}
        BY <1>2, <2>4, <3>0 DEF RefsOf
      <3> QED BY <1>2, <2>1, <2>4, <3>0, <3>1, <3>2
    <2> QED BY <2>2, <2>3, <2>4
  <1>8. /\ RefsOf(saved', j) = mine \cup {clock + 1} /\ clock + 1 \notin mine
        /\ \A k : k # j => RefsOf(saved', k) = RefsOf(saved, k)
    BY <1>1, <1>2, <1>3 DEF RefsOf
  <1>9. Cardinality(mine) \in Nat /\ Cardinality(RefsOf(saved', j)) = Cardinality(mine) + 1
    <2>1. IsFiniteSet(mine) /\ Cardinality(mine) \in Nat
      BY SavedFacts
    <2> HIDE DEF mine
    <2> QED BY <1>8, <2>1, FS_AddElement
  <1>10. j \notin uninformed' => cp.seq = Cardinality(mine) + 1
    <2>1. j \notin uninformed' => ListsAll(d, j)
      BY <1>1
    <2>2. ListsAll(d, j) => Len(byJobID[d][j]) = Cardinality(mine)
      BY DEF ListsAll, RefsOf
    <2> HIDE DEF mine
    <2> QED BY <1>1, <1>2, <2>1, <2>2
  <1>11. uninformed \subseteq uninformed'
    BY <1>1
  <1> HIDE DEF mine
  <1>12. NumbersInCount'
    <2> SUFFICES ASSUME NEW a \in saved', a.job \notin uninformed'
                 PROVE  a.seq =< Cardinality(RefsOf(saved', a.job))
      BY DEF NumbersInCount
    <2>1. CASE a = cp
      BY <1>2, <1>9, <1>10, <2>1
    <2>2. CASE a \in saved /\ a.job # j
      BY <1>0, <1>8, <1>11, <2>2 DEF NumbersInCount
    <2>3. CASE a \in saved /\ a.job = j
      <3>1. a.seq =< Cardinality(mine) /\ a.seq \in Nat
        BY <1>0, <1>3, <1>11, <2>3 DEF NumbersInCount, mine
      <3> QED BY <1>9, <2>3, <3>1
    <2> QED BY <1>1, <2>1, <2>2, <2>3
  <1>13. SequenceOrdersCheckpoints'
    <2> SUFFICES ASSUME NEW a \in saved', NEW b \in saved', a.job = b.job, a.job \notin uninformed', a.ref < b.ref
                 PROVE  a.seq < b.seq
      BY DEF SequenceOrdersCheckpoints
    <2>1. CASE a \in saved /\ b \in saved
      BY <1>0, <1>11, <2>1 DEF SequenceOrdersCheckpoints
    <2>2. CASE a \in saved /\ b = cp
      <3>1. a.job = j /\ j \notin uninformed'
        BY <1>2, <2>2
      <3>2. a.seq =< Cardinality(mine) /\ a.seq \in Nat
        BY <1>0, <1>3, <1>11, <2>2, <3>1 DEF NumbersInCount, mine
      <3> QED BY <1>9, <1>10, <2>2, <3>1, <3>2
    <2>3. CASE a = cp
      <3>1. b = cp \/ (b.ref < cp.ref /\ b.ref \in Nat)
        <4>1. b \in saved \/ b = cp
          BY <1>1
        <4> QED BY <1>3, <4>1
      <3>2. cp.ref \in Nat
        BY <1>2
      <3> QED BY <2>3, <3>1, <3>2
    <2> QED BY <1>1, <2>1, <2>2, <2>3
  <1>14. LastIsMostRecent'
    <2> SUFFICES ASSUME NEW e \in Daemons, NEW c \in storage'[e], c.job \notin uninformed'
                 PROVE  c.ref =< lastCheckpoint'[e][c.job].ref
      BY DEF LastIsMostRecent, GetLastCheckpoint
    <2>1. c \in saved' /\ c.job \in Jobs
      BY <1>1, <1>2, <1>3, <1>5 DEF CopiesOfSaved
    <2>2. CASE e = d /\ c.job = j
      <3>1. lastCheckpoint'[e][c.job] = cp
        BY <1>6, <2>1, <2>2
      <3>2. c = cp \/ (c.ref < cp.ref /\ c.ref \in Nat)
        <4>1. c \in saved \/ c = cp
          BY <1>1, <2>1
        <4> QED BY <1>3, <4>1
      <3> QED BY <1>2, <3>1, <3>2
    <2>3. CASE ~ (e = d /\ c.job = j)
      <3>1. lastCheckpoint'[e][c.job] = lastCheckpoint[e][c.job]
        BY <1>6, <2>1, <2>3
      <3>2. c \in storage[e]
        <4>1. CASE e # d
          BY <1>6, <2>1, <4>1
        <4>2. CASE e = d /\ c.job # j
          <5>1. storage'[e] = storage[e] \cup {cp} /\ c # cp
            BY <1>2, <1>6, <2>1, <4>2
          <5> QED BY <5>1
        <4> QED BY <2>3, <4>1, <4>2
      <3> QED BY <1>0, <1>11, <3>1, <3>2 DEF LastIsMostRecent, GetLastCheckpoint
    <2> QED BY <2>2, <2>3
  <1> QED BY <1>4, <1>5, <1>7, <1>12, <1>13, <1>14 DEF CheckpointInv

(* A step that makes no checkpoint keeps what the invariant says of those made. *)
LEMMA HistoryKept ==
  ASSUME CheckpointInv, UNCHANGED <<saved, uninformed, clock>>
  PROVE  /\ NumbersInCount' /\ SequenceOrdersCheckpoints'
         /\ IsFiniteSet(saved') /\ (\A a \in saved' : a.ref =< clock')
         /\ \A a, b \in saved' : a.ref = b.ref => a = b
  <1>1. NumbersInCount /\ SequenceOrdersCheckpoints /\ CopiesOfSaved
    BY DEF CheckpointInv
  <1>2. NumbersInCount'
    BY <1>1 DEF NumbersInCount, RefsOf
  <1>3. SequenceOrdersCheckpoints'
    BY <1>1 DEF SequenceOrdersCheckpoints
  <1> QED BY <1>1, <1>2, <1>3 DEF CopiesOfSaved

(* The refs a job lists are those stored for it, so no other job's go (ClearCheckpoints). *)
LEMMA ClearKeeps ==
  ASSUME CheckpointInv, NEW d \in Daemons, NEW j \in Jobs, ClearCheckpoints(d, j)
  PROVE  CheckpointInv'
  <1> DEFINE refs == ToSet(byJobID[d][j])
             rest == {cp \in storage[d] : cp.ref \notin refs}
  <1>0. CheckpointType /\ CopiesOfSaved /\ MapsFit /\ LastIsMostRecent
    BY DEF CheckpointInv
  <1>1. /\ storage' = [storage EXCEPT ![d] = rest]
        /\ byJobID' = [byJobID EXCEPT ![d][j] = << >>]
        /\ lastCheckpoint' = [lastCheckpoint EXCEPT ![d][j] = NoCheckpoint]
        /\ UNCHANGED <<loading, table, clock, loads, restarts, saved, uninformed>>
    BY DEF ClearCheckpoints, RemainingStorage
  <1>2. rest = {cp \in storage[d] : cp.job # j}
    <2>1. refs = RefsOf(storage[d], j)
      BY <1>0 DEF MapsFit
    <2>2. \A a, b \in storage[d] : a.ref = b.ref => a = b
      BY <1>0 DEF CopiesOfSaved
    <2> HIDE DEF refs
    <2> QED BY <2>1, <2>2 DEF RefsOf
  <1> HIDE DEF rest, refs
  <1>3. rest \subseteq storage[d] /\ storage[d] \subseteq saved /\ saved \subseteq Checkpoints
    BY <1>0, <1>2 DEF CopiesOfSaved, CheckpointType
  <1>4. CheckpointType'
    <2>1. storage' \in [Daemons -> SUBSET Checkpoints]
      BY <1>0, <1>1, <1>3 DEF CheckpointType
    <2>2. byJobID' \in [Daemons -> [Jobs -> Seq(1..MaxSaves)]]
      BY <1>0, <1>1 DEF CheckpointType
    <2>3. lastCheckpoint' \in [Daemons -> [Jobs -> Checkpoints \cup {NoCheckpoint}]]
      BY <1>0, <1>1 DEF CheckpointType
    <2> QED BY <1>0, <1>1, <2>1, <2>2, <2>3 DEF CheckpointType
  <1>5. ASSUME NEW e \in Daemons, NEW k \in Jobs
        PROVE  /\ storage'[e] = IF e = d THEN rest ELSE storage[e]
               /\ byJobID'[e][k] = IF e = d /\ k = j THEN << >> ELSE byJobID[e][k]
               /\ lastCheckpoint'[e][k] = IF e = d /\ k = j THEN NoCheckpoint ELSE lastCheckpoint[e][k]
    BY <1>0, <1>1 DEF CheckpointType
  <1>6. CopiesOfSaved'
    <2>1. \A e \in Daemons : storage'[e] \subseteq saved
      BY <1>0, <1>1, <1>3 DEF CopiesOfSaved, CheckpointType
    <2> QED BY <1>0, <1>1, <2>1, HistoryKept DEF CopiesOfSaved
  <1>7. MapsFit'
    <2> SUFFICES ASSUME NEW e \in Daemons, NEW k \in Jobs
                 PROVE  /\ ToSet(byJobID'[e][k]) = RefsOf(storage'[e], k)
                        /\ IF \E c \in storage'[e] : c.job = k
                           THEN lastCheckpoint'[e][k] \in storage'[e] /\ lastCheckpoint'[e][k].job = k
                           ELSE lastCheckpoint'[e][k] = NoCheckpoint
      BY DEF MapsFit
    <2>1. /\ ToSet(byJobID[e][k]) = RefsOf(storage[e], k)
          /\ IF \E c \in storage[e] : c.job = k
             THEN lastCheckpoint[e][k] \in storage[e] /\ lastCheckpoint[e][k].job = k
             ELSE lastCheckpoint[e][k] = NoCheckpoint
      BY <1>0 DEF MapsFit
    <2>2. CASE e # d
      BY <1>5, <2>1, <2>2
    <2>3. CASE e = d /\ k # j
      <3>1. storage'[e] = rest /\ byJobID'[e][k] = byJobID[e][k] /\ lastCheckpoint'[e][k] = lastCheckpoint[e][k]
        BY <1>5, <2>3
      <3>2. RefsOf(rest, k) = RefsOf(storage[e], k)
        BY <1>2, <2>3 DEF RefsOf
      <3>3. \A c \in storage[e] : c.job = k => c \in rest
        BY <1>2, <2>3
      <3> QED BY <1>3, <2>1, <2>3, <3>1, <3>2, <3>3
    <2>4. CASE e = d /\ k = j
      <3>1. storage'[e] = rest /\ byJobID'[e][k] = << >> /\ lastCheckpoint'[e][k] = NoCheckpoint
        BY <1>5, <2>4
      <3>2. ToSet(<< >>) = {}
        BY DEF ToSet
      <3>3. RefsOf(rest, k) = {} /\ ~ \E c \in rest : c.job = k
        BY <1>2, <2>4 DEF RefsOf
      <3> QED BY <3>1, <3>2, <3>3
    <2> QED BY <2>2, <2>3, <2>4
  <1>8. LastIsMostRecent'
    <2> SUFFICES ASSUME NEW e \in Daemons, NEW c \in storage'[e], c.job \notin uninformed'
                 PROVE  c.ref =< lastCheckpoint'[e][c.job].ref
      BY DEF LastIsMostRecent, GetLastCheckpoint
    <2>1. c \in storage[e] /\ (e = d => c.job # j)
      <3>1. storage'[e] = IF e = d THEN rest ELSE storage[e]
        BY <1>5
      <3>2. CASE e = d
        <4>1. c \in rest
          BY <3>1, <3>2
        <4> QED BY <1>2, <3>2, <4>1
      <3>3. CASE e # d
        BY <3>1, <3>3
      <3> QED BY <3>2, <3>3
    <2>2. c.job \in Jobs
      BY <1>0, <2>1 DEF CheckpointType, Checkpoints
    <2>3. lastCheckpoint'[e][c.job] = lastCheckpoint[e][c.job]
      BY <1>5, <2>1, <2>2
    <2> QED BY <1>0, <1>1, <2>1, <2>3 DEF LastIsMostRecent, GetLastCheckpoint
  <1> QED BY <1>1, <1>4, <1>6, <1>7, <1>8, HistoryKept DEF CheckpointInv

(* The rows of a query are copies of what was saved, in order (LoadFromDB). *)
LEMMA QueryKeeps ==
  ASSUME CheckpointInv, NEW d \in Daemons, QueryTable(d)
  PROVE  CheckpointInv'
  <1>0. CheckpointType /\ CopiesOfSaved /\ MapsFit /\ LastIsMostRecent
    BY DEF CheckpointInv
  <1>1. /\ loads[d] < MaxLoads /\ loads' = [loads EXCEPT ![d] = @ + 1]
        /\ UNCHANGED <<storage, byJobID, lastCheckpoint, table, clock, restarts, saved, uninformed>>
    BY DEF QueryTable
  <1>2. PICK rows \in SetToSeqs(table) : InTableOrder(rows) /\ loading' = [loading EXCEPT ![d] = {rows}]
    BY DEF QueryTable
  <1>3. rows \in Seq(table)
    <2>1. Cardinality(table) \in Nat
      <3>1. IsFiniteSet(saved) /\ table \in SUBSET saved
        BY <1>0 DEF CopiesOfSaved
      <3>2. IsFiniteSet(table)
        BY <3>1, FS_Subset
      <3> QED BY <3>2, FS_CardinalityType
    <2>2. rows \in [1..Cardinality(table) -> table]
      <3>1. rows \in SetToSeqs(table)
        OBVIOUS
      <3> QED BY <3>1, Zenon DEF SetToSeqs
    <2> QED BY <2>1, <2>2
  <1>4. rows \in Seq(saved) /\ rows \in Seq(Checkpoints)
    BY <1>0, <1>3, SeqOfMore DEF CopiesOfSaved, CheckpointType
  <1>5. CheckpointType'
    <2>1. loading' \in [Daemons -> SUBSET Seq(Checkpoints)]
      BY <1>0, <1>2, <1>4 DEF CheckpointType
    <2>2. loads' \in [Daemons -> 0..MaxLoads]
      <3>1. loads[d] + 1 \in 0..MaxLoads
        BY <1>0, <1>1, CheckpointConstants DEF CheckpointType
      <3> QED BY <1>0, <1>1, <3>1 DEF CheckpointType
    <2> QED BY <1>0, <1>1, <2>1, <2>2 DEF CheckpointType
  <1>6. CopiesOfSaved'
    <2>1. ASSUME NEW e \in Daemons, NEW r \in loading'[e] PROVE r \in Seq(saved) /\ InTableOrder(r)
      <3>1. r = rows \/ r \in loading[e]
        BY <1>0, <1>2, <2>1 DEF CheckpointType
      <3> QED BY <1>0, <1>2, <1>4, <3>1 DEF CopiesOfSaved
    <2> QED BY <1>0, <1>1, <2>1, HistoryKept DEF CopiesOfSaved
  <1>7. MapsFit' /\ LastIsMostRecent'
    BY <1>0, <1>1 DEF MapsFit, RefsOf, LastIsMostRecent, GetLastCheckpoint
  <1> QED BY <1>1, <1>5, <1>6, <1>7, HistoryKept DEF CheckpointInv

(* An upsert adds what the instance stores (SyncToDB). *)
LEMMA SyncKeeps ==
  ASSUME CheckpointInv, NEW d \in Daemons, NEW rows \in SUBSET storage[d], SyncToDB(d, rows)
  PROVE  CheckpointInv'
  <1>0. CheckpointType /\ CopiesOfSaved /\ MapsFit /\ LastIsMostRecent
    BY DEF CheckpointInv
  <1>1. /\ table' = table \cup rows
        /\ UNCHANGED <<storage, byJobID, lastCheckpoint, loading, clock, loads, restarts, saved, uninformed>>
    BY DEF SyncToDB, Persist
  <1>2. rows \subseteq saved /\ saved \subseteq Checkpoints
    BY <1>0 DEF CopiesOfSaved, CheckpointType
  <1>3. CheckpointType'
    BY <1>0, <1>1, <1>2 DEF CheckpointType
  <1>4. CopiesOfSaved'
    BY <1>0, <1>1, <1>2, HistoryKept DEF CopiesOfSaved
  <1>5. MapsFit' /\ LastIsMostRecent'
    BY <1>0, <1>1 DEF MapsFit, RefsOf, LastIsMostRecent, GetLastCheckpoint
  <1> QED BY <1>1, <1>3, <1>4, <1>5, HistoryKept DEF CheckpointInv

(* An instance that restarts holds nothing, in any of its maps. *)
LEMMA DaemonRestartKeeps ==
  ASSUME CheckpointInv, NEW d \in Daemons, Restart(d)
  PROVE  CheckpointInv'
  <1>0. CheckpointType /\ CopiesOfSaved /\ MapsFit /\ LastIsMostRecent
    BY DEF CheckpointInv
  <1>1. /\ restarts < MaxRestarts /\ restarts' = restarts + 1
        /\ storage' = [storage EXCEPT ![d] = {}]
        /\ byJobID' = [byJobID EXCEPT ![d] = [j \in Jobs |-> << >>]]
        /\ lastCheckpoint' = [lastCheckpoint EXCEPT ![d] = [j \in Jobs |-> NoCheckpoint]]
        /\ loading' = [loading EXCEPT ![d] = {}]
        /\ loads' = [loads EXCEPT ![d] = 0]
        /\ UNCHANGED <<table, clock, saved, uninformed>>
    BY DEF Restart
  <1>2. CheckpointType'
    <2>1. storage' \in [Daemons -> SUBSET Checkpoints] /\ loading' \in [Daemons -> SUBSET Seq(Checkpoints)]
      BY <1>0, <1>1 DEF CheckpointType
    <2>2. byJobID' \in [Daemons -> [Jobs -> Seq(1..MaxSaves)]]
      BY <1>0, <1>1 DEF CheckpointType
    <2>3. lastCheckpoint' \in [Daemons -> [Jobs -> Checkpoints \cup {NoCheckpoint}]]
      BY <1>0, <1>1 DEF CheckpointType
    <2>4. loads' \in [Daemons -> 0..MaxLoads] /\ restarts' \in 0..MaxRestarts
      BY <1>0, <1>1, CheckpointConstants DEF CheckpointType
    <2> QED BY <1>0, <1>1, <2>1, <2>2, <2>3, <2>4 DEF CheckpointType
  <1>3. ASSUME NEW e \in Daemons
        PROVE  /\ storage'[e] = IF e = d THEN {} ELSE storage[e]
               /\ byJobID'[e] = IF e = d THEN [j \in Jobs |-> << >>] ELSE byJobID[e]
               /\ lastCheckpoint'[e] = IF e = d THEN [j \in Jobs |-> NoCheckpoint] ELSE lastCheckpoint[e]
               /\ loading'[e] = IF e = d THEN {} ELSE loading[e]
    BY <1>0, <1>1 DEF CheckpointType
  <1>4. CopiesOfSaved'
    <2>1. ASSUME NEW e \in Daemons
          PROVE  storage'[e] \subseteq saved /\ \A r \in loading'[e] : r \in Seq(saved) /\ InTableOrder(r)
      BY <1>0, <1>3 DEF CopiesOfSaved
    <2> QED BY <1>0, <1>1, <2>1, HistoryKept DEF CopiesOfSaved
  <1>5. MapsFit'
    <2>1. \A j : RefsOf({}, j) = {}
      BY DEF RefsOf
    <2>2. ToSet(<< >>) = {}
      BY DEF ToSet
    <2> SUFFICES ASSUME NEW e \in Daemons, NEW k \in Jobs
                 PROVE  /\ ToSet(byJobID'[e][k]) = RefsOf(storage'[e], k)
                        /\ IF \E c \in storage'[e] : c.job = k
                           THEN lastCheckpoint'[e][k] \in storage'[e] /\ lastCheckpoint'[e][k].job = k
                           ELSE lastCheckpoint'[e][k] = NoCheckpoint
      BY DEF MapsFit
    <2>3. CASE e = d
      BY <1>3, <2>1, <2>2, <2>3
    <2>4. CASE e # d
      BY <1>0, <1>3, <2>4 DEF MapsFit
    <2> QED BY <2>3, <2>4
  <1>6. LastIsMostRecent'
    BY <1>0, <1>1, <1>3 DEF LastIsMostRecent, GetLastCheckpoint
  <1> QED BY <1>1, <1>2, <1>4, <1>5, <1>6, HistoryKept DEF CheckpointInv

(* Merging any prefix of rows queried earlier keeps list, storage and pointer in step: *)
(* the greatest number among old pointer and rows is the newest checkpoint (LoadFromDB). *)
LEMMA MergeKeeps ==
  ASSUME CheckpointInv, NEW d \in Daemons, NEW read \in 0..MaxSaves, MergeRows(d, read)
  PROVE  CheckpointInv'
  <1>0. CheckpointType /\ CopiesOfSaved /\ MapsFit /\ LastIsMostRecent /\ SequenceOrdersCheckpoints
    BY DEF CheckpointInv
  <1>1. PICK rows \in loading[d] :
          LET got == SubSeq(rows, 1, read)
              mine(j) == Filter(got, {cp \in ToSet(got) : cp.job = j})
          IN  /\ read \in 0..Len(rows)
              /\ storage' = [storage EXCEPT ![d] = @ \cup ToSet(got)]
              /\ byJobID' = [byJobID EXCEPT ![d] = [j \in Jobs |->
                     @[j] \o [i \in 1..Len(mine(j)) |-> mine(j)[i].ref]]]
              /\ lastCheckpoint' = [lastCheckpoint EXCEPT ![d] = [j \in Jobs |->
                     LoadedLast(@[j], mine(j))]]
    BY DEF MergeRows
  <1>2. loading' = [loading EXCEPT ![d] = {}] /\ UNCHANGED <<table, clock, loads, restarts, saved, uninformed>>
    BY DEF MergeRows
  <1> DEFINE got == SubSeq(rows, 1, read)
             refs(j) == [i \in 1..Len(OfJob(got, j)) |-> OfJob(got, j)[i].ref]
  <1>3. /\ read \in 0..Len(rows)
        /\ storage' = [storage EXCEPT ![d] = @ \cup ToSet(got)]
        /\ byJobID' = [byJobID EXCEPT ![d] = [j \in Jobs |-> byJobID[d][j] \o refs(j)]]
        /\ lastCheckpoint' = [lastCheckpoint EXCEPT ![d] =
               [j \in Jobs |-> LoadedLast(lastCheckpoint[d][j], OfJob(got, j))]]
    <2>1. byJobID \in [Daemons -> [Jobs -> Seq(1..MaxSaves)]]
          /\ lastCheckpoint \in [Daemons -> [Jobs -> Checkpoints \cup {NoCheckpoint}]]
      BY <1>0 DEF CheckpointType
    <2> QED BY <1>1, <2>1 DEF OfJob
  <1>4. rows \in Seq(saved) /\ InTableOrder(rows)
    BY <1>0 DEF CopiesOfSaved
  <1>5. /\ saved \subseteq Checkpoints /\ NoCheckpoint \notin saved
        /\ \A cp \in saved : cp.ref \in 1..MaxSaves /\ cp.job \in Jobs /\ cp.job \in Nat /\ cp.seq \in Nat
    BY SavedFacts
  <1>6. /\ got \in Seq(saved) /\ ToSet(got) \subseteq saved
        /\ \A j : /\ OfJob(got, j) \in Seq(saved)
                  /\ \A k \in 1..Len(OfJob(got, j)) : OfJob(got, j)[k] \in ToSet(got) /\ OfJob(got, j)[k].job = j
                  /\ \A cp \in ToSet(got) : cp.job = j => \E k \in 1..Len(OfJob(got, j)) : OfJob(got, j)[k] = cp
                  /\ \A k, l \in 1..Len(OfJob(got, j)) : k < l => OfJob(got, j)[k].seq =< OfJob(got, j)[l].seq
    <2>1. ASSUME NEW j PROVE JobRows(saved, got, j)
      BY <1>3, <1>4, <1>5, RowsOfJob
    <2>2. \A j : JobRows(saved, got, j)
      BY <2>1
    <2> HIDE DEF got
    <2> QED BY <2>2 DEF JobRows
  <1> HIDE DEF got
  <1>7. ASSUME NEW j
        PROVE  refs(j) \in Seq(1..MaxSaves) /\ ToSet(refs(j)) = RefsOf(ToSet(got), j)
    <2> DEFINE M == OfJob(got, j)
    <2>1. M \in Seq(saved) /\ Len(M) \in Nat /\ \A k \in 1..Len(M) : M[k] \in saved /\ M[k].ref \in 1..MaxSaves
      BY <1>5, <1>6
    <2>2. /\ \A k \in 1..Len(M) : M[k] \in ToSet(got) /\ M[k].job = j
          /\ \A cp \in ToSet(got) : cp.job = j => \E k \in 1..Len(M) : M[k] = cp
      BY <1>6
    <2> HIDE DEF M
    <2> DEFINE r == [i \in 1..Len(M) |-> M[i].ref]
    <2>3. r \in Seq(1..MaxSaves) /\ DOMAIN r = 1..Len(M)
      BY <2>1
    <2>4. ToSet(r) = {M[k].ref : k \in 1..Len(M)}
      BY <2>3 DEF ToSet
    <2>5. ToSet(r) = RefsOf(ToSet(got), j)
      BY <2>2, <2>4 DEF RefsOf
    <2> QED BY <2>3, <2>5 DEF M
  <1> HIDE DEF refs
  <1> DEFINE newLast(j) == LoadedLast(lastCheckpoint[d][j], OfJob(got, j))
  <1>8. ASSUME NEW j \in Jobs
        PROVE  LET old == lastCheckpoint[d][j]
                   new == newLast(j)
                   M == OfJob(got, j)
               IN  /\ old \in saved \cup {NoCheckpoint}
                   /\ M = << >> => new = old
                   /\ \/ new = old /\ (M # << >> => old # NoCheckpoint)
                      \/ \E k \in 1..Len(M) : new = M[k]
                   /\ \A k \in 1..Len(M) : M[k].seq =< new.seq
                   /\ old # NoCheckpoint => old.seq =< new.seq
    <2> DEFINE old == lastCheckpoint[d][j]
               M == OfJob(got, j)
    <2>1. old \in saved \cup {NoCheckpoint}
      BY <1>0 DEF MapsFit, CopiesOfSaved
    <2>2. M \in Seq(saved) /\ \A k, l \in 1..Len(M) : k < l => M[k].seq =< M[l].seq
      BY <1>6
    <2> HIDE DEF old, M
    <2>3. /\ M = << >> => LoadedLast(old, M) = old
          /\ \/ LoadedLast(old, M) = old /\ (M # << >> => old # NoCheckpoint)
             \/ \E k \in 1..Len(M) : LoadedLast(old, M) = M[k]
          /\ \A k \in 1..Len(M) : M[k].seq =< LoadedLast(old, M).seq
          /\ old # NoCheckpoint => old.seq =< LoadedLast(old, M).seq
      BY <1>5, <2>1, <2>2, PointerLoaded
    <2> QED BY <2>1, <2>3 DEF old, M
  <1>9. ASSUME NEW j \in Jobs
        PROVE  /\ newLast(j) \in saved \cup {NoCheckpoint}
               /\ IF \E cp \in storage[d] \cup ToSet(got) : cp.job = j
                  THEN newLast(j) \in storage[d] \cup ToSet(got) /\ newLast(j).job = j
                  ELSE newLast(j) = NoCheckpoint
    <2> DEFINE old == lastCheckpoint[d][j]
               M == OfJob(got, j)
    <2>1. /\ M \in Seq(saved)
          /\ \A k \in 1..Len(M) : M[k] \in ToSet(got) /\ M[k].job = j
          /\ \A cp \in ToSet(got) : cp.job = j => \E k \in 1..Len(M) : M[k] = cp
      BY <1>6
    <2>2. /\ old \in saved \cup {NoCheckpoint}
          /\ IF \E cp \in storage[d] : cp.job = j THEN old \in storage[d] /\ old.job = j ELSE old = NoCheckpoint
      BY <1>0, <1>8 DEF MapsFit
    <2>3. \/ newLast(j) = old /\ (M # << >> => old # NoCheckpoint)
          \/ \E k \in 1..Len(M) : newLast(j) = M[k]
      BY <1>8
    <2>4. M # << >> => 1 \in 1..Len(M)
      BY <2>1
    <2> HIDE DEF newLast, M, old
    <2>5. CASE newLast(j) = old /\ (M # << >> => old # NoCheckpoint)
      <3>1. CASE old # NoCheckpoint
        BY <2>2, <2>5, <3>1
      <3>2. CASE old = NoCheckpoint
        <4>1. M = << >> /\ ~ \E cp \in storage[d] : cp.job = j
          BY <1>0, <1>5, <2>2, <2>5, <3>2 DEF CopiesOfSaved
        <4>2. ~ \E cp \in ToSet(got) : cp.job = j
          BY <2>1, <4>1
        <4> QED BY <2>2, <2>5, <3>2, <4>1, <4>2
      <3> QED BY <3>1, <3>2
    <2>6. CASE \E k \in 1..Len(M) : newLast(j) = M[k]
      BY <1>6, <2>1, <2>6
    <2> QED BY <2>3, <2>5, <2>6
  <1> HIDE DEF newLast
  <1>10. ASSUME NEW e \in Daemons
         PROVE  /\ storage'[e] = IF e = d THEN storage[d] \cup ToSet(got) ELSE storage[e]
                /\ loading'[e] = IF e = d THEN {} ELSE loading[e]
                /\ \A j \in Jobs : byJobID'[e][j] = IF e = d THEN byJobID[d][j] \o refs(j) ELSE byJobID[e][j]
                /\ \A j \in Jobs : lastCheckpoint'[e][j] = IF e = d THEN newLast(j) ELSE lastCheckpoint[e][j]
    BY <1>0, <1>2, <1>3 DEF CheckpointType, newLast
  <1>11. CheckpointType'
    <2>1. storage' \in [Daemons -> SUBSET Checkpoints]
      BY <1>0, <1>3, <1>5, <1>6 DEF CheckpointType
    <2>2. byJobID' \in [Daemons -> [Jobs -> Seq(1..MaxSaves)]]
      <3>1. ASSUME NEW j \in Jobs PROVE byJobID[d][j] \o refs(j) \in Seq(1..MaxSaves)
        BY <1>0, <1>7 DEF CheckpointType
      <3> QED BY <1>0, <1>3, <3>1 DEF CheckpointType
    <2>3. lastCheckpoint' \in [Daemons -> [Jobs -> Checkpoints \cup {NoCheckpoint}]]
      <3>1. \A j \in Jobs : newLast(j) \in Checkpoints \cup {NoCheckpoint}
        BY <1>5, <1>9
      <3>2. lastCheckpoint' = [lastCheckpoint EXCEPT ![d] = [j \in Jobs |-> newLast(j)]]
        BY <1>3 DEF newLast
      <3> QED BY <1>0, <3>1, <3>2 DEF CheckpointType
    <2>4. loading' \in [Daemons -> SUBSET Seq(Checkpoints)]
      BY <1>0, <1>2 DEF CheckpointType
    <2> QED BY <1>0, <1>2, <2>1, <2>2, <2>3, <2>4 DEF CheckpointType
  <1>12. CopiesOfSaved'
    <2>1. ASSUME NEW e \in Daemons
          PROVE  storage'[e] \subseteq saved /\ \A r \in loading'[e] : r \in Seq(saved) /\ InTableOrder(r)
      BY <1>0, <1>6, <1>10 DEF CopiesOfSaved
    <2> QED BY <1>0, <1>2, <2>1, HistoryKept DEF CopiesOfSaved
  <1>13. MapsFit'
    <2> SUFFICES ASSUME NEW e \in Daemons, NEW k \in Jobs
                 PROVE  /\ ToSet(byJobID'[e][k]) = RefsOf(storage'[e], k)
                        /\ IF \E c \in storage'[e] : c.job = k
                           THEN lastCheckpoint'[e][k] \in storage'[e] /\ lastCheckpoint'[e][k].job = k
                           ELSE lastCheckpoint'[e][k] = NoCheckpoint
      BY DEF MapsFit
    <2>1. CASE e # d
      BY <1>0, <1>10, <2>1 DEF MapsFit
    <2>2. CASE e = d
      <3>1. ToSet(byJobID[d][k] \o refs(k)) = ToSet(byJobID[d][k]) \cup ToSet(refs(k))
        BY <1>0, <1>7, ToSetJoins DEF CheckpointType
      <3>2. ToSet(byJobID[d][k]) = RefsOf(storage[d], k)
        BY <1>0 DEF MapsFit
      <3>3. RefsOf(storage[d] \cup ToSet(got), k) = RefsOf(storage[d], k) \cup RefsOf(ToSet(got), k)
        BY DEF RefsOf
      <3>4. /\ storage'[e] = storage[d] \cup ToSet(got) /\ byJobID'[e][k] = byJobID[d][k] \o refs(k)
            /\ lastCheckpoint'[e][k] = newLast(k)
        BY <1>10, <2>2
      <3>5. ToSet(byJobID'[e][k]) = RefsOf(storage'[e], k)
        <4>1. ToSet(refs(k)) = RefsOf(ToSet(got), k)
          BY <1>7
        <4> HIDE DEF refs
        <4> QED BY <3>1, <3>2, <3>3, <3>4, <4>1
      <3>6. IF \E c \in storage'[e] : c.job = k
            THEN lastCheckpoint'[e][k] \in storage'[e] /\ lastCheckpoint'[e][k].job = k
            ELSE lastCheckpoint'[e][k] = NoCheckpoint
        <4> HIDE DEF newLast
        <4> QED BY <1>9, <3>4
      <3> QED BY <3>5, <3>6
    <2> QED BY <2>1, <2>2
  <1>14. LastIsMostRecent'
    <2> SUFFICES ASSUME NEW e \in Daemons, NEW c \in storage'[e], c.job \notin uninformed
                 PROVE  c.ref =< lastCheckpoint'[e][c.job].ref
      BY <1>2 DEF LastIsMostRecent, GetLastCheckpoint
    <2>1. CASE e # d
      <3>1. c \in storage[e] /\ c.job \in Jobs
        BY <1>0, <1>10, <2>1 DEF CheckpointType, Checkpoints
      <3> QED BY <1>0, <1>10, <2>1, <3>1 DEF LastIsMostRecent, GetLastCheckpoint
    <2>2. CASE e = d
      <3> DEFINE j == c.job
                 old == lastCheckpoint[d][j]
                 new == newLast(j)
      <3>1. c \in storage[d] \cup ToSet(got) /\ c \in saved /\ j \in Jobs
        BY <1>0, <1>5, <1>6, <1>10, <2>2 DEF CopiesOfSaved
      <3>2. new \in saved /\ new.job = j
        BY <1>0, <1>6, <1>9, <3>1 DEF CopiesOfSaved
      <3>3. ASSUME NEW b \in saved, b.job = j, b.seq =< new.seq PROVE b.ref =< new.ref
        <4>1. b.ref \in Nat /\ new.ref \in Nat /\ b.seq \in Nat /\ new.seq \in Nat
          BY <1>5, <3>2
        <4>2. ~ (new.ref < b.ref)
          <5>1. new.ref < b.ref => new.seq < b.seq
            BY <1>0, <3>2, <3>3 DEF SequenceOrdersCheckpoints
          <5> HIDE DEF new
          <5> QED BY <3>3, <4>1, <5>1
        <4> HIDE DEF new
        <4> QED BY <4>1, <4>2
      <3>4. CASE c \in storage[d]
        <4>1. old \in storage[d] /\ old.job = j /\ old \in saved /\ old # NoCheckpoint
          BY <1>0, <1>5, <3>1, <3>4 DEF MapsFit, CopiesOfSaved
        <4>2. c.ref =< old.ref
          BY <1>0, <3>4 DEF LastIsMostRecent, GetLastCheckpoint
        <4>3. old.ref =< new.ref
          BY <1>8, <3>1, <3>3, <4>1 DEF newLast
        <4>4. c.ref \in Nat /\ old.ref \in Nat /\ new.ref \in Nat
          BY <1>5, <3>1, <3>2, <4>1
        <4>5. c.ref =< new.ref
          <5> HIDE DEF new, old
          <5> QED BY <4>2, <4>3, <4>4
        <4> QED BY <1>10, <2>2, <3>1, <4>5
      <3>5. CASE c \in ToSet(got)
        <4>1. c.seq =< new.seq
          BY <1>6, <1>8, <3>1, <3>5 DEF newLast
        <4>2. c.ref =< new.ref
          BY <3>1, <3>3, <4>1
        <4> QED BY <1>10, <2>2, <3>1, <4>2
      <3> QED BY <3>1, <3>4, <3>5
    <2> QED BY <2>1, <2>2
  <1> QED BY <1>2, <1>11, <1>12, <1>13, <1>14, HistoryKept DEF CheckpointInv

(* The invariant of the checkpoint manager is inductive. *)
LEMMA CheckpointKept ==
  ASSUME CheckpointInv, [CheckpointNext]_checkpointVars
  PROVE  CheckpointInv'
  <1>1. CASE UNCHANGED checkpointVars
    <2> USE <1>1 DEF checkpointVars
    <2>1. CheckpointType' /\ CopiesOfSaved' /\ MapsFit' /\ LastIsMostRecent'
      BY DEF CheckpointInv, CheckpointType, CopiesOfSaved, MapsFit, LastIsMostRecent, RefsOf, GetLastCheckpoint
    <2> QED BY <2>1, HistoryKept DEF CheckpointInv
  <1>2. CASE CheckpointNext
    <2>1. PICK d \in Daemons :
            \/ \E j \in Jobs, inserted \in BOOLEAN : SaveCheckpoint(d, j, inserted)
            \/ \E j \in Jobs : ClearCheckpoints(d, j)
            \/ QueryTable(d)
            \/ \E read \in 0..MaxSaves : MergeRows(d, read)
            \/ \E rows \in SUBSET storage[d] : SyncToDB(d, rows)
            \/ Restart(d)
      BY <1>2 DEF CheckpointNext
    <2>2. CASE \E j \in Jobs, inserted \in BOOLEAN : SaveCheckpoint(d, j, inserted)
      BY <2>2, SaveKeeps
    <2>3. CASE \E j \in Jobs : ClearCheckpoints(d, j)
      BY <2>3, ClearKeeps
    <2>4. CASE QueryTable(d)
      BY <2>4, QueryKeeps
    <2>5. CASE \E read \in 0..MaxSaves : MergeRows(d, read)
      BY <2>5, MergeKeeps
    <2>6. CASE \E rows \in SUBSET storage[d] : SyncToDB(d, rows)
      BY <2>6, SyncKeeps
    <2>7. CASE Restart(d)
      BY <2>7, DaemonRestartKeeps
    <2> QED BY <2>1, <2>2, <2>3, <2>4, <2>5, <2>6, <2>7
  <1> QED BY <1>1, <1>2

(* The invariant is a good one: the three maps of an instance agree. *)
LEMMA MapsThatFitAgree ==
  ASSUME CheckpointInv
  PROVE  IndexesAgree
  <1>0. CheckpointType /\ CopiesOfSaved /\ MapsFit
    BY DEF CheckpointInv
  <1>1. ASSUME NEW d \in Daemons, NEW j \in Jobs
        PROVE  LET stored == {cp \in storage[d] : cp.job = j}
               IN  /\ ToSet(GetCheckpointsForJob(d, j)) = {cp.ref : cp \in stored}
                   /\ GetCheckpointsForJob(d, j) = byJobID[d][j]
                   /\ IF stored = {} THEN GetLastCheckpoint(d, j) = NoCheckpoint
                                     ELSE GetLastCheckpoint(d, j) \in stored
    <2> DEFINE list == byJobID[d][j]
               held == {cp.ref : cp \in storage[d]}
    <2>1. list \in Seq(1..MaxSaves) /\ ToSet(list) = RefsOf(storage[d], j)
      BY <1>0 DEF CheckpointType, MapsFit
    <2>2. \A i \in 1..Len(list) : list[i] \in held
      <3>1. \A i \in 1..Len(list) : list[i] \in ToSet(list)
        <4>1. DOMAIN list = 1..Len(list)
          BY <2>1
        <4> QED BY <4>1 DEF ToSet
      <3> HIDE DEF list
      <3> QED BY <2>1, <3>1 DEF RefsOf
    <2>3. GetCheckpointsForJob(d, j) = list
      <3>1. GetCheckpointsForJob(d, j) = Filter(list, held)
        BY DEF GetCheckpointsForJob
      <3> HIDE DEF list, held
      <3> QED BY <2>1, <2>2, <3>1, FilterAll
    <2>4. IF \E cp \in storage[d] : cp.job = j
          THEN lastCheckpoint[d][j] \in storage[d] /\ lastCheckpoint[d][j].job = j
          ELSE lastCheckpoint[d][j] = NoCheckpoint
      BY <1>0 DEF MapsFit
    <2> QED BY <2>1, <2>3, <2>4 DEF RefsOf, GetLastCheckpoint
  <1>2. \A a, b \in table \cup UNION {storage[d] : d \in Daemons} : a.ref = b.ref => a = b
    BY <1>0 DEF CopiesOfSaved
  <1> QED BY <1>1, <1>2 DEF IndexesAgree

(* The invariant holds in every reachable state. *)
LEMMA CheckpointHolds == CheckpointSpec => []CheckpointInv
  BY CheckpointStart, CheckpointKept, PTL DEF CheckpointSpec

(* However many instances save, load, sync, clear and restart over a table that *)
(* may lose any insert and any row: the list, the storage and the pointer of    *)
(* each job agree in every instance, and a ref names one checkpoint everywhere. *)
THEOREM MapsAlwaysAgree == CheckpointSpec => []IndexesAgree
  BY CheckpointHolds, MapsThatFitAgree, PTL

(* A job whose every save was made by an instance that listed its checkpoints is *)
(* resumed from the newest one an instance holds, and its numbers order them.    *)
THEOREM NewestIsResumed == CheckpointSpec => []ResumesFromNewest
  <1>1. CheckpointInv => ResumesFromNewest
    BY DEF CheckpointInv, ResumesFromNewest
  <1> QED BY <1>1, CheckpointHolds, PTL

-----------------------------------------------------------------------------
(* The parts together *)

(* A step of the backend is one of a part, and none of the others.             *)
LEMMA PartsStep ==
  [BackendNext]_backendVars =>
      /\ [CheckpointNext]_checkpointVars /\ [SplitterNext]_splitterVars
      /\ [SandboxNext]_sandboxVars /\ [NodeApiNext]_nodeApiVars
BY DEF BackendNext, backendVars

(* The parts of the backend share no state (Manager, Splitter, the driver of   *)
(* the sandbox, the handlers of nodes): what the whole does is, in each part,  *)
(* what that part does alone, so its invariants hold of the whole.             *)
THEOREM PartsRunAlone ==
  BackendSpec => /\ CheckpointSpec /\ SplitterSpec /\ SandboxSpec /\ NodeApiSpec
                 /\ [](IndexesAgree /\ ResumesFromNewest /\ SplitIsPartition /\ RunawayHasCause /\ RowsAreBacked)
  <1>1. BackendInit => CheckpointInit /\ SplitterInit /\ SandboxInit /\ NodeApiInit
    BY DEF BackendInit
  <1>2. BackendSpec => CheckpointSpec /\ SplitterSpec /\ SandboxSpec /\ NodeApiSpec
    BY <1>1, PartsStep, PTL DEF BackendSpec, CheckpointSpec, SplitterSpec, SandboxSpec, NodeApiSpec
  <1> QED
    BY <1>2, SplitCovers, DriverKeepsTrack, RowsBacked, MapsAlwaysAgree, NewestIsResumed, PTL

=============================================================================
