--------------------------- MODULE ContractsProofs ---------------------------
(***************************************************************************)
(* Proofs about the contracts that call no other and that none calls, for  *)
(* any nodes, callers and jobs, any amounts and waits, and any history:    *)
(* ReputationLedger keeps scores in range and clocks in order, and a decay *)
(* moves a score towards zero and never across it; NodeRegistry accounts   *)
(* for its ether and lists its nodes once; SLAContract keeps its types,    *)
(* its verdicts are final, and its views of a deadline agree.              *)
(***************************************************************************)
EXTENDS DataLemmas, MCContracts

-----------------------------------------------------------------------------
(* ReputationLedger *)

IInv == TypeOK /\ ScoreInRange /\ ClocksOrdered

(* r lies between the score s and zero. *)
TowardsZero(s, r) ==
    /\ r \in Int
    /\ s >= 0 => 0 <= r /\ r <= s
    /\ s <= 0 => s <= r /\ r <= 0

(* Scaling by a factor between 0 and 1, in units of 1/10000, moves an integer *)
(* towards zero and not across it (the division of applyDecay).               *)
LEMMA ScaledTowardsZero ==
    ASSUME NEW s \in Int, NEW f \in Nat, f <= 10000
    PROVE  TowardsZero(s, Scaled(s, f))
<1>1. ASSUME NEW a \in Nat, NEW p \in Nat, p <= a * 10000
      PROVE  p \div 10000 \in Nat /\ p \div 10000 <= a
  BY <1>1
<1>2. ASSUME NEW a \in Nat
      PROVE  a * f \in Nat /\ a * f <= a * 10000
  BY <1>2
<1>3. CASE s >= 0
  <2>1. s * f \in Nat /\ s * f <= s * 10000
    BY <1>3, <1>2
  <2>2. (s * f) \div 10000 \in Nat /\ (s * f) \div 10000 <= s
    <3>1. s \in Nat
      BY <1>3
    <3> DEFINE p == s * f
               a == s
    <3>2. p \in Nat /\ a \in Nat /\ p <= a * 10000
      BY <3>1, <2>1
    <3> HIDE DEF p, a
    <3>3. p \div 10000 \in Nat /\ p \div 10000 <= a
      BY <3>2, <1>1
    <3> QED BY <3>3 DEF p, a
  <2>3. Scaled(s, f) = (s * f) \div 10000
    BY <2>1 DEF Scaled, TruncDiv
  <2>4. s = 0 => Scaled(s, f) = 0
    BY <2>2, <2>3
  <2> QED BY <1>3, <2>2, <2>3, <2>4 DEF TowardsZero
<1>4. CASE s < 0
  <2>1. (-s) * f \in Nat /\ (-s) * f <= (-s) * 10000
    BY <1>4, <1>2
  <2>2. ((-s) * f) \div 10000 \in Nat /\ ((-s) * f) \div 10000 <= -s
    <3>1. -s \in Nat
      BY <1>4
    <3> DEFINE p == (-s) * f
               a == -s
    <3>2. p \in Nat /\ a \in Nat /\ p <= a * 10000
      BY <3>1, <2>1
    <3> HIDE DEF p, a
    <3>3. p \div 10000 \in Nat /\ p \div 10000 <= a
      BY <3>2, <1>1
    <3> QED BY <3>3 DEF p, a
  <2>3. s * f = -((-s) * f)
    OBVIOUS
  <2>4. Scaled(s, f) = -(((-s) * f) \div 10000)
    <3>1. CASE (-s) * f = 0
      BY <3>1, <2>3 DEF Scaled, TruncDiv
    <3>2. CASE (-s) * f # 0
      BY <3>2, <2>1, <2>3 DEF Scaled, TruncDiv
    <3> QED BY <3>1, <3>2
  <2> QED BY <1>4, <2>2, <2>4 DEF TowardsZero
<1> QED BY <1>3, <1>4

(* What applyDecay computes when it does not revert lies between the score and zero. *)
LEMMA DecayBetween ==
    ASSUME NEW s \in Int, -1000 <= s, s <= 10000, NEW periods \in Nat, DECAY_RATE * periods <= 10000
    PROVE  TowardsZero(s, DecayedScore(s, periods))
<1> DEFINE f == 10000 - DECAY_RATE * periods
<1>1. f \in Nat /\ f <= 10000
  BY DEF DECAY_RATE
<1>2. DecayedScore(s, periods) = IF Scaled(s, f) < -1000 THEN -1000 ELSE Scaled(s, f)
  BY DEF DecayedScore, MIN_REPUTATION
<1> HIDE DEF f
<1>3. TowardsZero(s, Scaled(s, f))
  BY <1>1, ScaledTowardsZero
<1> QED BY <1>2, <1>3 DEF TowardsZero

(* The periods charged to a node that is due and does not revert are those of the lemma. *)
LEMMA DecayPrecondition ==
    ASSUME IInv, NEW n \in Nodes, ~DecayReverts(n)
    PROVE  Periods(n) \in Nat /\ DECAY_RATE * Periods(n) <= 10000
<1>1. now \in Nat /\ lastUpdate[n] \in Nat /\ lastUpdate[n] <= now
  BY DEF IInv, TypeOK, ClocksOrdered
<1>2. now - lastUpdate[n] \in Nat
  BY <1>1
<1>3. \A a \in Nat, b \in Nat \ {0} : a \div b \in Nat
  OBVIOUS
<1>4. Periods(n) \in Nat
  BY <1>2, <1>3, ReputationConstants DEF Periods
<1> QED BY <1>4 DEF DecayReverts, DECAY_RATE

(* One transaction or the passing of time keeps scores in range and clocks in order. *)
LEMMA StepKeepsIInv == IInv /\ [Next]_ledgerVars => IInv'
<1> SUFFICES ASSUME IInv, [Next]_ledgerVars PROVE IInv'
  OBVIOUS
<1> USE ReputationConstants
<1>t. /\ reputationScore \in [Nodes -> Int] /\ lastUpdate \in [Nodes -> Nat]
      /\ registeredAt \in [Nodes -> Nat] /\ now \in Nat /\ now > 0 /\ ticks \in Nat
  BY DEF IInv, TypeOK
<1>n. \A m \in Nodes : /\ reputationScore[m] \in Int /\ lastUpdate[m] \in Nat /\ registeredAt[m] \in Nat
                       /\ -1000 <= reputationScore[m] /\ reputationScore[m] <= 10000
                       /\ lastUpdate[m] = 0 => reputationScore[m] = 0
                       /\ registeredAt[m] <= lastUpdate[m] /\ lastUpdate[m] <= now
  BY <1>t DEF IInv, ScoreInRange, ClocksOrdered, HasReputation, MIN_REPUTATION, MAX_REPUTATION
<1>1. ASSUME NEW n \in Nodes, InitializeNode(n) PROVE IInv'
  <2>1. BaseScore(n) \in Int /\ -1000 <= BaseScore(n) /\ BaseScore(n) <= 10000
    BY <1>n DEF BaseScore, INITIAL_REPUTATION
  <2>2. TypeOK'
    BY <1>1, <1>t, <2>1 DEF InitializeNode, TypeOK
  <2>3. \A m \in Nodes : /\ reputationScore'[m] = IF m = n THEN BaseScore(n) ELSE reputationScore[m]
                         /\ lastUpdate'[m] = IF m = n THEN now ELSE lastUpdate[m]
                         /\ registeredAt'[m] = IF m = n THEN now ELSE registeredAt[m]
                         /\ now' = now
    BY <1>1, <1>t DEF InitializeNode
  <2>4. ScoreInRange'
    BY <2>1, <2>3, <1>n, <1>t DEF ScoreInRange, HasReputation, MIN_REPUTATION, MAX_REPUTATION
  <2>5. ClocksOrdered'
    BY <2>3, <1>n, <1>t DEF ClocksOrdered
  <2> QED BY <2>2, <2>4, <2>5 DEF IInv
<1>2. ASSUME NEW n \in Nodes, NEW d \in Int, UpdateReputation(n, d) PROVE IInv'
  <2> DEFINE v == Clamp(BaseScore(n) + d)
  <2>0. BaseScore(n) \in Int
    BY <1>n DEF BaseScore, INITIAL_REPUTATION
  <2>1. v \in Int /\ -1000 <= v /\ v <= 10000
    BY <2>0 DEF Clamp, MIN_REPUTATION, MAX_REPUTATION
  <2>2. reputationScore' = [reputationScore EXCEPT ![n] = v]
    BY <1>2 DEF UpdateReputation
  <2> HIDE DEF v
  <2>3. TypeOK'
    BY <1>2, <1>t, <2>1, <2>2 DEF UpdateReputation, TypeOK
  <2>4. \A m \in Nodes : /\ reputationScore'[m] = IF m = n THEN v ELSE reputationScore[m]
                         /\ lastUpdate'[m] = IF m = n THEN now ELSE lastUpdate[m]
                         /\ registeredAt'[m] = registeredAt[m]
                         /\ now' = now
    BY <1>2, <1>t, <2>2 DEF UpdateReputation
  <2>5. ScoreInRange'
    BY <2>1, <2>4, <1>n, <1>t DEF ScoreInRange, HasReputation, MIN_REPUTATION, MAX_REPUTATION
  <2>6. ClocksOrdered'
    BY <2>4, <1>n, <1>t DEF ClocksOrdered
  <2> QED BY <2>3, <2>5, <2>6 DEF IInv
<1>3. ASSUME NEW S \in SUBSET Nodes, BatchApplyDecay(S) PROVE IInv'
  <2> DEFINE v(m) == DecayedScore(reputationScore[m], Periods(m))
  <2>1. ASSUME NEW m \in Nodes, m \in S, DecayDue(m)
        PROVE  v(m) \in Int /\ -1000 <= v(m) /\ v(m) <= 10000
    <3>1. ~DecayReverts(m)
      BY <1>3, <2>1 DEF BatchApplyDecay
    <3>2. v(m) \in Int /\ -1000 <= v(m) /\ v(m) <= 10000
      <4>1. Periods(m) \in Nat /\ DECAY_RATE * Periods(m) <= 10000
        BY <3>1, DecayPrecondition
      <4>2. reputationScore[m] \in Int /\ -1000 <= reputationScore[m] /\ reputationScore[m] <= 10000
        BY <1>n
      <4> HIDE DEF v
      <4>3. TowardsZero(reputationScore[m], v(m))
        BY <4>1, <4>2, DecayBetween DEF v
      <4> QED BY <4>2, <4>3 DEF TowardsZero
    <3> QED BY <3>2
  <2>2. \A m \in Nodes : /\ reputationScore'[m] = IF m \in S /\ DecayDue(m) THEN v(m) ELSE reputationScore[m]
                         /\ lastUpdate'[m] = IF m \in S /\ DecayDue(m) THEN now ELSE lastUpdate[m]
                         /\ registeredAt'[m] = registeredAt[m]
                         /\ now' = now
    BY <1>3, <1>t DEF BatchApplyDecay, DecayStamp
  <2> HIDE DEF v
  <2>3. \A m \in Nodes : reputationScore'[m] \in Int /\ lastUpdate'[m] \in Nat
    BY <2>1, <2>2, <1>n, <1>t
  <2>4. TypeOK'
    <3>1. reputationScore' \in [Nodes -> Int] /\ lastUpdate' \in [Nodes -> Nat]
      BY <1>3, <2>3 DEF BatchApplyDecay
    <3> QED BY <3>1, <1>3, <1>t DEF BatchApplyDecay, TypeOK
  <2>5. ScoreInRange'
    BY <2>1, <2>2, <1>n, <1>t DEF ScoreInRange, HasReputation, MIN_REPUTATION, MAX_REPUTATION
  <2>6. ClocksOrdered'
    BY <2>2, <1>n, <1>t DEF ClocksOrdered
  <2> QED BY <2>4, <2>5, <2>6 DEF IInv
<1>4. ASSUME NEW w \in Waits, Tick(w) PROVE IInv'
  <2>1. w \in Nat /\ now' = now + w /\ ticks' = ticks + 1
        /\ UNCHANGED <<reputationScore, lastUpdate, registeredAt>>
    BY <1>4 DEF Tick
  <2>2. now' \in Nat /\ now' > 0 /\ now <= now'
    BY <2>1, <1>t
  <2>3. TypeOK'
    BY <2>1, <2>2, <1>t DEF TypeOK
  <2>4. ScoreInRange'
    BY <2>1 DEF IInv, ScoreInRange, HasReputation
  <2>5. ClocksOrdered'
    BY <2>1, <2>2, <1>n, <1>t DEF ClocksOrdered
  <2> QED BY <2>3, <2>4, <2>5 DEF IInv
<1>5. CASE UNCHANGED ledgerVars
  BY <1>5 DEF IInv, TypeOK, ScoreInRange, ClocksOrdered, HasReputation, ledgerVars
<1>6. ASSUME NEW n \in Nodes, NEW d \in Deltas, IncrementReputation(n, d) \/ DecrementReputation(n, d)
      PROVE  IInv'
  <2>1. d \in Int /\ -d \in Int
    OBVIOUS
  <2> QED BY <2>1, <1>6, <1>2 DEF IncrementReputation, DecrementReputation
<1>7. ASSUME NEW n \in Nodes, ApplyDecay(n) PROVE IInv'
  BY <1>7, <1>3 DEF ApplyDecay
<1> QED BY <1>1, <1>3, <1>4, <1>5, <1>6, <1>7 DEF Next

(* The inductive invariant holds in every reachable state. *)
LEMMA IInvHolds == Spec => []IInv
<1>1. Init => IInv
  BY ReputationConstants
  DEF Init, IInv, TypeOK, ScoreInRange, ClocksOrdered, HasReputation, MIN_REPUTATION, MAX_REPUTATION
<1> QED BY <1>1, StepKeepsIInv, PTL DEF Spec

(* Every reachable state of the ledger is typed, its scores are in range and its *)
(* clocks in order: no sequence of calls makes the elapsed time underflow.       *)
THEOREM LedgerInRange == Spec => [](TypeOK /\ LedgerConsistent)
<1>1. IInv => TypeOK /\ LedgerConsistent
  BY DEF IInv, LedgerConsistent
<1> QED BY <1>1, IInvHolds, PTL

(* A decay moves a score towards zero and never across it, however late it comes. *)
THEOREM DecayNeverOvershoots == Spec => DecayTowardsZero
<1>1. IInv /\ [Next]_ledgerVars =>
        [\A n \in Nodes : lastUpdate'[n] # lastUpdate[n] /\ ApplyDecay(n) =>
            \/ 0 <= reputationScore'[n] /\ reputationScore'[n] <= reputationScore[n]
            \/ reputationScore[n] <= reputationScore'[n] /\ reputationScore'[n] <= 0]_ledgerVars
  <2> SUFFICES ASSUME IInv, NEW n \in Nodes, lastUpdate'[n] # lastUpdate[n], ApplyDecay(n)
               PROVE  \/ 0 <= reputationScore'[n] /\ reputationScore'[n] <= reputationScore[n]
                      \/ reputationScore[n] <= reputationScore'[n] /\ reputationScore'[n] <= 0
    OBVIOUS
  <2>1. DecayDue(n) /\ ~DecayReverts(n)
    BY DEF ApplyDecay, BatchApplyDecay, IInv, TypeOK
  <2>2. reputationScore'[n] = DecayedScore(reputationScore[n], Periods(n))
    BY <2>1 DEF ApplyDecay, BatchApplyDecay
  <2>3. Periods(n) \in Nat /\ DECAY_RATE * Periods(n) <= 10000
    BY <2>1, DecayPrecondition
  <2>4. reputationScore[n] \in Int /\ -1000 <= reputationScore[n] /\ reputationScore[n] <= 10000
    BY DEF IInv, TypeOK, ScoreInRange, MIN_REPUTATION, MAX_REPUTATION
  <2>5. TowardsZero(reputationScore[n], reputationScore'[n])
    BY <2>2, <2>3, <2>4, DecayBetween
  <2> QED BY <2>4, <2>5 DEF TowardsZero
<1> QED BY <1>1, IInvHolds, PTL DEF Spec, DecayTowardsZero

-----------------------------------------------------------------------------
(* NodeRegistry: its ether and its list of nodes. *)

NodeType == [stakeAmount : Nat, status : Statuses, registeredAt : Nat, lastHeartbeat : Nat,
             reputationScore : Int]

RegistryType ==
    /\ _nodes \in [Registrants -> NodeType]
    /\ _registered \subseteq Registrants
    /\ _nodeList \in Seq(Registrants)
    /\ _minStake \in Nat
    /\ registryBalance \in Nat /\ timestamp \in Nat /\ slashedAway \in Nat

RegistryInv == RegistryType /\ RegistryBalances

LEMMA StakesHeldInt ==
    ASSUME RegistryType
    PROVE  stakesHeld \in [Registrants -> Int] /\ \A n \in Registrants : stakesHeld[n] = _nodes[n].stakeAmount
BY DEF RegistryType, NodeType, stakesHeld

(* A call that rewrites the record of one registered node, and with it the ether. *)
LEMMA OneRecord ==
    ASSUME RegistryInv, NEW n \in _registered, NEW r \in NodeType,
           _nodes' = [_nodes EXCEPT ![n] = r],
           registryBalance' \in Nat, slashedAway' \in Nat,
           r.stakeAmount + slashedAway' + registryBalance
              = _nodes[n].stakeAmount + slashedAway + registryBalance',
           UNCHANGED <<_registered, _nodeList, _minStake, timestamp>>
    PROVE  RegistryInv'
<1>1. /\ n \in Registrants /\ _nodes \in [Registrants -> NodeType]
      /\ registryBalance \in Int /\ slashedAway \in Int /\ registryBalance' \in Int /\ slashedAway' \in Int
  BY DEF RegistryInv, RegistryType
<1>2. /\ _nodes' \in [Registrants -> NodeType]
      /\ _nodes'[n] = r /\ \A m \in Registrants \ {n} : _nodes'[m] = _nodes[m]
  BY <1>1
<1>3. RegistryType'
  BY <1>2 DEF RegistryInv, RegistryType
<1>4. /\ stakesHeld \in [Registrants -> Int] /\ stakesHeld' \in [Registrants -> Int]
      /\ stakesHeld[n] = _nodes[n].stakeAmount /\ stakesHeld'[n] = r.stakeAmount
      /\ \A m \in Registrants \ {n} : stakesHeld'[m] = stakesHeld[m]
  <2>1. stakesHeld \in [Registrants -> Int] /\ \A m \in Registrants : stakesHeld[m] = _nodes[m].stakeAmount
    BY StakesHeldInt DEF RegistryInv
  <2>2. \A m \in Registrants : stakesHeld'[m] = _nodes'[m].stakeAmount
    BY DEF stakesHeld
  <2>3. stakesHeld' \in [Registrants -> Int]
    BY <1>2 DEF stakesHeld, NodeType
  <2> QED BY <1>1, <1>2, <2>1, <2>2, <2>3
<1> DEFINE s == SumFunction(stakesHeld)
<1>5. s \in Int /\ SumFunction(stakesHeld') = s + stakesHeld'[n] - stakesHeld[n]
  BY <1>1, <1>4, RegistryConstants, SumUpdates
<1>6. registryBalance = s + slashedAway
  BY DEF RegistryInv, RegistryBalances
<1>7. stakesHeld[n] \in Int /\ stakesHeld'[n] \in Int
  BY <1>1, <1>4
<1> DEFINE a == r.stakeAmount
           o == _nodes[n].stakeAmount
           b == registryBalance'
           k == slashedAway'
<1>8. registryBalance' = SumFunction(stakesHeld') + slashedAway'
  <2>1. a \in Int /\ o \in Int /\ b \in Int /\ k \in Int /\ SumFunction(stakesHeld') = s + a - o
    BY <1>1, <1>4, <1>5, <1>7
  <2>2. a + k + registryBalance = o + slashedAway + b
    OBVIOUS
  <2> HIDE DEF s, a, o, b, k
  <2>3. b = (s + a - o) + k
    BY <1>1, <1>5, <1>6, <2>1, <2>2
  <2> QED BY <2>1, <2>3 DEF b, k
<1>9. \A m \in Registrants \ _registered : _nodes'[m] = NoNode
  BY <1>2 DEF RegistryInv, RegistryBalances
<1> QED
  BY <1>3, <1>8, <1>9 DEF RegistryInv, RegistryBalances

(* A node that registers is appended to the list, once. *)
LEMMA RegisterBalances ==
    ASSUME RegistryInv, NEW n \in Registrants, NEW v \in Payments, NEW w \in Payments, registerNode(n, v, w)
    PROVE  RegistryInv'
<1> DEFINE r == [stakeAmount |-> w, status |-> "Online", registeredAt |-> timestamp,
                 lastHeartbeat |-> timestamp, reputationScore |-> 0]
<1>1. /\ w \in Nat /\ n \notin _registered /\ _nodes' = [_nodes EXCEPT ![n] = r]
      /\ _registered' = _registered \union {n} /\ _nodeList' = Append(_nodeList, n)
      /\ registryBalance' = registryBalance + w
      /\ UNCHANGED <<_minStake, timestamp, slashedAway>>
  BY RegistryConstants DEF registerNode
<1>2. /\ _nodes \in [Registrants -> NodeType] /\ _registered \subseteq Registrants /\ _nodeList \in Seq(Registrants)
      /\ registryBalance \in Nat /\ slashedAway \in Nat /\ timestamp \in Nat
  BY DEF RegistryInv, RegistryType
<1>3. r \in NodeType /\ r.stakeAmount = w
  BY <1>1, <1>2 DEF NodeType, Statuses
<1> HIDE DEF r
<1>4. /\ _nodes' \in [Registrants -> NodeType]
      /\ _nodes'[n] = r /\ \A m \in Registrants \ {n} : _nodes'[m] = _nodes[m]
  BY <1>1, <1>2, <1>3
<1>5. RegistryType'
  BY <1>1, <1>2, <1>4 DEF RegistryInv, RegistryType
<1>6. _nodes[n].stakeAmount = 0
  BY <1>1 DEF RegistryInv, RegistryBalances, NoNode
<1>7. /\ stakesHeld \in [Registrants -> Int] /\ stakesHeld' \in [Registrants -> Int]
      /\ stakesHeld[n] = 0 /\ stakesHeld'[n] = w
      /\ \A m \in Registrants \ {n} : stakesHeld'[m] = stakesHeld[m]
  <2>1. stakesHeld \in [Registrants -> Int] /\ \A m \in Registrants : stakesHeld[m] = _nodes[m].stakeAmount
    BY StakesHeldInt DEF RegistryInv
  <2>2. \A m \in Registrants : stakesHeld'[m] = _nodes'[m].stakeAmount
    BY DEF stakesHeld
  <2>3. stakesHeld' \in [Registrants -> Int]
    BY <1>4 DEF stakesHeld, NodeType
  <2> QED BY <1>3, <1>4, <1>6, <2>1, <2>2, <2>3
<1> DEFINE s == SumFunction(stakesHeld)
<1>8. s \in Int /\ SumFunction(stakesHeld') = s + stakesHeld'[n] - stakesHeld[n]
  BY <1>7, RegistryConstants, SumUpdates
<1>9. registryBalance = s + slashedAway
  BY DEF RegistryInv, RegistryBalances
<1>10. registryBalance' = SumFunction(stakesHeld') + slashedAway'
  <2> HIDE DEF s
  <2> QED BY <1>1, <1>2, <1>7, <1>8, <1>9
<1>11. /\ Len(_nodeList) = Cardinality(_registered)
       /\ {_nodeList[i] : i \in 1..Len(_nodeList)} = _registered
  BY DEF RegistryInv, RegistryBalances
<1>12. Len(_nodeList') = Cardinality(_registered')
  <2>1. IsFiniteSet(_registered)
    BY <1>2, RegistryConstants, FS_Subset
  <2>2. Cardinality(_registered') = Cardinality(_registered) + 1
    BY <1>1, <2>1, FS_AddElement
  <2>3. Len(_nodeList') = Len(_nodeList) + 1
    BY <1>1, <1>2
  <2> QED BY <1>11, <2>2, <2>3
<1>13. {_nodeList'[i] : i \in 1..Len(_nodeList')} = _registered'
  <2> DEFINE k == Len(_nodeList)
  <2>1. /\ k \in Nat /\ Len(_nodeList') = k + 1 /\ _nodeList'[k + 1] = n
        /\ \A i \in 1..k : _nodeList'[i] = _nodeList[i]
    BY <1>1, <1>2
  <2>2. {_nodeList[i] : i \in 1..k} = _registered
    BY <1>11
  <2> HIDE DEF k
  <2>3. 1..(k + 1) = (1..k) \union {k + 1}
    BY <2>1
  <2>4. {_nodeList'[i] : i \in 1..(k + 1)} = {_nodeList'[i] : i \in 1..k} \union {_nodeList'[k + 1]}
    BY <2>3
  <2>5. {_nodeList'[i] : i \in 1..k} = {_nodeList[i] : i \in 1..k}
    BY <2>1
  <2> QED BY <1>1, <2>1, <2>2, <2>4, <2>5
<1>14. \A m \in Registrants \ _registered' : _nodes'[m] = NoNode
  BY <1>1, <1>4 DEF RegistryInv, RegistryBalances
<1> QED
  BY <1>5, <1>10, <1>12, <1>13, <1>14 DEF RegistryInv, RegistryBalances

(* The other calls of the registry, each for one registered node or for none. *)
LEMMA RegistryCall ==
    ASSUME RegistryInv, [RegistryNext]_registryVars
    PROVE  RegistryInv'
<1> USE RegistryConstants
<1>t. /\ \A n \in _registered : n \in Registrants /\ _nodes[n] \in NodeType
      /\ registryBalance \in Nat /\ slashedAway \in Nat /\ timestamp \in Nat
  BY DEF RegistryInv, RegistryType
<1>1. ASSUME NEW n \in Registrants, NEW v \in Payments, NEW w \in Payments, updateStake(n, v, w)
      PROVE  RegistryInv'
  <2> DEFINE r == [_nodes[n] EXCEPT !.stakeAmount = @ + w]
  <2>1. /\ n \in _registered /\ w \in Nat /\ _nodes' = [_nodes EXCEPT ![n] = r]
        /\ registryBalance' = registryBalance + w
        /\ UNCHANGED <<_registered, _nodeList, _minStake, timestamp, slashedAway>>
    BY <1>1 DEF updateStake
  <2>2. r \in NodeType /\ r.stakeAmount = _nodes[n].stakeAmount + w /\ _nodes[n].stakeAmount \in Nat
    BY <1>t, <2>1 DEF NodeType
  <2> HIDE DEF r
  <2>3. /\ registryBalance' \in Nat /\ slashedAway' \in Nat
        /\ r.stakeAmount + slashedAway' + registryBalance = _nodes[n].stakeAmount + slashedAway + registryBalance'
    BY <1>t, <2>1, <2>2
  <2> QED BY <2>1, <2>2, <2>3, OneRecord
<1>2. ASSUME NEW n \in Registrants, NEW v \in Payments, withdrawStake(n, v)
      PROVE  RegistryInv'
  <2> DEFINE r == [_nodes[n] EXCEPT !.stakeAmount = @ - v]
  <2>1. /\ n \in _registered /\ v \in Nat /\ _nodes' = [_nodes EXCEPT ![n] = r]
        /\ _nodes[n].stakeAmount >= v /\ v <= registryBalance
        /\ registryBalance' = registryBalance - v
        /\ UNCHANGED <<_registered, _nodeList, _minStake, timestamp, slashedAway>>
    BY <1>2 DEF withdrawStake
  <2>2. r \in NodeType /\ r.stakeAmount = _nodes[n].stakeAmount - v /\ _nodes[n].stakeAmount \in Nat
    BY <1>t, <2>1 DEF NodeType
  <2> HIDE DEF r
  <2>3. /\ registryBalance' \in Nat /\ slashedAway' \in Nat
        /\ r.stakeAmount + slashedAway' + registryBalance = _nodes[n].stakeAmount + slashedAway + registryBalance'
    BY <1>t, <2>1, <2>2
  <2> QED BY <2>1, <2>2, <2>3, OneRecord
<1>3. ASSUME NEW c \in Callers, NEW n \in Registrants, NEW v \in Payments, slashStake(c, n, v)
      PROVE  RegistryInv'
  <2> DEFINE d == Deducted(n, v)
             r == [_nodes[n] EXCEPT !.stakeAmount = @ - d, !.status = "Slashed"]
  <2>1. /\ n \in _registered /\ v \in Nat /\ _nodes[n].stakeAmount \in Nat
    BY <1>3, <1>t DEF slashStake, NodeType
  <2>2. d \in Nat /\ d <= _nodes[n].stakeAmount
    BY <2>1 DEF Deducted
  <2> HIDE DEF d
  <2>3. /\ _nodes' = [_nodes EXCEPT ![n] = r] /\ slashedAway' = slashedAway + d
        /\ UNCHANGED <<_registered, _nodeList, _minStake, registryBalance, timestamp>>
    BY <1>3 DEF slashStake, d
  <2>4. r \in NodeType /\ r.stakeAmount = _nodes[n].stakeAmount - d
    <3>1. _nodes[n] \in NodeType /\ _nodes[n].stakeAmount - d \in Nat
      BY <1>t, <2>1, <2>2
    <3> DEFINE x == _nodes[n].stakeAmount - d
    <3>2. r = [_nodes[n] EXCEPT !.stakeAmount = x, !.status = "Slashed"]
      BY <3>1 DEF NodeType
    <3>3. x \in Nat
      BY <3>1
    <3> HIDE DEF x, r
    <3>4. r \in NodeType /\ r.stakeAmount = x
      BY <3>1, <3>2, <3>3 DEF NodeType, Statuses
    <3> QED BY <3>4 DEF x
  <2> HIDE DEF r
  <2>5. /\ registryBalance' \in Nat /\ slashedAway' \in Nat
        /\ r.stakeAmount + slashedAway' + registryBalance = _nodes[n].stakeAmount + slashedAway + registryBalance'
    BY <1>t, <2>1, <2>2, <2>3, <2>4
  <2> QED BY <2>1, <2>3, <2>4, <2>5, OneRecord
<1>4. ASSUME NEW n \in Registrants, NEW r, n \in _registered, r \in NodeType,
             r.stakeAmount = _nodes[n].stakeAmount, _nodes' = [_nodes EXCEPT ![n] = r],
             UNCHANGED <<_registered, _nodeList, _minStake, registryBalance, timestamp, slashedAway>>
      PROVE  RegistryInv'
  <2>1. /\ registryBalance' \in Nat /\ slashedAway' \in Nat
        /\ r.stakeAmount + slashedAway' + registryBalance = _nodes[n].stakeAmount + slashedAway + registryBalance'
    BY <1>4, <1>t
  <2> QED BY <1>4, <2>1, OneRecord
<1>5. ASSUME NEW c \in Callers, NEW n \in Registrants, NEW s \in Statuses, updateNodeStatus(c, n, s)
      PROVE  RegistryInv'
  <2> DEFINE r == [_nodes[n] EXCEPT !.status = s]
  <2>1. /\ n \in _registered /\ _nodes' = [_nodes EXCEPT ![n] = r]
        /\ UNCHANGED <<_registered, _nodeList, _minStake, registryBalance, timestamp, slashedAway>>
    BY <1>5 DEF updateNodeStatus
  <2>2. r \in NodeType /\ r.stakeAmount = _nodes[n].stakeAmount
    BY <1>t, <2>1 DEF NodeType
  <2> HIDE DEF r
  <2> QED BY <1>4, <2>1, <2>2
<1>6. ASSUME NEW n \in Registrants, updateHeartbeat(n)
      PROVE  RegistryInv'
  <2> DEFINE r == [_nodes[n] EXCEPT !.lastHeartbeat = timestamp, !.status = Revived(@)]
  <2>1. /\ n \in _registered /\ _nodes' = [_nodes EXCEPT ![n] = r]
        /\ UNCHANGED <<_registered, _nodeList, _minStake, registryBalance, timestamp, slashedAway>>
    BY <1>6 DEF updateHeartbeat
  <2>2. r \in NodeType /\ r.stakeAmount = _nodes[n].stakeAmount
    BY <1>t, <2>1 DEF NodeType, Statuses, Revived
  <2> HIDE DEF r
  <2> QED BY <1>4, <2>1, <2>2
<1>7. ASSUME NEW c \in Callers, NEW n \in Registrants, NEW d \in Scores, updateReputation(c, n, d)
      PROVE  RegistryInv'
  <2> DEFINE r == [_nodes[n] EXCEPT !.reputationScore = @ + d]
  <2>1. /\ n \in _registered /\ d \in Int /\ _nodes' = [_nodes EXCEPT ![n] = r]
        /\ UNCHANGED <<_registered, _nodeList, _minStake, registryBalance, timestamp, slashedAway>>
    BY <1>7 DEF updateReputation
  <2>2. r \in NodeType /\ r.stakeAmount = _nodes[n].stakeAmount
    BY <1>t, <2>1 DEF NodeType
  <2> HIDE DEF r
  <2> QED BY <1>4, <2>1, <2>2
<1>8. ASSUME UNCHANGED <<_nodes, _registered, _nodeList, registryBalance, slashedAway>>,
             _minStake' \in Nat, timestamp' \in Nat
      PROVE  RegistryInv'
  <2>1. stakesHeld' = stakesHeld
    BY <1>8 DEF stakesHeld
  <2> QED BY <1>8, <2>1 DEF RegistryInv, RegistryType, RegistryBalances
<1>9. ASSUME \/ \E c \in Callers, b \in BOOLEAN : setAuthorization(c, b)
             \/ \E m \in MinStakes : updateMinStake(m)
             \/ NextBlock
             \/ UNCHANGED registryVars
      PROVE  RegistryInv'
  <2>1. /\ UNCHANGED <<_nodes, _registered, _nodeList, registryBalance, slashedAway>>
        /\ _minStake' \in Nat /\ timestamp' \in Nat
    BY <1>9 DEF setAuthorization, updateMinStake, NextBlock, registryVars, RegistryInv, RegistryType
  <2> QED BY <1>8, <2>1
<1> QED
  BY <1>1, <1>2, <1>3, <1>5, <1>6, <1>7, <1>9, RegisterBalances DEF RegistryNext

(* registerNode, updateStake, withdrawStake and slashStake: every wei of the contract  *)
(* is some node's stake or was slashed, and the list holds each registered node once,  *)
(* for any set of nodes, payments and callers.                                         *)
THEOREM RegistryAlwaysBalances == RegistrySpec => []RegistryBalances
<1>1. RegistryInit => RegistryInv
  <2> SUFFICES ASSUME RegistryInit PROVE RegistryInv
    OBVIOUS
  <2>1. RegistryType
    BY RegistryConstants DEF RegistryInit, RegistryType, NodeType, NoNode, Statuses
  <2>2. SumFunction(stakesHeld) = 0
    <3>1. stakesHeld \in [Registrants -> Int] /\ \A n \in Registrants : stakesHeld[n] = 0
      BY DEF RegistryInit, stakesHeld, NoNode
    <3> QED BY <3>1, RegistryConstants, SumOfZeros
  <2>3. Cardinality({}) = 0 /\ Len(_nodeList) = 0 /\ {_nodeList[i] : i \in 1..Len(_nodeList)} = {}
    BY FS_EmptySet DEF RegistryInit
  <2> QED BY <2>1, <2>2, <2>3 DEF RegistryInit, RegistryInv, RegistryBalances
<1>2. RegistryInv /\ [RegistryNext]_registryVars => RegistryInv'
  BY RegistryCall
<1>3. RegistryInv => RegistryBalances
  BY DEF RegistryInv
<1> QED
  BY <1>1, <1>2, <1>3, PTL DEF RegistrySpec

-----------------------------------------------------------------------------
(* SLAContract *)

Terms == [requiredUptime : Nat, requiredThroughput : Nat, deadline : Nat,
          fulfilled : BOOLEAN, exists : BOOLEAN]

(* Only a breach opens a termination. *)
TerminationsAreBreaches == \A j \in JobIds : pendingTerminations[j] => breachedSLAs[j]

(* A job without terms has no verdict: recordSLA never overwrites one. *)
OnlyAgreedJobsFulfilled ==
    \A j \in JobIds : slaBenchmarks[j].fulfilled => slaBenchmarks[j].exists

SLAInv == SLATypeOK /\ TerminationsAreBreaches /\ OnlyAgreedJobsFulfilled

(* What a step may do to the verdicts: the action of VerdictsAreFinal. *)
KeepsVerdicts ==
    \A j \in JobIds :
        /\ slaBenchmarks[j].fulfilled => slaBenchmarks'[j] = slaBenchmarks[j]
        /\ breachedSLAs[j] \/ pendingTerminations'[j] => breachedSLAs'[j]

(* The calls that touch neither a verdict nor the terms of a job. *)
VerdictsAside == <<slaBenchmarks, breachedSLAs, pendingTerminations>>

(* A call that records a metric appends one well-typed checkpoint of this instant. *)
LEMMA PushTyped ==
    ASSUME SLAInv, NEW j \in JobIds, NEW u \in Nat, NEW t \in Nat, NEW m \in BOOLEAN,
           Push(j, u, t, m)
    PROVE  SLATypeOK' /\ UNCHANGED VerdictsAside
<1> DEFINE entry == [timestamp |-> blockTime, uptime |-> u, throughput |-> t, measured |-> m]
<1>1. entry \in Metric
  BY DEF SLAInv, SLATypeOK, Metric
<1>2. historicalMetrics[j] \in Seq(Metric)
  BY DEF SLAInv, SLATypeOK
<1>3. Append(historicalMetrics[j], entry) \in Seq(Metric)
  <2> HIDE DEF entry
  <2> QED BY <1>1, <1>2
<1>4. historicalMetrics' = [historicalMetrics EXCEPT ![j] = Append(historicalMetrics[j], entry)]
  BY DEF Push
<1>5. historicalMetrics' \in [JobIds -> Seq(Metric)]
  <2> HIDE DEF entry
  <2> QED BY <1>3, <1>4 DEF SLAInv, SLATypeOK
<1>6. UNCHANGED <<slaBenchmarks, slaClient, breachedSLAs, pendingTerminations, slaVersion, blockTime>>
  BY DEF Push
<1> QED
  BY <1>5, <1>6, Zenon DEF SLAInv, SLATypeOK, VerdictsAside

(* A call that gives one job other terms: the terms stay typed, the other jobs' too. *)
LEMMA OneJob ==
    ASSUME SLAInv, NEW j \in JobIds, NEW r \in Terms,
           slaBenchmarks' = [slaBenchmarks EXCEPT ![j] = r]
    PROVE  /\ slaBenchmarks' \in [JobIds -> Terms]
           /\ \A k \in JobIds : slaBenchmarks'[k] = IF k = j THEN r ELSE slaBenchmarks[k]
<1>1. slaBenchmarks \in [JobIds -> Terms]
  BY DEF SLAInv, SLATypeOK, Terms
<1> QED
  BY <1>1

(* Every call keeps the types and the link between terminations and breaches, and with *)
(* them the verdicts.                                                                  *)
LEMMA CallKeepsVerdicts ==
    ASSUME SLAInv, SLANext
    PROVE  SLAInv' /\ KeepsVerdicts
<1> USE SLAConstants
<1>0. PICK j \in JobIds : SLANext!(j)
  BY DEF SLANext
<1>t. /\ slaBenchmarks \in [JobIds -> Terms]
      /\ Deadlines \subseteq Nat
  BY DEF SLAInv, SLATypeOK, Terms, Deadlines
<1>a. ASSUME UNCHANGED VerdictsAside
      PROVE  TerminationsAreBreaches' /\ OnlyAgreedJobsFulfilled' /\ KeepsVerdicts
  BY <1>a DEF SLAInv, TerminationsAreBreaches, OnlyAgreedJobsFulfilled, KeepsVerdicts, VerdictsAside
<1>1. ASSUME NEW u \in RequiredUptimes, NEW t \in RequiredThroughputs, NEW d \in Deadlines,
             RecordSLA(j, u, t, d)
      PROVE  SLAInv' /\ KeepsVerdicts
  <2> DEFINE old == slaBenchmarks[j]
             r == [requiredUptime |-> u, requiredThroughput |-> t, deadline |-> d,
                   fulfilled |-> FALSE, exists |-> TRUE]
  <2>1. old \in Terms /\ r \in Terms /\ ~old.exists
    BY <1>1, <1>t DEF RecordSLA, Exists, Terms
  <2>2. slaBenchmarks' = [slaBenchmarks EXCEPT ![j] = r]
    BY <1>1, Zenon DEF RecordSLA
  <2>3. /\ slaBenchmarks' \in [JobIds -> Terms]
        /\ \A k \in JobIds : slaBenchmarks'[k] = IF k = j THEN r ELSE slaBenchmarks[k]
    <3> HIDE DEF r
    <3> QED BY <2>1, <2>2, OneJob
  <2>4. ~old.fulfilled
    BY <2>1 DEF SLAInv, OnlyAgreedJobsFulfilled
  <2>5. SLATypeOK'
    <3>1. slaVersion' \in [JobIds -> Nat]
      BY <1>1 DEF RecordSLA, SLAInv, SLATypeOK
    <3> HIDE DEF r
    <3> QED
      BY <1>1, <2>3, <3>1 DEF RecordSLA, SLAInv, SLATypeOK, Terms
  <2>6. TerminationsAreBreaches' /\ \A k \in JobIds : breachedSLAs[k] \/ pendingTerminations'[k] => breachedSLAs'[k]
    BY <1>1 DEF RecordSLA, SLAInv, SLATypeOK, TerminationsAreBreaches
  <2>7. OnlyAgreedJobsFulfilled'
    BY <2>3 DEF SLAInv, OnlyAgreedJobsFulfilled
  <2> QED
    BY <2>3, <2>4, <2>5, <2>6, <2>7 DEF SLAInv, KeepsVerdicts
<1>2. ASSUME NEW u \in RequiredUptimes, NEW t \in RequiredThroughputs, NEW d \in Deadlines,
             UpdateSLA(j, u, t, d)
      PROVE  SLAInv' /\ KeepsVerdicts
  <2> DEFINE old == slaBenchmarks[j]
             r == [old EXCEPT !.requiredUptime = u, !.requiredThroughput = t, !.deadline = d]
  <2>1. old \in Terms /\ r \in Terms
    BY <1>2, <1>t DEF Terms
  <2>2. slaBenchmarks' = [slaBenchmarks EXCEPT ![j] = r]
    BY <1>2, Zenon DEF UpdateSLA
  <2>3. /\ slaBenchmarks' \in [JobIds -> Terms]
        /\ \A k \in JobIds : slaBenchmarks'[k] = IF k = j THEN r ELSE slaBenchmarks[k]
    <3> HIDE DEF r
    <3> QED BY <2>1, <2>2, OneJob
  <2>4. old.fulfilled => r = old
    BY <1>2, <2>1 DEF UpdateSLA, Open, Terms
  <2>5. SLATypeOK'
    <3>1. slaVersion' \in [JobIds -> Nat]
      BY <1>2 DEF UpdateSLA, SLAInv, SLATypeOK
    <3> HIDE DEF r
    <3> QED
      BY <1>2, <2>3, <3>1 DEF UpdateSLA, SLAInv, SLATypeOK, Terms
  <2>6. TerminationsAreBreaches' /\ \A k \in JobIds : breachedSLAs[k] \/ pendingTerminations'[k] => breachedSLAs'[k]
    BY <1>2 DEF UpdateSLA, SLAInv, SLATypeOK, TerminationsAreBreaches
  <2>7. r.exists
    BY <1>2, <2>1 DEF UpdateSLA, Open, Exists, Terms
  <2>8. OnlyAgreedJobsFulfilled'
    <3> HIDE DEF r
    <3> QED BY <2>3, <2>7 DEF SLAInv, OnlyAgreedJobsFulfilled
  <2> QED
    BY <2>3, <2>4, <2>5, <2>6, <2>8 DEF SLAInv, KeepsVerdicts
<1>3. ASSUME NEW d \in Deadlines, ExtendDeadline(j, d)
      PROVE  SLAInv' /\ KeepsVerdicts
  <2> DEFINE old == slaBenchmarks[j]
             r == [old EXCEPT !.deadline = d]
  <2>1. old \in Terms /\ r \in Terms
    BY <1>3, <1>t DEF Terms
  <2>2. slaBenchmarks' = [slaBenchmarks EXCEPT ![j] = r]
    BY <1>3, Zenon DEF ExtendDeadline
  <2>3. /\ slaBenchmarks' \in [JobIds -> Terms]
        /\ \A k \in JobIds : slaBenchmarks'[k] = IF k = j THEN r ELSE slaBenchmarks[k]
    <3> HIDE DEF r
    <3> QED BY <2>1, <2>2, OneJob
  <2>4. old.fulfilled => r = old
    BY <1>3, <2>1 DEF ExtendDeadline, Open, Terms
  <2>5. SLATypeOK'
    <3>1. slaVersion' \in [JobIds -> Nat]
      BY <1>3 DEF ExtendDeadline, SLAInv, SLATypeOK
    <3> HIDE DEF r
    <3> QED
      BY <1>3, <2>3, <3>1 DEF ExtendDeadline, SLAInv, SLATypeOK, Terms
  <2>6. TerminationsAreBreaches' /\ \A k \in JobIds : breachedSLAs[k] \/ pendingTerminations'[k] => breachedSLAs'[k]
    BY <1>3 DEF ExtendDeadline, SLAInv, SLATypeOK, TerminationsAreBreaches
  <2>7. r.exists
    BY <1>3, <2>1 DEF ExtendDeadline, Open, Exists, Terms
  <2>8. OnlyAgreedJobsFulfilled'
    <3> HIDE DEF r
    <3> QED BY <2>3, <2>7 DEF SLAInv, OnlyAgreedJobsFulfilled
  <2> QED
    BY <2>3, <2>4, <2>5, <2>6, <2>8 DEF SLAInv, KeepsVerdicts
<1>4. ASSUME NEW v \in 0..MaxVersion, MigrateSLA(j, v)
      PROVE  SLAInv' /\ KeepsVerdicts
  BY <1>4, <1>a DEF MigrateSLA, SLAInv, SLATypeOK, VerdictsAside
<1>5. ASSUME NEW c \in Clients \cup {NoClient}, SetSLAClient(j, c)
      PROVE  SLAInv' /\ KeepsVerdicts
  BY <1>5, <1>a DEF SetSLAClient, SLAInv, SLATypeOK, VerdictsAside
<1>6. ASSUME NEW success \in BOOLEAN, FulfillSLA(j, success)
      PROVE  SLAInv' /\ KeepsVerdicts
  <2> DEFINE old == slaBenchmarks[j]
             r == [old EXCEPT !.fulfilled = success]
  <2>1. old \in Terms /\ r \in Terms
    BY <1>6, <1>t DEF Terms
  <2>2. slaBenchmarks' = [slaBenchmarks EXCEPT ![j] = r]
    BY <1>6, Zenon DEF FulfillSLA
  <2>3. /\ slaBenchmarks' \in [JobIds -> Terms]
        /\ \A k \in JobIds : slaBenchmarks'[k] = IF k = j THEN r ELSE slaBenchmarks[k]
    <3> HIDE DEF r
    <3> QED BY <2>1, <2>2, OneJob
  <2>4. old.fulfilled => r = old
    BY <1>6, <2>1 DEF FulfillSLA, Open, Terms
  <2>5. SLATypeOK'
    BY <1>6, <2>3 DEF FulfillSLA, SLAInv, SLATypeOK, Terms
  <2>6. TerminationsAreBreaches' /\ \A k \in JobIds : breachedSLAs[k] \/ pendingTerminations'[k] => breachedSLAs'[k]
    BY <1>6 DEF FulfillSLA, SLAInv, SLATypeOK, TerminationsAreBreaches
  <2>7. r.exists
    BY <1>6, <2>1 DEF FulfillSLA, Open, Exists, Terms
  <2>8. OnlyAgreedJobsFulfilled'
    <3> HIDE DEF r
    <3> QED BY <2>3, <2>7 DEF SLAInv, OnlyAgreedJobsFulfilled
  <2> QED
    BY <2>3, <2>4, <2>5, <2>6, <2>8 DEF SLAInv, KeepsVerdicts
<1>7. CASE EmergencyTerminateSLA(j)
  <2> DEFINE old == slaBenchmarks[j]
             r == [old EXCEPT !.fulfilled = FALSE]
  <2>1. old \in Terms /\ r \in Terms
    BY <1>7, <1>t DEF Terms
  <2>2. slaBenchmarks' = [slaBenchmarks EXCEPT ![j] = r]
    BY <1>7, Zenon DEF EmergencyTerminateSLA
  <2>3. /\ slaBenchmarks' \in [JobIds -> Terms]
        /\ \A k \in JobIds : slaBenchmarks'[k] = IF k = j THEN r ELSE slaBenchmarks[k]
    <3> HIDE DEF r
    <3> QED BY <2>1, <2>2, OneJob
  <2>4. old.fulfilled => r = old
    BY <1>7, <2>1 DEF EmergencyTerminateSLA, Open, Terms
  <2>5. SLATypeOK'
    BY <1>7, <2>3 DEF EmergencyTerminateSLA, SLAInv, SLATypeOK, Terms
  <2>6. TerminationsAreBreaches' /\ \A k \in JobIds : breachedSLAs[k] \/ pendingTerminations'[k] => breachedSLAs'[k]
    BY <1>7 DEF EmergencyTerminateSLA, SLAInv, SLATypeOK, TerminationsAreBreaches
  <2>7. r.exists
    BY <1>7, <2>1 DEF EmergencyTerminateSLA, Open, Exists, Terms
  <2>8. OnlyAgreedJobsFulfilled'
    <3> HIDE DEF r
    <3> QED BY <2>3, <2>7 DEF SLAInv, OnlyAgreedJobsFulfilled
  <2> QED
    BY <2>3, <2>4, <2>5, <2>6, <2>8 DEF SLAInv, KeepsVerdicts
<1>8. CASE ApproveTermination(j)
  <2> DEFINE old == slaBenchmarks[j]
             r == [old EXCEPT !.fulfilled = TRUE]
  <2>1. old \in Terms /\ r \in Terms
    BY <1>8, <1>t DEF Terms
  <2>2. slaBenchmarks' = [slaBenchmarks EXCEPT ![j] = r]
    BY <1>8, Zenon DEF ApproveTermination
  <2>3. /\ slaBenchmarks' \in [JobIds -> Terms]
        /\ \A k \in JobIds : slaBenchmarks'[k] = IF k = j THEN r ELSE slaBenchmarks[k]
    <3> HIDE DEF r
    <3> QED BY <2>1, <2>2, OneJob
  <2>4. old.fulfilled => r = old
    BY <1>8, <2>1 DEF ApproveTermination, Open, Terms
  <2>5. SLATypeOK'
    BY <1>8, <2>3 DEF ApproveTermination, SLAInv, SLATypeOK, Terms
  <2>6. TerminationsAreBreaches' /\ \A k \in JobIds : breachedSLAs[k] \/ pendingTerminations'[k] => breachedSLAs'[k]
    BY <1>8 DEF ApproveTermination, SLAInv, SLATypeOK, TerminationsAreBreaches
  <2>7. r.exists
    BY <1>8, <2>1 DEF ApproveTermination, Exists, Terms
  <2>8. OnlyAgreedJobsFulfilled'
    <3> HIDE DEF r
    <3> QED BY <2>3, <2>7 DEF SLAInv, OnlyAgreedJobsFulfilled
  <2> QED
    BY <2>3, <2>4, <2>5, <2>6, <2>8 DEF SLAInv, KeepsVerdicts
<1>9. ASSUME NEW u \in Nat, NEW t \in Nat, NEW m \in BOOLEAN, Push(j, u, t, m)
      PROVE  SLAInv' /\ KeepsVerdicts
  BY <1>9, <1>a, PushTyped DEF SLAInv
<1>10. CASE NextSLABlock
  <2>1. blockTime' \in 1..MaxTime
    BY <1>10 DEF NextSLABlock, SLAInv, SLATypeOK
  <2> QED
    BY <1>10, <1>a, <2>1 DEF NextSLABlock, SLAInv, SLATypeOK, VerdictsAside
<1>11. ASSUME NEW u \in Uptimes, RecordUptimeCheck(j, u)
       PROVE  SLAInv' /\ KeepsVerdicts
  <2>1. u \in Nat /\ 0 \in Nat /\ TRUE \in BOOLEAN
    OBVIOUS
  <2>2. Push(j, u, 0, TRUE)
    BY <1>11 DEF RecordUptimeCheck, Push
  <2> QED BY <2>1, <2>2, <1>9, Zenon
<1>12. ASSUME NEW t \in Throughputs, RecordThroughputCheck(j, t)
       PROVE  SLAInv' /\ KeepsVerdicts
  <2>1. t \in Nat /\ 0 \in Nat /\ FALSE \in BOOLEAN
    OBVIOUS
  <2>2. Push(j, 0, t, FALSE)
    BY <1>12, Zenon DEF RecordThroughputCheck
  <2> QED BY <2>1, <2>2, <1>9, Zenon
<1>13. ASSUME NEW u \in Uptimes, NEW t \in Throughputs,
              SubmitCheckpoint(j, u, t) \/ SubmitFinalMetrics(j, u, t)
       PROVE  SLAInv' /\ KeepsVerdicts
  <2>1. u \in Nat /\ t \in Nat /\ TRUE \in BOOLEAN
    OBVIOUS
  <2>2. Push(j, u, t, TRUE)
    BY <1>13 DEF SubmitCheckpoint, SubmitFinalMetrics, Push
  <2> QED BY <2>1, <2>2, <1>9, Zenon
<1> QED
  BY <1>0, <1>1, <1>2, <1>3, <1>4, <1>5, <1>6, <1>7, <1>8, <1>10, <1>11, <1>12, <1>13

(* The contract keeps its types, and a termination waits only for a recorded breach. *)
THEOREM SLATyped == SLASpec => []SLAInv
<1>1. SLAInit => SLAInv
  <2> SUFFICES ASSUME SLAInit PROVE SLAInv
    OBVIOUS
  <2>1. historicalMetrics \in [JobIds -> Seq(Metric)]
    BY DEF SLAInit
  <2> QED
    BY <2>1, SLAConstants DEF SLAInit, SLAInv, SLATypeOK, NoSLA, TerminationsAreBreaches, OnlyAgreedJobsFulfilled
<1>2. SLAInv /\ [SLANext]_slaVars => SLAInv'
  <2> SUFFICES ASSUME SLAInv, [SLANext]_slaVars PROVE SLAInv'
    OBVIOUS
  <2>1. CASE SLANext
    BY <2>1, CallKeepsVerdicts
  <2>2. CASE UNCHANGED slaVars
    BY <2>2 DEF SLAInv, SLATypeOK, TerminationsAreBreaches, OnlyAgreedJobsFulfilled, slaVars
  <2> QED
    BY <2>1, <2>2
<1> QED
  BY <1>1, <1>2, PTL DEF SLASpec

(* fulfillSLA, emergencyTerminateSLA and approveTermination: for any jobs and any order *)
(* of calls a fulfilled SLA keeps its verdict and terms, a breach stays recorded, and   *)
(* what waits for approval is a breach.                                                 *)
THEOREM VerdictsFinal == SLASpec => VerdictsAreFinal
<1>1. SLAInv /\ [SLANext]_slaVars => [KeepsVerdicts]_slaVars
  BY CallKeepsVerdicts
<1> QED
  BY <1>1, SLATyped, PTL DEF SLASpec, VerdictsAreFinal, KeepsVerdicts

(* isBreached, verifySLACompliance and getRemainingTime agree about the deadline, *)
(* whatever was recorded for the job and whatever the metrics say.                *)
THEOREM ViewsAgree == SLASpec => []DeadlineViewsAgree
<1>1. SLAInv => DeadlineViewsAgree
  <2> SUFFICES ASSUME SLAInv, NEW j \in JobIds, Exists(j)
               PROVE  /\ ~(IsBreached(j) /\ VerifySLACompliance(j))
                      /\ blockTime > slaBenchmarks[j].deadline => IsBreached(j) \/ VerifySLACompliance(j)
                      /\ GetRemainingTime(j) > 0 => ~IsBreached(j)
    BY DEF DeadlineViewsAgree
  <2>1. blockTime \in Int /\ slaBenchmarks[j].deadline \in Int
    BY SLAConstants DEF SLAInv, SLATypeOK
  <2> QED BY <2>1 DEF IsBreached, VerifySLACompliance, GetRemainingTime
<1> QED
  BY <1>1, SLATyped, PTL

-----------------------------------------------------------------------------
(* The contracts together *)

(* A call of one of the contracts leaves the others as they are.               *)
LEMMA CallsOfOne ==
  [ContractsNext]_contractVars => [Next]_ledgerVars /\ [RegistryNext]_registryVars /\ [SLANext]_slaVars
BY DEF ContractsNext, contractVars

(* ReputationLedger, NodeRegistry and SLAContract call nothing of each other:  *)
(* deployed side by side each behaves as it does alone, and keeps its          *)
(* invariants.                                                                 *)
THEOREM ContractsRunAlone ==
  ContractsSpec => /\ Spec /\ RegistrySpec /\ SLASpec
                   /\ [](LedgerConsistent /\ RegistryBalances /\ DeadlineViewsAgree)
                   /\ DecayTowardsZero /\ VerdictsAreFinal
  <1>1. ContractsInit => Init /\ RegistryInit /\ SLAInit
    BY DEF ContractsInit
  <1>2. ContractsSpec => Spec /\ RegistrySpec /\ SLASpec
    BY <1>1, CallsOfOne, PTL DEF ContractsSpec, Spec, RegistrySpec, SLASpec
  <1> QED
    BY <1>2, LedgerInRange, DecayNeverOvershoots, RegistryAlwaysBalances, VerdictsFinal, ViewsAgree, PTL

=============================================================================
