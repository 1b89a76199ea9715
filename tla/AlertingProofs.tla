--------------------------- MODULE AlertingProofs ---------------------------
(***************************************************************************)
(* Proofs about the alerter, for all metrics, nodes, intervals and lengths *)
(* of the history: what its rate limiter and its history remember, and     *)
(* what it therefore sends.                                                *)
(***************************************************************************)
EXTENDS Alerting, DataLemmas

Sendings == [by : Metrics, alert : Alerts, left : 0..Notifiers]

(* The part of the type that routing reads and writes. *)
RouterType ==
    /\ condition \in [Metrics -> [Nodes -> Levels]]
    /\ pending \in [Metrics -> Seq(Alerts)]
    /\ sending \in {NoSend} \cup Sendings
    /\ idAge \in [Alerts -> Ages] /\ rateAge \in [RateKeys -> Ages] /\ quiet \in [Alerts -> Ages]
    /\ alertHistory \in Seq(Alerts) /\ Len(alertHistory) =< MaxHistory

OfKey(k) == {b \in Alerts : RateKey(b) = k}

(* The entry of a rate key is as old as the youngest of its alerts. *)
KeysExact(q, rate) == \A k \in RateKeys : rate[k] = Min({q[a] : a \in OfKey(k)})

(* The two maps of the rate limiter, against what was handed to the notifiers. *)
LimiterExact == idAge = quiet /\ KeysExact(quiet, rateAge)

(* The alerts handed to the notifiers, the one they are called with included. *)
Sent == IF sending = NoSend THEN alertHistory ELSE Append(alertHistory, sending.alert)

LastOf(s, p) == \A i \in (p + 1)..Len(s) : s[i] # s[p]

(* What follows the last record of an alert that is still deduplicated was sent after *)
(* it and only once: a record may repeat only across a whole deduplication window.     *)
(* q is the time since an alert was sent.                                              *)
InOrder(q, s) ==
    \A p \in 1..Len(s) :
        q[s[p]] < DedupWindow /\ LastOf(s, p) =>
            \A i \in (p + 1)..Len(s) :
                /\ q[s[i]] =< q[s[p]]
                /\ \A j \in (p + 1)..Len(s) : s[i] = s[j] => i = j

Newer(q, a) == {b \in Alerts \ {a} : q[b] =< q[a]}

Remembered(q, s) ==
    \A a \in Alerts : \/ q[a] = DedupWindow
                      \/ Cardinality(Newer(q, a)) >= MaxHistory
                      \/ \E i \in 1..Len(s) : s[i] = a

AlerterInv == RouterType /\ LimiterExact /\ InOrder(quiet, Sent) /\ Remembered(quiet, Sent)

-----------------------------------------------------------------------------
(* The alerts are finitely many. *)

LEMMA AlertsFinite == IsFiniteSet(Alerts)
  <1> DEFINE parts == Metrics \X (Severities \X Nodes)
             f == [x \in parts |-> [metric |-> x[1], severity |-> x[2][1], node |-> x[2][2]]]
  <1>1. IsFiniteSet(Severities)
    <2>1. IsFiniteSet({"warning"}) /\ IsFiniteSet({"critical"})
      BY FS_Singleton
    <2>2. Severities = {"warning"} \cup {"critical"}
      BY DEF Severities
    <2> QED BY <2>1, <2>2, FS_Union
  <1>2. IsFiniteSet(parts)
    BY <1>1, FS_Product, AlertingConstants
  <1>3. f \in Surjection(parts, Alerts)
    <2>1. f \in [parts -> Alerts]
      BY DEF Alerts
    <2>2. ASSUME NEW a \in Alerts PROVE \E x \in parts : f[x] = a
      <3>1. a.metric \in Metrics /\ a.severity \in Severities /\ a.node \in Nodes
            /\ a = [metric |-> a.metric, severity |-> a.severity, node |-> a.node]
        BY DEF Alerts
      <3> DEFINE x == <<a.metric, <<a.severity, a.node>>>>
      <3>2. x \in parts /\ f[x] = a
        BY <3>1
      <3> QED BY <3>2
    <2> QED BY <2>1, <2>2 DEF Surjection
  <1> QED BY <1>2, <1>3, FS_Surjection

LEMMA NewerFinite ==
  ASSUME NEW q, NEW a
  PROVE  IsFiniteSet(Newer(q, a)) /\ Cardinality(Newer(q, a)) \in Nat
  <1>1. Newer(q, a) \subseteq Alerts
    BY DEF Newer
  <1> QED BY <1>1, AlertsFinite, FS_Subset, FS_CardinalityType

LEMMA MoreAreNewer ==
  ASSUME NEW q, NEW r, NEW a, Newer(q, a) \subseteq Newer(r, a), Cardinality(Newer(q, a)) >= MaxHistory
  PROVE  Cardinality(Newer(r, a)) >= MaxHistory
  <1>1. Cardinality(Newer(q, a)) =< Cardinality(Newer(r, a))
    BY NewerFinite, FS_Subset
  <1> QED BY <1>1, NewerFinite, AlertingConstants

-----------------------------------------------------------------------------
(* The history as time passes, an alert is sent, and the oldest record is cut. *)

LEMMA OlderAges ==
  ASSUME NEW x \in Ages, NEW y \in Ages
  PROVE  /\ Older(x) \in Ages
         /\ x =< y => Older(x) =< Older(y)
         /\ Older(x) < DedupWindow => x < DedupWindow
         /\ x = DedupWindow => Older(x) = DedupWindow
  BY AlertingConstants DEF Older, Ages

LEMMA HistoryAges ==
  ASSUME NEW q \in [Alerts -> Ages], NEW s \in Seq(Alerts), InOrder(q, s), Remembered(q, s)
  PROVE  LET r == [a \in Alerts |-> Older(q[a])] IN InOrder(r, s) /\ Remembered(r, s)
  <1> DEFINE r == [a \in Alerts |-> Older(q[a])]
  <1>0. \A i \in 1..Len(s) : s[i] \in Alerts
    OBVIOUS
  <1>1. \A a \in Alerts : q[a] \in Ages /\ r[a] = Older(q[a])
    OBVIOUS
  <1> HIDE DEF r
  <1>2. InOrder(r, s)
    <2> SUFFICES ASSUME NEW p \in 1..Len(s), r[s[p]] < DedupWindow, LastOf(s, p),
                        NEW i \in (p + 1)..Len(s)
                 PROVE  /\ r[s[i]] =< r[s[p]]
                        /\ \A j \in (p + 1)..Len(s) : s[i] = s[j] => i = j
      BY DEF InOrder
    <2>1. s[p] \in Alerts /\ s[i] \in Alerts
      BY <1>0
    <2>2. q[s[p]] < DedupWindow
      BY <1>1, <2>1, OlderAges
    <2>3. q[s[i]] =< q[s[p]] /\ \A j \in (p + 1)..Len(s) : s[i] = s[j] => i = j
      BY <2>2 DEF InOrder
    <2> QED BY <1>1, <2>1, <2>3, OlderAges
  <1>3. Remembered(r, s)
    <2> SUFFICES ASSUME NEW a \in Alerts, r[a] # DedupWindow, ~ \E i \in 1..Len(s) : s[i] = a
                 PROVE  Cardinality(Newer(r, a)) >= MaxHistory
      BY DEF Remembered
    <2>1. q[a] # DedupWindow
      BY <1>1, OlderAges
    <2>2. Cardinality(Newer(q, a)) >= MaxHistory
      BY <2>1 DEF Remembered
    <2>3. Newer(q, a) \subseteq Newer(r, a)
      BY <1>1, OlderAges DEF Newer
    <2> QED BY <2>2, <2>3, MoreAreNewer
  <1> QED BY <1>2, <1>3 DEF r

LEMMA HistoryExtended ==
  ASSUME NEW q \in [Alerts -> Ages], NEW s \in Seq(Alerts), InOrder(q, s), Remembered(q, s),
         NEW b \in Alerts, q[b] = DedupWindow
  PROVE  LET r == [q EXCEPT ![b] = 0] IN InOrder(r, Append(s, b)) /\ Remembered(r, Append(s, b))
  <1> DEFINE r == [q EXCEPT ![b] = 0]
             t == Append(s, b)
             n == Len(s)
  <1>0. \A i \in 1..n : s[i] \in Alerts
    OBVIOUS
  <1>1. r[b] = 0 /\ \A a \in Alerts : q[a] \in Ages /\ (a # b => r[a] = q[a])
    OBVIOUS
  <1>2. /\ Len(t) = n + 1 /\ n \in Nat
        /\ \A i \in 1..n : t[i] = s[i]
        /\ t[n + 1] = b
    BY AppendProperties
  <1> HIDE DEF r, t, n
  <1>3. InOrder(r, t)
    <2> SUFFICES ASSUME NEW p \in 1..Len(t), r[t[p]] < DedupWindow, LastOf(t, p),
                        NEW i \in (p + 1)..Len(t)
                 PROVE  /\ r[t[i]] =< r[t[p]]
                        /\ \A j \in (p + 1)..Len(t) : t[i] = t[j] => i = j
      BY DEF InOrder
    <2>1. p \in 1..n /\ t[p] = s[p] /\ s[p] \in Alerts
      BY <1>0, <1>2 DEF n
    <2>2. s[p] # b
      <3>1. n + 1 \in (p + 1)..Len(t)
        BY <1>2, <2>1
      <3> QED BY <1>2, <2>1, <3>1 DEF LastOf
    <2>3. r[t[p]] = q[s[p]] /\ q[s[p]] \in Ages
      BY <1>1, <2>1, <2>2
    <2>4. LastOf(s, p)
      BY <1>2, <2>1 DEF LastOf, n
    <2>5. ASSUME NEW k \in (p + 1)..n
          PROVE  /\ k \in 1..n /\ t[k] = s[k] /\ s[k] \in Alerts
                 /\ q[s[k]] =< q[s[p]] /\ s[k] # b /\ r[t[k]] = q[s[k]]
                 /\ \A j \in (p + 1)..n : s[k] = s[j] => k = j
      <3>1. k \in 1..n /\ t[k] = s[k] /\ s[k] \in Alerts
        BY <1>0, <1>2, <2>1
      <3>2. q[s[k]] =< q[s[p]] /\ \A j \in (p + 1)..n : s[k] = s[j] => k = j
        BY <2>1, <2>3, <2>4 DEF InOrder, n
      <3>3. s[k] # b
        <4>1. q[s[p]] < DedupWindow
          BY <2>3
        <4> QED BY <1>1, <2>3, <3>1, <3>2, <4>1, AlertingConstants DEF Ages
      <3> QED BY <1>1, <3>1, <3>2, <3>3
    <2>6. CASE i = n + 1
      <3>1. r[t[i]] =< r[t[p]]
        BY <1>1, <1>2, <2>3, <2>6, AlertingConstants DEF Ages
      <3>2. \A j \in (p + 1)..Len(t) : t[i] = t[j] => i = j
        BY <1>2, <2>5, <2>6
      <3> QED BY <3>1, <3>2
    <2>7. CASE i # n + 1
      <3>1. i \in (p + 1)..n
        BY <1>2, <2>1, <2>7
      <3>2. r[t[i]] =< r[t[p]]
        BY <2>3, <2>5, <3>1
      <3>3. ASSUME NEW j \in (p + 1)..Len(t), t[i] = t[j] PROVE i = j
        <4>1. j = n + 1 \/ j \in (p + 1)..n
          BY <1>2, <2>1
        <4> QED BY <1>2, <2>5, <3>1, <3>3, <4>1
      <3> QED BY <3>2, <3>3
    <2> QED BY <2>6, <2>7
  <1>4. Remembered(r, t)
    <2> SUFFICES ASSUME NEW a \in Alerts, r[a] # DedupWindow, ~ \E i \in 1..Len(t) : t[i] = a
                 PROVE  Cardinality(Newer(r, a)) >= MaxHistory
      BY DEF Remembered
    <2>1. a # b /\ ~ \E i \in 1..n : s[i] = a
      <3>1. n + 1 \in 1..Len(t) /\ \A i \in 1..n : i \in 1..Len(t)
        BY <1>2
      <3> QED BY <1>2, <3>1
    <2>2. Cardinality(Newer(q, a)) >= MaxHistory
      BY <1>1, <2>1 DEF Remembered, n
    <2>3. Newer(q, a) \subseteq Newer(r, a)
      BY <1>1, <2>1, AlertingConstants DEF Newer, Ages
    <2> QED BY <2>2, <2>3, MoreAreNewer
  <1> QED BY <1>3, <1>4 DEF r, t

LEMMA HistoryCut ==
  ASSUME NEW q \in [Alerts -> Ages], NEW s \in Seq(Alerts), InOrder(q, s), Remembered(q, s),
         Len(s) = MaxHistory + 1
  PROVE  LET t == SubSeq(s, 2, Len(s))
         IN  /\ t \in Seq(Alerts) /\ Len(t) = MaxHistory
             /\ InOrder(q, t) /\ Remembered(q, t)
  <1> DEFINE t == SubSeq(s, 2, Len(s))
  <1>0. MaxHistory \in Nat \ {0} /\ \A i \in 1..Len(s) : s[i] \in Alerts
    BY AlertingConstants
  <1>1. /\ t \in Seq(Alerts) /\ Len(t) = MaxHistory
        /\ \A i \in 1..MaxHistory : t[i] = s[i + 1]
    BY <1>0
  <1> HIDE DEF t
  <1>2. InOrder(q, t)
    <2> SUFFICES ASSUME NEW p \in 1..Len(t), q[t[p]] < DedupWindow, LastOf(t, p),
                        NEW i \in (p + 1)..Len(t)
                 PROVE  /\ q[t[i]] =< q[t[p]]
                        /\ \A j \in (p + 1)..Len(t) : t[i] = t[j] => i = j
      BY DEF InOrder
    <2>1. p + 1 \in 1..Len(s) /\ t[p] = s[p + 1]
      BY <1>0, <1>1
    <2>2. \A k \in (p + 1)..Len(t) : k + 1 \in (p + 2)..Len(s) /\ t[k] = s[k + 1]
      BY <1>0, <1>1
    <2>3. \A k \in (p + 2)..Len(s) : k - 1 \in (p + 1)..Len(t) /\ t[k - 1] = s[k]
      BY <1>0, <1>1
    <2>4. LastOf(s, p + 1)
      BY <2>1, <2>3 DEF LastOf
    <2>5. \A k \in (p + 2)..Len(s) :
              q[s[k]] =< q[s[p + 1]] /\ \A j \in (p + 2)..Len(s) : s[k] = s[j] => k = j
      BY <2>1, <2>4 DEF InOrder
    <2> QED BY <2>1, <2>2, <2>5
  <1>3. Remembered(q, t)
    <2> SUFFICES ASSUME NEW a \in Alerts, q[a] # DedupWindow, ~ \E i \in 1..Len(t) : t[i] = a
                 PROVE  Cardinality(Newer(q, a)) >= MaxHistory
      BY DEF Remembered
    <2>1. \A k \in 2..Len(s) : s[k] # a
      <3>1. \A k \in 2..Len(s) : k - 1 \in 1..Len(t) /\ t[k - 1] = s[k]
        BY <1>0, <1>1
      <3> QED BY <3>1
    <2>2. CASE s[1] # a
      <3>1. ~ \E i \in 1..Len(s) : s[i] = a
        BY <1>0, <2>1, <2>2
      <3> QED BY <3>1 DEF Remembered
    <2>3. CASE s[1] = a
      <3>1. LastOf(s, 1) /\ 1 \in 1..Len(s)
        BY <1>0, <2>1, <2>3 DEF LastOf
      <3>2. q[a] < DedupWindow
        BY AlertingConstants DEF Ages
      <3>3. \A i \in 2..Len(s) : q[s[i]] =< q[a] /\ \A j \in 2..Len(s) : s[i] = s[j] => i = j
        BY <2>3, <3>1, <3>2 DEF InOrder
      <3> DEFINE later == [i \in 2..Len(s) |-> s[i]]
      <3>4. later \in Injection(2..Len(s), Newer(q, a))
        <4>1. \A i \in 2..Len(s) : s[i] \in Newer(q, a)
          BY <1>0, <2>1, <3>3 DEF Newer
        <4> QED BY <3>3, <4>1 DEF Injection, IsInjective
      <3>5. Cardinality(2..Len(s)) = MaxHistory
        BY <1>0, FS_Interval
      <3>6. Cardinality(2..Len(s)) =< Cardinality(Newer(q, a))
        BY <3>4, NewerFinite, FS_Injection
      <3> QED BY <1>0, <3>5, <3>6, NewerFinite
    <2> QED BY <2>2, <2>3
  <1> QED BY <1>1, <1>2, <1>3 DEF t

-----------------------------------------------------------------------------
(* The rate limiter as time passes and an alert is sent. *)

LEMMA MinOf ==
  ASSUME NEW S, S \subseteq Nat, S # {}
  PROVE  Min(S) \in S /\ \A y \in S : Min(S) =< y
  <1>1. PICK x \in S : \A y \in S : x =< y
    BY LeastNatural
  <1> QED BY <1>1 DEF Min

LEMMA MinIs ==
  ASSUME NEW S, S \subseteq Nat, NEW x \in S, \A y \in S : x =< y
  PROVE  Min(S) = x
  <1>1. Min(S) \in S /\ Min(S) =< x
    BY MinOf
  <1>2. x =< Min(S) /\ x \in Nat /\ Min(S) \in Nat
    BY <1>1
  <1> QED BY <1>1, <1>2

LEMMA KeyAges ==
  ASSUME NEW q \in [Alerts -> Ages], NEW k \in RateKeys
  PROVE  {q[a] : a \in OfKey(k)} \subseteq Nat /\ {q[a] : a \in OfKey(k)} # {}
  <1>1. PICK n \in Nodes : TRUE
    BY AlertingConstants
  <1> DEFINE a == [metric |-> k[1], severity |-> k[2], node |-> n]
  <1>2. a \in OfKey(k)
    BY DEF OfKey, Alerts, RateKey, RateKeys
  <1>3. \A b \in OfKey(k) : q[b] \in Nat
    BY AlertingConstants DEF OfKey, Ages
  <1> QED BY <1>2, <1>3

LEMMA LimiterAges ==
  ASSUME NEW q \in [Alerts -> Ages], NEW rate \in [RateKeys -> Ages], KeysExact(q, rate)
  PROVE  KeysExact([a \in Alerts |-> Older(q[a])], [k \in RateKeys |-> Older(rate[k])])
  <1> DEFINE r == [a \in Alerts |-> Older(q[a])]
  <1>1. \A a \in Alerts : q[a] \in Ages /\ r[a] = Older(q[a])
    OBVIOUS
  <1>2. r \in [Alerts -> Ages]
    BY OlderAges
  <1> HIDE DEF r
  <1>3. ASSUME NEW k \in RateKeys PROVE Older(rate[k]) = Min({r[a] : a \in OfKey(k)})
    <2> DEFINE S == {q[a] : a \in OfKey(k)}
               T == {r[a] : a \in OfKey(k)}
    <2>1. rate[k] \in S /\ \A y \in S : rate[k] =< y
      <3>1. S \subseteq Nat /\ S # {}
        BY KeyAges
      <3>2. rate[k] = Min(S)
        BY DEF KeysExact
      <3> HIDE DEF S
      <3>3. Min(S) \in S /\ \A y \in S : Min(S) =< y
        BY <3>1, MinOf
      <3> QED BY <3>2, <3>3
    <2>2. PICK c \in OfKey(k) : q[c] = rate[k]
      BY <2>1
    <2>3. \A a \in OfKey(k) : a \in Alerts /\ q[c] =< q[a]
      BY <2>1, <2>2 DEF OfKey
    <2>4. Older(rate[k]) \in T
      BY <1>1, <2>2, <2>3
    <2>5. \A a \in OfKey(k) : Older(rate[k]) =< r[a]
      BY <1>1, <2>2, <2>3, OlderAges
    <2>6. T \subseteq Nat
      BY <1>2, KeyAges
    <2>7. \A y \in T : Older(rate[k]) =< y
      BY <2>5
    <2> HIDE DEF T
    <2>8. Min(T) = Older(rate[k])
      BY <2>4, <2>6, <2>7, MinIs
    <2> QED BY <2>8 DEF T
  <1> QED BY <1>3 DEF KeysExact, r

LEMMA LimiterExtended ==
  ASSUME NEW q \in [Alerts -> Ages], NEW rate \in [RateKeys -> Ages], KeysExact(q, rate),
         NEW b \in Alerts
  PROVE  KeysExact([q EXCEPT ![b] = 0], [rate EXCEPT ![RateKey(b)] = 0])
  <1> DEFINE r == [q EXCEPT ![b] = 0]
             z == [rate EXCEPT ![RateKey(b)] = 0]
  <1>1. RateKey(b) \in RateKeys
    BY DEF RateKey, RateKeys, Alerts
  <1>2. r[b] = 0 /\ r \in [Alerts -> Ages] /\ \A a \in Alerts : a # b => r[a] = q[a]
    BY AlertingConstants DEF Ages
  <1>3. z[RateKey(b)] = 0 /\ \A k \in RateKeys : k # RateKey(b) => z[k] = rate[k]
    BY <1>1
  <1> HIDE DEF r, z
  <1>4. ASSUME NEW k \in RateKeys PROVE z[k] = Min({r[a] : a \in OfKey(k)})
    <2> DEFINE T == {r[a] : a \in OfKey(k)}
    <2>1. CASE k = RateKey(b)
      <3>1. 0 \in T
        BY <1>2, <2>1 DEF OfKey
      <3>2. T \subseteq Nat
        BY <1>2, KeyAges
      <3> HIDE DEF T
      <3>3. \A y \in T : 0 =< y
        BY <3>2
      <3>4. Min(T) = 0
        BY <3>1, <3>2, <3>3, MinIs
      <3> QED BY <1>3, <2>1, <3>4 DEF T
    <2>2. CASE k # RateKey(b)
      <3>1. T = {q[a] : a \in OfKey(k)}
        BY <1>2, <2>2 DEF OfKey
      <3>2. rate[k] = Min({q[a] : a \in OfKey(k)})
        BY DEF KeysExact
      <3> HIDE DEF T
      <3>3. z[k] = Min(T)
        BY <1>3, <2>2, <3>1, <3>2
      <3> QED BY <3>3 DEF T
    <2> QED BY <2>1, <2>2
  <1> QED BY <1>4 DEF KeysExact, r, z

-----------------------------------------------------------------------------
(* Types. *)

(* An idle alerter is told from one that calls its notifiers. *)
LEMMA SendingIsSend == ASSUME NEW x \in Sendings PROVE x # NoSend
  <1>1. DOMAIN x = {"by", "alert", "left"} /\ DOMAIN NoSend = {"by"}
    BY DEF Sendings, NoSend
  <1> QED BY <1>1

LEMMA SentType ==
  ASSUME RouterType
  PROVE  /\ Sent \in Seq(Alerts)
         /\ sending = NoSend => Sent = alertHistory
         /\ sending # NoSend => sending \in Sendings /\ sending.alert \in Alerts
                               /\ Sent = Append(alertHistory, sending.alert)
  <1>1. sending # NoSend => sending \in Sendings /\ sending.alert \in Alerts
    BY DEF RouterType, Sendings
  <1>2. alertHistory \in Seq(Alerts)
    BY DEF RouterType
  <1> QED BY <1>1, <1>2, AppendProperties DEF Sent

(* One alert per node that is not well. *)
LEMMA FoundAlerts ==
  ASSUME RouterType, NEW m \in Metrics, NEW alerts \in SetToSeqs(Found(m))
  PROVE  alerts \in Seq(Alerts)
  <1>1. Found(m) \subseteq Alerts
    BY DEF RouterType, Found, Alerts, Levels
  <1>2. Cardinality(Found(m)) \in Nat
    BY <1>1, AlertsFinite, FS_Subset, FS_CardinalityType
  <1>3. alerts \in [1..Cardinality(Found(m)) -> Found(m)]
    BY DEF SetToSeqs
  <1>4. alerts \in Seq(Found(m))
    BY <1>2, <1>3
  <1> QED BY <1>1, <1>4

(* What leaves the alerter alone. *)
LEMMA SameRouter ==
  ASSUME RouterType, UNCHANGED <<condition, pending, alerter, quiet>>
  PROVE  RouterType'
  BY DEF RouterType, alerter

LEMMA HeadIsAlert ==
  ASSUME RouterType, NEW m \in Metrics, pending[m] # <<>>
  PROVE  Head(pending[m]) \in Alerts /\ Tail(pending[m]) \in Seq(Alerts)
  <1>1. pending[m] \in Seq(Alerts)
    BY DEF RouterType
  <1> QED BY <1>1, HeadTailProperties

LEMMA DequeueType ==
  ASSUME RouterType, NEW m \in Metrics, pending[m] # <<>>, Dequeue(m)
  PROVE  pending' \in [Metrics -> Seq(Alerts)]
  BY HeadIsAlert DEF RouterType, Dequeue

LEMMA NextRouter == RouterType /\ [Next]_vars => RouterType'
  <1> SUFFICES ASSUME RouterType, [Next]_vars PROVE RouterType'
    OBVIOUS
  <1> USE AlertingConstants
  <1>1. ASSUME NEW m \in Metrics, Evaluate(m) PROVE RouterType'
    <2>1. PICK alerts \in SetToSeqs(Found(m)) : pending' = [pending EXCEPT ![m] = alerts]
      BY <1>1 DEF Evaluate
    <2>2. pending' \in [Metrics -> Seq(Alerts)]
      BY <2>1, FoundAlerts DEF RouterType
    <2> QED BY <1>1, <2>2 DEF RouterType, Evaluate, alerter
  <1>2. ASSUME NEW m \in Metrics, NEW early \in BOOLEAN, DropAlert(m, early) PROVE RouterType'
    <2>1. pending' \in [Metrics -> Seq(Alerts)]
      BY <1>2, DequeueType DEF DropAlert
    <2> QED BY <1>2, <2>1 DEF RouterType, DropAlert, alerter
  <1>3. ASSUME NEW m \in Metrics, NEW early \in BOOLEAN, BeginSend(m, early) PROVE RouterType'
    <2> DEFINE a == Head(pending[m])
    <2>1. a \in Alerts /\ pending' \in [Metrics -> Seq(Alerts)]
      BY <1>3, HeadIsAlert, DequeueType DEF BeginSend
    <2>2. /\ idAge' = [idAge EXCEPT ![a] = 0]
          /\ rateAge' = [rateAge EXCEPT ![RateKey(a)] = 0]
          /\ quiet' = [quiet EXCEPT ![a] = 0]
          /\ sending' = [by |-> m, alert |-> a, left |-> Notifiers]
          /\ UNCHANGED <<condition, alertHistory>>
      BY <1>3 DEF BeginSend
    <2> HIDE DEF a
    <2>3. sending' \in Sendings
      BY <2>1, <2>2 DEF Sendings
    <2>4. idAge' \in [Alerts -> Ages] /\ rateAge' \in [RateKeys -> Ages] /\ quiet' \in [Alerts -> Ages]
      <3>1. 0 \in Ages
        BY DEF Ages
      <3> QED BY <2>2, <3>1 DEF RouterType
    <2> QED BY <2>1, <2>2, <2>3, <2>4 DEF RouterType
  <1>4. CASE Notify
    <2>1. sending \in Sendings /\ sending.left > 0 /\ sending' = [sending EXCEPT !.left = @ - 1]
      BY <1>4 DEF RouterType, Notify
    <2>2. sending' \in Sendings
      BY <2>1 DEF Sendings
    <2> QED BY <1>4, <2>2 DEF RouterType, Notify, monitors
  <1>5. CASE EndSend
    <2> DEFINE t == Append(alertHistory, sending.alert)
    <2>1. t \in Seq(Alerts) /\ Len(t) = Len(alertHistory) + 1
      BY <1>5, SentType, AppendProperties DEF RouterType, EndSend
    <2>2. alertHistory' = KeepLast(t)
      BY <1>5 DEF EndSend
    <2>3. Len(alertHistory) =< MaxHistory /\ Len(alertHistory) \in Nat
      BY DEF RouterType
    <2> HIDE DEF t
    <2>4. CASE Len(t) > MaxHistory
      <3>1. Len(t) = MaxHistory + 1 /\ alertHistory' = SubSeq(t, 2, Len(t))
        <4>1. Len(t) = MaxHistory + 1 /\ Len(t) - MaxHistory + 1 = 2
          BY <2>1, <2>3, <2>4
        <4> QED BY <2>2, <2>4, <4>1 DEF KeepLast
      <3>2. \A i \in 2..Len(t) : t[i] \in Alerts
        BY <2>1
      <3>3. SubSeq(t, 2, Len(t)) \in Seq(Alerts) /\ Len(SubSeq(t, 2, Len(t))) = MaxHistory
        BY <3>1, <3>2, SubSeqProperties
      <3> QED BY <1>5, <3>1, <3>3 DEF RouterType, EndSend, monitors
    <2>5. CASE ~(Len(t) > MaxHistory)
      <3>1. alertHistory' = t /\ Len(t) =< MaxHistory
        BY <2>1, <2>2, <2>3, <2>5 DEF KeepLast
      <3> QED BY <1>5, <2>1, <3>1 DEF RouterType, EndSend, monitors
    <2> QED BY <2>4, <2>5
  <1>6. CASE Tick
    <2>1. /\ idAge' \in [Alerts -> Ages] /\ rateAge' \in [RateKeys -> Ages]
          /\ quiet' \in [Alerts -> Ages]
      BY <1>6, OlderAges DEF RouterType, Tick
    <2> QED BY <1>6, <2>1 DEF RouterType, Tick
  <1>7. ASSUME NEW m \in Metrics, NEW n \in Nodes, NEW level \in Levels, SetCondition(m, n, level)
        PROVE  RouterType'
    BY <1>7 DEF RouterType, SetCondition, alerter
  <1>8. CASE (\E m \in Metrics : MonitorStops(m)) \/ Operator \/ Process \/ ProcessorStops \/ Cancel
    BY <1>8, SameRouter DEF MonitorStops, Operator, Abort, Schedule, Process, ProcessorStops, Cancel, monitors
  <1>9. CASE SetMaintenanceManager
    BY <1>9 DEF RouterType, SetMaintenanceManager, monitors
  <1>10. CASE UNCHANGED vars
    BY <1>10, SameRouter DEF vars, monitors
  <1> QED BY <1>1, <1>2, <1>3, <1>4, <1>5, <1>6, <1>7, <1>8, <1>9, <1>10 DEF Next, Monitor, Route

-----------------------------------------------------------------------------
(* The inductive step. *)

LEMMA NextAlerter == AlerterInv /\ [Next]_vars => AlerterInv'
  <1> SUFFICES ASSUME AlerterInv, [Next]_vars PROVE AlerterInv'
    OBVIOUS
  <1>0. RouterType /\ RouterType' /\ Sent \in Seq(Alerts)
    BY NextRouter, SentType DEF AlerterInv
  <1>1. ASSUME NEW m \in Metrics, NEW early \in BOOLEAN, BeginSend(m, early) PROVE AlerterInv'
    <2> DEFINE a == Head(pending[m])
    <2>1. a \in Alerts /\ ~Duplicate(a) /\ sending = NoSend
      BY <1>0, <1>1, HeadIsAlert DEF BeginSend
    <2>2. /\ idAge' = [idAge EXCEPT ![a] = 0]
          /\ rateAge' = [rateAge EXCEPT ![RateKey(a)] = 0]
          /\ quiet' = [quiet EXCEPT ![a] = 0]
          /\ sending' = [by |-> m, alert |-> a, left |-> Notifiers]
          /\ alertHistory' = alertHistory
      BY <1>1 DEF BeginSend
    <2> HIDE DEF a
    <2>3. quiet \in [Alerts -> Ages] /\ rateAge \in [RateKeys -> Ages] /\ idAge = quiet
      BY <1>0 DEF RouterType, AlerterInv, LimiterExact
    <2>4. quiet[a] = DedupWindow
      BY <2>1, <2>3, AlertingConstants DEF Duplicate, Ages
    <2>5. Sent' = Append(Sent, a)
      <3>1. sending' # NoSend
        <4>1. [by |-> m, alert |-> a, left |-> Notifiers] \in Sendings
          BY <2>1, AlertingConstants DEF Sendings
        <4> QED BY <2>2, <4>1, SendingIsSend
      <3>2. sending'.alert = a /\ Sent = alertHistory
        BY <2>1, <2>2 DEF Sent
      <3> QED BY <2>2, <3>1, <3>2 DEF Sent
    <2>6. InOrder(quiet', Sent') /\ Remembered(quiet', Sent')
      BY <1>0, <2>1, <2>2, <2>3, <2>4, <2>5, HistoryExtended DEF AlerterInv
    <2>7. KeysExact(quiet', rateAge')
      BY <2>1, <2>2, <2>3, LimiterExtended DEF AlerterInv, LimiterExact
    <2>8. idAge' = quiet'
      BY <2>2, <2>3
    <2> QED BY <1>0, <2>6, <2>7, <2>8 DEF AlerterInv, LimiterExact
  <1>2. CASE EndSend
    <2>1. UNCHANGED <<idAge, rateAge, quiet>> /\ Sent = Append(alertHistory, sending.alert)
      BY <1>0, <1>2, SentType DEF EndSend, monitors
    <2>2. Sent' = KeepLast(Sent)
      <3>1. alertHistory' = KeepLast(Sent) /\ sending' = NoSend
        BY <1>2, <2>1 DEF EndSend
      <3> QED BY <3>1 DEF Sent
    <2>3. InOrder(quiet, Sent') /\ Remembered(quiet, Sent')
      <3>1. Len(Sent) =< MaxHistory + 1 /\ Len(Sent) \in Nat
        <4>1. alertHistory \in Seq(Alerts) /\ sending.alert \in Alerts /\ Len(alertHistory) =< MaxHistory
          BY <1>0, <1>2, SentType DEF EndSend, RouterType
        <4> QED BY <2>1, <4>1, AppendProperties, AlertingConstants
      <3>2. CASE Len(Sent) > MaxHistory
        <4>1. Len(Sent) = MaxHistory + 1 /\ Sent' = SubSeq(Sent, 2, Len(Sent))
          BY <2>2, <3>1, <3>2, AlertingConstants DEF KeepLast
        <4>2. quiet \in [Alerts -> Ages]
          BY <1>0 DEF RouterType
        <4> QED BY <1>0, <4>1, <4>2, HistoryCut DEF AlerterInv
      <3>3. CASE ~(Len(Sent) > MaxHistory)
        BY <2>2, <3>3 DEF KeepLast, AlerterInv
      <3> QED BY <3>2, <3>3
    <2> QED BY <1>0, <2>1, <2>3 DEF AlerterInv, LimiterExact
  <1>3. CASE Tick
    <2>1. /\ idAge' = [a \in Alerts |-> Older(idAge[a])]
          /\ rateAge' = [k \in RateKeys |-> Older(rateAge[k])]
          /\ quiet' = [a \in Alerts |-> Older(quiet[a])]
          /\ UNCHANGED <<sending, alertHistory>>
      BY <1>3 DEF Tick
    <2>2. quiet \in [Alerts -> Ages] /\ rateAge \in [RateKeys -> Ages] /\ idAge = quiet
      BY <1>0 DEF RouterType, AlerterInv, LimiterExact
    <2>3. Sent' = Sent
      BY <2>1 DEF Sent
    <2>4. InOrder(quiet', Sent') /\ Remembered(quiet', Sent')
      BY <1>0, <2>1, <2>2, <2>3, HistoryAges DEF AlerterInv
    <2>5. KeysExact(quiet', rateAge')
      BY <2>1, <2>2, LimiterAges DEF AlerterInv, LimiterExact
    <2> QED BY <1>0, <2>1, <2>2, <2>4, <2>5 DEF AlerterInv, LimiterExact
  <1>4. CASE Notify
    <2>1. sending \in Sendings /\ sending' = [sending EXCEPT !.left = @ - 1]
      BY <1>0, <1>4 DEF RouterType, Notify
    <2>2. sending' # NoSend /\ sending'.alert = sending.alert
      <3>1. sending' \in Sendings
        BY <1>4, <2>1, AlertingConstants DEF Sendings, Notify
      <3> QED BY <2>1, <3>1, SendingIsSend DEF Sendings
    <2>3. UNCHANGED <<Sent, idAge, rateAge, quiet>>
      BY <1>4, <2>2 DEF Notify, Sent
    <2> QED BY <1>0, <2>3 DEF AlerterInv, LimiterExact
  <1>5. CASE UNCHANGED <<sending, alertHistory, idAge, rateAge, quiet>>
    <2>1. UNCHANGED <<Sent, idAge, rateAge, quiet>>
      BY <1>5 DEF Sent
    <2> QED BY <1>0, <2>1 DEF AlerterInv, LimiterExact
  <1>6. \/ \E m \in Metrics, early \in BOOLEAN : BeginSend(m, early)
        \/ EndSend \/ Tick \/ Notify \/ UNCHANGED <<sending, alertHistory, idAge, rateAge, quiet>>
    BY DEF Next, Monitor, Route, Evaluate, DropAlert, MonitorStops, SetCondition, Operator, Abort, Schedule,
           Process, ProcessorStops, Cancel, SetMaintenanceManager, vars, alerter, monitors
  <1> QED BY <1>1, <1>2, <1>3, <1>4, <1>5, <1>6

LEMMA InitAlerter == Init => AlerterInv
  <1> SUFFICES ASSUME Init PROVE AlerterInv
    OBVIOUS
  <1>1. 0 \in Ages /\ DedupWindow \in Ages
    BY AlertingConstants DEF Ages
  <1>2. RouterType
    BY <1>1, AlertingConstants DEF Init, RouterType, Levels
  <1>3. Sent = <<>>
    BY DEF Init, Sent
  <1>4. KeysExact(quiet, rateAge)
    <2> SUFFICES ASSUME NEW k \in RateKeys
                 PROVE  rateAge[k] = Min({quiet[a] : a \in OfKey(k)})
      BY DEF KeysExact
    <2> DEFINE S == {quiet[a] : a \in OfKey(k)}
    <2>1. S \subseteq Nat /\ S # {}
      BY <1>2, KeyAges DEF RouterType
    <2>2. \A y \in S : y = DedupWindow
      BY DEF Init, OfKey
    <2>3. rateAge[k] = DedupWindow
      BY DEF Init
    <2> HIDE DEF S
    <2>4. DedupWindow \in S /\ \A y \in S : DedupWindow =< y
      <3>1. PICK y \in S : TRUE
        BY <2>1
      <3>2. DedupWindow \in S
        BY <2>2, <3>1, Zenon
      <3> QED BY <2>2, <3>2, AlertingConstants
    <2>5. Min(S) = DedupWindow
      BY <2>1, <2>4, MinIs
    <2> QED BY <2>3, <2>5 DEF S
  <1>5. idAge = quiet
    BY DEF Init
  <1>6. InOrder(quiet, <<>>) /\ Remembered(quiet, <<>>)
    BY DEF Init, InOrder, Remembered
  <1> QED BY <1>2, <1>3, <1>4, <1>5, <1>6 DEF AlerterInv, LimiterExact

LEMMA AlerterInvariant == Spec => []AlerterInv
  BY InitAlerter, NextAlerter, PTL DEF Spec

(* The rate limiter remembers exactly what went out and the history the last of it:  *)
(* for all metrics, nodes, intervals and lengths, whatever the monitors find and      *)
(* the operators schedule (alerter.go, RouteAlert).                                   *)
THEOREM LimiterExactlyRemembers == Spec => []LimiterRemembersSends
  <1>1. AlerterInv => LimiterRemembersSends
    <2> SUFFICES ASSUME AlerterInv PROVE LimiterRemembersSends
      OBVIOUS
    <2>1. \A k \in RateKeys :
             rateAge[k] = Min({quiet[a] : a \in {b \in Alerts : RateKey(b) = k}})
      BY DEF AlerterInv, LimiterExact, KeysExact, OfKey
    <2>2. ASSUME NEW a \in Alerts, NEW i \in 1..Len(Sent), Sent[i] = a
          PROVE  (sending # NoSend /\ sending.alert = a) \/ a \in Range(alertHistory)
      <3>1. alertHistory \in Seq(Alerts)
        BY DEF AlerterInv, RouterType
      <3>2. CASE sending = NoSend
        BY <2>2, <3>1, <3>2 DEF Sent, Range
      <3>3. CASE sending # NoSend
        <4>1. Sent = Append(alertHistory, sending.alert) /\ sending.alert \in Alerts
          BY <3>3, SentType DEF AlerterInv
        <4>2. i = Len(alertHistory) + 1 \/ i \in 1..Len(alertHistory)
          BY <3>1, <4>1, AppendProperties
        <4>3. i = Len(alertHistory) + 1 => Sent[i] = sending.alert
          BY <3>1, <4>1, AppendProperties
        <4>4. i \in 1..Len(alertHistory) => Sent[i] = alertHistory[i]
          BY <3>1, <4>1, AppendProperties
        <4> QED BY <2>2, <3>1, <3>3, <4>2, <4>3, <4>4 DEF Range
      <3> QED BY <3>2, <3>3
    <2>3. \A a \in Alerts :
             \/ quiet[a] = DedupWindow
             \/ sending # NoSend /\ sending.alert = a
             \/ Cardinality(Newer(quiet, a)) >= MaxHistory
             \/ a \in Range(alertHistory)
      BY <2>2 DEF AlerterInv, Remembered
    <2> QED BY <2>1, <2>3 DEF LimiterRemembersSends, AlerterInv, LimiterExact, Newer
  <1> QED BY <1>1, AlerterInvariant, PTL

(* An alert goes out at most once in the deduplication window, alerts of one metric   *)
(* and severity at most once in the rate interval, and none about a node in a window  *)
(* the alerter knows of: for every step of the daemon (alerter.go, RouteAlert).       *)
THEOREM OnlyAllowedSends == Spec => SendsAllowed
  <1> DEFINE Allowed ==
         \A a \in Alerts :
            sending = NoSend /\ sending' # NoSend /\ sending'.alert = a =>
               /\ quiet[a] = DedupWindow
               /\ \A b \in Alerts : RateKey(b) = RateKey(a) => quiet[b] >= RateInterval
               /\ maintManager => ~IsSuppressed(a.node)
  <1>1. AlerterInv /\ [Next]_vars => [Allowed]_vars
    <2> SUFFICES ASSUME AlerterInv, [Next]_vars, sending = NoSend, sending' # NoSend,
                        NEW a \in Alerts, sending'.alert = a
                 PROVE  /\ quiet[a] = DedupWindow
                        /\ \A b \in Alerts : RateKey(b) = RateKey(a) => quiet[b] >= RateInterval
                        /\ maintManager => ~IsSuppressed(a.node)
      OBVIOUS
    <2>1. PICK m \in Metrics, early \in BOOLEAN : BeginSend(m, early)
      <3>1. \/ \E m \in Metrics, early \in BOOLEAN : BeginSend(m, early)
            \/ sending # NoSend \/ sending' = sending
        BY DEF Next, Monitor, Route, Evaluate, DropAlert, MonitorStops, SetCondition, Operator, Abort,
               Schedule, Process, ProcessorStops, Cancel, SetMaintenanceManager, Notify, EndSend, Tick,
               vars, alerter, monitors
      <3> QED BY <3>1
    <2>2. a = Head(pending[m]) /\ ~Duplicate(a) /\ ~RateLimited(a, early) /\ ~Suppressed(a)
      BY <2>1 DEF BeginSend
    <2>3. quiet \in [Alerts -> Ages] /\ rateAge \in [RateKeys -> Ages] /\ idAge = quiet
      BY DEF AlerterInv, RouterType, LimiterExact
    <2>4. quiet[a] = DedupWindow
      BY <2>2, <2>3, AlertingConstants DEF Duplicate, Ages
    <2>5. ASSUME NEW b \in Alerts, RateKey(b) = RateKey(a) PROVE quiet[b] >= RateInterval
      <3> DEFINE k == RateKey(a)
                 S == {quiet[c] : c \in OfKey(k)}
      <3>1. k \in RateKeys
        BY DEF RateKey, RateKeys, Alerts
      <3>2. ~(rateAge[k] < RateInterval) /\ rateAge[k] \in Nat
        BY <2>2, <2>3, <3>1, AlertingConstants DEF RateLimited, Ages
      <3>3. S \subseteq Nat /\ S # {} /\ quiet[b] \in S
        BY <2>3, <2>5, <3>1, KeyAges DEF OfKey
      <3>4. rateAge[k] = Min(S)
        BY <3>1 DEF AlerterInv, LimiterExact, KeysExact
      <3> HIDE DEF k, S
      <3>5. Min(S) =< quiet[b]
        BY <3>3, MinOf
      <3>6. Min(S) \in Nat /\ quiet[b] \in Nat /\ RateInterval \in Nat
        BY <3>2, <3>3, <3>4, AlertingConstants
      <3>7. RateInterval =< Min(S)
        BY <3>2, <3>4, <3>6
      <3> QED BY <3>5, <3>6, <3>7
    <2> QED BY <2>2, <2>4, <2>5 DEF Suppressed
  <1> QED BY <1>1, AlerterInvariant, PTL DEF Spec, SendsAllowed

=============================================================================
