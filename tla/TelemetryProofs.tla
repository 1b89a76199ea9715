-------------------------- MODULE TelemetryProofs --------------------------
(* Proofs about a node's telemetry service, for all tasks, retries and tries. *)
EXTENDS Telemetry, SequenceTheorems, TLAPS

Pulses == 1..MaxPulses

(* Durations move from the running task to the executor and from there to a          *)
(* heartbeat, so what was reported has completed and is not recorded any more.        *)
DurationsMoveOn ==
    /\ currentTask \in (started \ completed) \cup {NoTask}
    /\ processingDurations \subseteq completed
    /\ \A i \in 1..Len(carried) : carried[i] \subseteq completed
    /\ \A i, k \in 1..Len(carried) : i # k => carried[i] \cap carried[k] = {}
    /\ \A i \in 1..Len(carried) :
          (i = Current /\ pc = "totalled") \/ carried[i] \cap processingDurations = {}
    /\ pc = "collected" => carried[Current] = {}
    /\ pc \in {"collected", "totalled", "posting"} => Current # 0

(* Requests of a heartbeat whose body has reached the network: handled or under way. *)
Delivered(hb) == handled[hb] + inflight[hb]

(* A request delivers its body at most once, so a heartbeat that is being sent has at *)
(* most one delivery per attempt, counting this one if its body is spent; one that is  *)
(* not sent yet has none.                                                              *)
DeliveriesBounded ==
    \A hb \in Pulses :
        /\ Delivered(hb) =< MaxRetries + 1
        /\ hb = Current /\ pc = "posting" => Delivered(hb) =< attempt + (IF bodySpent THEN 1 ELSE 0)
        /\ hb > Current \/ (hb = Current /\ pc \in {"collected", "totalled"}) =>
              Delivered(hb) = 0
        /\ hb \in sent => handled[hb] > 0
        /\ stored[hb] =< handled[hb]

TelemetryInv == TypeOK /\ DurationsMoveOn /\ DeliveriesBounded

-----------------------------------------------------------------------------

(* The invariant says what ReportsBounded does, and more. *)
LEMMA InvBounds == TelemetryInv => ReportsBounded
  <1> SUFFICES ASSUME TelemetryInv PROVE ReportsBounded
    OBVIOUS
  <1>1. ASSUME NEW hb \in Pulses PROVE handled[hb] =< MaxRetries + 1
    BY TelemetryConstants DEF TelemetryInv, TypeOK, DeliveriesBounded, Delivered, Pulses
  <1> QED BY <1>1 DEF TelemetryInv, DurationsMoveOn, DeliveriesBounded, ReportsBounded, Pulses

LEMMA InitInv == Init => TelemetryInv
  <1> SUFFICES ASSUME Init PROVE TelemetryInv
    OBVIOUS
  <1> USE TelemetryConstants
  <1>1. TypeOK
    <2>1. ticked \in BOOLEAN /\ cancelled \in BOOLEAN /\ bodySpent \in BOOLEAN
      BY Zenon DEF Init
    <2>2. carried \in Seq(SUBSET Tasks) /\ Len(carried) <= MaxPulses
      BY DEF Init
    <2>3. /\ inflight \in [1..MaxPulses -> Nat] /\ sent \subseteq 1..MaxPulses
          /\ handled \in [1..MaxPulses -> Nat] /\ stored \in [1..MaxPulses -> Nat]
      BY DEF Init
    <2> QED BY <2>1, <2>2, <2>3 DEF Init, TypeOK
  <1>2. DurationsMoveOn
    BY DEF Init, DurationsMoveOn
  <1>3. DeliveriesBounded
    BY DEF Init, DeliveriesBounded, Delivered, Pulses, Current
  <1> QED BY <1>1, <1>2, <1>3 DEF TelemetryInv

(* What an attempt leaves behind when it fails: spent says whether its body left. *)
LEMMA AfterFailureSteps ==
  ASSUME TypeOK, NEW spent \in BOOLEAN, pc = "posting", AfterFailure(spent)
  PROVE  /\ attempt' \in 0..MaxRetries /\ try' \in 0..Tries /\ bodySpent' \in BOOLEAN
         /\ \/ pc' = "posting" /\ attempt' = attempt /\ bodySpent' = spent
            \/ pc' = "posting" /\ attempt' = attempt + 1 /\ bodySpent' = FALSE
            \/ pc' = "waiting" /\ attempt' = attempt /\ attempt = MaxRetries
  <1> USE TelemetryConstants
  <1>1. attempt \in 0..MaxRetries /\ try \in 0..Tries /\ bodySpent \in BOOLEAN
    BY DEF TypeOK
  <1>2. CASE try < Tries /\ try' = try + 1 /\ bodySpent' = spent /\ UNCHANGED <<pc, attempt>>
    <2>1. bodySpent' \in BOOLEAN /\ pc' = "posting" /\ attempt' = attempt /\ bodySpent' = spent
      BY <1>2, Zenon
    <2> QED BY <1>1, <1>2, <2>1
  <1>3. CASE try = Tries /\ RetriesLeft /\ attempt' = attempt + 1 /\ try' = 1 /\ bodySpent' = FALSE
             /\ UNCHANGED pc
    <2>1. bodySpent' \in BOOLEAN /\ pc' = "posting" /\ attempt' = attempt + 1 /\ bodySpent' = FALSE
      BY <1>3, Zenon
    <2>2. attempt' \in 0..MaxRetries
      BY <1>1, <1>3 DEF RetriesLeft
    <2>3. try' \in 0..Tries
      BY <1>3
    <2> QED BY <2>1, <2>2, <2>3, Zenon
  <1>4. CASE try = Tries /\ ~RetriesLeft /\ pc' = "waiting" /\ UNCHANGED request
    BY <1>1, <1>4 DEF RetriesLeft, request
  <1> QED BY <1>2, <1>3, <1>4, Zenon DEF AfterFailure

-----------------------------------------------------------------------------
(* Types. *)

LEMMA NextType == TypeOK /\ DurationsMoveOn /\ [Next]_vars => TypeOK'
  <1> SUFFICES ASSUME TypeOK, DurationsMoveOn, [Next]_vars PROVE TypeOK'
    OBVIOUS
  <1> USE TelemetryConstants
  <1>0. carried \in Seq(SUBSET Tasks) /\ Len(carried) \in Nat /\ Len(carried) =< MaxPulses
    BY DEF TypeOK
  <1>1. ASSUME NEW t \in Tasks, ExecuteTask(t) PROVE TypeOK'
    BY <1>1 DEF TypeOK, ExecuteTask, loop, request, backend
  <1>2. CASE CompleteTask
    BY <1>2 DEF TypeOK, DurationsMoveOn, CompleteTask, loop, request, backend
  <1>3. CASE Tick
    <2>1. ticked' \in BOOLEAN
      BY <1>3, Zenon DEF Tick
    <2> QED BY <1>3, <2>1 DEF TypeOK, Tick, executor, request, backend
  <1>4. ASSUME NEW first \in 1..Collectors, Collect(first) PROVE TypeOK'
    <2>2. carried' \in Seq(SUBSET Tasks) /\ Len(carried') = Len(carried) + 1
      BY <1>0, <1>4, AppendProperties DEF Collect
    <2>3. Len(carried') =< MaxPulses /\ lastPulse' \in 0..MaxPulses
      BY <1>0, <1>4, <2>2 DEF TypeOK, Collect
    <2> QED BY <1>4, <2>2, <2>3 DEF TypeOK, Collect, executor, request, backend
  <1>5. CASE CollectFails
    BY <1>5 DEF TypeOK, CollectFails, executor, request, backend
  <1>6. CASE TotalDurations
    <2>1. Current \in 1..Len(carried) /\ processingDurations \in SUBSET Tasks
      BY <1>0, <1>6 DEF TypeOK, DurationsMoveOn, TotalDurations, Current
    <2>2. carried' \in Seq(SUBSET Tasks) /\ Len(carried') = Len(carried)
      BY <1>0, <1>6, <2>1, ExceptSeq DEF TotalDurations
    <2> QED BY <1>0, <1>6, <2>2 DEF TypeOK, TotalDurations, executor, request, backend
  <1>7. CASE ResetDurations
    <2>1. bodySpent' \in BOOLEAN
      BY <1>7, Zenon DEF ResetDurations
    <2> QED BY <1>7, <2>1 DEF TypeOK, ResetDurations, backend
  <1>8. CASE TryRefused
    <2>1. attempt' \in 0..MaxRetries /\ try' \in 0..Tries /\ bodySpent' \in BOOLEAN
          /\ pc' \in {"posting", "waiting"}
      BY <1>8, AfterFailureSteps DEF TryRefused, TypeOK
    <2> QED BY <1>8, <2>1 DEF TypeOK, TryRefused, executor, backend
  <1>9. ASSUME NEW inserted \in BOOLEAN, TryAnswered(inserted) PROVE TypeOK'
    <2>1. Current \in 1..MaxPulses
      BY <1>0, <1>9 DEF DurationsMoveOn, TryAnswered, Current
    <2>2. handled' \in [1..MaxPulses -> Nat] /\ stored' \in [1..MaxPulses -> Nat]
      BY <1>9, <2>1 DEF TypeOK, TryAnswered, Handle
    <2> QED BY <1>9, <2>1, <2>2 DEF TypeOK, TryAnswered, executor, request
  <1>10. CASE TryUnanswered
    <2>1. attempt' \in 0..MaxRetries /\ try' \in 0..Tries /\ bodySpent' \in BOOLEAN
          /\ pc' \in {"posting", "waiting"}
      BY <1>10, AfterFailureSteps DEF TryUnanswered, TypeOK
    <2>2. inflight' \in [1..MaxPulses -> Nat]
      <3>1. Current \in 1..MaxPulses
        BY <1>0, <1>10 DEF DurationsMoveOn, TryUnanswered, Current
      <3>2. inflight' = [inflight EXCEPT ![Current] = inflight[Current] + 1]
        BY <1>10 DEF TryUnanswered
      <3> QED BY <3>1, <3>2 DEF TypeOK
    <2> QED BY <1>10, <2>1, <2>2 DEF TypeOK, TryUnanswered, executor
  <1>11. ASSUME NEW hb \in 1..MaxPulses, NEW inserted \in BOOLEAN, LateDelivery(hb, inserted)
         PROVE  TypeOK'
    <2>1. handled' \in [1..MaxPulses -> Nat] /\ stored' \in [1..MaxPulses -> Nat]
      <3>1. /\ handled' = [handled EXCEPT ![hb] = handled[hb] + 1]
            /\ stored' = [stored EXCEPT ![hb] = IF inserted THEN stored[hb] + 1 ELSE stored[hb]]
        BY <1>11 DEF LateDelivery, Handle
      <3>2. handled[hb] + 1 \in Nat /\ stored[hb] + 1 \in Nat /\ stored[hb] \in Nat
        BY DEF TypeOK
      <3> QED BY <3>1, <3>2 DEF TypeOK
    <2>2. inflight' \in [1..MaxPulses -> Nat]
      BY <1>11 DEF TypeOK, LateDelivery
    <2> QED BY <1>11, <2>1, <2>2 DEF TypeOK, LateDelivery, executor, loop, request
  <1>12. ASSUME NEW hb \in 1..MaxPulses, RequestLost(hb) PROVE TypeOK'
    <2>1. inflight' \in [1..MaxPulses -> Nat]
      BY <1>12 DEF TypeOK, RequestLost
    <2> QED BY <1>12, <2>1 DEF TypeOK, RequestLost, executor, loop, request
  <1>13. CASE Cancel
    <2>1. cancelled' \in BOOLEAN
      BY <1>13, Zenon DEF Cancel
    <2> QED BY <1>13, <2>1 DEF TypeOK, Cancel, executor, request, backend
  <1>14. CASE StopLoop
    BY <1>14 DEF TypeOK, StopLoop, executor, request, backend
  <1>15. CASE UNCHANGED vars
    BY <1>15 DEF TypeOK, vars, executor, loop, request, backend
  <1>16. CASE BeginPulse
    <2>1. ticked' \in BOOLEAN
      BY <1>16, Zenon DEF BeginPulse
    <2> QED BY <1>16, <2>1 DEF TypeOK, BeginPulse, executor, request, backend
  <1> QED BY <1>1, <1>2, <1>3, <1>4, <1>5, <1>6, <1>7, <1>8, <1>9, <1>10, <1>11, <1>12, <1>13,
             <1>14, <1>15, <1>16 DEF Next, Work, Gather, Post, Network

-----------------------------------------------------------------------------
(* Durations. *)

(* A step that touches neither the tasks nor what the heartbeats carry. *)
LEMMA SameDurations ==
  ASSUME DurationsMoveOn, UNCHANGED <<executor, carried>>,
         \/ pc' = pc
         \/ pc # "totalled" /\ pc' \in {"waiting", "collecting", "posting", "stopped"}
            /\ (pc' = "posting" => pc = "posting")
  PROVE  DurationsMoveOn'
  BY DEF DurationsMoveOn, executor, Current

LEMMA NextDurations == TypeOK /\ DurationsMoveOn /\ [Next]_vars => DurationsMoveOn'
  <1> SUFFICES ASSUME TypeOK, DurationsMoveOn, [Next]_vars PROVE DurationsMoveOn'
    OBVIOUS
  <1>0. carried \in Seq(SUBSET Tasks) /\ Len(carried) \in Nat /\ completed \subseteq started
    BY DEF TypeOK
  <1>1. ASSUME NEW t \in Tasks, ExecuteTask(t) PROVE DurationsMoveOn'
    <2>1. currentTask' \in (started' \ completed') \cup {NoTask}
      BY <1>0, <1>1 DEF ExecuteTask
    <2> QED BY <1>1, <2>1 DEF DurationsMoveOn, ExecuteTask, loop, Current
  <1>2. CASE CompleteTask
    <2>1. currentTask \in started \ completed
      BY <1>2 DEF DurationsMoveOn, CompleteTask
    <2>2. \A i \in 1..Len(carried) : currentTask \notin carried[i]
      BY <2>1 DEF DurationsMoveOn
    <2>3. \A i \in 1..Len(carried) :
             (i = Current /\ pc = "totalled") \/ carried[i] \cap processingDurations' = {}
      BY <1>2, <2>2 DEF DurationsMoveOn, CompleteTask
    <2>4. carried' = carried /\ pc' = pc
      BY <1>2 DEF CompleteTask, loop
    <2>5. /\ processingDurations' \subseteq completed' /\ completed \subseteq completed'
          /\ currentTask' = NoTask
      BY <1>2 DEF DurationsMoveOn, CompleteTask
    <2> QED BY <2>3, <2>4, <2>5 DEF DurationsMoveOn, Current
  <1>3. CASE Tick
    BY <1>3, SameDurations DEF Tick
  <1>4. ASSUME NEW first \in 1..Collectors, Collect(first) PROVE DurationsMoveOn'
    <2>1. /\ Len(carried') = Len(carried) + 1
          /\ \A i \in 1..Len(carried) : carried'[i] = carried[i]
          /\ carried'[Len(carried) + 1] = {}
      BY <1>0, <1>4, AppendProperties DEF Collect
    <2>2. \A i \in 1..Len(carried') : i \in 1..Len(carried) \/ carried'[i] = {}
      BY <1>0, <2>1
    <2>3. \A i \in 1..Len(carried) : carried[i] \cap processingDurations = {}
      BY <1>4 DEF DurationsMoveOn, Collect
    <2>4. UNCHANGED executor /\ pc' = "collected"
      BY <1>4 DEF Collect
    <2>5. Current' = Len(carried) + 1 /\ Current' # 0
      BY <1>0, <2>1 DEF Current
    <2> QED BY <2>1, <2>2, <2>3, <2>4, <2>5 DEF DurationsMoveOn, executor
  <1>5. CASE CollectFails
    BY <1>5, SameDurations DEF CollectFails
  <1>6. CASE TotalDurations
    <2>1. Current \in 1..Len(carried) /\ processingDurations \in SUBSET Tasks
      BY <1>0, <1>6 DEF TypeOK, DurationsMoveOn, TotalDurations, Current
    <2>2. /\ Len(carried') = Len(carried)
          /\ \A i \in 1..Len(carried) : carried'[i] = IF i = Current THEN processingDurations ELSE carried[i]
      BY <1>0, <1>6, <2>1, ExceptSeq DEF TotalDurations
    <2>3. Current' = Current /\ pc' = "totalled" /\ UNCHANGED executor
      BY <1>6, <2>2 DEF TotalDurations, Current
    <2>4. \A i \in 1..Len(carried) : i # Current => carried[i] \cap processingDurations = {}
      BY <1>6 DEF DurationsMoveOn, TotalDurations
    <2> QED BY <2>1, <2>2, <2>3, <2>4 DEF DurationsMoveOn, executor
  <1>7. CASE ResetDurations
    BY <1>7 DEF DurationsMoveOn, ResetDurations, Current
  <1>8. CASE TryRefused
    <2>1. pc' \in {"posting", "waiting"}
      BY <1>8, AfterFailureSteps DEF TryRefused, TypeOK
    <2> QED BY <1>8, <2>1, SameDurations DEF TryRefused
  <1>9. ASSUME NEW inserted \in BOOLEAN, TryAnswered(inserted) PROVE DurationsMoveOn'
    BY <1>9, SameDurations DEF TryAnswered
  <1>10. CASE TryUnanswered
    <2>1. pc' \in {"posting", "waiting"}
      BY <1>10, AfterFailureSteps DEF TryUnanswered, TypeOK
    <2> QED BY <1>10, <2>1, SameDurations DEF TryUnanswered
  <1>11. CASE Network
    BY <1>11, SameDurations DEF Network, LateDelivery, RequestLost, loop
  <1>12. CASE Cancel
    BY <1>12, SameDurations DEF Cancel
  <1>13. CASE StopLoop
    BY <1>13, SameDurations DEF StopLoop
  <1>14. CASE UNCHANGED vars
    BY <1>14, SameDurations DEF vars, loop
  <1>15. CASE BeginPulse
    BY <1>15, SameDurations DEF BeginPulse
  <1> QED BY <1>1, <1>2, <1>3, <1>4, <1>5, <1>6, <1>7, <1>8, <1>9, <1>10, <1>11, <1>12, <1>13,
             <1>14, <1>15 DEF Next, Work, Gather, Post

-----------------------------------------------------------------------------
(* Deliveries. *)

(* A step of the loop that reaches no server. *)
LEMMA SameDeliveries ==
  ASSUME TypeOK, DeliveriesBounded, UNCHANGED <<backend, carried, sent>>,
         \/ UNCHANGED <<pc, attempt, bodySpent>>
         \/ pc' \in {"waiting", "collecting", "stopped"} /\ pc \notin {"collected", "totalled"}
         \/ pc = "collected" /\ pc' = "totalled"
  PROVE  DeliveriesBounded'
  BY DEF DeliveriesBounded, Delivered, Pulses, Current, backend

LEMMA NextDeliveries == TypeOK /\ DurationsMoveOn /\ DeliveriesBounded /\ [Next]_vars => DeliveriesBounded'
  <1> SUFFICES ASSUME TypeOK, DurationsMoveOn, DeliveriesBounded, [Next]_vars PROVE DeliveriesBounded'
    OBVIOUS
  <1> USE TelemetryConstants
  <1>0. /\ carried \in Seq(SUBSET Tasks) /\ Len(carried) \in Nat /\ Len(carried) =< MaxPulses
        /\ attempt \in 0..MaxRetries /\ bodySpent \in BOOLEAN
        /\ \A hb \in Pulses : handled[hb] \in Nat /\ inflight[hb] \in Nat /\ stored[hb] \in Nat
    BY DEF TypeOK, Pulses
  <1>1. CASE Work
    BY <1>1, SameDeliveries DEF Work, ExecuteTask, CompleteTask, loop, request
  <1>2. CASE Tick \/ BeginPulse \/ CollectFails \/ Cancel
    BY <1>2, SameDeliveries DEF Tick, BeginPulse, CollectFails, Cancel, request
  <1>3. ASSUME NEW first \in 1..Collectors, Collect(first) PROVE DeliveriesBounded'
    <2>1. Len(carried') = Len(carried) + 1
      BY <1>0, <1>3, AppendProperties DEF Collect
    <2>2. Current' = Current + 1 /\ pc' = "collected" /\ UNCHANGED <<backend, sent>>
      BY <1>3, <2>1 DEF Collect, Current
    <2> QED BY <1>0, <2>2 DEF DeliveriesBounded, Delivered, Pulses, backend, Current
  <1>4. CASE TotalDurations
    <2>1. Current \in 1..Len(carried) /\ processingDurations \in SUBSET Tasks
      BY <1>0, <1>4 DEF TypeOK, DurationsMoveOn, TotalDurations, Current
    <2>2. Current' = Current
      BY <1>0, <1>4, <2>1, ExceptSeq DEF TotalDurations, Current
    <2> QED BY <1>4, <2>2 DEF TotalDurations, DeliveriesBounded, Delivered, Pulses, backend
  <1>5. CASE ResetDurations
    BY <1>0, <1>5 DEF ResetDurations, DeliveriesBounded, Delivered, Pulses, backend, Current
  <1>6. CASE TryRefused
    <2>1. \/ pc' = "posting" /\ attempt' = attempt /\ bodySpent' = bodySpent
          \/ pc' = "posting" /\ attempt' = attempt + 1 /\ bodySpent' = FALSE
          \/ pc' = "waiting" /\ attempt' = attempt
      BY <1>0, <1>6, AfterFailureSteps DEF TryRefused
    <2>2. pc = "posting" /\ UNCHANGED <<backend, carried, sent>>
      BY <1>6 DEF TryRefused
    <2> QED BY <1>0, <2>1, <2>2 DEF DeliveriesBounded, Delivered, Pulses, backend, Current
  <1>7. ASSUME NEW inserted \in BOOLEAN, TryAnswered(inserted) PROVE DeliveriesBounded'
    <2>1. Current \in Pulses /\ Delivered(Current) =< attempt
      BY <1>0, <1>7 DEF DurationsMoveOn, DeliveriesBounded, TryAnswered, Current, Pulses
    <2>2. /\ handled' = [handled EXCEPT ![Current] = handled[Current] + 1]
          /\ stored' = [stored EXCEPT ![Current] = IF inserted THEN stored[Current] + 1 ELSE stored[Current]]
          /\ pc' = "waiting" /\ sent' = sent \cup {Current} /\ UNCHANGED <<inflight, carried>>
      BY <1>7 DEF TryAnswered, Handle
    <2>3. /\ handled'[Current] = handled[Current] + 1 /\ stored'[Current] =< stored[Current] + 1
          /\ \A hb \in Pulses \ {Current} : handled'[hb] = handled[hb] /\ stored'[hb] = stored[hb]
      BY <1>0, <2>1, <2>2 DEF TypeOK, Pulses
    <2> QED BY <1>0, <2>1, <2>2, <2>3 DEF DeliveriesBounded, Delivered, Current
  <1>8. CASE TryUnanswered
    <2>1. Current \in Pulses /\ Delivered(Current) =< attempt
      BY <1>0, <1>8 DEF DurationsMoveOn, DeliveriesBounded, TryUnanswered, Current, Pulses
    <2>2. \/ pc' = "posting" /\ attempt' = attempt /\ bodySpent' = TRUE
          \/ pc' = "posting" /\ attempt' = attempt + 1 /\ bodySpent' = FALSE
          \/ pc' = "waiting" /\ attempt' = attempt
      BY <1>0, <1>8, AfterFailureSteps DEF TryUnanswered
    <2>3. pc = "posting" /\ UNCHANGED <<handled, stored, carried, sent>>
      BY <1>8 DEF TryUnanswered
    <2>4. PICK c \in Pulses : c = Current
      BY <2>1
    <2>5. /\ inflight'[c] = inflight[c] + 1
          /\ \A hb \in Pulses \ {c} : inflight'[hb] = inflight[hb]
      BY <1>8, <2>4 DEF TypeOK, TryUnanswered, Pulses
    <2>6. c = Current'
      BY <2>3, <2>4 DEF Current
    <2>7. ASSUME NEW hb \in Pulses
          PROVE  Delivered(hb)' = IF hb = c THEN Delivered(hb) + 1 ELSE Delivered(hb)
      <3>1. handled' = handled
        BY <2>3
      <3>2. CASE hb = c
        <4>1. inflight'[hb] = inflight[hb] + 1 /\ handled'[hb] = handled[hb]
          BY <2>5, <3>1, <3>2
        <4>2. handled[hb] \in Nat /\ inflight[hb] \in Nat
          BY <1>0
        <4>3. handled'[hb] + inflight'[hb] = (handled[hb] + inflight[hb]) + 1
          BY <4>1, <4>2
        <4> QED BY <3>2, <4>3, Zenon DEF Delivered
      <3>3. CASE hb # c
        BY <2>5, <3>1, <3>3 DEF Delivered
      <3> QED BY <3>2, <3>3
    <2>8. \A hb \in Pulses : Delivered(hb) \in Nat
      BY <1>0 DEF Delivered
    <2>9. \A hb \in Pulses : (hb \in sent' => handled'[hb] > 0) /\ stored'[hb] =< handled'[hb]
      BY <2>3 DEF DeliveriesBounded
    <2> HIDE DEF Delivered
    <2>10. /\ Delivered(c)' =< MaxRetries + 1
           /\ pc' = "posting" => Delivered(c)' =< attempt' + (IF bodySpent' THEN 1 ELSE 0)
      <3> DEFINE d == Delivered(c)'
      <3>1. d \in Nat /\ d =< attempt + 1
        BY <1>0, <2>1, <2>4, <2>7, <2>8
      <3> HIDE DEF d
      <3>2. CASE pc' = "posting" /\ attempt' = attempt /\ bodySpent' = TRUE
        <4>1. attempt' + (IF bodySpent' THEN 1 ELSE 0) = attempt + 1
          BY <1>0, <3>2
        <4> QED BY <1>0, <3>1, <4>1 DEF d
      <3>3. CASE pc' = "posting" /\ attempt' = attempt + 1 /\ bodySpent' = FALSE
        <4>1. attempt' + (IF bodySpent' THEN 1 ELSE 0) = attempt + 1
          BY <1>0, <3>3
        <4> QED BY <1>0, <3>1, <4>1 DEF d
      <3>4. CASE pc' = "waiting" /\ attempt' = attempt
        BY <1>0, <3>1, <3>4 DEF d
      <3> QED BY <2>2, <3>2, <3>3, <3>4
    <2>11. ~(pc' \in {"collected", "totalled"}) /\ c \in Nat
      BY <2>2, <2>4 DEF Pulses
    <2>12. ASSUME NEW hb \in Pulses
           PROVE  /\ Delivered(hb)' =< MaxRetries + 1
                  /\ hb = c /\ pc' = "posting" =>
                        Delivered(hb)' =< attempt' + (IF bodySpent' THEN 1 ELSE 0)
                  /\ hb > c => Delivered(hb)' = 0
      <3>1. CASE hb = c
        BY <2>10, <2>11, <3>1
      <3>2. CASE hb # c
        <4>1. Delivered(hb)' = Delivered(hb)
          BY <2>7, <3>2
        <4>2. Delivered(hb) =< MaxRetries + 1 /\ (hb > c => Delivered(hb) = 0)
          BY <2>4 DEF DeliveriesBounded
        <4> QED BY <2>8, <3>2, <4>1, <4>2
      <3> QED BY <3>1, <3>2, Zenon
    <2> QED BY <2>6, <2>9, <2>11, <2>12, Zenon DEF DeliveriesBounded, Pulses
  <1>9. ASSUME NEW late \in Pulses, NEW inserted \in BOOLEAN, LateDelivery(late, inserted)
        PROVE  DeliveriesBounded'
    <2>1. /\ handled' = [handled EXCEPT ![late] = handled[late] + 1]
          /\ stored' = [stored EXCEPT ![late] = IF inserted THEN stored[late] + 1 ELSE stored[late]]
          /\ inflight' = [inflight EXCEPT ![late] = inflight[late] - 1]
          /\ UNCHANGED <<pc, attempt, bodySpent, carried, sent>>
      BY <1>9 DEF LateDelivery, Handle, loop, request
    <2>2. ASSUME NEW hb \in Pulses
          PROVE  /\ Delivered(hb)' = Delivered(hb) /\ handled'[hb] >= handled[hb]
                 /\ handled'[hb] \in Nat
                 /\ stored'[hb] =< handled'[hb]
      <3>1. handled'[late] = handled[late] + 1 /\ inflight'[late] = inflight[late] - 1
        BY <1>0, <2>1 DEF TypeOK, Pulses
      <3>2. hb # late =>
               handled'[hb] = handled[hb] /\ inflight'[hb] = inflight[hb] /\ stored'[hb] = stored[hb]
        BY <2>1 DEF TypeOK, Pulses
      <3>3. stored'[late] = stored[late] \/ stored'[late] = stored[late] + 1
        BY <1>0, <2>1 DEF TypeOK, Pulses
      <3>4. stored[hb] =< handled[hb]
        BY DEF DeliveriesBounded
      <3>5. CASE hb = late
        <4>1. handled[late] \in Nat /\ inflight[late] \in Nat /\ stored[late] \in Nat
          BY <1>0
        <4>2. Delivered(late)' = Delivered(late)
          BY ONLY <3>1, <4>1 DEF Delivered
        <4>3. handled'[late] >= handled[late] /\ handled'[late] \in Nat /\ stored'[late] =< handled'[late]
          <5>1. stored[late] =< handled[late]
            BY <3>4, <3>5
          <5> QED BY ONLY <3>1, <3>3, <4>1, <5>1
        <4> QED BY <3>5, <4>2, <4>3
      <3>6. CASE hb # late
        BY <1>0, <3>2, <3>4, <3>6 DEF Delivered
      <3> QED BY <3>5, <3>6
    <2> QED BY <1>0, <2>1, <2>2 DEF DeliveriesBounded, Current
  <1>10. ASSUME NEW late \in Pulses, RequestLost(late) PROVE DeliveriesBounded'
    <2>1. /\ inflight' = [inflight EXCEPT ![late] = inflight[late] - 1] /\ inflight[late] > 0
          /\ UNCHANGED <<pc, attempt, bodySpent, carried, sent, handled, stored>>
      BY <1>10 DEF RequestLost, loop, request
    <2>2. \A hb \in Pulses : Delivered(hb)' =< Delivered(hb) /\ Delivered(hb)' \in Nat
      <3>1. inflight'[late] = inflight[late] - 1
        BY <2>1 DEF TypeOK, Pulses
      <3>2. \A hb \in Pulses \ {late} : inflight'[hb] = inflight[hb]
        BY <2>1 DEF TypeOK, Pulses
      <3> QED BY <1>0, <2>1, <3>1, <3>2 DEF Delivered
    <2>3. \A hb \in Pulses : Delivered(hb) \in Nat
      BY <1>0 DEF Delivered
    <2> HIDE DEF Delivered
    <2> QED BY <1>0, <2>1, <2>2, <2>3 DEF DeliveriesBounded, Current
  <1>11. CASE StopLoop
    BY <1>11, SameDeliveries DEF StopLoop
  <1>12. CASE UNCHANGED vars
    BY <1>12, SameDeliveries DEF vars, loop, request
  <1> QED BY <1>1, <1>2, <1>3, <1>4, <1>5, <1>6, <1>7, <1>8, <1>9, <1>10, <1>11, <1>12
          DEF Next, Gather, Post, Network, Pulses

(* Durations are reported once and a heartbeat is handled at most once per attempt:    *)
(* for all tasks, retries, tries and heartbeats, and whatever the network delays       *)
(* (main.go lines 40-84, pulse.go lines 90-152, reporter.go lines 32-86).              *)
THEOREM ReportsStayBounded == Spec => []ReportsBounded
  <1>1. TelemetryInv /\ [Next]_vars => TelemetryInv'
    BY NextType, NextDurations, NextDeliveries DEF TelemetryInv
  <1> QED BY InitInv, InvBounds, <1>1, PTL DEF Spec

=============================================================================
