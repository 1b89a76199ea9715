----------------------------- MODULE JobsProofs -----------------------------
(***************************************************************************)
(* Proofs about the job API, for any number of concurrent requests, ids    *)
(* and clients, any rate and any failures of the database.                 *)
(***************************************************************************)
EXTENDS Jobs, TLAPS

SubmissionType == [id : Ids, kind : Kinds, client : Clients, at : {"insert", "cache"}]
CancelPoints == {"update", "fallback", "metering", "unlocked", "write"}
CancelType == [id : Ids, kind : {"cancel"}, at : CancelPoints]

CallsType == calls \in [Requests -> CallType \cup {NoCall}]
WriteFindsRecord == \A r \in Requests : At(r, "write") => metering[calls[r].id] # NoRecord
MapsType ==
    /\ rows \in [Ids -> RowType \cup {NoJob}]
    /\ jobs \in [Ids -> JobType \cup {NoJob}]
    /\ metering \in [Ids -> RecordType \cup {NoRecord}]
    /\ acked \in [Ids -> AckType \cup {NoJob}]
    /\ db \in BOOLEAN /\ reused \subseteq Ids /\ cancelAcked \subseteq Ids
    /\ starts \in [Ids -> 0..MaxStarts] /\ bills \in [Ids -> Nat]
    /\ answered \in [Ids -> Int]

LEMMA TypeParts == TypeOK <=> CallsType /\ WriteFindsRecord /\ MapsType
  BY DEF TypeOK, CallsType, WriteFindsRecord, MapsType

-----------------------------------------------------------------------------
(* What the calls of the requests are, and what a step of one of them makes of them. *)

(* A request is at a point of a submission or at a point of a cancellation. *)
LEMMA CallAt ==
  ASSUME CallsType, NEW r \in Requests, NEW point, At(r, point)
  PROVE  /\ calls[r] # NoCall /\ calls[r].at = point /\ calls[r].id \in Ids
         /\ point \in {"insert", "cache"} => calls[r] \in SubmissionType
         /\ point \in CancelPoints => calls[r] \in CancelType
  <1>1. calls[r] # NoCall /\ calls[r].at = point /\ calls[r] \in SubmissionType \cup CancelType
    BY DEF CallsType, CallType, At, SubmissionType, CancelType, CancelPoints
  <1> QED BY <1>1 DEF SubmissionType, CancelType, CancelPoints

(* Goto moves one request on, and leaves what it is about as it is. *)
LEMMA Moved ==
  ASSUME CallsType, NEW r \in Requests, NEW from, NEW to, At(r, from), Goto(r, to),
         \/ from \in {"insert", "cache"} /\ to \in {"insert", "cache"}
         \/ from \in CancelPoints /\ to \in CancelPoints
  PROVE  /\ CallsType' /\ calls'[r] \in CallType
         /\ calls'[r].at = to /\ calls'[r].id = calls[r].id /\ calls'[r].kind = calls[r].kind
         /\ calls[r] \in SubmissionType => calls'[r].client = calls[r].client
         /\ \A q \in Requests \ {r} : calls'[q] = calls[q]
  <1>1. calls' = [calls EXCEPT ![r] = [calls[r] EXCEPT !.at = to]]
    BY DEF Goto, CallsType
  <1>2. CASE from \in {"insert", "cache"} /\ to \in {"insert", "cache"}
    <2>1. calls[r] \in SubmissionType
      BY <1>2, CallAt
    <2>2. /\ [calls[r] EXCEPT !.at = to] \in SubmissionType
          /\ calls'[r] = [calls[r] EXCEPT !.at = to]
      BY <1>1, <1>2, <2>1 DEF SubmissionType, CallsType
    <2> QED BY <1>1, <2>1, <2>2 DEF SubmissionType, CallsType, CallType
  <1>3. CASE from \in CancelPoints /\ to \in CancelPoints
    <2>1. calls[r] \in CancelType
      BY <1>3, CallAt
    <2>2. /\ [calls[r] EXCEPT !.at = to] \in CancelType
          /\ calls'[r] = [calls[r] EXCEPT !.at = to]
      BY <1>1, <1>3, <2>1 DEF CancelType, CallsType
    <2>3. calls[r].kind = "cancel"
      BY <2>1 DEF CancelType
    <2>4. calls[r] \notin SubmissionType
      BY <2>3 DEF SubmissionType, Kinds
    <2> QED BY <1>1, <2>1, <2>2, <2>4 DEF CancelType, CancelPoints, CallsType, CallType
  <1> QED BY <1>2, <1>3

LEMMA Answered ==
  ASSUME CallsType, NEW r \in Requests, Answer(r)
  PROVE  CallsType' /\ calls'[r] = NoCall /\ \A q \in Requests \ {r} : calls'[q] = calls[q]
  BY DEF CallsType, Answer

LEMMA Called ==
  ASSUME CallsType, NEW r \in Requests, NEW c \in CallType, calls' = [calls EXCEPT ![r] = c]
  PROVE  CallsType' /\ calls'[r] = c /\ \A q \in Requests \ {r} : calls'[q] = calls[q]
  BY DEF CallsType

(* No record of a metering that exists is taken away while a request is to write it. *)
LEMMA WritesKept ==
  ASSUME CallsType, WriteFindsRecord, NEW r \in Requests,
         \A q \in Requests \ {r} : calls'[q] = calls[q],
         calls'[r] # NoCall /\ calls'[r].at = "write" => metering'[calls'[r].id] # NoRecord,
         \A id \in Ids : metering[id] # NoRecord => metering'[id] # NoRecord
  PROVE  WriteFindsRecord'
  <1> SUFFICES ASSUME NEW q \in Requests, At(q, "write")' PROVE metering'[calls'[q].id] # NoRecord
    BY DEF WriteFindsRecord
  <1>1. CASE q = r
    BY <1>1 DEF At
  <1>2. CASE q # r
    <2>1. calls'[q] = calls[q] /\ At(q, "write")
      BY <1>2 DEF At
    <2>2. metering[calls[q].id] # NoRecord /\ calls[q].id \in Ids
      BY <2>1, CallAt DEF WriteFindsRecord
    <2> QED BY <2>1, <2>2
  <1> QED BY <1>1, <1>2

-----------------------------------------------------------------------------
(* Every variable keeps its type. *)

LEMMA InitType == Init => TypeOK
  <1> SUFFICES ASSUME Init PROVE CallsType /\ WriteFindsRecord /\ MapsType
    BY TypeParts
  <1>1. CallsType /\ WriteFindsRecord
    BY DEF Init, CallsType, WriteFindsRecord, At
  <1>2. db \in BOOLEAN
    BY Zenon DEF Init
  <1>3. MapsType
    BY <1>2, JobsConstants DEF Init, MapsType
  <1> QED BY <1>1, <1>3

LEMMA BillInt ==
  ASSUME MapsType, NEW id \in Ids, NEW units \in Units
  PROVE  Bill(id, units) \in Int
  <1>1. jobs[id] # NoJob => jobs[id].rate \in Nat
    BY JobsConstants DEF MapsType, JobType
  <1>2. Signed(units) \in Int
    BY JobsConstants DEF Signed
  <1> QED BY <1>1, <1>2 DEF Bill

LEMMA InsertType ==
  ASSUME TypeOK, NEW r \in Requests, NEW outcome \in Outcomes, Insert(r, outcome)
  PROVE  TypeOK'
  <1> USE TypeParts
  <1>0. CallsType /\ WriteFindsRecord /\ MapsType /\ At(r, "insert")
    BY DEF Insert
  <1>1. calls[r] \in SubmissionType /\ calls[r].id \in Ids
    BY <1>0, CallAt
  <1>2. [client |-> calls[r].client, kind |-> calls[r].kind, status |-> InitialStatus(calls[r].kind)] \in RowType
    BY <1>1 DEF SubmissionType, RowType, InitialStatus, Statuses
  <1>3. rows' \in [Ids -> RowType \cup {NoJob}]
    BY <1>0, <1>1, <1>2 DEF Insert, MapsType
  <1>4. MapsType'
    BY <1>0, <1>3 DEF Insert, MapsType, memory, history
  <1>5. /\ CallsType' /\ \A q \in Requests \ {r} : calls'[q] = calls[q]
        /\ calls'[r] = NoCall \/ calls'[r].at = "cache"
    <2>1. CASE Answer(r)
      BY <1>0, <2>1, Answered
    <2>2. CASE Goto(r, "cache")
      BY <1>0, <2>2, Moved
    <2> QED BY <2>1, <2>2 DEF Insert
  <1>6. WriteFindsRecord'
    BY <1>0, <1>5, WritesKept DEF Insert, memory
  <1> QED BY <1>4, <1>5, <1>6 DEF TypeOK, CallsType, WriteFindsRecord, MapsType

LEMMA SubmittingType ==
  ASSUME TypeOK, NEW r \in Requests, SubmitStep(r)
  PROVE  TypeOK'
  <1> USE TypeParts
  <1>0. CallsType /\ WriteFindsRecord /\ MapsType
    OBVIOUS
  <1>1. ASSUME NEW kind \in Kinds, NEW client \in Clients, NEW id \in Ids, Submit(r, kind, client, id)
        PROVE  TypeOK'
    <2> DEFINE c == [id |-> id, kind |-> kind, client |-> client,
                     at |-> IF db THEN "insert" ELSE "cache"]
    <2>1. c \in CallType /\ c.at # "write" /\ calls' = [calls EXCEPT ![r] = c]
      BY <1>1 DEF Submit, CallType
    <2>2. CallsType' /\ calls'[r] = c /\ \A q \in Requests \ {r} : calls'[q] = calls[q]
      <3> HIDE DEF c
      <3> QED BY <1>0, <2>1, Called
    <2>3. WriteFindsRecord'
      BY <1>0, <1>1, <2>1, <2>2, WritesKept DEF Submit, memory
    <2>4. MapsType'
      BY <1>0, <1>1 DEF Submit, MapsType, memory
    <2> QED BY <2>2, <2>3, <2>4 DEF TypeOK, CallsType, WriteFindsRecord, MapsType
  <1>2. ASSUME NEW outcome \in Outcomes, Insert(r, outcome) PROVE TypeOK'
    BY <1>2, InsertType
  <1>3. ASSUME Cache(r) PROVE TypeOK'
    <2>1. calls[r] \in SubmissionType /\ calls[r].id \in Ids
      BY <1>0, <1>3, CallAt DEF Cache
    <2>2. /\ [client |-> calls[r].client, status |-> InitialStatus(calls[r].kind),
              rate |-> IF calls[r].kind = "serverless" THEN Rate ELSE 0,
              totalBilled |-> 0, usageCounter |-> 0] \in JobType
          /\ [client |-> calls[r].client, kind |-> calls[r].kind] \in AckType
      BY <2>1, JobsConstants DEF SubmissionType, JobType, AckType, InitialStatus, Statuses
    <2>3. MapsType'
      BY <1>0, <1>3, <2>1, <2>2 DEF Cache, MapsType
    <2>4. CallsType' /\ calls'[r] = NoCall /\ \A q \in Requests \ {r} : calls'[q] = calls[q]
      BY <1>0, <1>3, Answered DEF Cache
    <2>5. WriteFindsRecord'
      BY <1>0, <1>3, <2>4, WritesKept DEF Cache
    <2> QED BY <2>3, <2>4, <2>5 DEF TypeOK, CallsType, WriteFindsRecord, MapsType
  <1> QED BY <1>1, <1>2, <1>3 DEF SubmitStep

LEMMA CancellationType ==
  ASSUME TypeOK, NEW r \in Requests, CancelStep(r)
  PROVE  TypeOK'
  <1> USE TypeParts
  <1>0. CallsType /\ WriteFindsRecord /\ MapsType
    OBVIOUS
  <1>1. ASSUME NEW id \in Ids, Cancel(r, id) PROVE TypeOK'
    <2> DEFINE c == [id |-> id, kind |-> "cancel", at |-> IF db THEN "update" ELSE "fallback"]
    <2>1. c \in CallType /\ c.at # "write" /\ calls' = [calls EXCEPT ![r] = c]
      BY <1>1 DEF Cancel, CallType
    <2>2. CallsType' /\ calls'[r] = c /\ \A q \in Requests \ {r} : calls'[q] = calls[q]
      <3> HIDE DEF c
      <3> QED BY <1>0, <2>1, Called
    <2>3. WriteFindsRecord'
      BY <1>0, <1>1, <2>1, <2>2, WritesKept DEF Cancel, memory
    <2>4. MapsType'
      BY <1>0, <1>1 DEF Cancel, MapsType, memory, history
    <2> QED BY <2>2, <2>3, <2>4 DEF TypeOK, CallsType, WriteFindsRecord, MapsType
  <1>2. ASSUME NEW outcome \in Outcomes, CancelUpdate(r, outcome) PROVE TypeOK'
    <2>1. At(r, "update") /\ calls[r].id \in Ids
      BY <1>0, <1>2, CallAt DEF CancelUpdate
    <2>2. rows' \in [Ids -> RowType \cup {NoJob}]
      BY <1>0, <1>2, <2>1 DEF CancelUpdate, MapsType, RowType, Statuses
    <2>3. MapsType'
      BY <1>0, <1>2, <2>2 DEF CancelUpdate, MapsType, memory, history
    <2>4. Goto(r, "metering") \/ Goto(r, "fallback")
      BY <1>2 DEF CancelUpdate
    <2>5. /\ CallsType' /\ \A q \in Requests \ {r} : calls'[q] = calls[q]
          /\ calls'[r].at \in {"metering", "fallback"}
      BY <1>0, <2>1, <2>4, Moved DEF CancelPoints
    <2>6. WriteFindsRecord'
      BY <1>0, <1>2, <2>5, WritesKept DEF CancelUpdate, memory
    <2> QED BY <2>3, <2>5, <2>6 DEF TypeOK, CallsType, WriteFindsRecord, MapsType
  <1>3. ASSUME CancelMetering(r) \/ CancelWriteUnlocked(r) PROVE TypeOK'
    <2>1. CallsType' /\ calls'[r] = NoCall /\ \A q \in Requests \ {r} : calls'[q] = calls[q]
      BY <1>0, <1>3, Answered DEF CancelMetering, CancelWriteUnlocked, CancelAnswered
    <2>2. /\ calls[r].id \in Ids /\ (At(r, "metering") \/ At(r, "write"))
          /\ At(r, "write") => metering[calls[r].id] # NoRecord
      BY <1>0, <1>3, CallAt DEF CancelMetering, CancelWriteUnlocked, WriteFindsRecord
    <2>3. \/ metering' = metering
          \/ /\ metering[calls[r].id] # NoRecord
             /\ metering' = [metering EXCEPT ![calls[r].id].status = "done"]
      BY <1>3, <2>2 DEF CancelMetering, CancelWriteUnlocked, MeteringActive
    <2>4. /\ metering' \in [Ids -> RecordType \cup {NoRecord}]
          /\ \A id \in Ids : metering[id] # NoRecord => metering'[id] # NoRecord
      BY <1>0, <2>2, <2>3, JobsConstants DEF MapsType, RecordType
    <2>5. WriteFindsRecord'
      BY <1>0, <2>1, <2>4, WritesKept
    <2>6. MapsType'
      BY <1>0, <1>3, <2>2, <2>4, CallAt
         DEF CancelMetering, CancelWriteUnlocked, CancelAnswered, MapsType
    <2> QED BY <2>1, <2>5, <2>6 DEF TypeOK, CallsType, WriteFindsRecord, MapsType
  <1>4. ASSUME CancelFallback(r) PROVE TypeOK'
    <2>1. At(r, "fallback") /\ calls[r].id \in Ids
      BY <1>0, <1>4, CallAt DEF CancelFallback
    <2>2. jobs' \in [Ids -> JobType \cup {NoJob}]
      BY <1>0, <1>4, <2>1 DEF CancelFallback, MapsType, JobType, Statuses
    <2>3. MapsType'
      BY <1>0, <1>4, <2>2 DEF CancelFallback, MapsType, history
    <2>4. /\ CallsType' /\ \A q \in Requests \ {r} : calls'[q] = calls[q]
          /\ calls'[r] = NoCall \/ calls'[r].at = "unlocked"
      BY <1>0, <1>4, <2>1, Moved, Answered DEF CancelFallback, CancelPoints
    <2>5. WriteFindsRecord'
      BY <1>0, <1>4, <2>4, WritesKept DEF CancelFallback
    <2> QED BY <2>3, <2>4, <2>5 DEF TypeOK, CallsType, WriteFindsRecord, MapsType
  <1>5. ASSUME CancelReadUnlocked(r) PROVE TypeOK'
    <2>1. At(r, "unlocked") /\ calls[r].id \in Ids
      BY <1>0, <1>5, CallAt DEF CancelReadUnlocked
    <2>2. /\ CallsType' /\ \A q \in Requests \ {r} : calls'[q] = calls[q]
          /\ \/ calls'[r] = NoCall
             \/ calls'[r].id = calls[r].id /\ metering[calls[r].id] # NoRecord
      BY <1>0, <1>5, <2>1, Moved, Answered
         DEF CancelReadUnlocked, CancelAnswered, CancelPoints, MeteringActive
    <2>3. MapsType'
      BY <1>0, <1>5, <2>1 DEF CancelReadUnlocked, CancelAnswered, MapsType, memory
    <2>4. metering' = metering
      BY <1>5 DEF CancelReadUnlocked, memory
    <2>5. WriteFindsRecord'
      BY <1>0, <2>2, <2>4, WritesKept
    <2> QED BY <2>2, <2>3, <2>5 DEF TypeOK, CallsType, WriteFindsRecord, MapsType
  <1> QED BY <1>1, <1>2, <1>3, <1>4, <1>5 DEF CancelStep

(* The remainder of an integer. *)
LEMMA Remainder ==
  ASSUME NEW x \in Int, NEW m \in Nat \ {0}
  PROVE  /\ x \div m \in Int /\ x % m \in 0..(m - 1)
         /\ x = (m * (x \div m)) + (x % m)
  BY SMT

LEMMA BilledType ==
  ASSUME NEW job \in JobType, NEW bill \in Int, NEW units \in Nat
  PROVE  [job EXCEPT !.totalBilled = job.totalBilled + bill,
                     !.usageCounter = (job.usageCounter + units) % Modulus] \in JobType
  <1>1. job.totalBilled + bill \in Int /\ job.usageCounter + units \in Int
    BY JobsConstants DEF JobType
  <1>2. (job.usageCounter + units) % Modulus \in 0..(Modulus - 1)
    BY <1>1, Remainder, JobsConstants
  <1> QED BY <1>1, <1>2 DEF JobType

LEMMA MeteringType ==
  ASSUME TypeOK, NEW id \in Ids, NEW units \in Units,
         StartMetering(id, units) \/ StopMetering(id, units)
  PROVE  TypeOK'
  <1>0. CallsType /\ WriteFindsRecord /\ MapsType
    BY TypeParts
  <1>1. calls' = calls /\ CallsType'
    BY <1>0 DEF StartMetering, StopMetering, CallsType
  <1>2. \E status \in {"active", "done"} :
            metering' = [metering EXCEPT ![id] = [status |-> status, units |-> units]]
    BY DEF StartMetering, StopMetering
  <1>3. /\ metering' \in [Ids -> RecordType \cup {NoRecord}]
        /\ \A i \in Ids : metering[i] # NoRecord => metering'[i] # NoRecord
    BY <1>0, <1>2, JobsConstants DEF MapsType, RecordType
  <1>4. WriteFindsRecord'
    BY <1>0, <1>1, <1>3, CallAt DEF WriteFindsRecord, At
  <1>5. starts' \in [Ids -> 0..MaxStarts] /\ bills' \in [Ids -> Nat]
    BY <1>0, JobsConstants DEF StartMetering, StopMetering, MapsType
  <1>6. jobs' \in [Ids -> JobType \cup {NoJob}] /\ answered' \in [Ids -> Int]
    <2>1. Bill(id, units) \in Int /\ units \in Nat
      BY <1>0, BillInt, JobsConstants
    <2>2. CASE StartMetering(id, units)
      BY <1>0, <2>2 DEF StartMetering, MapsType
    <2>3. CASE StopMetering(id, units)
      <3>1. answered' \in [Ids -> Int]
        BY <1>0, <2>1, <2>3 DEF StopMetering, MapsType
      <3>2. CASE jobs[id] = NoJob
        BY <1>0, <2>3, <3>1, <3>2 DEF StopMetering, MapsType
      <3>3. CASE jobs[id] # NoJob
        <4>1. /\ jobs[id] \in JobType
              /\ jobs' = [jobs EXCEPT ![id] =
                            [jobs[id] EXCEPT !.totalBilled = jobs[id].totalBilled + Bill(id, units),
                                             !.usageCounter = (jobs[id].usageCounter + units) % Modulus]]
          BY <1>0, <2>3, <3>3 DEF StopMetering, MapsType
        <4>2. [jobs[id] EXCEPT !.totalBilled = jobs[id].totalBilled + Bill(id, units),
                               !.usageCounter = (jobs[id].usageCounter + units) % Modulus] \in JobType
          BY <2>1, <4>1, BilledType
        <4> QED BY <1>0, <3>1, <4>1, <4>2 DEF MapsType
      <3> QED BY <3>1, <3>2, <3>3
    <2> QED BY <2>2, <2>3
  <1>7. MapsType'
    BY <1>0, <1>3, <1>5, <1>6 DEF StartMetering, StopMetering, MapsType
  <1> QED BY <1>1, <1>4, <1>7 DEF TypeOK, CallsType, WriteFindsRecord, MapsType

LEMMA NextType == TypeOK /\ [Next]_vars => TypeOK'
  <1> SUFFICES ASSUME TypeOK, [Next]_vars PROVE TypeOK'
    OBVIOUS
  <1>1. ASSUME NEW r \in Requests, SubmitStep(r) PROVE TypeOK'
    BY <1>1, SubmittingType
  <1>2. ASSUME NEW r \in Requests, CancelStep(r) PROVE TypeOK'
    BY <1>2, CancellationType
  <1>3. ASSUME Metering PROVE TypeOK'
    BY <1>3, MeteringType DEF Metering
  <1>4. ASSUME Restart PROVE TypeOK'
    BY <1>4 DEF Restart, TypeOK, At
  <1>5. CASE UNCHANGED vars
    BY <1>5 DEF vars, memory, history, TypeOK, At
  <1> QED BY <1>1, <1>2, <1>3, <1>4, <1>5 DEF Next

(* Type correctness of the job API: in particular CancelJob, which writes the metering *)
(* record it read before without the lock, always finds one.                           *)
THEOREM JobsTypes == Spec => []TypeOK
  BY InitType, NextType, PTL DEF Spec

-----------------------------------------------------------------------------
(* SubmitJob stores a dedicated job before it caches and answers it. *)

Stored(id, client) == rows[id] # NoJob /\ rows[id].client = client

(* With a database, what a dedicated submission is about to cache is in the table. *)
StoredBeforeCached ==
    db => \A r \in Requests :
        At(r, "cache") /\ calls[r].kind = "dedicated" => Stored(calls[r].id, calls[r].client)

(* No step takes a row away or gives it to another client. *)
LEMMA RowsStay ==
  ASSUME TypeOK, [Next]_vars, NEW id \in Ids, NEW client, Stored(id, client)
  PROVE  Stored(id, client)'
  <1>0. CallsType /\ MapsType
    BY TypeParts
  <1>1. ASSUME NEW r \in Requests, NEW outcome \in Outcomes, Insert(r, outcome)
        PROVE  Stored(id, client)'
    <2>1. calls[r].id \in Ids /\ (rows'[id] = rows[id] \/ rows[id] = NoJob)
      BY <1>0, <1>1, CallAt DEF Insert, MapsType
    <2> QED BY <2>1 DEF Stored
  <1>2. ASSUME NEW r \in Requests, NEW outcome \in Outcomes, CancelUpdate(r, outcome)
        PROVE  Stored(id, client)'
    <2>1. rows[id] \in RowType
      BY <1>0 DEF Stored, MapsType
    <2>2. \/ rows'[id] = rows[id]
          \/ rows'[id] = [rows[id] EXCEPT !.status = "cancelled"]
      BY <1>0, <1>2 DEF CancelUpdate, MapsType
    <2>3. [rows[id] EXCEPT !.status = "cancelled"] \in RowType
      BY <2>1 DEF RowType, Statuses
    <2> QED BY <2>1, <2>2, <2>3, JobsConstants DEF Stored, RowType
  <1>3. ASSUME UNCHANGED rows PROVE Stored(id, client)'
    BY <1>3 DEF Stored
  <1> QED BY <1>1, <1>2, <1>3
       DEF Next, vars, SubmitStep, CancelStep, Metering, Restart, Submit, Cache, Cancel, CancelMetering,
           CancelFallback, CancelReadUnlocked, CancelWriteUnlocked, StartMetering, StopMetering

LEMMA AckedStay ==
  ASSUME TypeOK, [Next]_vars, AcknowledgedIsDurable, db' = db, acked' = acked
  PROVE  AcknowledgedIsDurable'
  <1> SUFFICES ASSUME db, NEW id \in Ids, acked[id] # NoJob, acked[id].kind = "dedicated"
               PROVE  rows'[id] # NoJob /\ rows'[id].client = acked[id].client
    BY DEF AcknowledgedIsDurable
  <1>1. Stored(id, acked[id].client)
    BY DEF AcknowledgedIsDurable, Stored
  <1> QED BY <1>1, RowsStay DEF Stored

(* A step that brings no request to the cache leaves the two facts as they are. *)
LEMMA DurableFrame ==
  ASSUME TypeOK, [Next]_vars, StoredBeforeCached, AcknowledgedIsDurable,
         db' = db, acked' = acked,
         \A q \in Requests : At(q, "cache")' => calls'[q] = calls[q]
  PROVE  StoredBeforeCached' /\ AcknowledgedIsDurable'
  <1>0. CallsType /\ MapsType
    BY TypeParts
  <1>1. StoredBeforeCached'
    <2> SUFFICES ASSUME db, NEW q \in Requests, At(q, "cache")', calls'[q].kind = "dedicated"
                 PROVE  Stored(calls[q].id, calls[q].client)'
      BY DEF StoredBeforeCached
    <2>1. calls'[q] = calls[q] /\ At(q, "cache")
      BY DEF At
    <2>2. Stored(calls[q].id, calls[q].client) /\ calls[q].id \in Ids
      BY <1>0, <2>1, CallAt DEF StoredBeforeCached
    <2>3. rows'[calls[q].id] # NoJob /\ rows'[calls[q].id].client = calls[q].client
      BY <2>2, RowsStay DEF Stored
    <2> QED BY <2>1, <2>3 DEF Stored
  <1>2. AcknowledgedIsDurable'
    BY AckedStay
  <1> QED BY <1>1, <1>2

(* A cancellation brings no request to the points of a submission. *)
LEMMA CancelNotCache ==
  ASSUME CallsType, NEW r \in Requests, CancelStep(r),
         NEW q \in Requests, NEW point \in {"insert", "cache"}, At(q, point)'
  PROVE  calls'[q] = calls[q]
  <1>1. ASSUME NEW id \in Ids, Cancel(r, id) PROVE calls'[q] = calls[q]
    BY <1>1 DEF Cancel, At, CallsType
  <1>2. ASSUME NEW from \in CancelPoints, NEW to \in CancelPoints, At(r, from), Goto(r, to)
        PROVE  calls'[q] = calls[q]
    <2>1. calls'[r].at = to /\ \A x \in Requests \ {r} : calls'[x] = calls[x]
      BY <1>2, Moved
    <2> QED BY <2>1 DEF At, CancelPoints
  <1>3. ASSUME Answer(r) PROVE calls'[q] = calls[q]
    BY <1>3, Answered DEF At
  <1> QED BY <1>1, <1>2, <1>3
       DEF CancelStep, CancelUpdate, CancelMetering, CancelFallback, CancelReadUnlocked,
           CancelWriteUnlocked, CancelAnswered, CancelPoints

LEMMA DurableKept ==
  ASSUME TypeOK, [Next]_vars, StoredBeforeCached, AcknowledgedIsDurable
  PROVE  StoredBeforeCached' /\ AcknowledgedIsDurable'
  <1>0. CallsType /\ MapsType
    BY TypeParts
  <1>1. ASSUME NEW r \in Requests, NEW kind \in Kinds, NEW client \in Clients, NEW id \in Ids,
               Submit(r, kind, client, id)
        PROVE  StoredBeforeCached' /\ AcknowledgedIsDurable'
    <2>1. CASE db
      <3>1. /\ calls'[r].at = "insert"
            /\ \A q \in Requests \ {r} : calls'[q] = calls[q]
        BY <1>0, <1>1, <2>1 DEF Submit, CallsType
      <3> QED BY <1>1, <3>1, DurableFrame DEF Submit, At
    <2>2. CASE ~db
      BY <1>1, <2>2 DEF Submit, StoredBeforeCached, AcknowledgedIsDurable
    <2> QED BY <2>1, <2>2
  <1>2. ASSUME NEW r \in Requests, NEW outcome \in Outcomes, Insert(r, outcome)
        PROVE  StoredBeforeCached' /\ AcknowledgedIsDurable'
    <2>1. At(r, "insert") /\ calls[r] \in SubmissionType /\ calls[r].id \in Ids
      BY <1>0, <1>2, CallAt DEF Insert
    <2>2. /\ db' = db /\ acked' = acked
          /\ \A q \in Requests \ {r} : calls'[q] = calls[q]
      <3>1. CASE Answer(r)
        BY <1>0, <1>2, <3>1, Answered DEF Insert, history
      <3>2. CASE Goto(r, "cache")
        BY <1>0, <1>2, <2>1, <3>2, Moved DEF Insert, history
      <3> QED BY <1>2, <3>1, <3>2 DEF Insert
    <2>3. CASE Answer(r)
      <3>1. calls'[r] = NoCall
        BY <1>0, <2>3, Answered
      <3> QED BY <2>2, <3>1, DurableFrame DEF At
    <2>4. CASE Goto(r, "cache") /\ calls[r].kind # "dedicated"
      <3>1. calls'[r].kind # "dedicated"
        BY <1>0, <2>1, <2>4, Moved
      <3>2. StoredBeforeCached'
        <4> SUFFICES ASSUME db, NEW q \in Requests, At(q, "cache")', calls'[q].kind = "dedicated"
                     PROVE  Stored(calls[q].id, calls[q].client)'
          BY <2>2 DEF StoredBeforeCached
        <4>1. calls'[q] = calls[q] /\ At(q, "cache")
          BY <2>2, <3>1 DEF At
        <4>2. Stored(calls[q].id, calls[q].client) /\ calls[q].id \in Ids
          BY <1>0, <4>1, CallAt DEF StoredBeforeCached
        <4>3. rows'[calls[q].id] # NoJob /\ rows'[calls[q].id].client = calls[q].client
          BY <4>2, RowsStay DEF Stored
        <4> QED BY <4>1, <4>3 DEF Stored
      <3>3. AcknowledgedIsDurable'
        BY <2>2, AckedStay
      <3> QED BY <3>2, <3>3
    <2>5. CASE Goto(r, "cache") /\ calls[r].kind = "dedicated"
      <3>1. /\ rows[calls[r].id] = NoJob
            /\ rows' = [rows EXCEPT ![calls[r].id] =
                          [client |-> calls[r].client, kind |-> calls[r].kind,
                           status |-> InitialStatus(calls[r].kind)]]
        <4>1. ~Answer(r)
          BY <1>0, <2>1, <2>5, Answered, Moved, JobsConstants
        <4> QED BY <1>2, <2>5, <4>1 DEF Insert
      <3>2. [client |-> calls[r].client, kind |-> calls[r].kind,
             status |-> InitialStatus(calls[r].kind)] \in RowType
        BY <2>1 DEF SubmissionType, RowType, InitialStatus, Statuses
      <3>3. rows'[calls[r].id] # NoJob /\ rows'[calls[r].id].client = calls[r].client
        BY <1>0, <2>1, <3>1, <3>2, JobsConstants DEF MapsType
      <3>4. calls'[r].id = calls[r].id /\ calls'[r].client = calls[r].client
        BY <1>0, <2>1, <2>5, Moved
      <3>5. StoredBeforeCached'
        <4> SUFFICES ASSUME db, NEW q \in Requests, At(q, "cache")', calls'[q].kind = "dedicated"
                     PROVE  Stored(calls[q].id, calls[q].client)'
          BY <2>2 DEF StoredBeforeCached
        <4>1. CASE q = r
          BY <3>3, <3>4, <4>1 DEF Stored
        <4>2. CASE q # r
          <5>1. calls'[q] = calls[q] /\ At(q, "cache")
            BY <2>2, <4>2 DEF At
          <5>2. Stored(calls[q].id, calls[q].client) /\ calls[q].id \in Ids
            BY <1>0, <5>1, CallAt DEF StoredBeforeCached
          <5>3. rows'[calls[q].id] # NoJob /\ rows'[calls[q].id].client = calls[q].client
            BY <5>2, RowsStay DEF Stored
          <5> QED BY <5>1, <5>3 DEF Stored
        <4> QED BY <4>1, <4>2
      <3>6. AcknowledgedIsDurable'
        BY <2>2, AckedStay
      <3> QED BY <3>5, <3>6
    <2> QED BY <1>2, <2>3, <2>4, <2>5 DEF Insert
  <1>3. ASSUME NEW r \in Requests, Cache(r) PROVE StoredBeforeCached' /\ AcknowledgedIsDurable'
    <2>1. At(r, "cache") /\ calls[r].id \in Ids /\ db' = db /\ rows' = rows
      BY <1>0, <1>3, CallAt DEF Cache
    <2>2. calls'[r] = NoCall /\ \A q \in Requests \ {r} : calls'[q] = calls[q]
      BY <1>0, <1>3, Answered DEF Cache
    <2>3. acked' = [acked EXCEPT ![calls[r].id] = [client |-> calls[r].client, kind |-> calls[r].kind]]
      BY <1>3 DEF Cache
    <2>4. StoredBeforeCached'
      BY <2>1, <2>2 DEF StoredBeforeCached, Stored, At
    <2>5. AcknowledgedIsDurable'
      <3> SUFFICES ASSUME db, NEW id \in Ids, acked'[id] # NoJob, acked'[id].kind = "dedicated"
                   PROVE  rows[id] # NoJob /\ rows[id].client = acked'[id].client
        BY <2>1 DEF AcknowledgedIsDurable
      <3>1. CASE id = calls[r].id
        <4>1. acked'[id].kind = calls[r].kind /\ acked'[id].client = calls[r].client
          BY <1>0, <2>1, <2>3, <3>1 DEF MapsType
        <4> QED BY <2>1, <3>1, <4>1 DEF StoredBeforeCached, Stored
      <3>2. CASE id # calls[r].id
        BY <1>0, <2>1, <2>3, <3>2 DEF AcknowledgedIsDurable, MapsType
      <3> QED BY <3>1, <3>2
    <2> QED BY <2>4, <2>5
  <1>4. ASSUME NEW r \in Requests, CancelStep(r) PROVE StoredBeforeCached' /\ AcknowledgedIsDurable'
    <2>1. db' = db /\ acked' = acked
      BY <1>4 DEF CancelStep, Cancel, CancelUpdate, CancelMetering, CancelFallback, CancelReadUnlocked,
                  CancelWriteUnlocked, CancelAnswered, history, memory
    <2>2. \A q \in Requests : At(q, "cache")' => calls'[q] = calls[q]
      BY <1>0, <1>4, CancelNotCache
    <2> QED BY <2>1, <2>2, DurableFrame
  <1>5. ASSUME Metering \/ Restart \/ UNCHANGED vars
        PROVE  StoredBeforeCached' /\ AcknowledgedIsDurable'
    <2>1. db' = db /\ acked' = acked
      BY <1>5 DEF Metering, StartMetering, StopMetering, Restart, vars, history
    <2>2. calls' = calls \/ \A q \in Requests : calls'[q] = NoCall
      BY <1>5 DEF Metering, StartMetering, StopMetering, Restart, vars
    <2> QED BY <2>1, <2>2, DurableFrame DEF At
  <1> QED BY <1>1, <1>2, <1>3, <1>4, <1>5 DEF Next, SubmitStep

LEMMA InitDurable == Init => StoredBeforeCached /\ AcknowledgedIsDurable
  BY DEF Init, StoredBeforeCached, AcknowledgedIsDurable, At

(* SubmitJob: for any number of submissions under way, whatever fails, restarts or     *)
(* draws the same id, a dedicated job that was answered is in the table for its client. *)
THEOREM Durable == Spec => []AcknowledgedIsDurable
  <1>1. TypeOK /\ StoredBeforeCached /\ AcknowledgedIsDurable /\ [Next]_vars
          => (TypeOK /\ StoredBeforeCached /\ AcknowledgedIsDurable)'
    BY NextType, DurableKept
  <1> QED BY <1>1, InitType, InitDurable, PTL DEF Spec

-----------------------------------------------------------------------------
(* StartMetering and StopMetering *)

BilledAtMostStarted(id) == bills[id] + (IF MeteringActive(id) THEN 1 ELSE 0) =< starts[id]
TotalIsAnswered(id) ==
    jobs[id] # NoJob => /\ jobs[id].totalBilled = answered[id]
                        /\ (jobs[id].totalBilled - jobs[id].usageCounter * jobs[id].rate) % Modulus = 0

LEMMA BilledParts ==
    BilledOncePerStart <=> \A id \in Ids : BilledAtMostStarted(id) /\ TotalIsAnswered(id)
  BY DEF BilledOncePerStart, BilledAtMostStarted, TotalIsAnswered

(* A step that starts and bills nothing, activates no record and leaves the cached     *)
(* totals as they are.                                                                 *)
LEMMA BilledFrame ==
  ASSUME TypeOK, BilledOncePerStart, NEW id \in Ids, UNCHANGED <<starts, bills>>,
         MeteringActive(id)' => MeteringActive(id)
  PROVE  BilledAtMostStarted(id)'
  <1>1. BilledAtMostStarted(id) /\ bills[id] \in Nat /\ starts[id] \in Nat
    BY BilledParts, JobsConstants DEF TypeOK
  <1> QED BY <1>1 DEF BilledAtMostStarted

(* What has remainder zero is a multiple. *)
LEMMA Multiple ==
  ASSUME NEW m \in Nat \ {0}, NEW x \in Int
  PROVE  x % m = 0 <=> \E k \in Int : x = m * k
  <1> DEFINE q == x \div m
             r == x % m
  <1>1. q \in Int /\ r \in 0..(m - 1) /\ x = (m * q) + r
    BY Remainder
  <1> HIDE DEF q, r
  <1>2. ASSUME NEW k \in Int, x = m * k PROVE r = 0
    <2> DEFINE d == k - q
    <2>1. d \in Int /\ k = q + d
      BY <1>1
    <2> HIDE DEF d
    <2>2. m * k = (m * q) + (m * d)
      BY <1>1, <2>1, SMT
    <2>3. r = m * d
      <3>1. (m * q) \in Int /\ (m * d) \in Int
        BY <1>1, <2>1
      <3> QED BY <1>1, <1>2, <2>2, <3>1
    <2>4. CASE d >= 1
      <3>1. m * d >= m
        BY <2>1, <2>4, SMT
      <3> QED BY <1>1, <2>1, <2>3, <3>1
    <2>5. CASE d =< -1
      <3>1. m * d < 0
        BY <2>1, <2>5, SMT
      <3> QED BY <1>1, <2>1, <2>3, <3>1
    <2>6. CASE d = 0
      BY <2>3, <2>6
    <2> QED BY <2>1, <2>4, <2>5, <2>6
  <1>3. ASSUME r = 0 PROVE x = m * q
    BY <1>1, <1>3
  <1> QED BY <1>1, <1>2, <1>3 DEF r

(* What int64 and the wrapping sum of two uint64 do: each takes off 2^64 or not. *)
LEMMA Wraps ==
  ASSUME NEW usage \in 0..(Modulus - 1), NEW units \in 0..(Modulus - 1)
  PROVE  /\ \E b \in {0, 1} : Signed(units) = units - (Modulus * b)
         /\ \E c \in {0, 1} : (usage + units) % Modulus = usage + units - (Modulus * c)
  <1> USE JobsConstants
  <1>1. \E b \in {0, 1} : Signed(units) = units - (Modulus * b)
    BY DEF Signed
  <1> DEFINE q == (usage + units) \div Modulus
             r == (usage + units) % Modulus
  <1>2. q \in Int /\ r \in 0..(Modulus - 1) /\ usage + units = (Modulus * q) + r
    <2>1. usage + units \in Int
      OBVIOUS
    <2> QED BY <2>1, Remainder
  <1>3. usage + units < 2 * Modulus /\ usage + units >= 0
    OBVIOUS
  <1> HIDE DEF q, r
  <1>4. CASE q >= 2
    <2>1. Modulus * q >= 2 * Modulus
      BY <1>2, <1>4, SMT
    <2> QED BY <1>2, <1>3, <2>1
  <1>5. CASE q =< -1
    <2>1. Modulus * q =< -Modulus
      BY <1>2, <1>5, SMT
    <2> QED BY <1>2, <1>3, <2>1
  <1>6. CASE q \in {0, 1}
    <2>1. r = usage + units - (Modulus * q)
      BY <1>2, <1>6
    <2> QED BY <1>1, <1>6, <2>1 DEF r
  <1> QED BY <1>2, <1>4, <1>5, <1>6

(* What is left of a total when the usage at its rate is taken off. *)
Rest(total, usage, rate) == (total - usage * rate) % Modulus

(* One more unit of use at the rate is one more bill: the total stays the usage at the *)
(* rate, up to multiples of 2^64.                                                      *)
LEMMA UseAtRate ==
  ASSUME NEW usage \in 0..(Modulus - 1), NEW units \in 0..(Modulus - 1), NEW rate \in Nat,
         NEW total \in Int, (total - usage * rate) % Modulus = 0
  PROVE  Rest(total + Signed(units) * rate, (usage + units) % Modulus, rate) = 0
  <1> USE JobsConstants
  <1>1. PICK k \in Int : total - usage * rate = Modulus * k
    <2>1. total - usage * rate \in Int
      OBVIOUS
    <2> QED BY <2>1, Multiple
  <1>2. PICK b \in {0, 1} : Signed(units) = units - (Modulus * b)
    BY Wraps
  <1>3. PICK c \in {0, 1} : (usage + units) % Modulus = usage + units - (Modulus * c)
    BY Wraps
  <1> DEFINE s == Signed(units)
             n == (usage + units) % Modulus
             j == (k - b * rate) + c * rate
  <1>4. s \in Int /\ n \in Int /\ j \in Int
    BY <1>2, <1>3
  <1>5. s * rate = units * rate - Modulus * (b * rate)
    BY <1>2, SMT
  <1>6. n * rate = usage * rate + units * rate - Modulus * (c * rate)
    BY <1>3, SMT
  <1>7. Modulus * j = Modulus * k - Modulus * (b * rate) + Modulus * (c * rate)
    BY SMT
  <1>8. (total + s * rate) - n * rate = Modulus * j
    BY <1>1, <1>4, <1>5, <1>6, <1>7, SMT
  <1>9. (total + s * rate) - n * rate \in Int
    BY <1>4
  <1>10. ((total + s * rate) - n * rate) % Modulus = 0
    BY <1>4, <1>8, <1>9, Multiple
  <1> QED BY <1>10 DEF Rest

LEMMA StopBills ==
  ASSUME TypeOK, BilledOncePerStart, NEW id \in Ids, NEW units \in Units, StopMetering(id, units)
  PROVE  BilledOncePerStart'
  <1>0. MapsType /\ units \in 0..(Modulus - 1) /\ Bill(id, units) \in Int
    BY TypeParts, BillInt, JobsConstants
  <1> SUFFICES ASSUME NEW i \in Ids PROVE BilledAtMostStarted(i)' /\ TotalIsAnswered(i)'
    BY DEF BilledOncePerStart, BilledAtMostStarted, TotalIsAnswered
  <1>1. BilledAtMostStarted(i) /\ TotalIsAnswered(i)
    BY BilledParts
  <1>2. /\ MeteringActive(id) /\ starts' = starts
        /\ bills' = [bills EXCEPT ![id] = bills[id] + 1]
        /\ answered' = [answered EXCEPT ![id] = answered[id] + Bill(id, units)]
        /\ metering' = [metering EXCEPT ![id] = [status |-> "done", units |-> units]]
    BY DEF StopMetering
  <1>3. CASE i # id
    <2>1. /\ bills'[i] = bills[i] /\ metering'[i] = metering[i] /\ jobs'[i] = jobs[i]
          /\ answered'[i] = answered[i]
      BY <1>0, <1>2, <1>3 DEF StopMetering, MapsType
    <2> QED BY <1>1, <1>2, <2>1 DEF BilledAtMostStarted, TotalIsAnswered, MeteringActive
  <1>4. CASE i = id
    <2>1. BilledAtMostStarted(i)'
      <3>1. ~MeteringActive(id)' /\ bills'[id] = bills[id] + 1
        BY <1>0, <1>2 DEF MapsType, MeteringActive
      <3>2. bills[id] \in Nat /\ starts[id] \in Nat
        BY <1>0, JobsConstants DEF MapsType
      <3> QED BY <1>1, <1>2, <1>4, <3>1, <3>2 DEF BilledAtMostStarted
    <2>2. TotalIsAnswered(i)'
      <3>1. CASE jobs[id] = NoJob
        BY <1>4, <3>1 DEF StopMetering, TotalIsAnswered
      <3>2. CASE jobs[id] # NoJob
        <4>1. /\ jobs[id] \in JobType /\ Bill(id, units) = Signed(units) * jobs[id].rate
              /\ jobs'[id] = [jobs[id] EXCEPT !.totalBilled = jobs[id].totalBilled + Bill(id, units),
                                              !.usageCounter = (jobs[id].usageCounter + units) % Modulus]
          BY <1>0, <3>2 DEF StopMetering, MapsType, Bill
        <4>2. /\ jobs[id].usageCounter \in 0..(Modulus - 1) /\ jobs[id].rate \in Nat /\ jobs[id].totalBilled \in Int
              /\ jobs'[id].totalBilled = jobs[id].totalBilled + Bill(id, units)
              /\ jobs'[id].usageCounter = (jobs[id].usageCounter + units) % Modulus
              /\ jobs'[id].rate = jobs[id].rate
          BY <4>1, JobsConstants DEF JobType
        <4>3. (jobs'[id].totalBilled - jobs'[id].usageCounter * jobs'[id].rate) % Modulus = 0
          <5>1. (jobs[id].totalBilled - jobs[id].usageCounter * jobs[id].rate) % Modulus = 0
            BY <1>1, <1>4, <3>2 DEF TotalIsAnswered
          <5>2. Rest(jobs[id].totalBilled + Signed(units) * jobs[id].rate,
                     (jobs[id].usageCounter + units) % Modulus, jobs[id].rate) = 0
            BY <1>0, <4>2, <5>1, UseAtRate
          <5>3. /\ jobs'[id].totalBilled = jobs[id].totalBilled + Signed(units) * jobs[id].rate
                /\ jobs'[id].usageCounter = (jobs[id].usageCounter + units) % Modulus
                /\ jobs'[id].rate = jobs[id].rate
            BY <4>1, <4>2, Zenon
          <5>4. Rest(jobs'[id].totalBilled, jobs'[id].usageCounter, jobs'[id].rate) = 0
            BY <5>2, <5>3, Zenon
          <5> QED BY <5>4 DEF Rest
        <4>4. answered'[id] = answered[id] + Bill(id, units)
          BY <1>0, <1>2 DEF MapsType
        <4> QED BY <1>1, <1>4, <3>2, <4>1, <4>2, <4>3, <4>4 DEF TotalIsAnswered
      <3> QED BY <3>1, <3>2
    <2> QED BY <2>1, <2>2
  <1> QED BY <1>3, <1>4

LEMMA StartActivates ==
  ASSUME TypeOK, BilledOncePerStart, NEW id \in Ids, NEW units \in Units, StartMetering(id, units)
  PROVE  BilledOncePerStart'
  <1> SUFFICES ASSUME NEW i \in Ids PROVE BilledAtMostStarted(i)' /\ TotalIsAnswered(i)'
    BY DEF BilledOncePerStart, BilledAtMostStarted, TotalIsAnswered
  <1>0. MapsType /\ BilledAtMostStarted(i) /\ TotalIsAnswered(i)
    BY TypeParts, BilledParts
  <1>1. bills[i] \in Nat /\ starts[i] \in Nat /\ bills' = bills
    BY <1>0, JobsConstants DEF MapsType, StartMetering
  <1>2. \/ starts'[i] = starts[i] /\ metering'[i] = metering[i]
        \/ starts'[i] = starts[i] + 1
    BY <1>0 DEF StartMetering, MapsType
  <1>3. BilledAtMostStarted(i)'
    BY <1>0, <1>1, <1>2 DEF BilledAtMostStarted, MeteringActive
  <1>4. TotalIsAnswered(i)'
    BY <1>0 DEF StartMetering, TotalIsAnswered
  <1> QED BY <1>3, <1>4

(* CancelJob writes only a record that is there. *)
LEMMA RecordWritten ==
  ASSUME TypeOK, NEW r \in Requests, CancelMetering(r) \/ CancelWriteUnlocked(r),
         metering' # metering
  PROVE  metering[calls[r].id] # NoRecord
  BY DEF CancelMetering, CancelWriteUnlocked, TypeOK, MeteringActive

LEMMA BilledKept ==
  ASSUME TypeOK, BilledOncePerStart, [Next]_vars
  PROVE  BilledOncePerStart'
  <1>0. CallsType /\ MapsType
    BY TypeParts
  <1>1. ASSUME UNCHANGED <<starts, bills, answered>>,
               \A i \in Ids : MeteringActive(i)' => MeteringActive(i),
               \A i \in Ids : jobs'[i] # NoJob =>
                   /\ jobs[i] # NoJob /\ jobs'[i].totalBilled = jobs[i].totalBilled
                   /\ jobs'[i].usageCounter = jobs[i].usageCounter /\ jobs'[i].rate = jobs[i].rate
        PROVE  BilledOncePerStart'
    <2> SUFFICES ASSUME NEW i \in Ids PROVE BilledAtMostStarted(i)' /\ TotalIsAnswered(i)'
      BY DEF BilledOncePerStart, BilledAtMostStarted, TotalIsAnswered
    <2>1. TotalIsAnswered(i)
      BY BilledParts
    <2>2. TotalIsAnswered(i)'
      BY <1>1, <2>1 DEF TotalIsAnswered
    <2> QED BY <1>1, <2>2, BilledFrame
  <1>2. ASSUME UNCHANGED <<starts, bills, answered, memory>> PROVE BilledOncePerStart'
    BY <1>1, <1>2 DEF memory, MeteringActive
  <1>3. ASSUME NEW r \in Requests, Cache(r) PROVE BilledOncePerStart'
    <2>1. calls[r].id \in Ids
      BY <1>0, <1>3, CallAt DEF Cache
    <2> SUFFICES ASSUME NEW i \in Ids PROVE BilledAtMostStarted(i)' /\ TotalIsAnswered(i)'
      BY DEF BilledOncePerStart, BilledAtMostStarted, TotalIsAnswered
    <2>2. BilledAtMostStarted(i)'
      BY <1>3, BilledFrame DEF Cache, MeteringActive
    <2>3. TotalIsAnswered(i)'
      <3>1. CASE i = calls[r].id
        <4>1. /\ jobs'[i].totalBilled = 0 /\ jobs'[i].usageCounter = 0 /\ answered'[i] = 0
              /\ jobs'[i].rate \in {0, Rate}
          BY <1>0, <1>3, <2>1, <3>1 DEF Cache, MapsType
        <4>2. 0 - 0 * jobs'[i].rate = Modulus * 0
          BY <4>1, JobsConstants
        <4>3. (0 - 0 * jobs'[i].rate) % Modulus = 0
          BY <4>1, <4>2, Multiple, JobsConstants
        <4> QED BY <4>1, <4>3 DEF TotalIsAnswered
      <3>2. CASE i # calls[r].id
        <4>1. jobs'[i] = jobs[i] /\ answered'[i] = answered[i] /\ TotalIsAnswered(i)
          BY <1>0, <1>3, <2>1, <3>2, BilledParts DEF Cache, MapsType
        <4> QED BY <4>1 DEF TotalIsAnswered
      <3> QED BY <3>1, <3>2
    <2> QED BY <2>2, <2>3
  <1>4. ASSUME NEW r \in Requests, CancelMetering(r) \/ CancelWriteUnlocked(r) PROVE BilledOncePerStart'
    <2>1. calls[r].id \in Ids
      BY <1>0, <1>4, CallAt DEF CancelMetering, CancelWriteUnlocked
    <2>2. \/ metering' = metering
          \/ metering' = [metering EXCEPT ![calls[r].id].status = "done"]
      BY <1>4 DEF CancelMetering, CancelWriteUnlocked
    <2>3. \A i \in Ids : MeteringActive(i)' => MeteringActive(i)
      <3>1. CASE metering' = metering
        BY <3>1 DEF MeteringActive
      <3>2. CASE metering' # metering /\ metering' = [metering EXCEPT ![calls[r].id].status = "done"]
        <4> SUFFICES ASSUME NEW i \in Ids, MeteringActive(i)' PROVE MeteringActive(i)
          OBVIOUS
        <4>1. \A x \in Ids \ {calls[r].id} : metering'[x] = metering[x]
          BY <1>0, <2>1, <3>2 DEF MapsType
        <4>2. metering'[calls[r].id] = [metering[calls[r].id] EXCEPT !.status = "done"]
          BY <1>0, <2>1, <3>2 DEF MapsType
        <4>3. i # calls[r].id
          <5> SUFFICES ASSUME i = calls[r].id PROVE FALSE
            OBVIOUS
          <5>1. metering'[i].status = "active"
            BY DEF MeteringActive
          <5>2. metering[i] # NoRecord
            BY <1>4, <3>2, RecordWritten
          <5>3. metering[i] \in RecordType
            BY <1>0, <5>2 DEF MapsType
          <5> QED BY <4>2, <5>1, <5>3 DEF RecordType
        <4> QED BY <4>1, <4>3 DEF MeteringActive
      <3> QED BY <2>2, <3>1, <3>2
    <2> QED BY <1>1, <1>4, <2>3 DEF CancelMetering, CancelWriteUnlocked, CancelAnswered
  <1>5. ASSUME NEW r \in Requests, CancelFallback(r) PROVE BilledOncePerStart'
    <2>1. calls[r].id \in Ids
      BY <1>0, <1>5, CallAt DEF CancelFallback
    <2>2. \A i \in Ids : jobs'[i] # NoJob =>
             /\ jobs[i] # NoJob /\ jobs'[i].totalBilled = jobs[i].totalBilled
             /\ jobs'[i].usageCounter = jobs[i].usageCounter /\ jobs'[i].rate = jobs[i].rate
      <3> SUFFICES ASSUME NEW i \in Ids, jobs'[i] # jobs[i]
                   PROVE  /\ jobs[i] # NoJob /\ jobs'[i].totalBilled = jobs[i].totalBilled
                          /\ jobs'[i].usageCounter = jobs[i].usageCounter /\ jobs'[i].rate = jobs[i].rate
        OBVIOUS
      <3>1. /\ jobs[i] \in JobType /\ jobs[i] # NoJob
            /\ jobs'[i] = [jobs[i] EXCEPT !.status = "cancelled"]
        BY <1>0, <1>5, <2>1 DEF CancelFallback, MapsType
      <3> QED BY <3>1 DEF JobType
    <2> QED BY <1>1, <1>5, <2>2 DEF CancelFallback, history, MeteringActive
  <1>6. ASSUME Metering PROVE BilledOncePerStart'
    BY <1>6, StartActivates, StopBills DEF Metering
  <1>7. ASSUME Restart PROVE BilledOncePerStart'
    <2> SUFFICES ASSUME NEW i \in Ids PROVE BilledAtMostStarted(i)' /\ TotalIsAnswered(i)'
      BY DEF BilledOncePerStart, BilledAtMostStarted, TotalIsAnswered
    <2>1. jobs'[i] = NoJob /\ metering'[i] = NoRecord
      BY <1>7 DEF Restart
    <2> QED BY <1>7, <2>1, BilledFrame DEF Restart, MeteringActive, TotalIsAnswered
  <1> QED BY <1>2, <1>3, <1>4, <1>5, <1>6, <1>7
       DEF Next, vars, history, SubmitStep, CancelStep, Submit, Insert, Cancel, CancelUpdate, CancelReadUnlocked,
           CancelAnswered

LEMMA InitBilled == Init => BilledOncePerStart
  <1> SUFFICES ASSUME Init, NEW i \in Ids PROVE BilledAtMostStarted(i) /\ TotalIsAnswered(i)
    BY BilledParts
  <1>1. bills[i] = 0 /\ starts[i] = 0 /\ jobs[i] = NoJob /\ metering[i] = NoRecord
    BY DEF Init
  <1> QED BY <1>1 DEF BilledAtMostStarted, TotalIsAnswered, MeteringActive

(* StopMetering and CancelJob: whatever metering, cancellations and restarts interleave, *)
(* every start of metering is billed at most once, and a cached total is both the sum    *)
(* of the bills answered for the job and its usage at its rate.                          *)
THEOREM BilledOnce == Spec => []BilledOncePerStart
  <1>1. TypeOK /\ BilledOncePerStart /\ [Next]_vars => (TypeOK /\ BilledOncePerStart)'
    BY NextType, BilledKept
  <1> QED BY <1>1, InitType, InitBilled, PTL DEF Spec

-----------------------------------------------------------------------------
(* CancelJob without a database *)

Submitting(r, id) == calls[r] # NoCall /\ calls[r].kind \in Kinds /\ calls[r].id = id

(* An id that is not drawn again is that of one submission, not yet answered. *)
DrawnOnce ==
    \A id \in Ids \ reused :
        /\ \A r, q \in Requests : Submitting(r, id) /\ Submitting(q, id) => r = q
        /\ \A r \in Requests : Submitting(r, id) => acked[id] = NoJob

(* Without a database no row is stored and no request is at a call to it. *)
NoTable ==
    ~db => /\ \A id \in Ids : rows[id] = NoJob
           /\ \A r \in Requests : calls[r] # NoCall => calls[r].at \notin {"insert", "update", "metering"}

CachedWasAcked == \A id \in Ids : jobs[id] # NoJob => acked[id] # NoJob

Cancelling(r, id) == (At(r, "unlocked") \/ At(r, "write")) /\ calls[r].id = id
Closed(id) == acked[id] # NoJob /\ (jobs[id] # NoJob => jobs[id].status = "cancelled")

(* What was answered as cancelled, and what is about to be, was submitted before and   *)
(* is cancelled in the cache.                                                          *)
CancelledWasCached ==
    ~db => \A id \in Ids \ reused :
        id \in cancelAcked \/ (\E r \in Requests : Cancelling(r, id)) => Closed(id)

LEMMA Answers ==
  ASSUME TypeOK, NoTable, CancelledWasCached
  PROVE  CancelledStaysCancelled
  <1> SUFFICES ASSUME NEW id \in Ids, id \in cancelAcked, id \notin reused, ~db,
                      NEW answer \in GetJobAnswers(id)
               PROVE  answer = "cancelled"
    BY DEF CancelledStaysCancelled, TypeOK
  <1>1. rows[id] = NoJob /\ Closed(id)
    BY DEF NoTable, CancelledWasCached
  <1> QED BY <1>1 DEF GetJobAnswers, Closed

LEMMA SubmittingAt ==
  ASSUME CallsType, NEW r \in Requests, NEW id
  PROVE  Submitting(r, id) <=> calls[r] # NoCall /\ calls[r] \in SubmissionType /\ calls[r].id = id
  BY DEF CallsType, CallType, SubmissionType, Submitting, Kinds

(* A step that caches no job puts nothing new in the cache, keeps what was answered    *)
(* and changes no status but to "cancelled".                                           *)
LEMMA CacheOnlyCloses ==
  ASSUME TypeOK, [Next]_vars, ~ \E r \in Requests : Cache(r), NEW id \in Ids
  PROVE  /\ db' = db /\ acked' = acked /\ reused \subseteq reused'
         /\ jobs'[id] # NoJob =>
               /\ jobs[id] # NoJob
               /\ jobs'[id].status = jobs[id].status \/ jobs'[id].status = "cancelled"
  <1> DEFINE OnlyCloses == jobs'[id] # NoJob =>
                 /\ jobs[id] # NoJob
                 /\ jobs'[id].status = jobs[id].status \/ jobs'[id].status = "cancelled"
  <1>0. CallsType /\ MapsType
    BY TypeParts
  <1>1. db' = db /\ acked' = acked /\ reused \subseteq reused'
    BY DEF Next, vars, history, memory, SubmitStep, CancelStep, Metering, Submit, Insert, Cancel, CancelUpdate,
           CancelMetering, CancelFallback, CancelReadUnlocked, CancelWriteUnlocked, CancelAnswered,
           StartMetering, StopMetering, Restart
  <1>2. ASSUME NEW r \in Requests, CancelFallback(r) PROVE OnlyCloses
    <2>1. calls[r].id \in Ids
      BY <1>0, <1>2, CallAt DEF CancelFallback
    <2>2. \/ jobs'[id] = jobs[id]
          \/ /\ jobs[id] # NoJob
             /\ jobs'[id] = [jobs[id] EXCEPT !.status = "cancelled"]
      BY <1>0, <1>2, <2>1 DEF CancelFallback, MapsType
    <2> QED BY <1>0, <2>2 DEF MapsType, JobType
  <1>3. ASSUME NEW i \in Ids, NEW units \in Units, StopMetering(i, units) PROVE OnlyCloses
    <2>1. \/ jobs'[id] = jobs[id]
          \/ /\ jobs[id] # NoJob
             /\ jobs'[id] = [jobs[id] EXCEPT !.totalBilled = jobs[id].totalBilled + Bill(id, units),
                                             !.usageCounter = (jobs[id].usageCounter + units) % Modulus]
      BY <1>0, <1>3 DEF StopMetering, MapsType
    <2> QED BY <1>0, <2>1 DEF MapsType, JobType
  <1>4. ASSUME jobs' = jobs \/ Restart PROVE OnlyCloses
    BY <1>4 DEF Restart
  <1>5. OnlyCloses
    <2> HIDE DEF OnlyCloses
    <2> QED BY <1>2, <1>3, <1>4
         DEF Next, vars, memory, history, SubmitStep, CancelStep, Metering, Submit, Insert, Cancel, CancelUpdate,
             CancelMetering, CancelReadUnlocked, CancelWriteUnlocked, CancelAnswered, StartMetering
  <1> QED BY <1>1, <1>5

(* What a Cache makes of a request and of what was answered. *)
LEMMA CacheAnswers ==
  ASSUME TypeOK, NEW r \in Requests, Cache(r)
  PROVE  /\ Submitting(r, calls[r].id) /\ calls[r].id \in Ids
         /\ calls'[r] = NoCall /\ \A q \in Requests \ {r} : calls'[q] = calls[q]
         /\ acked'[calls[r].id] # NoJob
         /\ \A i \in Ids \ {calls[r].id} : acked'[i] = acked[i] /\ jobs'[i] = jobs[i]
         /\ UNCHANGED <<db, rows, reused, cancelAcked>>
  <1>0. CallsType /\ MapsType
    BY TypeParts
  <1>1. calls[r] \in SubmissionType /\ calls[r] # NoCall /\ calls[r].id \in Ids
    BY <1>0, CallAt DEF Cache
  <1>2. [client |-> calls[r].client, kind |-> calls[r].kind] \in AckType
    BY <1>1 DEF SubmissionType, AckType
  <1>3. acked'[calls[r].id] # NoJob
    BY <1>0, <1>1, <1>2, JobsConstants DEF Cache, MapsType
  <1>4. \A i \in Ids \ {calls[r].id} : acked'[i] = acked[i] /\ jobs'[i] = jobs[i]
    BY <1>0, <1>1 DEF Cache, MapsType
  <1>5. calls'[r] = NoCall /\ \A q \in Requests \ {r} : calls'[q] = calls[q]
    BY <1>0, Answered DEF Cache
  <1> QED BY <1>1, <1>3, <1>4, <1>5 DEF Cache, Submitting, SubmissionType

(* Only Submit makes a request a submission of an id. *)
LEMMA SubmittingStays ==
  ASSUME TypeOK, [Next]_vars, NEW q \in Requests, NEW id \in Ids, Submitting(q, id)'
  PROVE  \/ Submitting(q, id)
         \/ \E kind \in Kinds, client \in Clients : Submit(q, kind, client, id)
  <1>0. CallsType
    BY TypeParts
  <1>1. ASSUME NEW r \in Requests, NEW kind \in Kinds, NEW client \in Clients, NEW i \in Ids,
               Submit(r, kind, client, i)
        PROVE  Submitting(q, id) \/ Submit(q, kind, client, id)
    <2>1. CASE q = r
      BY <1>0, <1>1, <2>1 DEF Submit, Submitting, CallsType
    <2>2. CASE q # r
      BY <1>0, <1>1, <2>2 DEF Submit, Submitting, CallsType
    <2> QED BY <2>1, <2>2
  <1>2. ASSUME NEW r \in Requests, NEW outcome \in Outcomes, Insert(r, outcome) PROVE Submitting(q, id)
    <2>1. At(r, "insert") /\ calls[r] # NoCall
      BY <1>0, <1>2, CallAt DEF Insert
    <2>2. CASE Answer(r)
      BY <1>0, <2>2, Answered DEF Submitting
    <2>3. CASE Goto(r, "cache")
      BY <1>0, <2>1, <2>3, Moved DEF Submitting
    <2> QED BY <1>2, <2>2, <2>3 DEF Insert
  <1>3. ASSUME NEW r \in Requests, Cache(r) PROVE Submitting(q, id)
    BY <1>3, CacheAnswers DEF Submitting
  <1>4. ASSUME NEW r \in Requests, CancelStep(r) PROVE Submitting(q, id)
    <2>1. CallsType'
      BY NextType DEF TypeOK, CallsType
    <2>2. At(q, "insert")' \/ At(q, "cache")'
      BY <2>1 DEF CallsType, CallType, Submitting, Kinds, At
    <2> QED BY <1>0, <1>4, <2>2, CancelNotCache DEF Submitting
  <1>5. ASSUME Metering \/ Restart \/ UNCHANGED vars PROVE Submitting(q, id)
    BY <1>5 DEF Metering, StartMetering, StopMetering, Restart, vars, Submitting
  <1> QED BY <1>1, <1>2, <1>3, <1>4, <1>5 DEF Next, SubmitStep

LEMMA DrawnOnceKept ==
  ASSUME TypeOK, DrawnOnce, [Next]_vars
  PROVE  DrawnOnce'
  <1>0. CallsType /\ MapsType
    BY TypeParts
  <1>1. ASSUME NEW r \in Requests, NEW kind \in Kinds, NEW client \in Clients, NEW i \in Ids,
               Submit(r, kind, client, i)
        PROVE  DrawnOnce'
    <2>1. \A q \in Requests \ {r} : calls'[q] = calls[q]
      BY <1>0, <1>1 DEF Submit, CallsType
    <2>2. calls'[r].id = i /\ acked' = acked /\ reused \subseteq reused'
      BY <1>0, <1>1 DEF Submit, CallsType
    <2>3. i \notin reused' => acked[i] = NoJob /\ \A q \in Requests : ~Submitting(q, i)
      BY <1>1 DEF Submit, Drawn, Submitting
    <2>4. ASSUME NEW id \in Ids \ reused', id # i, NEW q \in Requests, Submitting(q, id)'
          PROVE  q # r /\ Submitting(q, id)
      BY <2>1, <2>2, <2>4 DEF Submitting
    <2>5. ASSUME NEW q \in Requests, Submitting(q, i)', i \notin reused' PROVE q = r
      BY <2>1, <2>3, <2>5 DEF Submitting
    <2> SUFFICES ASSUME NEW id \in Ids \ reused'
                 PROVE  /\ \A q, p \in Requests : Submitting(q, id)' /\ Submitting(p, id)' => q = p
                        /\ \A q \in Requests : Submitting(q, id)' => acked'[id] = NoJob
      BY DEF DrawnOnce
    <2> QED BY <2>2, <2>3, <2>4, <2>5 DEF DrawnOnce
  <1>2. ASSUME NEW r \in Requests, Cache(r) PROVE DrawnOnce'
    <2> SUFFICES ASSUME NEW id \in Ids \ reused'
                 PROVE  /\ \A q, p \in Requests : Submitting(q, id)' /\ Submitting(p, id)' => q = p
                        /\ \A q \in Requests : Submitting(q, id)' => acked'[id] = NoJob
      BY DEF DrawnOnce
    <2>1. ASSUME NEW q \in Requests, Submitting(q, id)' PROVE q # r /\ Submitting(q, id)
      BY <1>2, <2>1, CacheAnswers DEF Submitting
    <2>2. id \notin reused
      BY <1>2, CacheAnswers
    <2>3. ASSUME NEW q \in Requests, Submitting(q, id)' PROVE acked'[id] = NoJob
      <3>1. id # calls[r].id
        BY <1>2, <2>1, <2>2, <2>3, CacheAnswers DEF DrawnOnce
      <3> QED BY <1>2, <2>1, <2>2, <2>3, <3>1, CacheAnswers DEF DrawnOnce
    <2> QED BY <2>1, <2>2, <2>3 DEF DrawnOnce
  <1>3. CASE /\ ~ \E r \in Requests : Cache(r)
             /\ ~ \E r \in Requests, kind \in Kinds, client \in Clients, i \in Ids : Submit(r, kind, client, i)
    <2>1. \A q \in Requests, id \in Ids : Submitting(q, id)' => Submitting(q, id)
      BY <1>3, SubmittingStays
    <2>2. \A id \in Ids : acked' = acked /\ reused \subseteq reused'
      BY <1>3, CacheOnlyCloses
    <2> QED BY <2>1, <2>2 DEF DrawnOnce
  <1> QED BY <1>1, <1>2, <1>3

LEMMA CachedWasAckedKept ==
  ASSUME TypeOK, CachedWasAcked, [Next]_vars
  PROVE  CachedWasAcked'
  <1>1. ASSUME NEW r \in Requests, Cache(r) PROVE CachedWasAcked'
    BY <1>1, CacheAnswers DEF CachedWasAcked
  <1>2. CASE ~ \E r \in Requests : Cache(r)
    BY <1>2, CacheOnlyCloses DEF CachedWasAcked
  <1> QED BY <1>1, <1>2

LEMMA NoTableKept ==
  ASSUME TypeOK, NoTable, [Next]_vars
  PROVE  NoTable'
  <1>0. CallsType /\ MapsType
    BY TypeParts
  <1>1. db' = db
    BY DEF Next, vars, history, memory, SubmitStep, CancelStep, Metering, Submit, Insert, Cache, Cancel,
           CancelUpdate, CancelMetering, CancelFallback, CancelReadUnlocked, CancelWriteUnlocked,
           CancelAnswered, StartMetering, StopMetering, Restart
  <1> SUFFICES ASSUME ~db
               PROVE  /\ rows' = rows
                      /\ \A q \in Requests : calls'[q] = calls[q] \/ calls'[q] = NoCall
                            \/ calls'[q].at \in {"cache", "fallback", "unlocked", "write"}
    BY <1>1, Zenon DEF NoTable
  <1>2. ASSUME NEW r \in Requests, NEW point \in {"insert", "update", "metering"} PROVE ~At(r, point)
    BY DEF NoTable, At
  <1>3. rows' = rows
    BY <1>2 DEF Next, vars, history, memory, SubmitStep, CancelStep, Metering, Submit, Insert, Cache, Cancel,
           CancelUpdate, CancelMetering, CancelFallback, CancelReadUnlocked, CancelWriteUnlocked,
           CancelAnswered, StartMetering, StopMetering, Restart
  <1> DEFINE Shown(q) == calls'[q] = calls[q] \/ calls'[q] = NoCall
                            \/ calls'[q].at \in {"cache", "fallback", "unlocked", "write"}
  <1>4. ASSUME NEW r \in Requests, NEW q \in Requests, SubmitStep(r) PROVE Shown(q)
    <2>1. ASSUME NEW kind \in Kinds, NEW client \in Clients, NEW i \in Ids, Submit(r, kind, client, i)
          PROVE  Shown(q)
      BY <1>0, <2>1 DEF Submit, CallsType
    <2>2. ASSUME Cache(r) PROVE Shown(q)
      BY <1>0, <2>2, Answered DEF Cache
    <2> HIDE DEF Shown
    <2> QED BY <1>2, <1>4, <2>1, <2>2 DEF SubmitStep, Insert
  <1>5. ASSUME NEW r \in Requests, NEW q \in Requests, CancelStep(r) PROVE Shown(q)
    <2>1. ASSUME NEW i \in Ids, Cancel(r, i) PROVE Shown(q)
      BY <1>0, <2>1 DEF Cancel, CallsType
    <2>2. ASSUME Answer(r) PROVE Shown(q)
      BY <1>0, <2>2, Answered
    <2>3. ASSUME NEW from \in CancelPoints, NEW to \in {"unlocked", "write"}, At(r, from), Goto(r, to)
          PROVE  Shown(q)
      BY <1>0, <2>3, Moved DEF CancelPoints
    <2>4. ASSUME CancelFallback(r) \/ CancelReadUnlocked(r) \/ CancelWriteUnlocked(r) PROVE Shown(q)
      <3> HIDE DEF Shown
      <3> QED BY <2>2, <2>3, <2>4
           DEF CancelFallback, CancelReadUnlocked, CancelWriteUnlocked, CancelAnswered, CancelPoints
    <2> HIDE DEF Shown
    <2> QED BY <1>2, <1>5, <2>1, <2>4 DEF CancelStep, CancelUpdate, CancelMetering
  <1>6. ASSUME NEW q \in Requests, Metering \/ Restart \/ UNCHANGED vars PROVE Shown(q)
    BY <1>6 DEF Metering, StartMetering, StopMetering, Restart, vars
  <1>7. \A q \in Requests : Shown(q)
    <2> HIDE DEF Shown
    <2> QED BY <1>4, <1>5, <1>6 DEF Next
  <1> QED BY <1>3, <1>7

(* Without a database only the fallback promises that a job is cancelled. *)
LEMMA NewPromise ==
  ASSUME TypeOK, NoTable, [Next]_vars, ~db, ~ \E r \in Requests : Cache(r), NEW id \in Ids,
         ~(id \in cancelAcked \/ \E r \in Requests : Cancelling(r, id)),
         (id \in cancelAcked \/ \E r \in Requests : Cancelling(r, id))'
  PROVE  \E r \in Requests : CancelFallback(r) /\ calls[r].id = id /\ Goto(r, "unlocked")
  <1>0. CallsType /\ MapsType
    BY TypeParts
  <1> SUFFICES ASSUME ~ \E r \in Requests : CancelFallback(r) /\ calls[r].id = id /\ Goto(r, "unlocked")
               PROVE  FALSE
    OBVIOUS
  <1>1. ASSUME NEW r \in Requests, NEW point \in {"insert", "update", "metering"} PROVE ~At(r, point)
    BY DEF NoTable, At
  <1>2. ASSUME NEW r \in Requests, SubmitStep(r) PROVE FALSE
    <2>1. PICK kind \in Kinds, client \in Clients, i \in Ids : Submit(r, kind, client, i)
      BY <1>1, <1>2 DEF SubmitStep, Insert
    <2>2. cancelAcked' = cancelAcked /\ calls'[r].at = "cache" /\ \A q \in Requests \ {r} : calls'[q] = calls[q]
      BY <1>0, <2>1 DEF Submit, CallsType
    <2> QED BY <2>2 DEF Cancelling, At
  <1>3. ASSUME NEW r \in Requests, CancelStep(r) PROVE FALSE
    <2>1. ASSUME NEW i \in Ids, Cancel(r, i) PROVE FALSE
      <3>1. /\ cancelAcked' = cancelAcked /\ calls'[r].at = "fallback"
            /\ \A q \in Requests \ {r} : calls'[q] = calls[q]
        BY <1>0, <2>1 DEF Cancel, CallsType, history
      <3> QED BY <3>1 DEF Cancelling, At
    <2>2. ASSUME CancelFallback(r) PROVE FALSE
      <3>1. cancelAcked' = cancelAcked /\ At(r, "fallback")
        BY <2>2 DEF CancelFallback, history
      <3>2. CASE Answer(r)
        BY <1>0, <3>1, <3>2, Answered DEF Cancelling, At
      <3>3. CASE Goto(r, "unlocked")
        <4>1. calls'[r].id # id /\ \A q \in Requests \ {r} : calls'[q] = calls[q]
          BY <1>0, <2>2, <3>1, <3>3, Moved DEF CancelPoints
        <4> QED BY <3>1, <4>1 DEF Cancelling, At
      <3> QED BY <2>2, <3>2, <3>3 DEF CancelFallback
    <2>3. ASSUME CancelReadUnlocked(r) \/ CancelWriteUnlocked(r) PROVE FALSE
      <3>1. At(r, "unlocked") \/ At(r, "write")
        BY <2>3 DEF CancelReadUnlocked, CancelWriteUnlocked
      <3>2. CASE CancelAnswered(r)
        <4>1. calls'[r] = NoCall /\ \A q \in Requests \ {r} : calls'[q] = calls[q]
          BY <1>0, <3>2, Answered DEF CancelAnswered
        <4> QED BY <3>1, <3>2, <4>1 DEF CancelAnswered, Cancelling, At
      <3>3. CASE Goto(r, "write") /\ cancelAcked' = cancelAcked
        <4>1. calls'[r].id = calls[r].id /\ \A q \in Requests \ {r} : calls'[q] = calls[q]
          BY <1>0, <3>1, <3>3, Moved DEF CancelPoints
        <4> QED BY <3>1, <3>3, <4>1 DEF Cancelling, At
      <3> QED BY <2>3, <3>2, <3>3 DEF CancelReadUnlocked, CancelWriteUnlocked
    <2> QED BY <1>1, <1>3, <2>1, <2>2, <2>3 DEF CancelStep, CancelUpdate, CancelMetering
  <1>4. ASSUME Metering \/ Restart \/ UNCHANGED vars PROVE FALSE
    <2>1. cancelAcked' = cancelAcked /\ (calls' = calls \/ \A q \in Requests : calls'[q] = NoCall)
      BY <1>4 DEF Metering, StartMetering, StopMetering, Restart, vars, history
    <2> QED BY <2>1 DEF Cancelling, At
  <1> QED BY <1>2, <1>3, <1>4 DEF Next

LEMMA CancelledKept ==
  ASSUME TypeOK, DrawnOnce, NoTable, CachedWasAcked, CancelledWasCached, [Next]_vars
  PROVE  CancelledWasCached'
  <1>0. CallsType /\ MapsType
    BY TypeParts
  <1> DEFINE Promised(id) == id \in cancelAcked \/ \E r \in Requests : Cancelling(r, id)
  <1>1. ASSUME NEW r \in Requests, Cache(r) PROVE CancelledWasCached'
    <2> SUFFICES ASSUME ~db, NEW id \in Ids \ reused, Promised(id)' PROVE Closed(id)'
      BY <1>1, CacheAnswers DEF CancelledWasCached
    <2>1. Promised(id)
      BY <1>1, CacheAnswers DEF Cancelling, At
    <2>2. Closed(id)
      BY <2>1 DEF CancelledWasCached
    <2>3. id # calls[r].id
      BY <1>1, <2>2, CacheAnswers DEF Closed, DrawnOnce
    <2> QED BY <1>1, <2>2, <2>3, CacheAnswers DEF Closed
  <1>2. CASE ~ \E r \in Requests : Cache(r)
    <2> SUFFICES ASSUME ~db, NEW id \in Ids \ reused', Promised(id)' PROVE Closed(id)'
      BY <1>2, CacheOnlyCloses DEF CancelledWasCached
    <2>1. id \notin reused /\ acked' = acked
      BY <1>2, CacheOnlyCloses
    <2>2. CASE Promised(id)
      <3>1. Closed(id)
        BY <2>1, <2>2 DEF CancelledWasCached
      <3> QED BY <1>2, <2>1, <3>1, CacheOnlyCloses DEF Closed
    <2>3. CASE ~Promised(id)
      <3>1. PICK r \in Requests : CancelFallback(r) /\ calls[r].id = id /\ Goto(r, "unlocked")
        BY <1>2, <2>3, NewPromise
      <3>2. /\ jobs[id] # NoJob /\ jobs[id] \in JobType
            /\ jobs'[id] = [jobs[id] EXCEPT !.status = "cancelled"]
        <4>1. ~Answer(r)
          <5>1. At(r, "fallback")
            BY <3>1 DEF CancelFallback
          <5> QED BY <1>0, <3>1, <5>1, Answered, Moved, JobsConstants DEF CancelPoints
        <4> QED BY <1>0, <3>1, <4>1 DEF CancelFallback, MapsType
      <3>3. acked'[id] # NoJob /\ jobs'[id].status = "cancelled"
        BY <2>1, <3>2 DEF CachedWasAcked, JobType
      <3> QED BY <3>3 DEF Closed
    <2> QED BY <2>2, <2>3
  <1> QED BY <1>1, <1>2

LEMMA InitCancelled == Init => DrawnOnce /\ NoTable /\ CachedWasAcked /\ CancelledWasCached
  BY DEF Init, DrawnOnce, Submitting, NoTable, CachedWasAcked, CancelledWasCached, Cancelling, At

(* CancelJob through the cache: without a database a job answered as cancelled is never *)
(* shown as anything else, unless its id is drawn by a second submission.               *)
THEOREM StaysCancelled == Spec => []CancelledStaysCancelled
  <1> DEFINE Inv == TypeOK /\ DrawnOnce /\ NoTable /\ CachedWasAcked /\ CancelledWasCached
  <1>1. Init => Inv
    BY InitType, InitCancelled
  <1>2. Inv /\ [Next]_vars => Inv'
    BY NextType, DrawnOnceKept, NoTableKept, CachedWasAckedKept, CancelledKept
  <1>3. Inv => CancelledStaysCancelled
    BY Answers
  <1> HIDE DEF Inv
  <1> QED BY <1>1, <1>2, <1>3, PTL DEF Spec

=============================================================================
