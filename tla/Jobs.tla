------------------------------- MODULE Jobs -------------------------------
(***************************************************************************)
(* The job API of the backend, internal/api/handlers/job.go: submission of *)
(* dedicated and serverless jobs, cancellation and runtime metering.       *)
(*                                                                         *)
(* A job is kept twice, as a row of public.jobs and in the handler's map;  *)
(* the metering record only in memory.  Handlers run concurrently: a call  *)
(* to the database is a step of its own, and so is each piece of work on   *)
(* the maps between a lock and its unlock.  A call to the database that    *)
(* fails may have done its work.                                           *)
(***************************************************************************)
EXTENDS Integers, FiniteSets

CONSTANTS
    Requests,      \* the submissions and cancellations that may be under way at once
    Ids, Clients,
    NoJob, NoRecord, NoCall,
    Modulus,       \* 2^64: units and the usage counter are uint64
    Units,         \* units a metered piece of work may report
    Rate,          \* ratePerUnit of a serverless job
    MaxStarts      \* bound: starts of metering per job

Kinds == {"dedicated", "serverless"}
Statuses == {"pending", "running", "cancelled"}
RowType == [client : Clients, kind : Kinds, status : Statuses]
JobType == [client : Clients, status : Statuses, rate : {0, Rate},
            totalBilled : Int, usageCounter : 0..(Modulus - 1)]
AckType == [client : Clients, kind : Kinds]
RecordType == [status : {"active", "done"}, units : Units]
CallType ==
    [id : Ids, kind : Kinds, client : Clients, at : {"insert", "cache"}]
      \cup [id : Ids, kind : {"cancel"}, at : {"update", "fallback", "metering", "unlocked", "write"}]

(* What stands for "no such entry" is none of the entries. *)
ASSUME JobsConstants ==
    /\ Modulus \in Nat \ {0} /\ Units \subseteq 0..(Modulus - 1)
    /\ Rate \in Nat \ {0} /\ MaxStarts \in Nat
    /\ NoJob \notin RowType /\ NoJob \notin JobType /\ NoJob \notin AckType
    /\ NoRecord \notin RecordType /\ NoCall \notin CallType

VARIABLES
    db,            \* SetDB was called
    rows,          \* public.jobs
    jobs,          \* the handler's cache
    metering,
    calls,         \* request -> the call it makes and where it is
    acked,         \* history: id -> the submission last answered with it
    reused,        \* history: ids drawn by more than one submission
    cancelAcked,   \* history: ids whose cancellation was answered as successful
    starts, bills, \* history: id -> how often metering was started, and billed
    answered       \* history: id -> sum of the bills answered since the job was cached

memory == <<jobs, metering>>
history == <<acked, reused, cancelAcked, starts, bills, answered>>
vars == <<db, rows, memory, calls, history>>

InitialStatus(kind) == IF kind = "dedicated" THEN "pending" ELSE "running"
Cancellable == {"pending", "running"}
Outcomes == {"done", "failed", "done unanswered"}
Effective(outcome) == outcome # "failed"

Init ==
    /\ db \in BOOLEAN
    /\ rows = [id \in Ids |-> NoJob]
    /\ jobs = [id \in Ids |-> NoJob]
    /\ metering = [id \in Ids |-> NoRecord]
    /\ calls = [r \in Requests |-> NoCall]
    /\ acked = [id \in Ids |-> NoJob] /\ reused = {} /\ cancelAcked = {}
    /\ starts = [id \in Ids |-> 0] /\ bills = [id \in Ids |-> 0]
    /\ answered = [id \in Ids |-> 0]

At(r, point) == calls[r] # NoCall /\ calls[r].at = point
Goto(r, point) == calls' = [calls EXCEPT ![r].at = point]
Answer(r) == calls' = [calls EXCEPT ![r] = NoCall]

-----------------------------------------------------------------------------
(* SubmitJob and SubmitServerlessJob *)

Drawn(id) ==
    \/ rows[id] # NoJob \/ acked[id] # NoJob
    \/ \E r \in Requests : calls[r] # NoCall /\ calls[r].kind \in Kinds /\ calls[r].id = id

(* The id is made of the low byte of the clock, 32 times. *)
Submit(r, kind, client, id) ==
    /\ calls[r] = NoCall
    /\ calls' = [calls EXCEPT ![r] =
                   [id |-> id, kind |-> kind, client |-> client,
                    at |-> IF db THEN "insert" ELSE "cache"]]
    /\ reused' = IF Drawn(id) THEN reused \cup {id} ELSE reused
    /\ UNCHANGED <<db, rows, memory, acked, cancelAcked, starts, bills, answered>>

(* Mutant: a job that could not be stored is cached all the same. *)
InsertErrorIgnored(r, outcome) ==
    /\ At(r, "insert")
    /\ LET c == calls[r]
           inserted == Effective(outcome) /\ rows[c.id] = NoJob IN
       /\ rows' = IF inserted
                    THEN [rows EXCEPT ![c.id] = [client |-> c.client, kind |-> c.kind,
                                                 status |-> InitialStatus(c.kind)]]
                    ELSE rows
       /\ Goto(r, "cache")
    /\ UNCHANGED <<db, memory, history>>

(* job_id_256 is unique.  An error ends the submission of a dedicated job and is only *)
(* logged for a serverless one.                                                       *)
Insert(r, outcome) ==
    /\ At(r, "insert")
    /\ LET c == calls[r]
           inserted == Effective(outcome) /\ rows[c.id] = NoJob IN
       /\ rows' = IF inserted
                    THEN [rows EXCEPT ![c.id] = [client |-> c.client, kind |-> c.kind,
                                                 status |-> InitialStatus(c.kind)]]
                    ELSE rows
       /\ IF c.kind = "dedicated" /\ ~(inserted /\ outcome = "done")
            THEN Answer(r)
            ELSE Goto(r, "cache")
    /\ UNCHANGED <<db, memory, history>>

Cache(r) ==
    /\ At(r, "cache")
    /\ LET c == calls[r] IN
       /\ jobs' = [jobs EXCEPT ![c.id] =
                     [client |-> c.client, status |-> InitialStatus(c.kind),
                      rate |-> IF c.kind = "serverless" THEN Rate ELSE 0,
                      totalBilled |-> 0, usageCounter |-> 0]]
       /\ acked' = [acked EXCEPT ![c.id] = [client |-> c.client, kind |-> c.kind]]
       /\ answered' = [answered EXCEPT ![c.id] = 0]
    /\ Answer(r)
    /\ UNCHANGED <<db, rows, metering, reused, cancelAcked, starts, bills>>

-----------------------------------------------------------------------------
(* CancelJob *)

Cancel(r, id) ==
    /\ calls[r] = NoCall
    /\ calls' = [calls EXCEPT ![r] = [id |-> id, kind |-> "cancel",
                                      at |-> IF db THEN "update" ELSE "fallback"]]
    /\ UNCHANGED <<db, rows, memory, history>>

CancelUpdate(r, outcome) ==
    /\ At(r, "update")
    /\ LET id == calls[r].id
           affected == Effective(outcome) /\ rows[id] # NoJob /\ rows[id].status \in Cancellable IN
       /\ rows' = IF affected THEN [rows EXCEPT ![id].status = "cancelled"] ELSE rows
       /\ Goto(r, IF affected /\ outcome = "done" THEN "metering" ELSE "fallback")
    /\ UNCHANGED <<db, memory, history>>

MeteringActive(id) == metering[id] # NoRecord /\ metering[id].status = "active"

CancelAnswered(r) ==
    /\ cancelAcked' = cancelAcked \cup {calls[r].id}
    /\ Answer(r)

(* After the row was updated; the cached job is left as it is. *)
CancelMetering(r) ==
    /\ At(r, "metering")
    /\ LET id == calls[r].id IN
       metering' = IF MeteringActive(id) THEN [metering EXCEPT ![id].status = "done"] ELSE metering
    /\ CancelAnswered(r)
    /\ UNCHANGED <<db, rows, jobs, acked, reused, starts, bills, answered>>

(* Mutant: the status is left to the caller. *)
FallbackKeepsStatus(r) ==
    /\ At(r, "fallback")
    /\ LET id == calls[r].id IN
       IF jobs[id] # NoJob /\ jobs[id].status \in Cancellable
         THEN Goto(r, "unlocked") ELSE Answer(r)
    /\ UNCHANGED <<db, rows, memory, history>>

(* The cached job, if there is one and it can be cancelled; else 404 or 409. *)
CancelFallback(r) ==
    /\ At(r, "fallback")
    /\ LET id == calls[r].id
           possible == jobs[id] # NoJob /\ jobs[id].status \in Cancellable IN
       /\ jobs' = IF possible THEN [jobs EXCEPT ![id].status = "cancelled"] ELSE jobs
       /\ IF possible THEN Goto(r, "unlocked") ELSE Answer(r)
    /\ UNCHANGED <<db, rows, metering, history>>

(* The metering record is read and written without the lock. *)
CancelReadUnlocked(r) ==
    /\ At(r, "unlocked")
    /\ IF MeteringActive(calls[r].id)
         THEN Goto(r, "write") /\ UNCHANGED cancelAcked
         ELSE CancelAnswered(r)
    /\ UNCHANGED <<db, rows, memory, acked, reused, starts, bills, answered>>

CancelWriteUnlocked(r) ==
    /\ At(r, "write")
    /\ metering' = [metering EXCEPT ![calls[r].id].status = "done"]
    /\ CancelAnswered(r)
    /\ UNCHANGED <<db, rows, jobs, acked, reused, starts, bills, answered>>

-----------------------------------------------------------------------------
(* Metering; the job is not looked at when it starts. *)

StartMetering(id, units) ==
    /\ starts[id] < MaxStarts
    /\ metering' = [metering EXCEPT ![id] = [status |-> "active", units |-> units]]
    /\ starts' = [starts EXCEPT ![id] = @ + 1]
    /\ UNCHANGED <<db, rows, jobs, calls, acked, reused, cancelAcked, bills, answered>>

\* int64(units): the upper half of the uint64 values is negative.
Signed(units) == IF 2 * units < Modulus THEN units ELSE units - Modulus

Bill(id, units) == IF jobs[id] = NoJob THEN 0 ELSE Signed(units) * jobs[id].rate

(* Mutant: a record that is not active is billed again. *)
StopMeteringAgain(id, units) ==
    /\ metering[id] # NoRecord /\ bills[id] =< MaxStarts
    /\ metering' = [metering EXCEPT ![id] = [status |-> "done", units |-> units]]
    /\ jobs' = IF jobs[id] = NoJob THEN jobs
               ELSE [jobs EXCEPT ![id].totalBilled = @ + Bill(id, units),
                                 ![id].usageCounter = (@ + units) % Modulus]
    /\ bills' = [bills EXCEPT ![id] = @ + 1]
    /\ answered' = [answered EXCEPT ![id] = @ + Bill(id, units)]
    /\ UNCHANGED <<db, rows, calls, acked, reused, cancelAcked, starts>>

StopMetering(id, units) ==
    /\ MeteringActive(id)
    /\ metering' = [metering EXCEPT ![id] = [status |-> "done", units |-> units]]
    /\ jobs' = IF jobs[id] = NoJob THEN jobs
               ELSE [jobs EXCEPT ![id].totalBilled = @ + Bill(id, units),
                                 ![id].usageCounter = (@ + units) % Modulus]
    /\ bills' = [bills EXCEPT ![id] = @ + 1]
    /\ answered' = [answered EXCEPT ![id] = @ + Bill(id, units)]
    /\ UNCHANGED <<db, rows, calls, acked, reused, cancelAcked, starts>>

-----------------------------------------------------------------------------

(* The process ends, for instance by Go's own check for a concurrent access to a map, *)
(* and starts again; nothing is loaded from the table.                                *)
Restart ==
    /\ jobs' = [id \in Ids |-> NoJob]
    /\ metering' = [id \in Ids |-> NoRecord]
    /\ calls' = [r \in Requests |-> NoCall]
    /\ answered' = [id \in Ids |-> 0]
    /\ UNCHANGED <<db, rows, acked, reused, cancelAcked, starts, bills>>

SubmitStep(r) ==
    \/ \E kind \in Kinds, client \in Clients, id \in Ids : Submit(r, kind, client, id)
    \/ \E outcome \in Outcomes : Insert(r, outcome)
    \/ Cache(r)

CancelStep(r) ==
    \/ \E id \in Ids : Cancel(r, id)
    \/ \E outcome \in Outcomes : CancelUpdate(r, outcome)
    \/ CancelMetering(r) \/ CancelFallback(r)
    \/ CancelReadUnlocked(r) \/ CancelWriteUnlocked(r)

Metering == \E id \in Ids, units \in Units : StartMetering(id, units) \/ StopMetering(id, units)

Next ==
    \/ \E r \in Requests : SubmitStep(r) \/ CancelStep(r)
    \/ Metering
    \/ Restart

Spec == Init /\ [][Next]_vars

-----------------------------------------------------------------------------
(* Properties *)

(* Every variable keeps its type; a call that writes a metering record finds one,    *)
(* although CancelJob does not hold the lock.                                        *)
TypeOK ==
    /\ rows \in [Ids -> RowType \cup {NoJob}]
    /\ jobs \in [Ids -> JobType \cup {NoJob}]
    /\ metering \in [Ids -> RecordType \cup {NoRecord}]
    /\ calls \in [Requests -> CallType \cup {NoCall}]
    /\ \A r \in Requests : At(r, "write") => metering[calls[r].id] # NoRecord
    /\ acked \in [Ids -> AckType \cup {NoJob}]
    /\ db \in BOOLEAN /\ reused \subseteq Ids /\ cancelAcked \subseteq Ids
    /\ starts \in [Ids -> 0..MaxStarts] /\ bills \in [Ids -> Nat]
    /\ answered \in [Ids -> Int]

(* A dedicated job whose submission was answered is in the table, for the client who *)
(* submitted it, whatever fails or restarts afterwards (SubmitJob stores first).      *)
AcknowledgedIsDurable ==
    db => \A id \in Ids :
        acked[id] # NoJob /\ acked[id].kind = "dedicated" =>
            rows[id] # NoJob /\ rows[id].client = acked[id].client

(* However stops, cancellations and restarts interleave with the unlocked writes of   *)
(* CancelJob, no piece of work is billed twice, and a cached job's total is the sum of *)
(* the bills answered for it.  Units become signed in a bill and wrap in the counter,  *)
(* so the total is the usage at the job's rate up to multiples of 2^64 (StopMetering). *)
BilledOncePerStart ==
    \A id \in Ids :
        /\ bills[id] + (IF MeteringActive(id) THEN 1 ELSE 0) =< starts[id]
        /\ jobs[id] # NoJob =>
              /\ jobs[id].totalBilled = answered[id]
              /\ (jobs[id].totalBilled - jobs[id].usageCounter * jobs[id].rate) % Modulus = 0

(* What GetJob may answer: the row's status, or the cached one if there is no row or  *)
(* the query fails; nothing if there is neither.                                      *)
GetJobAnswers(id) ==
    {x.status : x \in {y \in {rows[id], jobs[id]} : y # NoJob}}

(* "job has been cancelled successfully": from then on no answer about the job says   *)
(* anything else.  So it is without a database, for an id that only one job was given *)
(* (CancelJob through the cache; through the database it leaves the cached job).       *)
CancelledStaysCancelled ==
    \A id \in cancelAcked \ reused : ~db => GetJobAnswers(id) \subseteq {"cancelled"}

-----------------------------------------------------------------------------
(* A statement of the handler's comments that its code does not keep. *)

(* "Billed = rate per unit * units": the total is the usage at the rate, and nothing  *)
(* is owed to the client.                                                             *)
BilledIsUsageAtRate ==
    \A id \in Ids : jobs[id] # NoJob =>
        jobs[id].totalBilled >= 0 /\ jobs[id].totalBilled = jobs[id].usageCounter * jobs[id].rate
=============================================================================
