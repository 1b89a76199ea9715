----------------------------- MODULE JobPages -----------------------------
(***************************************************************************)
(* The job pages of the web application, app/(dashboard)/jobs, with        *)
(* hooks/use-jobs.ts and the jobsApi of lib/supabase.ts: the submission    *)
(* wizard, its preview and confirmation, cancellation, the list, and what  *)
(* the detail, SLA and receipt pages say about a job.                      *)
(*                                                                         *)
(* One tab shows one page.  A handler that awaits outlives the page that   *)
(* started it: what it sets is then lost, but router.push still moves the  *)
(* tab.  The backend and the table public.jobs are outside the tab; a job  *)
(* has two names, the id the backend answers with (job_id_256) and the     *)
(* uuid of its row, and a page knows only the one in its URL.              *)
(***************************************************************************)
EXTENDS Integers, FiniteSets

CONSTANTS
    MaxJobs,       \* bound: jobs the backend creates
    MaxVisits,     \* bound: pages mounted
    MaxCalls,      \* bound: submissions and cancellations under way
    MaxFilters     \* bound: statuses selected in the list

ASSUME JobPagesConstants == {MaxJobs, MaxVisits, MaxCalls, MaxFilters} \subseteq Nat \ {0}

VARIABLES
    backend,       \* job -> its status in the backend's memory
    rows,          \* job -> the status of its row of public.jobs
    page,          \* the mounted page and its state
    calls,         \* handlers under way
    visits,        \* pages mounted so far; the last one is on screen
    started,       \* history: job -> the visit whose page submitted it
    sentTo         \* history: jobs the tab was sent to after a submission

jobPagesVars == <<backend, rows, page, calls, visits, started, sentTo>>

Jobs == 1..MaxJobs
Status == {"pending", "running", "completed", "failed", "cancelled"}
None == "none"
RowId(n) == <<"row", n>>
JobId(n) == <<"job", n>>
NoId == <<None, 0>>
UrlIds == {RowId(n) : n \in Jobs} \cup {JobId(n) : n \in Jobs}

Parameters == {"json", "text"}    \* what the textarea holds: JSON or nothing, or other text
Params == [parameters : Parameters]        \* the job of a URL; it carries the whole form
NoParams == [parameters |-> None]

(***************************************************************************)
(* What the pages make of a row.                                           *)
(***************************************************************************)
Undefined == -1
OrZero(x) == IF x = Undefined THEN 0 ELSE x

\* mapJob: no column holds what was measured
mapJob(status) ==
    [status |-> status, required |-> 95,
     progress |-> IF status = "completed" THEN 100 ELSE IF status = "failed" THEN 0 ELSE 50,
     actualUptime |-> Undefined, actualThroughput |-> Undefined]

Null == [status |-> None]

\* fetchJob: jobsApi.get selects by id, which is the uuid of the row; an
\* error of the query is answered as null
fetchJob(id) ==
    IF \E n \in Jobs : id = RowId(n) /\ rows[n] # None
    THEN mapJob(rows[CHOOSE n \in Jobs : id = RowId(n)])
    ELSE Null

Compliant(job) == OrZero(job.actualUptime) >= job.required

\* JobSLAPage: the summary, and the credit it says was issued (in percent of the cost)
SLAPage(job) ==
    CASE job = Null -> "not found"
      [] job # Null /\ job.status \notin {"completed", "failed"} -> "in progress"
      [] OTHER -> IF Compliant(job) THEN "fulfilled" ELSE "breached"

SLACredit(job) == IF SLAPage(job) = "breached" THEN 7 ELSE 0

\* JobReceiptPage: a breach needs a measured uptime
ReceiptPage(job) ==
    LET breach == job.actualUptime # Undefined /\ job.actualUptime < job.required
    IN CASE job = Null -> "not found"
         [] job # Null /\ breach -> "breached"
         [] job # Null /\ ~breach /\ job.status = "completed" -> "fulfilled"
         [] job # Null /\ ~breach /\ job.status # "completed" -> job.status

\* the net amount of the receipt, in percent of the cost
NetCost(job) == IF ReceiptPage(job) = "breached" THEN 100 - 10 + 7 ELSE 100

\* JobDetailPage: the gauges take a missing measurement for zero
DetailPage(job) ==
    CASE job = Null -> "not found"
      [] OTHER -> IF Compliant(job) THEN "compliant" ELSE "breach"

\* JobsPage: the filtered rows, at most 50 of them, as a table or as cards;
\* the column "SLA" of the table reads a field that mapJob does not set
FilteredJobs(p) ==
    {n \in p.jobs : p.statusFilter = {} \/ rows[n] \in p.statusFilter}
TableThrows(p) == p.view = "table" /\ FilteredJobs(p) # {}

(***************************************************************************)
(* Pages: their state when they mount.                                     *)
(***************************************************************************)
NewJobPage ==
    [at |-> "new", currentStep |-> 1, jobType |-> FALSE, parameters |-> "json",
     deadline |-> "number", agreeTerms |-> FALSE, showConfirmDialog |-> FALSE,
     isSubmitting |-> FALSE]
JobPreviewPage(job) == [at |-> "preview", job |-> job, eligibleNodes |-> "fetching"]
JobConfirmPage(job) ==
    [at |-> "confirm", job |-> job, step |-> "review", error |-> FALSE]
JobCancelPage(id) ==
    [at |-> "cancel", id |-> id, job |-> Null, isCancelling |-> FALSE, done |-> FALSE]
JobViewPage(id) == [at |-> "view", id |-> id, job |-> Null]
JobsPage == [at |-> "jobs", view |-> "table", statusFilter |-> {}, jobs |-> {}]
NotFound == [at |-> "404"]
Login == [at |-> "login"]

TypedPages ==
    {NewJobPage, JobsPage}
    \cup {JobPreviewPage(j) : j \in Params \cup {NoParams}}
    \cup {JobConfirmPage(j) : j \in Params \cup {NoParams}}
    \cup {JobCancelPage(id) : id \in UrlIds} \cup {JobViewPage(id) : id \in UrlIds}

JobPagesInit ==
    /\ backend = [n \in Jobs |-> None] /\ rows = [n \in Jobs |-> None]
    /\ page \in TypedPages /\ visits = 1
    /\ calls = {} /\ started = [n \in Jobs |-> 0] /\ sentTo = {}

server == <<backend, rows>>
history == <<started, sentTo>>

Mount(p) == page' = p /\ visits' = visits + 1
\* router.push to /dashboard/jobs/...: the pages live under /jobs, no route matches
PushDashboardJobs == Mount(NotFound)
\* A handler of visit v sets state: nothing happens once its page is gone
Mounted(v) == v = visits
SetState(v, p) == page' = (IF Mounted(v) THEN p ELSE page)
Stay == UNCHANGED <<page, visits>>
On(name) == page.at = name

\* The user opens a page by its address.
Visit(p) ==
    /\ visits < MaxVisits
    /\ Mount(p)
    /\ UNCHANGED <<server, calls, history>>

(***************************************************************************)
(* The wizard, jobs/new.                                                   *)
(***************************************************************************)
canProceed(p) ==
    CASE p.currentStep = 1 -> p.jobType
      [] p.currentStep \in {2, 3} -> TRUE      \* the sliders stay in range
      [] p.currentStep = 4 -> p.agreeTerms

\* jobSchema: an edited deadline is text, which z.number() refuses
Valid(p) == p.jobType /\ p.agreeTerms /\ p.deadline = "number"

\* The buttons below the steps, none of them a submit button
WizardButtons(p) ==
    {b \in {"back", "continue", "review"} :
        /\ b = "back" => p.currentStep > 1
        /\ b = "continue" => p.currentStep < 4 /\ canProceed(p)
        /\ b = "review" => p.currentStep = 4 /\ canProceed(p) /\ ~p.isSubmitting}
OnStep(k) == On("new") /\ ~page.showConfirmDialog /\ page.currentStep = k

ChooseJobType ==
    /\ OnStep(1)
    /\ page' = [page EXCEPT !.jobType = TRUE]
    /\ UNCHANGED <<visits, server, calls, history>>

\* uptime and throughput come from sliders and presets, the deadline is typed
ConfigureSLA ==
    /\ OnStep(2)
    /\ page' = [page EXCEPT !.deadline = "text"]
    /\ UNCHANGED <<visits, server, calls, history>>

EditParameters ==
    /\ OnStep(3)
    /\ \E x \in Parameters : page' = [page EXCEPT !.parameters = x]
    /\ UNCHANGED <<visits, server, calls, history>>

AgreeTerms ==
    /\ OnStep(4)
    /\ page' = [page EXCEPT !.agreeTerms = ~@]
    /\ UNCHANGED <<visits, server, calls, history>>

goToNext ==
    /\ On("new") /\ ~page.showConfirmDialog /\ "continue" \in WizardButtons(page)
    /\ page' = [page EXCEPT !.currentStep = @ + 1]
    /\ UNCHANGED <<visits, server, calls, history>>

goToPrev ==
    /\ On("new") /\ ~page.showConfirmDialog /\ "back" \in WizardButtons(page)
    /\ page' = [page EXCEPT !.currentStep = @ - 1]
    /\ UNCHANGED <<visits, server, calls, history>>

goToPreview ==
    /\ On("new") /\ ~page.showConfirmDialog /\ "review" \in WizardButtons(page)
    /\ visits < MaxVisits
    /\ PushDashboardJobs
    /\ UNCHANGED <<server, calls, history>>

\* Enter in the form of step 4: handleSubmit raises and lowers isSubmitting
\* around its own callback, whatever else is being submitted
SubmitForm ==
    /\ OnStep(4)
    /\ page' = [page EXCEPT !.isSubmitting = FALSE, !.showConfirmDialog = Valid(page)]
    /\ UNCHANGED <<visits, server, calls, history>>

CloseDialog ==
    /\ On("new") /\ page.showConfirmDialog
    /\ page' = [page EXCEPT !.showConfirmDialog = FALSE]
    /\ UNCHANGED <<visits, server, calls, history>>

\* "Confirm Submission" of the dialog: onSubmit up to its first await
onSubmit ==
    /\ On("new") /\ page.showConfirmDialog /\ ~page.isSubmitting
    /\ Cardinality(calls) < MaxCalls
    /\ page' = [page EXCEPT !.showConfirmDialog = FALSE, !.isSubmitting = TRUE]
    /\ calls' = calls \cup {[op |-> "new", visit |-> visits, at |-> "user",
                             parameters |-> page.parameters, id |-> NoId, job |-> 0]}
    /\ UNCHANGED <<visits, server, history>>

GetCurrentUser(c) ==
    /\ c.op = "new" /\ c.at = "user"
    /\ \/ /\ calls' = (calls \ {c}) \cup {[c EXCEPT !.at = "post"]}
          /\ Stay
       \/ /\ visits < MaxVisits
          /\ calls' = calls \ {c}
          /\ Mount(Login)
    /\ UNCHANGED <<server, history>>

(***************************************************************************)
(* The two awaits of a submission, the same on jobs/new and on             *)
(* jobs/new/confirm.                                                       *)
(***************************************************************************)
Unused == {n \in Jobs : backend[n] = None}

\* the error of the confirmation page forgotten
SubmitFailedSilently(c) ==
    SetState(c.visit,
        IF c.op = "new" THEN [page EXCEPT !.isSubmitting = FALSE]
        ELSE [page EXCEPT !.step = "done"])

\* catch: the confirmation page shows the error and lets the user try again,
\* the wizard only logs it
SubmitFailed(c) ==
    SetState(c.visit,
        IF c.op = "new" THEN [page EXCEPT !.isSubmitting = FALSE]
        ELSE [page EXCEPT !.step = "done", !.error = TRUE])

\* POST /api/v1/jobs/serverless.  The job runs once the backend has answered,
\* or once it has tried to; its row is written if the backend has a database
\* and the insert succeeds
PostJob(c) ==
    /\ c.op \in {"new", "confirm"} /\ c.at = "post"
    /\ \/ \E n \in Unused, inserted, answered \in BOOLEAN :
             /\ n - 1 \notin Unused
             /\ backend' = [backend EXCEPT ![n] = "running"]
             /\ rows' = IF inserted THEN [rows EXCEPT ![n] = "running"] ELSE rows
             /\ started' = [started EXCEPT ![n] = c.visit]
             /\ IF answered
                THEN /\ calls' = (calls \ {c}) \cup {[c EXCEPT !.at = "create", !.job = n]}
                     /\ UNCHANGED page
                ELSE calls' = calls \ {c} /\ SubmitFailed(c)
       \/ /\ calls' = calls \ {c}
          /\ SubmitFailed(c)
          /\ UNCHANGED <<backend, rows, started>>
    /\ UNCHANGED <<visits, sentTo>>

\* jobsApi.create: job_id_256 is unique, so the insert fails when the backend
\* has inserted the row; JSON.parse throws before it on parameters that are
\* not JSON; node_id takes the wallet of the node where a uuid is expected,
\* which the failing branch stands for as well
CreateRow(c) ==
    /\ c.at = "create"
    /\ calls' = calls \ {c}
    /\ \/ /\ c.parameters # "text" /\ rows[c.job] = None /\ visits < MaxVisits
          /\ rows' = [rows EXCEPT ![c.job] = "pending"]
          /\ PushDashboardJobs
          /\ sentTo' = sentTo \cup {c.job}
       \/ SubmitFailed(c) /\ UNCHANGED <<rows, visits, sentTo>>
    /\ UNCHANGED <<backend, started>>

(***************************************************************************)
(* jobs/new/preview and jobs/new/confirm.                                  *)
(***************************************************************************)
EligibleNodes ==
    /\ On("preview") /\ page.eligibleNodes = "fetching"
    /\ \E answer \in {"counted", "none"} : page' = [page EXCEPT !.eligibleNodes = answer]
    /\ UNCHANGED <<visits, server, calls, history>>

\* A preview without a job only offers to start over; with one, whatever was
\* counted, it also goes on
PreviewButtons(p) ==
    IF p.job = NoParams THEN {"start over"} ELSE {"edit", "proceed"}

\* Every one of them leads under /dashboard/jobs.
LeavePreview ==
    /\ On("preview") /\ PreviewButtons(page) # {} /\ visits < MaxVisits
    /\ PushDashboardJobs
    /\ UNCHANGED <<server, calls, history>>

\* the wallet button while nothing is signed; the submit button, which is there
\* in every step, is enabled in "done" only
ConfirmButtons(p) ==
    IF p.job = NoParams THEN {"start over"}
    ELSE {"back"} \cup {b \in {"connect", "submit"} :
             /\ b = "connect" => p.step = "review"
             /\ b = "submit" => p.step = "done"}

\* the signature is simulated: one render shows the page before and after it
handleConnectWallet ==
    /\ On("confirm") /\ "connect" \in ConfirmButtons(page)
    /\ page' = [page EXCEPT !.step = "done"]
    /\ UNCHANGED <<visits, server, calls, history>>

handleConfirm ==
    /\ On("confirm") /\ "submit" \in ConfirmButtons(page)
    /\ Cardinality(calls) < MaxCalls
    /\ page' = [page EXCEPT !.step = "submitting", !.error = FALSE]
    /\ calls' = calls \cup {[op |-> "confirm", visit |-> visits, at |-> "post",
                             parameters |-> page.job.parameters, id |-> NoId, job |-> 0]}
    /\ UNCHANGED <<visits, server, history>>

(***************************************************************************)
(* jobs/[id]/cancel and the pages that poll a job.                         *)
(***************************************************************************)
\* useJob polls every five seconds; a realtime update refetches
Poll ==
    /\ page.at \in {"cancel", "view"}
    /\ page' = [page EXCEPT !.job = fetchJob(page.id)]
    /\ UNCHANGED <<visits, server, calls, history>>

isActive(job) == job.status \in {"running", "pending"}

CancelButtons(p) ==
    IF (~isActive(p.job) /\ ~p.done) \/ p.done \/ p.isCancelling THEN {} ELSE {"cancel job"}

handleCancel ==
    /\ On("cancel") /\ "cancel job" \in CancelButtons(page)
    /\ Cardinality(calls) < MaxCalls
    /\ page' = [page EXCEPT !.isCancelling = TRUE]
    /\ calls' = calls \cup {[op |-> "cancel", visit |-> visits, at |-> "cancel",
                             parameters |-> None, id |-> page.id, job |-> 0]}
    /\ UNCHANGED <<visits, server, history>>

\* The backend looks the id up as a job_id_256, in the table and in memory.
BackendCancels(id) ==
    {n \in Jobs : id = JobId(n) /\ (isActive([status |-> rows[n]]) \/ isActive([status |-> backend[n]]))}

\* The answer: cancelled (and the row is updated by id), refused (nothing
\* resets isCancelling), or no answer (catch resets it)
CancelAnswered(c) ==
    /\ c.op = "cancel"
    /\ calls' = calls \ {c}
    /\ LET hit == BackendCancels(c.id)
       IN /\ backend' = [n \in Jobs |-> IF n \in hit THEN "cancelled" ELSE backend[n]]
          /\ rows' = [n \in Jobs |-> IF n \in hit /\ rows[n] # None THEN "cancelled" ELSE rows[n]]
          /\ \/ SetState(c.visit, IF hit = {} THEN page ELSE [page EXCEPT !.done = TRUE])
             \/ SetState(c.visit, [page EXCEPT !.isCancelling = FALSE])
    /\ UNCHANGED <<visits, history>>

(***************************************************************************)
(* The list, jobs.                                                         *)
(***************************************************************************)
PollList ==
    /\ On("jobs") /\ ~TableThrows(page)
    /\ page' = [page EXCEPT !.jobs = {n \in Jobs : rows[n] # None}]
    /\ UNCHANGED <<visits, server, calls, history>>

ToggleStatus ==
    /\ On("jobs") /\ ~TableThrows(page)
    /\ \E s \in {"running", "completed", "requeued"} :
          /\ s \notin page.statusFilter => Cardinality(page.statusFilter) < MaxFilters
          /\ page' = [page EXCEPT !.statusFilter = IF s \in @ THEN @ \ {s} ELSE @ \cup {s}]
    /\ UNCHANGED <<visits, server, calls, history>>

\* the pill of a single status has no comma and is not removed
RemovePill ==
    /\ On("jobs") /\ ~TableThrows(page) /\ Cardinality(page.statusFilter) > 1
    /\ page' = [page EXCEPT !.statusFilter = {}]
    /\ UNCHANGED <<visits, server, calls, history>>

ViewToggle ==
    /\ On("jobs") /\ ~TableThrows(page)
    /\ page' = [page EXCEPT !.view = IF @ = "table" THEN "cards" ELSE "table"]
    /\ UNCHANGED <<visits, server, calls, history>>

\* The node that runs a job ends it.
JobEnds(n) ==
    /\ backend[n] = "running"
    /\ \E s \in {"completed", "failed"} :
          /\ backend' = [backend EXCEPT ![n] = s]
          /\ rows' = IF isActive([status |-> rows[n]]) THEN [rows EXCEPT ![n] = s] ELSE rows
    /\ UNCHANGED <<page, visits, calls, history>>

JobPagesNext ==
    \/ \E p \in TypedPages : Visit(p)
    \/ ChooseJobType \/ ConfigureSLA \/ EditParameters \/ AgreeTerms
    \/ goToNext \/ goToPrev \/ goToPreview \/ SubmitForm \/ CloseDialog \/ onSubmit
    \/ \E c \in calls : GetCurrentUser(c) \/ PostJob(c) \/ CreateRow(c) \/ CancelAnswered(c)
    \/ EligibleNodes \/ LeavePreview \/ handleConnectWallet \/ handleConfirm
    \/ Poll \/ handleCancel
    \/ PollList \/ ToggleStatus \/ RemovePill \/ ViewToggle
    \/ \E n \in Jobs : JobEnds(n)

JobPagesSpec == JobPagesInit /\ [][JobPagesNext]_jobPagesVars

(***************************************************************************)
(* Properties.                                                             *)
(***************************************************************************)
\* What a submission tells the user is so.  It sends the tab to a job
\* (router.push at the end of onSubmit and of handleConfirm) only when that
\* job runs on the backend and has a row: an error of either of the two
\* services stops it before.  And the confirmation page never has two
\* submissions under way, and never passes over in silence a job it started
\* and did not send the user to: a submission is under way, or an error shown.
SubmissionTellsTruth ==
    /\ \A n \in sentTo : backend[n] # None /\ rows[n] # None
    /\ On("confirm") =>
          LET mine == {c \in calls : c.op = "confirm" /\ c.visit = visits}
          IN /\ Cardinality(mine) <= 1
             /\ (\E n \in Jobs : started[n] = visits) => mine # {} \/ page.error

-----------------------------------------------------------------------------
\* Statements of the pages and of the backend that the pages do not keep.

\* The page "Cancel your compute job and stop further charges" sends an id the
\* backend knows: it polls and posts the uuid of the row, the backend looks a
\* job up by its job_id_256, so nothing is cancelled from the web.
CancelReachesJob == \A c \in calls : c.op = "cancel" => \E n \in Jobs : c.id = JobId(n)

\* The receipt and the SLA page give one verdict on a job that completed, and
\* agree on what it cost: a missing measurement is no breach for the one and a
\* measured zero for the other, which reports a credit the receipt lacks.
VerdictsAgree ==
    On("view") /\ page.job # Null /\ page.job.status = "completed" =>
        /\ (ReceiptPage(page.job) = "breached") <=> (SLAPage(page.job) = "breached")
        /\ (NetCost(page.job) = 100) <=> (SLACredit(page.job) = 0)
=============================================================================
