------------------------------ MODULE WebProofs ------------------------------
(***************************************************************************)
(* Proofs about the areas of the web application, for every number of      *)
(* pages, calls, sockets, dialogs and users, and for every bound.  The     *)
(* areas share no state, so each has a section with its inductive          *)
(* invariant, one lemma for each kind of step, and its theorem; the last   *)
(* section puts them together.                                             *)
(***************************************************************************)
EXTENDS DataLemmas, MCWeb

-----------------------------------------------------------------------------
(* The job pages *)

IsCall(c) ==
    /\ c = [op |-> c.op, visit |-> c.visit, at |-> c.at, parameters |-> c.parameters, id |-> c.id, job |-> c.job]
    /\ <<c.op, c.at>> \in {<<"new", "user">>, <<"new", "post">>, <<"new", "create">>,
                           <<"confirm", "post">>, <<"confirm", "create">>, <<"cancel", "cancel">>}
    /\ c.visit \in Nat

JobPagesShape ==
    /\ visits \in Nat /\ "at" \in DOMAIN page
    /\ backend = [n \in Jobs |-> backend[n]] /\ rows = [n \in Jobs |-> rows[n]]
    /\ started = [n \in Jobs |-> started[n]] /\ \A n \in Jobs : started[n] \in Nat
    /\ \A c \in calls : IsCall(c)

\* What happened belongs to the pages up to this one, and a handler of this
\* page is one that a page of its kind starts.
PastIsPast ==
    /\ \A n \in Jobs : started[n] <= visits
    /\ \A c \in calls : c.visit <= visits /\ (c.visit = visits => c.op = page.at)

\* A job with an answer runs, and the tab is sent to those that have a row too.
AnsweredRuns ==
    /\ \A c \in calls : c.at = "create" => c.job \in Jobs /\ backend[c.job] # None
    /\ sentTo \subseteq Jobs
    /\ \A n \in sentTo : backend[n] # None /\ rows[n] # None

\* The confirmation page: one submission while it says so, none otherwise, and
\* then an error for every job it started.
ConfirmWaits ==
    page.at = "confirm" =>
        /\ page = [at |-> "confirm", job |-> page.job, step |-> page.step, error |-> page.error]
        /\ \A c, d \in calls : c.visit = visits /\ d.visit = visits => c = d
        /\ page.step = "submitting" => \E c \in calls : c.visit = visits
        /\ page.step # "submitting" =>
              /\ \A c \in calls : c.visit # visits
              /\ \A n \in Jobs : started[n] = visits => page.error

JobPagesInv == JobPagesShape /\ PastIsPast /\ AnsweredRuns /\ ConfirmWaits

\* A page as it mounts.
FreshPage(p) ==
    /\ "at" \in DOMAIN p
    /\ p.at = "confirm" => p = [at |-> "confirm", job |-> p.job, step |-> "review", error |-> p.error]

\* The pages one may type into start with nothing sent.
LEMMA TypedPagesAreFresh == \A p \in TypedPages : FreshPage(p)
BY DEF TypedPages, FreshPage, NewJobPage, JobsPage, JobPreviewPage, JobConfirmPage, JobCancelPage, JobViewPage

\* It holds at first.
LEMMA JobPagesStart == JobPagesInit => JobPagesInv
<1> SUFFICES ASSUME JobPagesInit PROVE JobPagesInv
  OBVIOUS
<1>1. FreshPage(page)
  BY TypedPagesAreFresh DEF JobPagesInit
<1>2. /\ visits = 1 /\ calls = {} /\ sentTo = {}
      /\ \A n \in Jobs : started[n] = 0
  BY DEF JobPagesInit
<1>3. JobPagesShape
  BY <1>1, <1>2 DEF JobPagesInit, JobPagesShape, FreshPage
<1>4. ConfirmWaits
  BY <1>1, <1>2 DEF ConfirmWaits, FreshPage
<1> QED
  BY <1>2, <1>3, <1>4 DEF JobPagesInv, PastIsPast, AnsweredRuns

\* Jobs do not go away, in the backend or in the table.
JobsStay ==
    /\ backend' = [n \in Jobs |-> backend'[n]] /\ rows' = [n \in Jobs |-> rows'[n]]
    /\ \A n \in Jobs : /\ backend[n] # None => backend'[n] # None
                       /\ rows[n] # None => rows'[n] # None

\* A step that leaves the backend and the rows alone leaves every job.
LEMMA SameJobsStay == ASSUME JobPagesInv, UNCHANGED <<backend, rows>> PROVE JobsStay
BY DEF JobPagesInv, JobPagesShape, JobsStay

\* The next page mounts: nothing that happened is about it.
LEMMA MountKeeps ==
    ASSUME JobPagesInv, NEW p, FreshPage(p), Mount(p), JobsStay, UNCHANGED started, calls' \subseteq calls,
           \A n \in sentTo' : n \in sentTo \/ (n \in Jobs /\ backend'[n] # None /\ rows'[n] # None)
    PROVE  JobPagesInv'
<1>1. page' = p /\ visits' = visits + 1 /\ visits \in Nat
  BY DEF Mount, JobPagesInv, JobPagesShape
<1>2. /\ \A n \in Jobs : started[n] < visits'
      /\ \A c \in calls : c.visit < visits'
  BY <1>1 DEF JobPagesInv, JobPagesShape, PastIsPast, IsCall
<1>3. JobPagesShape'
  BY <1>1 DEF JobPagesInv, JobPagesShape, FreshPage, JobsStay
<1>6. AnsweredRuns'
  BY DEF JobPagesInv, AnsweredRuns, JobsStay
<1>5. PastIsPast'
  <2>1. \A n \in Jobs : started'[n] <= visits'
    BY <1>1, <1>2 DEF JobPagesInv, JobPagesShape
  <2>2. \A c \in calls : c.visit <= visits' /\ c.visit # visits'
    BY <1>1, <1>2 DEF JobPagesInv, JobPagesShape, IsCall
  <2> QED
    BY <2>1, <2>2 DEF PastIsPast
<1>4. ConfirmWaits'
  BY <1>1, <1>2 DEF JobPagesInv, JobPagesShape, ConfirmWaits, FreshPage
<1> QED
  BY <1>3, <1>4, <1>5, <1>6 DEF JobPagesInv

\* A step on another page than the confirmation that starts nothing.
LEMMA PageKeeps ==
    ASSUME JobPagesInv, page.at # "confirm", page'.at = page.at, "at" \in DOMAIN page',
           UNCHANGED <<visits, calls, started, sentTo>>, JobsStay
    PROVE  JobPagesInv'
BY DEF JobsStay, JobPagesInv, JobPagesShape, PastIsPast, AnsweredRuns, ConfirmWaits

\* Steps on the pages that send nothing.
LEMMA OtherPagesKeep ==
    ASSUME JobPagesInv,
           \/ ChooseJobType \/ ConfigureSLA \/ EditParameters \/ AgreeTerms
           \/ goToNext \/ goToPrev \/ SubmitForm \/ CloseDialog \/ EligibleNodes
           \/ Poll \/ PollList \/ ToggleStatus \/ RemovePill \/ ViewToggle
    PROVE  JobPagesInv'
<1>1. page.at # "confirm" /\ UNCHANGED <<visits, server, calls, history>>
  BY DEF ChooseJobType, ConfigureSLA, EditParameters, AgreeTerms, goToNext, goToPrev, SubmitForm, CloseDialog,
         EligibleNodes, Poll, PollList, ToggleStatus, RemovePill, ViewToggle, OnStep, On
<1>2. "at" \in DOMAIN page
  BY DEF JobPagesInv, JobPagesShape
<1>3. page'.at = page.at /\ "at" \in DOMAIN page'
  <2>1. CASE ChooseJobType
    BY <1>2, <2>1 DEF ChooseJobType
  <2>2. CASE ConfigureSLA
    BY <1>2, <2>2 DEF ConfigureSLA
  <2>3. CASE EditParameters
    BY <1>2, <2>3 DEF EditParameters
  <2>4. CASE AgreeTerms
    BY <1>2, <2>4 DEF AgreeTerms
  <2>5. CASE goToNext
    BY <1>2, <2>5 DEF goToNext
  <2>6. CASE goToPrev
    BY <1>2, <2>6 DEF goToPrev
  <2>7. CASE SubmitForm
    BY <1>2, <2>7 DEF SubmitForm
  <2>8. CASE CloseDialog
    BY <1>2, <2>8 DEF CloseDialog
  <2>9. CASE EligibleNodes
    BY <1>2, <2>9 DEF EligibleNodes
  <2>10. CASE Poll
    BY <1>2, <2>10 DEF Poll
  <2>11. CASE PollList
    BY <1>2, <2>11 DEF PollList
  <2>12. CASE ToggleStatus
    BY <1>2, <2>12 DEF ToggleStatus
  <2>13. CASE RemovePill
    BY <1>2, <2>13 DEF RemovePill
  <2>14. CASE ViewToggle
    BY <1>2, <2>14 DEF ViewToggle
  <2> QED
    BY <2>1, <2>2, <2>3, <2>4, <2>5, <2>6, <2>7, <2>8, <2>9, <2>10, <2>11, <2>12, <2>13, <2>14
<1>4. UNCHANGED <<backend, rows, started, sentTo>>
  BY <1>1 DEF server, history
<1> QED
  BY <1>1, <1>3, <1>4, PageKeeps, SameJobsStay

\* A page that is mounted starts with nothing sent, whatever calls are still under way.
LEMMA MountsKeepJobs ==
    ASSUME JobPagesInv,
           \/ \E p \in TypedPages : Visit(p)
           \/ goToPreview \/ LeavePreview
    PROVE  JobPagesInv'
<1>1. UNCHANGED <<backend, rows, started, sentTo, calls>>
  BY DEF Visit, goToPreview, LeavePreview, server, history
<1>2. FreshPage(NotFound)
  BY DEF NotFound, FreshPage
<1>3. \E p : FreshPage(p) /\ Mount(p)
  BY <1>2, TypedPagesAreFresh DEF Visit, goToPreview, LeavePreview, PushDashboardJobs
<1> QED
  BY <1>1, <1>3, MountKeeps, SameJobsStay

\* A handler moves on or ends (D is what is left of it), and what its page
\* shows follows.
CallMoves(c, D) ==
    /\ calls' = (calls \ {c}) \cup D
    /\ D = {} \/ \E d : D = {d}
    /\ \A d \in D : /\ IsCall(d) /\ d.visit = c.visit /\ d.op = c.op
                    /\ d.at = "create" => d.job \in Jobs /\ backend'[d.job] # None
    /\ UNCHANGED <<visits, sentTo>> /\ JobsStay
    /\ page'.at = page.at /\ "at" \in DOMAIN page'
    /\ started' = [n \in Jobs |-> started'[n]]
    /\ \A n \in Jobs : started'[n] \in {started[n], c.visit}
    /\ page.at = "confirm" => \/ UNCHANGED page /\ (c.visit = visits => D # {})
                              \/ /\ c.visit = visits /\ D = {}
                                 /\ page' = [at |-> "confirm", job |-> page'.job, step |-> "done",
                                             error |-> page'.error]
                                 /\ page'.error

\* A call that goes on, in the place of the one it continues.
LEMMA CallKeeps ==
    ASSUME JobPagesInv, NEW c \in calls, NEW D, CallMoves(c, D)
    PROVE  JobPagesInv'
<1>a. \A d : d \in calls' <=> (d \in calls /\ d # c) \/ d \in D
  BY DEF CallMoves
<1>f. \A d, e \in D : d = e
  BY DEF CallMoves
<1>b. \A d \in D : /\ IsCall(d) /\ d.visit = c.visit /\ d.op = c.op
                   /\ d.at = "create" => d.job \in Jobs /\ backend'[d.job] # None
  BY DEF CallMoves
<1>c. UNCHANGED <<visits, sentTo>> /\ JobsStay /\ page'.at = page.at /\ "at" \in DOMAIN page'
  BY DEF CallMoves
<1>d. started' = [n \in Jobs |-> started'[n]] /\ \A n \in Jobs : started'[n] \in {started[n], c.visit}
  BY DEF CallMoves
<1>e. page.at = "confirm" => \/ UNCHANGED page /\ (c.visit = visits => D # {})
                            \/ /\ c.visit = visits /\ D = {}
                               /\ page' = [at |-> "confirm", job |-> page'.job, step |-> "done",
                                           error |-> page'.error]
                               /\ page'.error
  BY DEF CallMoves
<1>1. /\ c.visit \in Nat /\ c.visit <= visits /\ visits \in Nat
      /\ \A n \in Jobs : started[n] \in Nat
  BY DEF JobPagesInv, JobPagesShape, PastIsPast, IsCall
<1>2. JobPagesShape'
  BY <1>1, <1>a, <1>b, <1>c, <1>d DEF JobPagesInv, JobPagesShape, JobsStay
<1>3. PastIsPast'
  BY <1>1, <1>a, <1>b, <1>c, <1>d DEF JobPagesInv, PastIsPast
<1>4. AnsweredRuns'
  BY <1>a, <1>b, <1>c DEF JobPagesInv, AnsweredRuns, JobsStay
<1>5. ASSUME page.at = "confirm", c.visit # visits
      PROVE  ConfirmWaits'
  <2>1. UNCHANGED page
    BY <1>5, <1>e
  <2>2. \A d : d \in calls' /\ d.visit = visits <=> d \in calls /\ d.visit = visits
    BY <1>5, <1>a, <1>b
  <2>3. \A n \in Jobs : started'[n] = visits => started[n] = visits
    BY <1>5, <1>d
  <2> QED
    BY <1>c, <2>1, <2>2, <2>3 DEF JobPagesInv, ConfirmWaits
<1>6. ASSUME page.at = "confirm", c.visit = visits
      PROVE  ConfirmWaits'
  <2>1. /\ page.step = "submitting" /\ \A d \in calls : d.visit = visits => d = c
    BY <1>6 DEF JobPagesInv, ConfirmWaits
  <2>2. \A d \in calls' : d.visit = visits => d \in D
    BY <1>a, <2>1
  <2>3. CASE UNCHANGED page /\ D # {}
    <3>1. page = [at |-> "confirm", job |-> page.job, step |-> page.step, error |-> page.error]
      BY <1>6 DEF JobPagesInv, ConfirmWaits
    <3>2. \A d, e \in calls' : d.visit = visits /\ e.visit = visits => d = e
      BY <1>f, <2>2
    <3>3. \E d \in calls' : d.visit = visits
      BY <1>6, <1>a, <1>b, <2>3
    <3> QED
      BY <1>c, <2>1, <2>3, <3>1, <3>2, <3>3 DEF ConfirmWaits
  <2>4. CASE D = {} /\ page' = [at |-> "confirm", job |-> page'.job, step |-> "done", error |-> page'.error]
             /\ page'.error
    BY <1>c, <2>2, <2>4 DEF ConfirmWaits
  <2> QED
    BY <1>6, <1>e, <2>3, <2>4
<1>7. page.at # "confirm" => ConfirmWaits'
  BY <1>c DEF ConfirmWaits
<1> QED
  BY <1>2, <1>3, <1>4, <1>5, <1>6, <1>7 DEF JobPagesInv

\* The wizard and the page that cancels start a handler.
LEMMA StartKeeps ==
    ASSUME JobPagesInv, NEW c, IsCall(c), c.visit = visits, c.op = page.at, c.at # "create",
           calls' = calls \cup {c}, page.at # "confirm", page'.at = page.at, "at" \in DOMAIN page',
           UNCHANGED <<visits, backend, rows, started, sentTo>>
    PROVE  JobPagesInv'
<1>1. visits \in Nat
  BY DEF JobPagesInv, JobPagesShape
<1> QED
  BY <1>1 DEF JobPagesInv, JobPagesShape, PastIsPast, AnsweredRuns, ConfirmWaits

\* Pressing a button starts a call of this visit.
LEMMA StartsKeep == ASSUME JobPagesInv, onSubmit \/ handleCancel PROVE JobPagesInv'
<1>0. visits \in Nat /\ "at" \in DOMAIN page
  BY DEF JobPagesInv, JobPagesShape
<1>1. CASE onSubmit
  <2>1. PICK c : /\ c = [op |-> "new", visit |-> visits, at |-> "user", parameters |-> page.parameters,
                         id |-> NoId, job |-> 0]
                 /\ calls' = calls \cup {c}
    BY <1>1 DEF onSubmit
  <2>2. page.at = "new" /\ page'.at = page.at /\ "at" \in DOMAIN page'
    BY <1>0, <1>1 DEF onSubmit, On
  <2>3. UNCHANGED <<visits, backend, rows, started, sentTo>>
    BY <1>1 DEF onSubmit, server, history
  <2>4. IsCall(c) /\ c.visit = visits /\ c.op = "new" /\ c.at = "user"
    BY <1>0, <2>1 DEF IsCall
  <2> QED
    BY <2>1, <2>2, <2>3, <2>4, StartKeeps
<1>2. CASE handleCancel
  <2>1. PICK c : /\ c = [op |-> "cancel", visit |-> visits, at |-> "cancel", parameters |-> None,
                         id |-> page.id, job |-> 0]
                 /\ calls' = calls \cup {c}
    BY <1>2 DEF handleCancel
  <2>2. page.at = "cancel" /\ page'.at = page.at /\ "at" \in DOMAIN page'
    BY <1>0, <1>2 DEF handleCancel, On
  <2>3. UNCHANGED <<visits, backend, rows, started, sentTo>>
    BY <1>2 DEF handleCancel, server, history
  <2>4. IsCall(c) /\ c.visit = visits /\ c.op = "cancel" /\ c.at = "cancel"
    BY <1>0, <2>1 DEF IsCall
  <2> QED
    BY <2>1, <2>2, <2>3, <2>4, StartKeeps
<1> QED
  BY <1>1, <1>2

\* The confirmation page: it submits when it is done signing, and then waits.
LEMMA ConfirmKeeps == ASSUME JobPagesInv, handleConnectWallet \/ handleConfirm PROVE JobPagesInv'
<1>0. visits \in Nat /\ page.at = "confirm" /\ UNCHANGED <<visits, backend, rows, started, sentTo>>
  BY DEF JobPagesInv, JobPagesShape, handleConnectWallet, handleConfirm, On, server, history
<1>1. page = [at |-> "confirm", job |-> page.job, step |-> page.step, error |-> page.error]
  BY <1>0 DEF JobPagesInv, ConfirmWaits
<1>2. CASE handleConnectWallet
  <2>1. page.step = "review" /\ UNCHANGED calls
    BY <1>2 DEF handleConnectWallet, ConfirmButtons
  <2>2. page' = [at |-> "confirm", job |-> page.job, step |-> "done", error |-> page.error]
    BY <1>1, <1>2 DEF handleConnectWallet
  <2>3. JobPagesShape' /\ PastIsPast' /\ AnsweredRuns'
    BY <1>0, <2>1, <2>2 DEF JobPagesInv, JobPagesShape, PastIsPast, AnsweredRuns
  <2>4. ConfirmWaits'
    BY <1>0, <2>1, <2>2 DEF JobPagesInv, ConfirmWaits
  <2> QED
    BY <2>3, <2>4 DEF JobPagesInv
<1>3. CASE handleConfirm
  <2>1. page.step = "done"
    BY <1>3 DEF handleConfirm, ConfirmButtons
  <2>2. PICK e : page' = [[page EXCEPT !.step = "submitting"] EXCEPT !.error = e]
    BY <1>3 DEF handleConfirm
  <2>3. page' = [at |-> "confirm", job |-> page.job, step |-> "submitting", error |-> e]
    <3>1. [page EXCEPT !.step = "submitting"] =
             [at |-> "confirm", job |-> page.job, step |-> "submitting", error |-> page.error]
      BY <1>1
    <3> QED
      BY <2>2, <3>1
  <2>4. PICK c : /\ c = [op |-> "confirm", visit |-> visits, at |-> "post",
                         parameters |-> page.job.parameters, id |-> NoId, job |-> 0]
                 /\ calls' = calls \cup {c}
    BY <1>3 DEF handleConfirm
  <2>5. IsCall(c) /\ c.visit = visits /\ c.op = "confirm" /\ c.at = "post"
    BY <1>0, <2>4 DEF IsCall
  <2>6. \A d \in calls : d.visit # visits
    BY <1>0, <2>1 DEF JobPagesInv, ConfirmWaits
  <2>7. JobPagesShape' /\ AnsweredRuns'
    BY <1>0, <2>3, <2>4, <2>5 DEF JobPagesInv, JobPagesShape, AnsweredRuns
  <2>8. PastIsPast'
    BY <1>0, <2>3, <2>4, <2>5 DEF JobPagesInv, PastIsPast
  <2>9. ConfirmWaits'
    BY <1>0, <2>3, <2>4, <2>5, <2>6 DEF ConfirmWaits
  <2> QED
    BY <2>7, <2>8, <2>9 DEF JobPagesInv
<1> QED
  BY <1>2, <1>3

\* A job ends in the backend: what pages said of it stays true.
LEMMA JobEndsKeeps == ASSUME JobPagesInv, NEW n \in Jobs, JobEnds(n) PROVE JobPagesInv'
<1>1. JobsStay /\ UNCHANGED <<page, visits, calls, started, sentTo>>
  BY DEF JobPagesInv, JobPagesShape, JobEnds, JobsStay, None, history
<1> QED
  BY <1>1 DEF JobsStay, JobPagesInv, JobPagesShape, PastIsPast, AnsweredRuns, ConfirmWaits

\* What SubmitFailed shows, wherever the handler was started.
LEMMA FailureShows ==
    ASSUME JobPagesInv, NEW c \in calls, c.op \in {"new", "confirm"}, SubmitFailed(c)
    PROVE  /\ page'.at = page.at /\ "at" \in DOMAIN page'
           /\ page.at = "confirm" =>
                 \/ UNCHANGED page /\ c.visit # visits
                 \/ /\ c.visit = visits
                    /\ page' = [at |-> "confirm", job |-> page'.job, step |-> "done", error |-> page'.error]
                    /\ page'.error
<1>0. "at" \in DOMAIN page
  BY DEF JobPagesInv, JobPagesShape
<1>1. CASE c.visit # visits
  BY <1>0, <1>1 DEF SubmitFailed, SetState, Mounted
<1>2. CASE c.visit = visits /\ page.at # "confirm"
  BY <1>0, <1>2 DEF SubmitFailed, SetState, Mounted
<1>3. CASE c.visit = visits /\ page.at = "confirm"
  <2>1. c.op = "confirm"
    BY <1>3 DEF JobPagesInv, PastIsPast
  <2>2. PICK e : e /\ page' = [[page EXCEPT !.step = "done"] EXCEPT !.error = e]
    BY <1>3, <2>1 DEF SubmitFailed, SetState, Mounted
  <2>3. [page EXCEPT !.step = "done"] = [at |-> "confirm", job |-> page.job, step |-> "done", error |-> page.error]
    BY <1>3 DEF JobPagesInv, ConfirmWaits
  <2>4. page' = [at |-> "confirm", job |-> page.job, step |-> "done", error |-> e]
    BY <2>2, <2>3
  <2> QED
    BY <1>3, <2>2, <2>4
<1> QED
  BY <1>1, <1>2, <1>3

\* The session has been asked for: the call goes on, or ends with an error.
LEMMA UserKeeps == ASSUME JobPagesInv, NEW c \in calls, GetCurrentUser(c) PROVE JobPagesInv'
<1>0. UNCHANGED <<backend, rows, started, sentTo>> /\ c.op = "new" /\ IsCall(c) /\ JobsStay
  BY SameJobsStay DEF GetCurrentUser, server, history, JobPagesInv, JobPagesShape
<1>1. CASE calls' = calls \ {c} /\ Mount(Login)
  <2>1. FreshPage(Login)
    BY DEF Login, FreshPage
  <2> QED
    BY <1>0, <1>1, <2>1, MountKeeps
<1>2. CASE calls' = (calls \ {c}) \cup {[c EXCEPT !.at = "post"]} /\ Stay
  <2>1. PICK d : d = [c EXCEPT !.at = "post"]
    OBVIOUS
  <2>2. d = [op |-> "new", visit |-> c.visit, at |-> "post", parameters |-> c.parameters, id |-> c.id,
             job |-> c.job]
    BY <1>0, <2>1 DEF IsCall
  <2>3. IsCall(d) /\ d.visit = c.visit /\ d.op = c.op /\ d.at = "post"
    BY <1>0, <2>2 DEF IsCall
  <2>4. UNCHANGED <<page, visits>> /\ calls' = (calls \ {c}) \cup {d}
    BY <1>2, <2>1 DEF Stay
  <2>5. "at" \in DOMAIN page /\ started = [n \in Jobs |-> started[n]]
    BY DEF JobPagesInv, JobPagesShape
  <2>6. CallMoves(c, {d})
    BY <1>0, <2>3, <2>4, <2>5 DEF CallMoves
  <2> QED
    BY <2>6, CallKeeps
<1> QED
  BY <1>1, <1>2 DEF GetCurrentUser

\* The backend has taken a job, or refused it.
LEMMA PostKeeps == ASSUME JobPagesInv, NEW c \in calls, PostJob(c) PROVE JobPagesInv'
<1>0. /\ UNCHANGED <<visits, sentTo>> /\ c.op \in {"new", "confirm"} /\ c.at = "post" /\ IsCall(c)
      /\ "at" \in DOMAIN page /\ started = [n \in Jobs |-> started[n]]
  BY DEF PostJob, JobPagesInv, JobPagesShape
<1>1. CASE calls' = calls \ {c} /\ SubmitFailed(c) /\ UNCHANGED <<backend, rows, started>>
  <2>1. calls' = (calls \ {c}) \cup {} /\ JobsStay
    BY <1>1, SameJobsStay
  <2>2. CallMoves(c, {})
    BY <1>0, <1>1, <2>1, FailureShows DEF CallMoves
  <2> QED
    BY <2>2, CallKeeps
<1>2. ASSUME NEW n \in Unused, NEW inserted \in BOOLEAN,
             backend' = [backend EXCEPT ![n] = "running"],
             rows' = IF inserted THEN [rows EXCEPT ![n] = "running"] ELSE rows,
             started' = [started EXCEPT ![n] = c.visit],
             \/ /\ calls' = (calls \ {c}) \cup {[c EXCEPT !.at = "create", !.job = n]}
                /\ UNCHANGED page
             \/ calls' = calls \ {c} /\ SubmitFailed(c)
      PROVE  JobPagesInv'
  <2>1. n \in Jobs /\ JobsStay /\ backend'[n] # None
    BY <1>2 DEF Unused, JobsStay, JobPagesInv, JobPagesShape, None
  <2>2. /\ started' = [m \in Jobs |-> started'[m]]
        /\ \A m \in Jobs : started'[m] \in {started[m], c.visit}
    BY <1>0, <1>2
  <2>3. CASE calls' = (calls \ {c}) \cup {[c EXCEPT !.at = "create", !.job = n]} /\ UNCHANGED page
    <3>1. PICK d : d = [[c EXCEPT !.at = "create"] EXCEPT !.job = n]
      OBVIOUS
    <3>2. [c EXCEPT !.at = "create"] =
             [op |-> c.op, visit |-> c.visit, at |-> "create", parameters |-> c.parameters, id |-> c.id,
              job |-> c.job]
      BY <1>0 DEF IsCall
    <3>3. d = [op |-> c.op, visit |-> c.visit, at |-> "create", parameters |-> c.parameters, id |-> c.id,
               job |-> n]
      BY <3>1, <3>2
    <3>4. IsCall(d) /\ d.visit = c.visit /\ d.op = c.op /\ d.job = n
      BY <1>0, <3>3 DEF IsCall
    <3>5. calls' = (calls \ {c}) \cup {d} /\ page'.at = page.at
      BY <2>3, <3>1
    <3>6. CallMoves(c, {d})
      BY <1>0, <2>1, <2>2, <2>3, <3>4, <3>5 DEF CallMoves
    <3> QED
      BY <3>6, CallKeeps
  <2>4. CASE calls' = calls \ {c} /\ SubmitFailed(c)
    <3>1. calls' = (calls \ {c}) \cup {}
      BY <2>4
    <3>2. CallMoves(c, {})
      BY <1>0, <2>1, <2>2, <2>4, <3>1, FailureShows DEF CallMoves
    <3> QED
      BY <3>2, CallKeeps
  <2> QED
    BY <1>2, <2>3, <2>4
<1>3. \/ calls' = calls \ {c} /\ SubmitFailed(c) /\ UNCHANGED <<backend, rows, started>>
      \/ \E n \in Unused, inserted \in BOOLEAN :
            /\ backend' = [backend EXCEPT ![n] = "running"]
            /\ rows' = IF inserted THEN [rows EXCEPT ![n] = "running"] ELSE rows
            /\ started' = [started EXCEPT ![n] = c.visit]
            /\ \/ /\ calls' = (calls \ {c}) \cup {[c EXCEPT !.at = "create", !.job = n]}
                  /\ UNCHANGED page
               \/ calls' = calls \ {c} /\ SubmitFailed(c)
  BY Zenon DEF PostJob
<1> QED
  BY <1>1, <1>2, <1>3

\* The row has been written, or refused.
LEMMA CreateKeeps == ASSUME JobPagesInv, NEW c \in calls, CreateRow(c) PROVE JobPagesInv'
<1>0. /\ UNCHANGED <<backend, started>> /\ IsCall(c) /\ c.at = "create" /\ c.op \in {"new", "confirm"}
      /\ calls' = calls \ {c} /\ c.job \in Jobs /\ backend[c.job] # None
      /\ "at" \in DOMAIN page /\ started = [n \in Jobs |-> started[n]]
  BY DEF CreateRow, JobPagesInv, JobPagesShape, AnsweredRuns, IsCall
<1>1. CASE SubmitFailed(c) /\ UNCHANGED <<rows, visits, sentTo>>
  <2>1. calls' = (calls \ {c}) \cup {} /\ JobsStay
    BY <1>0, <1>1, SameJobsStay
  <2>2. CallMoves(c, {})
    BY <1>0, <1>1, <2>1, FailureShows DEF CallMoves
  <2> QED
    BY <2>2, CallKeeps
<1>2. CASE /\ rows' = [rows EXCEPT ![c.job] = "pending"]
           /\ PushDashboardJobs
           /\ sentTo' = sentTo \cup {c.job}
  <2>1. FreshPage(NotFound) /\ Mount(NotFound)
    BY <1>2 DEF NotFound, FreshPage, PushDashboardJobs
  <2>2. JobsStay /\ rows'[c.job] # None
    BY <1>0, <1>2 DEF JobsStay, JobPagesInv, JobPagesShape, None
  <2> QED
    BY <1>0, <1>2, <2>1, <2>2, MountKeeps
<1> QED
  BY <1>1, <1>2 DEF CreateRow

\* A cancellation is answered.
LEMMA CancelKeeps == ASSUME JobPagesInv, NEW c \in calls, CancelAnswered(c) PROVE JobPagesInv'
<1>0. /\ UNCHANGED <<visits, started, sentTo>> /\ c.op = "cancel" /\ IsCall(c)
      /\ calls' = (calls \ {c}) \cup {}
      /\ "at" \in DOMAIN page /\ started = [n \in Jobs |-> started[n]]
  BY DEF CancelAnswered, history, JobPagesInv, JobPagesShape
<1>1. JobsStay
  <2>1. PICK hit : /\ backend' = [n \in Jobs |-> IF n \in hit THEN "cancelled" ELSE backend[n]]
                   /\ rows' = [n \in Jobs |-> IF n \in hit /\ rows[n] # None THEN "cancelled" ELSE rows[n]]
    BY DEF CancelAnswered
  <2> QED
    BY <2>1 DEF JobsStay, None
<1>2. page'.at = page.at /\ "at" \in DOMAIN page' /\ (c.visit # visits => UNCHANGED page)
  BY <1>0 DEF CancelAnswered, SetState, Mounted
<1>3. page.at = "confirm" => c.visit # visits
  BY <1>0 DEF JobPagesInv, PastIsPast
<1>4. CallMoves(c, {})
  BY <1>0, <1>1, <1>2, <1>3 DEF CallMoves
<1> QED
  BY <1>4, CallKeeps

\* Every step keeps it.
LEMMA JobPagesKept == JobPagesInv /\ [JobPagesNext]_jobPagesVars => JobPagesInv'
<1> SUFFICES ASSUME JobPagesInv, [JobPagesNext]_jobPagesVars
             PROVE  JobPagesInv'
  OBVIOUS
<1>1. CASE UNCHANGED jobPagesVars
  BY <1>1 DEF jobPagesVars, JobPagesInv, JobPagesShape, PastIsPast, AnsweredRuns, ConfirmWaits
<1> QED
  BY <1>1, OtherPagesKeep, MountsKeepJobs, StartsKeep, ConfirmKeeps, JobEndsKeeps, UserKeeps, PostKeeps, CreateKeeps,
     CancelKeeps DEF JobPagesNext

\* It implies the property.
LEMMA JobPagesSafe == JobPagesInv => SubmissionTellsTruth
<1> SUFFICES ASSUME JobPagesInv, On("confirm")
             PROVE  LET mine == {c \in calls : c.op = "confirm" /\ c.visit = visits}
                    IN /\ Cardinality(mine) <= 1
                       /\ (\E n \in Jobs : started[n] = visits) => mine # {} \/ page.error
  BY DEF JobPagesInv, AnsweredRuns, SubmissionTellsTruth
<1> DEFINE mine == {c \in calls : c.op = "confirm" /\ c.visit = visits}
<1>1. \A c, d \in mine : c = d
  BY DEF On, JobPagesInv, ConfirmWaits
<1>2. Cardinality(mine) <= 1
  BY <1>1, AtMostOne
<1>3. (\E n \in Jobs : started[n] = visits) => mine # {} \/ page.error
  BY DEF On, JobPagesInv, ConfirmWaits, PastIsPast
<1> QED
  BY <1>2, <1>3

\* A submission tells the truth: the tab is sent to jobs that run and have a
\* row, and the confirmation page waits for one call or shows an error.
THEOREM SubmissionsTellTruth == JobPagesSpec => []SubmissionTellsTruth
<1>1. JobPagesInit => JobPagesInv
  BY JobPagesStart
<1>2. JobPagesInv /\ [JobPagesNext]_jobPagesVars => JobPagesInv'
  BY JobPagesKept
<1>3. JobPagesInv => SubmissionTellsTruth
  BY JobPagesSafe
<1> QED
  BY <1>1, <1>2, <1>3, PTL DEF JobPagesSpec

-----------------------------------------------------------------------------
(* The stake modals *)

Signing(t) == txs[t].at = "signing" /\ txs[t].mount = mount
Awaited(t) == txs[t].at \in {"signing", "pending"} /\ ~txs[t].dismissed

StakeShape ==
    /\ host \in {"page", "component"} /\ mount \in Nat
    /\ watch \in [TxIds -> {"on", "failed", "again"}]
    /\ modals = [m \in ModalNames |->
                   [open |-> modals[m].open, amount |-> modals[m].amount, ack |-> modals[m].ack,
                    txHash |-> modals[m].txHash, writeError |-> modals[m].writeError]]
    /\ txs = [t \in TxIds |->
                [modal |-> txs[t].modal, mount |-> txs[t].mount, amount |-> txs[t].amount,
                 at |-> txs[t].at, dismissed |-> txs[t].dismissed]]
    /\ \A m \in ModalNames : modals[m].txHash \in {NoHash} \cup TxIds
    /\ \A t \in TxIds : txs[t].modal \in ModalNames /\ txs[t].mount \in Nat

\* The hash a modal has learnt is that of a transaction this mount of it sent.
HashIsOwn ==
    \A m \in ModalNames :
        modals[m].txHash # NoHash =>
            LET t == modals[m].txHash
            IN host = "page" /\ txs[t].modal = m /\ txs[t].mount = mount
               /\ txs[t].at \in {"pending", "mined", "replaced", "reverted"}

\* Only this mount has transactions that were not given up.
AwaitedHere ==
    \A t \in TxIds :
        /\ txs[t].at # "unused" => txs[t].mount >= 1
        /\ Awaited(t) => txs[t].mount = mount

\* The wallet is asked one thing at a time for a modal, given up or not, and
\* nothing while a transaction the modal waits for is pending and watched as
\* from the start: the modal has its hash, and a form that is confirming
\* submits nothing.
OneAtATime ==
    /\ \A t, u \in TxIds : Signing(t) /\ Signing(u) /\ txs[t].modal = txs[u].modal => t = u
    /\ host = "page" =>
          \A t \in TxIds :
              Awaited(t) /\ txs[t].at = "pending" /\ watch[t] = "on" =>
                  /\ modals[txs[t].modal].txHash = t
                  /\ \A u \in TxIds : ~(Signing(u) /\ txs[u].modal = txs[t].modal)

StakeInv == StakeShape /\ HashIsOwn /\ AwaitedHere /\ OneAtATime

\* It holds at first.
LEMMA StakeStart == StakePagesInit => StakeInv
BY DEF StakePagesInit, StakeInv, StakeShape, HashIsOwn, AwaitedHere, OneAtATime, Signing, Awaited, Closed,
       NoTransaction, ModalNames, NoHash

\* A modal that keeps its hash, and the transactions as they are.
LEMMA ModalsKeep ==
    ASSUME StakeInv,
           \/ \E m \in ModalNames : OpenModal(m) \/ SetAmount(m)
           \/ SetAck \/ Slashed \/ Refetch \/ UNCHANGED stakePagesVars
    PROVE  StakeInv'
<1>1. UNCHANGED <<host, mount, txs, watch>>
  BY DEF OpenModal, SetAmount, SetAck, Slashed, Refetch, stakePagesVars, outside
<1>2. CASE UNCHANGED modals
  BY ZenonT(30), <1>1, <1>2 DEF StakeInv, StakeShape, HashIsOwn, AwaitedHere, OneAtATime, Signing, Awaited
<1>3. ASSUME NEW m \in ModalNames, NEW k,
             k.txHash = modals[m].txHash,
             k = [open |-> k.open, amount |-> k.amount, ack |-> k.ack, txHash |-> k.txHash,
                  writeError |-> k.writeError],
             modals' = [modals EXCEPT ![m] = k]
      PROVE  StakeInv'
  <2>1. \A n \in ModalNames : modals'[n].txHash = modals[n].txHash
    BY <1>3 DEF StakeInv, StakeShape
  <2>2. StakeShape'
    BY <1>1, <1>3, <2>1 DEF StakeInv, StakeShape
  <2>3. HashIsOwn'
    BY <1>1, <2>1 DEF StakeInv, HashIsOwn
  <2>4. AwaitedHere'
    BY <1>1 DEF StakeInv, AwaitedHere, Awaited
  <2>5. OneAtATime'
    BY <1>1, <2>1 DEF StakeInv, StakeShape, OneAtATime, Signing, Awaited
  <2> QED
    BY <2>2, <2>3, <2>4, <2>5 DEF StakeInv
<1>4. CASE \E m \in ModalNames : OpenModal(m)
  <2> PICK m \in ModalNames : OpenModal(m)
    BY <1>4
  <2> PICK o : modals' = [modals EXCEPT ![m].open = o]
    BY DEF OpenModal
  <2> DEFINE k == [modals[m] EXCEPT !.open = o]
  <2>1. modals' = [modals EXCEPT ![m] = k]
    OBVIOUS
  <2>2. /\ k.txHash = modals[m].txHash
        /\ k = [open |-> k.open, amount |-> k.amount, ack |-> k.ack, txHash |-> k.txHash,
                writeError |-> k.writeError]
    BY DEF StakeInv, StakeShape
  <2> HIDE DEF k
  <2> QED
    BY <1>3, <2>1, <2>2
<1>5. CASE \E m \in ModalNames : SetAmount(m)
  <2> PICK m \in ModalNames : SetAmount(m)
    BY <1>5
  <2> PICK a : modals' = [modals EXCEPT ![m].amount = a]
    BY DEF SetAmount
  <2> DEFINE k == [modals[m] EXCEPT !.amount = a]
  <2>1. modals' = [modals EXCEPT ![m] = k]
    OBVIOUS
  <2>2. /\ k.txHash = modals[m].txHash
        /\ k = [open |-> k.open, amount |-> k.amount, ack |-> k.ack, txHash |-> k.txHash,
                writeError |-> k.writeError]
    BY DEF StakeInv, StakeShape
  <2> HIDE DEF k
  <2> QED
    BY <1>3, <2>1, <2>2
<1>6. CASE SetAck
  <2> DEFINE k == [modals["unstake"] EXCEPT !.ack = ~@]
  <2>1. modals' = [modals EXCEPT !["unstake"] = k] /\ "unstake" \in ModalNames
    BY <1>6 DEF SetAck, ModalNames
  <2>2. /\ k.txHash = modals["unstake"].txHash
        /\ k = [open |-> k.open, amount |-> k.amount, ack |-> k.ack, txHash |-> k.txHash,
                writeError |-> k.writeError]
    BY <2>1 DEF StakeInv, StakeShape
  <2> HIDE DEF k
  <2> QED
    BY <1>3, <2>1, <2>2
<1> QED
  BY <1>2, <1>4, <1>5, <1>6 DEF Slashed, Refetch, stakePagesVars

\* The modals are closed and forgotten when the view goes and when it comes.
LEMMA MountsKeep == StakeInv /\ (ConnectedWalletView \/ DisconnectedWalletView) => StakeInv'
<1> SUFFICES ASSUME StakeInv, ConnectedWalletView \/ DisconnectedWalletView
             PROVE  StakeInv'
  OBVIOUS
<1>1. ModalNames # {} /\ \A m \in ModalNames : modals'[m] = Closed
  BY DEF ConnectedWalletView, DisconnectedWalletView, ModalNames
<1>2. /\ modals' = [m \in ModalNames |-> modals'[m]]
      /\ \A m \in ModalNames : /\ modals'[m].txHash = NoHash
                               /\ modals'[m] = [open |-> modals'[m].open, amount |-> modals'[m].amount,
                                               ack |-> modals'[m].ack, txHash |-> modals'[m].txHash,
                                               writeError |-> modals'[m].writeError]
  BY <1>1 DEF ConnectedWalletView, DisconnectedWalletView, Closed
<1>3. HashIsOwn'
  BY <1>2 DEF HashIsOwn
<1>4. CASE ConnectedWalletView
  <2>1. PICK k \in 1..MaxMounts : (\A t \in Txs : txs[t].mount < k) /\ mount' = k
    BY <1>4 DEF ConnectedWalletView
  <2>2. mount = 0 /\ mount' \in Nat /\ UNCHANGED <<host, txs, watch>>
    BY <1>4, <2>1, StakePagesConstants DEF ConnectedWalletView
  <2>3. \A t \in TxIds : txs[t].at # "unused" => txs[t].mount # mount'
    BY <2>1, <2>2 DEF Txs, StakeInv, StakeShape
  <2>4. \A t \in TxIds : ~Awaited(t) /\ ~Signing(t)'
    BY <2>2, <2>3 DEF Awaited, Signing, StakeInv, StakeShape, AwaitedHere
  <2>5. StakeShape'
    BY <1>2, <2>2 DEF StakeInv, StakeShape
  <2>6. AwaitedHere' /\ OneAtATime'
    BY <2>2, <2>4 DEF StakeInv, AwaitedHere, OneAtATime, Awaited
  <2> QED
    BY <1>3, <2>5, <2>6 DEF StakeInv
<1>5. CASE DisconnectedWalletView
  <2>1. mount' = 0 /\ UNCHANGED <<host, watch>>
    BY <1>5 DEF DisconnectedWalletView, outside
  <2>2. PICK dismissed : txs' = [t \in TxIds |-> [txs[t] EXCEPT !.dismissed = dismissed]] /\ dismissed
    BY <1>5 DEF DisconnectedWalletView
  <2>3. \A t \in TxIds : /\ txs'[t].modal = txs[t].modal /\ txs'[t].mount = txs[t].mount /\ txs'[t].at = txs[t].at
                         /\ txs'[t].dismissed = dismissed
                         /\ txs'[t] = [modal |-> txs'[t].modal, mount |-> txs'[t].mount, amount |-> txs'[t].amount,
                                       at |-> txs'[t].at, dismissed |-> txs'[t].dismissed]
    <3> TAKE t \in TxIds
    <3>1. txs'[t] = [txs[t] EXCEPT !.dismissed = dismissed]
      BY <2>2
    <3>2. txs[t] = [modal |-> txs[t].modal, mount |-> txs[t].mount, amount |-> txs[t].amount,
                    at |-> txs[t].at, dismissed |-> txs[t].dismissed]
      BY DEF StakeInv, StakeShape
    <3>3. txs'[t] = [modal |-> txs[t].modal, mount |-> txs[t].mount, amount |-> txs[t].amount,
                     at |-> txs[t].at, dismissed |-> dismissed]
      BY <3>1, <3>2
    <3> QED
      BY <3>3
  <2>4. \A t \in TxIds : ~Awaited(t)' /\ ~Signing(t)'
    BY <2>1, <2>2, <2>3 DEF Awaited, Signing, StakeInv, StakeShape, AwaitedHere
  <2>5. StakeShape'
    BY <1>2, <2>1, <2>2, <2>3 DEF StakeInv, StakeShape
  <2>6. AwaitedHere' /\ OneAtATime'
    BY <2>3, <2>4 DEF StakeInv, AwaitedHere, OneAtATime
  <2> QED
    BY <1>3, <2>5, <2>6 DEF StakeInv
<1> QED
  BY <1>4, <1>5

\* What the steps that touch one transaction rest on: the others stay.
LEMMA SubmitKeeps == ASSUME StakeInv, NEW m \in ModalNames, handleSubmit(m) PROVE StakeInv'
<1>0. /\ \A n \in ModalNames : modals[n].txHash \in {NoHash} \cup TxIds
      /\ \A u \in TxIds : txs[u].modal \in ModalNames /\ txs[u].mount \in Nat
      /\ mount \in Nat
  BY DEF StakeInv, StakeShape
<1>1. mount > 0 /\ UNCHANGED <<host, mount, watch>>
  BY DEF handleSubmit, ShowsForm, outside
<1>2. PICK t \in TxIds \ Txs :
         txs' = [txs EXCEPT ![t] = [modal |-> m, mount |-> mount, amount |-> modals[m].amount,
                                    at |-> "signing", dismissed |-> FALSE]]
  BY DEF handleSubmit
<1>3. PICK e : modals' = [modals EXCEPT ![m].writeError = e]
  BY DEF handleSubmit
<1>4. \A n \in ModalNames : modals'[n].txHash = modals[n].txHash
  BY <1>3 DEF StakeInv, StakeShape
<1>4a. \A n \in ModalNames :
         modals'[n] = [open |-> modals'[n].open, amount |-> modals'[n].amount, ack |-> modals'[n].ack,
                       txHash |-> modals'[n].txHash, writeError |-> modals'[n].writeError]
  BY <1>3 DEF StakeInv, StakeShape
<1>5. ~isSigning(m) /\ ~isConfirming(m)
  <2>1. Submittable(m)
    BY DEF handleSubmit
  <2> QED
    BY <2>1 DEF Submittable, StakeForm, UnstakeForm, canSubmit, ComponentStakeForm, ComponentUnstakeForm,
                ModalNames, StakeInv, StakeShape
<1>6. txs[t].at = "unused" /\ \A u \in TxIds : u # t => txs'[u] = txs[u]
  BY <1>2 DEF Txs, StakeInv, StakeShape
<1>7. /\ txs'[t].modal = m /\ txs'[t].mount = mount /\ txs'[t].at = "signing"
  BY <1>2 DEF StakeInv, StakeShape
<1>7a. txs'[t] = [modal |-> txs'[t].modal, mount |-> txs'[t].mount, amount |-> txs'[t].amount,
                  at |-> txs'[t].at, dismissed |-> txs'[t].dismissed]
  BY <1>2 DEF StakeInv, StakeShape
<1>8. StakeShape'
  <2>1. modals' = [n \in ModalNames |-> modals'[n]] /\ txs' = [u \in TxIds |-> txs'[u]]
    BY <1>2, <1>3 DEF StakeInv, StakeShape
  <2> QED
    BY <1>1, <1>4, <1>4a, <1>6, <1>7, <1>7a, <2>1 DEF StakeInv, StakeShape
<1>9. HashIsOwn'
  BY <1>0, <1>1, <1>4, <1>6 DEF StakeInv, HashIsOwn
<1>10. AwaitedHere'
  BY <1>0, <1>1, <1>6, <1>7 DEF StakeInv, AwaitedHere, Awaited
<1>11. \A u \in TxIds : ~(Signing(u) /\ txs[u].modal = m)
  BY <1>5 DEF isSigning, Signing, Txs
<1>12. ASSUME host = "page", NEW u \in TxIds, Awaited(u), txs[u].at = "pending", watch[u] = "on"
       PROVE  txs[u].modal # m
  <2>1. modals[txs[u].modal].txHash = u
    BY <1>12 DEF StakeInv, OneAtATime
  <2> QED
    BY <1>5, <1>12, <2>1 DEF isConfirming, Watched, TxIds, NoHash, StakeInv, StakeShape
<1>13. OneAtATime'
  <2>1. \A u, v \in TxIds : Signing(u)' /\ Signing(v)' /\ txs'[u].modal = txs'[v].modal => u = v
    BY <1>1, <1>6, <1>7, <1>11 DEF StakeInv, OneAtATime, Signing
  <2>2. ASSUME host' = "page", NEW u \in TxIds, Awaited(u)', txs'[u].at = "pending", watch'[u] = "on"
        PROVE  /\ modals'[txs'[u].modal].txHash = u
               /\ \A v \in TxIds : ~(Signing(v)' /\ txs'[v].modal = txs'[u].modal)
    <3>1. u # t /\ txs'[u] = txs[u] /\ Awaited(u)
      BY <1>6, <1>7, <2>2 DEF Awaited
    <3> QED
      BY <1>0, <1>1, <1>4, <1>6, <1>7, <1>12, <2>2, <3>1 DEF StakeInv, OneAtATime, Signing
  <2> QED
    BY <2>1, <2>2 DEF OneAtATime
<1> QED
  BY <1>8, <1>9, <1>10, <1>13 DEF StakeInv

\* A modal is closed, as its host sees it.
LEMMA CloseKeeps == ASSUME StakeInv, NEW m \in ModalNames, handleClose(m) PROVE StakeInv'
<1>0. /\ \A n \in ModalNames : modals[n].txHash \in {NoHash} \cup TxIds
      /\ \A u \in TxIds : txs[u].modal \in ModalNames /\ txs[u].mount \in Nat
      /\ mount \in Nat
  BY DEF StakeInv, StakeShape
<1>1. UNCHANGED <<host, mount, watch>>
  BY DEF handleClose, outside
<1>2. modals' = [modals EXCEPT ![m] = [Closed EXCEPT !.writeError = modals[m].writeError]]
  BY DEF handleClose
<1>3. PICK dismissed :
         /\ dismissed = TRUE
         /\ txs' = [t \in TxIds |-> IF txs[t].modal = m THEN [txs[t] EXCEPT !.dismissed = dismissed] ELSE txs[t]]
  BY DEF handleClose
<1>4. \A n \in ModalNames : modals'[n].txHash = IF n = m THEN NoHash ELSE modals[n].txHash
  BY <1>2 DEF StakeInv, StakeShape, Closed
<1>4a. \A n \in ModalNames :
         modals'[n] = [open |-> modals'[n].open, amount |-> modals'[n].amount, ack |-> modals'[n].ack,
                       txHash |-> modals'[n].txHash, writeError |-> modals'[n].writeError]
  BY <1>2 DEF StakeInv, StakeShape, Closed
<1>5. \A t \in TxIds : /\ txs'[t].modal = txs[t].modal /\ txs'[t].mount = txs[t].mount /\ txs'[t].at = txs[t].at
                       /\ IF txs[t].modal = m THEN txs'[t].dismissed = dismissed ELSE txs'[t] = txs[t]
                       /\ txs'[t] = [modal |-> txs'[t].modal, mount |-> txs'[t].mount, amount |-> txs'[t].amount,
                                     at |-> txs'[t].at, dismissed |-> txs'[t].dismissed]
  <2> TAKE t \in TxIds
  <2>1. txs[t] = [modal |-> txs[t].modal, mount |-> txs[t].mount, amount |-> txs[t].amount,
                  at |-> txs[t].at, dismissed |-> txs[t].dismissed]
    BY DEF StakeInv, StakeShape
  <2>2. CASE txs[t].modal = m
    <3>1. txs'[t] = [txs[t] EXCEPT !.dismissed = dismissed]
      BY <1>3, <2>2
    <3>2. txs'[t] = [modal |-> txs[t].modal, mount |-> txs[t].mount, amount |-> txs[t].amount,
                     at |-> txs[t].at, dismissed |-> dismissed]
      BY <2>1, <3>1
    <3> QED
      BY <2>2, <3>2
  <2>3. CASE txs[t].modal # m
    BY <1>3, <2>1, <2>3
  <2> QED
    BY <2>2, <2>3
<1>5a. \A t \in TxIds : txs'[t].modal = txs[t].modal /\ txs'[t].mount = txs[t].mount /\ txs'[t].at = txs[t].at
  BY <1>5
<1>6. StakeShape'
  <2>1. modals' = [n \in ModalNames |-> modals'[n]] /\ txs' = [u \in TxIds |-> txs'[u]]
    BY <1>2, <1>3 DEF StakeInv, StakeShape
  <2> QED
    BY <1>0, <1>1, <1>4, <1>4a, <1>5, <2>1 DEF StakeInv, StakeShape
<1>7. \A t \in TxIds : Awaited(t)' => Awaited(t) /\ txs[t].modal # m
  BY <1>3, <1>5 DEF Awaited
<1>8. \A t \in TxIds : Signing(t)' <=> Signing(t)
  BY <1>1, <1>5 DEF Signing
<1>9. HashIsOwn'
  BY <1>0, <1>1, <1>4, <1>5a DEF StakeInv, HashIsOwn, NoHash
<1>10. AwaitedHere'
  BY <1>1, <1>5a, <1>7 DEF StakeInv, AwaitedHere
<1>11. OneAtATime'
  BY <1>0, <1>1, <1>4, <1>5a, <1>7, <1>8 DEF StakeInv, OneAtATime
<1> QED
  BY <1>6, <1>9, <1>10, <1>11 DEF StakeInv

\* The wallet answers, the chain answers: one transaction moves on.
LEMMA AnswersKeep ==
    ASSUME StakeInv, NEW t \in Txs, Signed(t) \/ Rejected(t) \/ Mined(t) \/ Reverted(t) \/ Replaced(t)
    PROVE  StakeInv'
<1>0. /\ \A n \in ModalNames : modals[n].txHash \in {NoHash} \cup TxIds
      /\ \A u \in TxIds : txs[u].modal \in ModalNames /\ txs[u].mount \in Nat
      /\ mount \in Nat /\ t \in TxIds /\ txs[t].at # "unused" /\ NoHash \notin TxIds
  BY DEF StakeInv, StakeShape, Txs, NoHash, TxIds
<1>1. UNCHANGED <<host, mount, watch>>
  BY DEF Signed, Rejected, Mined, Reverted, Replaced, outside
<1>2. PICK at \in {"pending", "mined", "reverted", "replaced", "rejected"} :
         /\ txs' = [txs EXCEPT ![t].at = at]
         /\ txs[t].at = IF at \in {"pending", "rejected"} THEN "signing" ELSE "pending"
         /\ at = "pending" => onSuccess(t)
         /\ at \in {"mined", "reverted", "replaced"} => UNCHANGED modals
         /\ at = "rejected" => \E e : modals' = IF txs[t].mount = mount
                                              THEN [modals EXCEPT ![txs[t].modal].writeError = e] ELSE modals
  BY DEF Signed, Rejected, Mined, Reverted, Replaced
<1>2a. \A u \in TxIds : /\ txs'[u] = IF u = t THEN [txs[t] EXCEPT !.at = at] ELSE txs[u]
                        /\ txs[u] = [modal |-> txs[u].modal, mount |-> txs[u].mount, amount |-> txs[u].amount,
                                     at |-> txs[u].at, dismissed |-> txs[u].dismissed]
  BY <1>0, <1>2 DEF StakeInv, StakeShape
<1>2b. \A u \in TxIds :
          txs'[u] = [modal |-> txs[u].modal, mount |-> txs[u].mount, amount |-> txs[u].amount,
                     at |-> IF u = t THEN at ELSE txs[u].at, dismissed |-> txs[u].dismissed]
  <2> TAKE u \in TxIds
  <2>1. CASE u = t
    <3>1. txs'[t] = [txs[t] EXCEPT !.at = at]
      BY <1>0, <1>2a
    <3>2. [txs[t] EXCEPT !.at = at] =
             [modal |-> txs[t].modal, mount |-> txs[t].mount, amount |-> txs[t].amount,
              at |-> at, dismissed |-> txs[t].dismissed]
      BY <1>0, <1>2a
    <3> QED
      BY <2>1, <3>1, <3>2
  <2>2. CASE u # t
    BY <1>2a, <2>2
  <2> QED
    BY <2>1, <2>2
<1>3. \A u \in TxIds : /\ txs'[u].modal = txs[u].modal /\ txs'[u].mount = txs[u].mount
                       /\ txs'[u].dismissed = txs[u].dismissed
                       /\ txs'[u].at = IF u = t THEN at ELSE txs[u].at
  <2> TAKE u \in TxIds
  <2>1. txs'[u] = [modal |-> txs[u].modal, mount |-> txs[u].mount, amount |-> txs[u].amount,
                   at |-> IF u = t THEN at ELSE txs[u].at, dismissed |-> txs[u].dismissed]
    BY <1>2b
  <2> QED
    BY <2>1
<1>3a. at = "pending" => IF host = "page" /\ txs[t].mount = mount
                         THEN modals' = [modals EXCEPT ![txs[t].modal].txHash = t] ELSE modals' = modals
  BY <1>2, Zenon DEF onSuccess
<1>4. \A n \in ModalNames :
         modals'[n].txHash = IF at = "pending" /\ host = "page" /\ txs[t].mount = mount /\ n = txs[t].modal
                             THEN t ELSE modals[n].txHash
  <2>1. CASE at = "pending"
    BY <1>0, <1>3a, <2>1 DEF StakeInv, StakeShape
  <2>2. CASE at = "rejected"
    <3> PICK e : modals' = IF txs[t].mount = mount THEN [modals EXCEPT ![txs[t].modal].writeError = e] ELSE modals
      BY <1>2, <2>2
    <3>1. CASE txs[t].mount = mount
      BY <1>0, <2>2, <3>1 DEF StakeInv, StakeShape
    <3> QED
      BY <2>2, <3>1
  <2>3. CASE at \in {"mined", "reverted", "replaced"}
    BY <1>2, <2>3
  <2> QED
    BY <2>1, <2>2, <2>3
<1>5. StakeShape'
  <2>1. /\ txs' = [u \in TxIds |-> txs'[u]]
        /\ \A u \in TxIds : txs'[u] = [modal |-> txs'[u].modal, mount |-> txs'[u].mount, amount |-> txs'[u].amount,
                                        at |-> txs'[u].at, dismissed |-> txs'[u].dismissed]
    <3>1. txs' = [u \in TxIds |-> txs'[u]]
      BY <1>2 DEF StakeInv, StakeShape
    <3> QED
      BY <1>2b, <3>1
  <2>2. /\ modals' = [n \in ModalNames |-> modals'[n]]
        /\ \A n \in ModalNames :
               modals'[n] = [open |-> modals'[n].open, amount |-> modals'[n].amount, ack |-> modals'[n].ack,
                             txHash |-> modals'[n].txHash, writeError |-> modals'[n].writeError]
    <3>1. CASE at = "pending"
      <4>1. CASE host = "page" /\ txs[t].mount = mount
        <5>1. PICK o \in ModalNames : modals' = [modals EXCEPT ![o].txHash = t]
          BY <1>0, <1>3a, <3>1, <4>1
        <5> DEFINE k == [modals[o] EXCEPT !.txHash = t]
        <5>2. modals' = [modals EXCEPT ![o] = k]
          BY <5>1
        <5>3. k = [open |-> k.open, amount |-> k.amount, ack |-> k.ack, txHash |-> k.txHash,
                   writeError |-> k.writeError]
          BY DEF StakeInv, StakeShape
        <5> HIDE DEF k
        <5> QED
          BY <5>2, <5>3 DEF StakeInv, StakeShape
      <4>2. CASE ~(host = "page" /\ txs[t].mount = mount)
        BY <1>3a, <3>1, <4>2 DEF StakeInv, StakeShape
      <4> QED
        BY <4>1, <4>2
    <3>2. CASE at = "rejected"
      BY ZenonT(30), <1>0, <1>2, <3>2 DEF StakeInv, StakeShape
    <3>3. CASE at \in {"mined", "reverted", "replaced"}
      BY <1>2, <3>3 DEF StakeInv, StakeShape
    <3> QED
      BY <3>1, <3>2, <3>3
  <2> QED
    BY <1>0, <1>1, <1>3, <1>4, <2>1, <2>2 DEF StakeInv, StakeShape
<1>6. \A u \in TxIds : /\ Awaited(u)' => Awaited(u)
                       /\ Signing(u)' => Signing(u) /\ u # t
  BY <1>1, <1>2, <1>3 DEF Awaited, Signing
<1>7. AwaitedHere'
  BY <1>0, <1>1, <1>3, <1>6 DEF StakeInv, AwaitedHere
<1>8. HashIsOwn'
  <2> SUFFICES ASSUME NEW n \in ModalNames, modals'[n].txHash # NoHash
               PROVE  LET u == modals'[n].txHash
                      IN /\ host' = "page" /\ txs'[u].modal = n /\ txs'[u].mount = mount'
                         /\ txs'[u].at \in {"pending", "mined", "replaced", "reverted"}
    BY DEF HashIsOwn
  <2>1. CASE at = "pending" /\ host = "page" /\ txs[t].mount = mount /\ n = txs[t].modal
    BY <1>0, <1>1, <1>3, <1>4, <2>1
  <2>2. CASE modals'[n].txHash = modals[n].txHash
    BY <1>0, <1>1, <1>2, <1>3, <2>2 DEF StakeInv, HashIsOwn
  <2> QED
    BY <1>4, <2>1, <2>2
<1>9. OneAtATime'
  <2>1. \A u, v \in TxIds : Signing(u)' /\ Signing(v)' /\ txs'[u].modal = txs'[v].modal => u = v
    BY <1>3, <1>6 DEF StakeInv, OneAtATime
  <2>2. ASSUME host' = "page", NEW u \in TxIds, Awaited(u)', txs'[u].at = "pending", watch'[u] = "on"
        PROVE  /\ modals'[txs'[u].modal].txHash = u
               /\ \A v \in TxIds : ~(Signing(v)' /\ txs'[v].modal = txs'[u].modal)
    <3>1. CASE u = t
      <4>1. at = "pending" /\ txs[t].mount = mount /\ Signing(t)
        BY <1>2, <1>3, <1>6, <2>2, <3>1 DEF StakeInv, AwaitedHere, Signing
      <4> QED
        BY <1>0, <1>1, <1>3, <1>4, <1>6, <2>2, <3>1, <4>1 DEF StakeInv, OneAtATime
    <3>2. CASE u # t
      <4>1. Awaited(u) /\ txs[u].at = "pending" /\ txs'[u].modal = txs[u].modal /\ watch[u] = "on"
        BY <1>1, <1>3, <1>6, <2>2, <3>2
      <4>2. ~(at = "pending" /\ txs[t].mount = mount /\ txs[u].modal = txs[t].modal)
        BY <1>0, <1>1, <1>2, <2>2, <4>1 DEF StakeInv, OneAtATime, Signing
      <4> QED
        BY <1>0, <1>1, <1>3, <1>4, <1>6, <2>2, <4>1, <4>2 DEF StakeInv, OneAtATime
    <3> QED
      BY <3>1, <3>2
  <2> QED
    BY <2>1, <2>2 DEF OneAtATime
<1> QED
  BY <1>5, <1>7, <1>8, <1>9 DEF StakeInv

\* The query for a receipt fails or is resumed: it is not what it was.
LEMMA WatchKeeps == ASSUME StakeInv, NEW t \in Txs, WatchFails(t) \/ WatchAgain(t) PROVE StakeInv'
<1>1. UNCHANGED <<host, mount, modals, txs>>
  BY DEF WatchFails, WatchAgain
<1>2. PICK w \in {"failed", "again"} : watch' = [watch EXCEPT ![t] = w]
  BY DEF WatchFails, WatchAgain
<1>3. watch' \in [TxIds -> {"on", "failed", "again"}] /\ \A u \in TxIds : watch'[u] = "on" => watch[u] = "on"
  BY <1>2 DEF StakeInv, StakeShape
<1>4. StakeShape'
  BY <1>1, <1>3, Zenon DEF StakeInv, StakeShape
<1>5. HashIsOwn' /\ AwaitedHere'
  BY <1>1 DEF StakeInv, HashIsOwn, AwaitedHere, Awaited
<1>6. OneAtATime'
  BY <1>1, <1>3 DEF StakeInv, OneAtATime, Signing, Awaited
<1> QED
  BY <1>4, <1>5, <1>6 DEF StakeInv

\* Every step keeps it.
LEMMA StakeKept == StakeInv /\ [StakePagesNext]_stakePagesVars => StakeInv'
BY ModalsKeep, MountsKeep, SubmitKeeps, CloseKeeps, AnswersKeep, WatchKeeps DEF StakePagesNext

\* It implies the property.
LEMMA StakeSafe == StakeInv => ModalFollowsOneTransaction
<1> SUFFICES ASSUME StakeInv, NEW m \in ModalNames
             PROVE  /\ host = "page" => Cardinality({t \in UnderWay(m) : watch[t] = "on"}) <= 1
                    /\ ShowsSuccess(m) =>
                          /\ host = "page"
                          /\ LET t == modals[m].txHash
                             IN txs[t].at \in {"mined", "replaced"} /\ txs[t].modal = m /\ txs[t].mount = mount
  BY DEF ModalFollowsOneTransaction
<1> DEFINE awaited == {t \in UnderWay(m) : watch[t] = "on"}
<1>1. ASSUME host = "page" PROVE Cardinality(awaited) <= 1
  <2>1. \A t \in awaited : /\ t \in TxIds /\ Awaited(t) /\ watch[t] = "on"
                           /\ txs[t].modal = m /\ txs[t].mount = mount
    BY DEF UnderWay, Txs, Awaited, StakeInv, AwaitedHere
  <2>2. \A t \in awaited : Signing(t) \/ txs[t].at = "pending"
    BY <2>1 DEF Signing, Awaited
  <2>3. \A t, u \in awaited : t = u
    BY <1>1, <2>1, <2>2 DEF StakeInv, OneAtATime
  <2> QED
    BY <2>3, AtMostOne
<1>2. ShowsSuccess(m) => isConfirmed(m)
  BY DEF ShowsSuccess, ComponentSuccess, StakeSubmitted, UnstakingInitiated
<1> QED
  BY <1>1, <1>2 DEF isConfirmed, Watched, StakeInv, HashIsOwn

\* A modal watches one transaction at a time, unless its query for the receipt
\* failed, and shows success for its own one only, whatever signature arrives
\* after it was closed or reopened.
THEOREM StakeModalsFollow == StakePagesSpec => []ModalFollowsOneTransaction
<1>1. StakePagesInit => StakeInv
  BY StakeStart
<1>2. StakeInv /\ [StakePagesNext]_stakePagesVars => StakeInv'
  BY StakeKept
<1>3. StakeInv => ModalFollowsOneTransaction
  BY StakeSafe
<1> QED
  BY <1>1, <1>2, <1>3, PTL DEF StakePagesSpec

-----------------------------------------------------------------------------
(* The form pages *)

\* How the handler of a page goes on: it pushes, or takes a label up, at its end
\* only; every step of it lowers the busy flag, leaves the page, or puts a view
\* of success in place of the form, which the steps before the last do; and a
\* refused call lowers the flag.
Behaves(p) ==
    /\ p.fails = {} \/ p.fails = {"lower"}
    /\ Len(p.chain) \in Nat /\ (p.chain # <<>> => Len(p.chain) >= 1)
    /\ \A i \in 1..Len(p.chain) :
          /\ "push" \in p.chain[i] \/ "flash" \in p.chain[i] => i = Len(p.chain)
          /\ "flash" \in p.chain[i] => "push" \notin p.chain[i]
          /\ \/ "lower" \in p.chain[i] \/ "push" \in p.chain[i]
             \/ "done" \in p.chain[i] /\ p.replaces
          /\ i # Len(p.chain) => "done" \in p.chain[i] /\ p.replaces

\* The flag of a page that is left stays up.
StaysBusy(p) == \A i \in 1..Len(p.chain) : "push" \in p.chain[i] => "lower" \notin p.chain[i]

HasChain(p) ==
    /\ p.fails = {} \/ p.fails = {"lower"}
    /\ \/ p.chain = <<>> \/ p.chain = <<{"push"}>> \/ p.chain = <<{"lower"}>>
       \/ p.chain = <<{"lower", "done"}>> \/ p.chain = <<{"lower", "flash"}>>
       \/ p.chain = <<{"add", "lower"}>>
       \/ p.chain = <<{"done"}>> /\ p.replaces
       \/ p.chain = ThenRedirect /\ p.replaces

\* The handlers of all pages but one are of nine kinds.
LEMMA PagesHaveChains == \A name \in FormNames \ {"newProposal"} : HasChain(FormPage[name])
<1> USE DEF HasChain, Plain, Amount
<1>1. HasChain(DepositStakePage)
  BY DEF DepositStakePage
<1>2. HasChain(WithdrawStakePage)
  BY DEF WithdrawStakePage
<1>3. HasChain(UnregisterNodePage)
  BY DEF UnregisterNodePage
<1>4. HasChain(WithdrawEarningsPage)
  BY DEF WithdrawEarningsPage
<1>5. HasChain(NewNodePage)
  BY DEF NewNodePage
<1>6. HasChain(NodeSettingsPage)
  BY DEF NodeSettingsPage
<1>7. HasChain(AccountSettingsPage)
  BY DEF AccountSettingsPage
<1>8. HasChain(NodeWalletPage)
  BY DEF NodeWalletPage
<1>9. HasChain(RegisterNodePage)
  BY DEF RegisterNodePage
<1>10. HasChain(TopupPage)
  BY DEF TopupPage
<1>11. HasChain(NotificationsPage)
  BY DEF NotificationsPage
<1>12. HasChain(TeamPage)
  BY DEF TeamPage
<1>13. HasChain(ApiKeysPage)
  BY DEF ApiKeysPage
<1>14. HasChain(NewApiKeyPage)
  BY DEF NewApiKeyPage
<1>15. HasChain(ApiKeyPage)
  BY DEF ApiKeyPage
<1>16. HasChain(WebhooksPage)
  BY DEF WebhooksPage
<1>17. HasChain(WebhookPage)
  BY DEF WebhookPage
<1>18. HasChain(TestWebhookPage)
  BY DEF TestWebhookPage
<1>19. HasChain(NewWebhookPage)
  BY DEF NewWebhookPage
<1>20. HasChain(WalletSettingsPage)
  BY DEF WalletSettingsPage
<1>21. HasChain(ListPage)
  BY DEF ListPage
<1> HIDE DEF HasChain, Plain, Amount
<1> QED
  BY <1>1, <1>2, <1>3, <1>4, <1>5, <1>6, <1>7, <1>8, <1>9, <1>10, <1>11,
     <1>12, <1>13, <1>14, <1>15, <1>16, <1>17, <1>18, <1>19, <1>20, <1>21
     DEF FormNames, FormPage

\* Each kind goes on as it should.
LEMMA ChainsBehave ==
    ASSUME NEW p, HasChain(p)
    PROVE  Behaves(p) /\ StaysBusy(p)
<1>1. p.fails = {} \/ p.fails = {"lower"}
  BY DEF HasChain
<1>2. CASE p.chain = <<>>
  <2>1. Len(p.chain) = 0 /\ 1..0 = {}
    BY <1>2
  <2> QED
    BY ONLY <1>1, <1>2, <2>1 DEF Behaves, StaysBusy
<1>3. CASE p.chain = <<{"push"}>>
  <2>1. Len(p.chain) = 1 /\ 1..1 = {1} /\ p.chain[1] = {"push"}
    BY <1>3
  <2> QED
    BY ONLY <1>1, <2>1 DEF Behaves, StaysBusy
<1>4. CASE p.chain = <<{"lower"}>>
  <2>1. Len(p.chain) = 1 /\ 1..1 = {1} /\ p.chain[1] = {"lower"}
    BY <1>4
  <2> QED
    BY ONLY <1>1, <2>1 DEF Behaves, StaysBusy
<1>5. CASE p.chain = <<{"lower", "done"}>>
  <2>1. Len(p.chain) = 1 /\ 1..1 = {1} /\ p.chain[1] = {"lower", "done"}
    BY <1>5
  <2> QED
    BY ONLY <1>1, <2>1 DEF Behaves, StaysBusy
<1>6. CASE p.chain = <<{"lower", "flash"}>>
  <2>1. Len(p.chain) = 1 /\ 1..1 = {1} /\ p.chain[1] = {"lower", "flash"}
    BY <1>6
  <2> QED
    BY ONLY <1>1, <2>1 DEF Behaves, StaysBusy
<1>7. CASE p.chain = <<{"add", "lower"}>>
  <2>1. Len(p.chain) = 1 /\ 1..1 = {1} /\ p.chain[1] = {"add", "lower"}
    BY <1>7
  <2> QED
    BY ONLY <1>1, <2>1 DEF Behaves, StaysBusy
<1>8. CASE p.chain = <<{"done"}>> /\ p.replaces
  <2>1. Len(p.chain) = 1 /\ 1..1 = {1} /\ p.chain[1] = {"done"}
    BY <1>8
  <2> QED
    BY ONLY <1>1, <1>8, <2>1 DEF Behaves, StaysBusy
<1>9. CASE p.chain = ThenRedirect /\ p.replaces
  <2>1. Len(p.chain) = 2 /\ 1..2 = {1, 2} /\ p.chain[1] = {"lower", "done"} /\ p.chain[2] = {"push"}
    BY <1>9 DEF ThenRedirect
  <2> QED
    BY ONLY <1>1, <1>9, <2>1 DEF Behaves, StaysBusy
<1>10. Behaves(p) /\ StaysBusy(p)
  BY Zenon, <1>1, <1>2, <1>3, <1>4, <1>5, <1>6, <1>7, <1>8, <1>9 DEF HasChain
<1> QED
  BY <1>10

\* The page of a new proposal lowers its flag as it is left.
LEMMA ProposalBehaves == Behaves(FormPage["newProposal"])
<1> DEFINE p == FormPage["newProposal"]
<1>1. p = NewProposalPage
  BY DEF FormPage
<1>2. p.chain = <<{"lower", "push"}>> /\ p.fails = {}
  BY <1>1 DEF NewProposalPage, Amount, Plain
<1>3. Len(p.chain) = 1 /\ 1..1 = {1} /\ p.chain[1] = {"lower", "push"}
  BY <1>2
<1> HIDE DEF p
<1>4. Behaves(p)
  BY ONLY <1>2, <1>3 DEF Behaves
<1> QED
  BY <1>4 DEF p

\* So do the handlers of all pages.
LEMMA PagesBehave ==
    /\ \A name \in FormNames : Behaves(FormPage[name])
    /\ \A name \in FormNames \ {"newProposal"} : StaysBusy(FormPage[name])
BY PagesHaveChains, ChainsBehave, ProposalBehaves

Shown(f) == ~(f.done /\ FormPage[f.page].replaces)
Own(a) == a.kind = "handler" /\ a.visit = opened

FormShape ==
    /\ form = [page |-> form.page, entry |-> form.entry, busy |-> form.busy, done |-> form.done,
               flash |-> form.flash, items |-> form.items, panel |-> form.panel]
    /\ form.page \in FormNames
    /\ opened \in 1..MaxOpened
    /\ \A x \in redirects : x = <<x[1], x[2], x[3]>> /\ x[1] \in 1..opened /\ x[2] \in FormNames
    /\ \A a \in awaits :
          /\ a = [slot |-> a.slot, kind |-> a.kind, visit |-> a.visit, page |-> a.page, at |-> a.at]
          /\ a.visit \in 1..opened
          /\ a.kind = "handler" => a.page \in FormNames /\ a.at \in 1..Len(FormPage[a.page].chain)

\* A visit has one handler at a time, which keeps the button away; a page that
\* is busy has one or is about to be left, a page with a label a timer.
OneHandler ==
    /\ \A a, b \in awaits : a.kind = "handler" /\ b.kind = "handler" /\ a.visit = b.visit => a = b
    /\ \A a \in awaits : Own(a) => a.page = form.page /\ (form.busy \/ ~Shown(form))

\* A page that was left once, and is not that of a new proposal, keeps its button
\* away and has no handler.
LeftOnce ==
    \A v \in 1..opened, name \in FormNames \ {"newProposal"} :
        /\ <<v, name, 2>> \notin redirects
        /\ <<v, name, 1>> \in redirects =>
              /\ \A a \in awaits : ~(a.kind = "handler" /\ a.visit = v)
              /\ v = opened => form.page = name /\ (form.busy \/ ~Shown(form))

BusyHasHandler == form.busy /\ Shown(form) => leaving \/ \E a \in awaits : Own(a)
FlashHasTimer == form.flash => \E a \in awaits : a.kind = "flash" /\ a.visit = opened

FormInv == FormShape /\ OneHandler /\ LeftOnce /\ BusyHasHandler /\ FlashHasTimer

\* The invariant holds at first.
LEMMA FormStart == FormPagesInit => FormInv
BY FormPagesConstants DEF FormPagesInit, FormInv, FormShape, OneHandler, LeftOnce, BusyHasHandler, FlashHasTimer, Fresh, Own

\* What a click changes besides: nothing the handlers look at.
LEMMA NothingMoves ==
    ASSUME FormInv, UNCHANGED <<awaits, opened, leaving, redirects>>,
           form' = [page |-> form'.page, entry |-> form'.entry, busy |-> form'.busy, done |-> form'.done,
                    flash |-> form'.flash, items |-> form'.items, panel |-> form'.panel],
           form'.page = form.page, form'.busy = form.busy, form'.done = form.done,
           form'.flash => form.flash
    PROVE  FormInv'
BY DEF FormInv, FormShape, OneHandler, LeftOnce, BusyHasHandler, FlashHasTimer, Own, Shown

\* Typing, toggling and removing move nothing.
LEMMA ClicksKeep ==
    ASSUME FormInv,
           \/ \E entry \in Entries : Enter(entry)
           \/ TogglePanel
           \/ \E k \in 1..3 : RemoveItem(k)
           \/ UNCHANGED formPagesVars
    PROVE  FormInv'
<1>1. UNCHANGED <<awaits, opened, leaving, redirects>>
  BY DEF Enter, TogglePanel, RemoveItem, formPagesVars
<1>2. /\ form' = [page |-> form'.page, entry |-> form'.entry, busy |-> form'.busy, done |-> form'.done,
                  flash |-> form'.flash, items |-> form'.items, panel |-> form'.panel]
      /\ form'.page = form.page /\ form'.busy = form.busy /\ form'.done = form.done
      /\ form'.flash => form.flash
  BY DEF Enter, TogglePanel, RemoveItem, formPagesVars, FormInv, FormShape
<1> QED
  BY <1>1, <1>2, NothingMoves

\* The button is there only while the page has no handler.
LEMMA FormSubmitKeeps ==
    ASSUME FormInv, Submit
    PROVE  FormInv'
<1> USE DEF FormInv
<1>1. CASE Here.chain = <<>>
  <2>1. UNCHANGED <<awaits, opened, leaving, redirects>>
    BY <1>1 DEF Submit
  <2>2. /\ form' = [page |-> form'.page, entry |-> form'.entry, busy |-> form'.busy, done |-> form'.done,
                    flash |-> form'.flash, items |-> form'.items, panel |-> form'.panel]
        /\ form'.page = form.page /\ form'.busy = form.busy /\ form'.done = form.done
        /\ form'.flash => form.flash
    BY <1>1 DEF Submit, FormShape
  <2> QED
    BY <2>1, <2>2, NothingMoves
<1>2. CASE Here.chain # <<>>
  <2>1. PICK s \in Slots :
           awaits' = awaits \cup {[slot |-> s, kind |-> "handler", visit |-> opened, page |-> form.page, at |-> 1]}
    BY <1>2 DEF Submit, Begin
  <2> DEFINE new == [slot |-> s, kind |-> "handler", visit |-> opened, page |-> form.page, at |-> 1]
  <2>2. /\ new = [slot |-> new.slot, kind |-> new.kind, visit |-> new.visit, page |-> new.page, at |-> new.at]
        /\ new.kind = "handler" /\ new.visit = opened /\ new.page = form.page /\ new.at = 1
    OBVIOUS
  <2>3. awaits' = awaits \cup {new} /\ UNCHANGED <<opened, leaving, redirects>>
    BY <2>1, <1>2 DEF Submit
  <2>4. /\ form' = [page |-> form'.page, entry |-> form'.entry, busy |-> form'.busy, done |-> form'.done,
                    flash |-> form'.flash, items |-> form'.items, panel |-> form'.panel]
        /\ form'.page = form.page /\ form'.busy /\ form'.flash = form.flash
    BY <1>2 DEF Submit, FormShape
  <2>5. ~form.busy /\ Shown(form)
    BY DEF Submit, FormShown, Shown, Here
  <2>6. 1 \in 1..Len(FormPage[form.page].chain)
    BY <1>2, PagesBehave DEF FormShape, Behaves, Here
  <2>7. \A a \in awaits : ~Own(a)
    BY <2>5 DEF OneHandler
  <2> HIDE DEF new
  <2>8. FormShape'
    BY <2>2, <2>3, <2>4, <2>6 DEF FormShape
  <2>9. OneHandler'
    BY <2>2, <2>3, <2>4, <2>7 DEF OneHandler, Own, FormShape
  <2>10. BusyHasHandler' /\ FlashHasTimer'
    BY <2>2, <2>3, <2>4 DEF BusyHasHandler, FlashHasTimer, Own
  <2>11. LeftOnce'
    BY <2>2, <2>3, <2>5 DEF LeftOnce
  <2> QED
    BY <2>8, <2>9, <2>10, <2>11
<1> QED
  BY <1>1, <1>2

\* A label that goes up has a timer.
LEMMA CopyKeeps ==
    ASSUME FormInv, handleCopy
    PROVE  FormInv'
<1> USE DEF FormInv
<1>1. PICK s \in Slots :
         awaits' = awaits \cup {[slot |-> s, kind |-> "flash", visit |-> opened, page |-> form.page, at |-> 1]}
  BY DEF handleCopy, Begin
<1> DEFINE new == [slot |-> s, kind |-> "flash", visit |-> opened, page |-> form.page, at |-> 1]
<1>2. /\ new = [slot |-> new.slot, kind |-> new.kind, visit |-> new.visit, page |-> new.page, at |-> new.at]
      /\ new.kind = "flash" /\ new.kind # "handler" /\ new.visit = opened
  OBVIOUS
<1>3. awaits' = awaits \cup {new} /\ UNCHANGED <<opened, leaving, redirects>>
  BY <1>1 DEF handleCopy
<1>4. /\ form' = [page |-> form'.page, entry |-> form'.entry, busy |-> form'.busy, done |-> form'.done,
                  flash |-> form'.flash, items |-> form'.items, panel |-> form'.panel]
      /\ form'.page = form.page /\ form'.busy = form.busy /\ form'.done = form.done
  BY DEF handleCopy, FormShape
<1> HIDE DEF new
<1>5. FormShape'
  BY <1>2, <1>3, <1>4 DEF FormShape
<1>6. OneHandler'
  BY <1>2, <1>3, <1>4 DEF OneHandler, Own, Shown
<1>7. BusyHasHandler' /\ FlashHasTimer'
  BY <1>2, <1>3, <1>4 DEF BusyHasHandler, FlashHasTimer, Own, Shown
<1>8. LeftOnce'
  BY <1>2, <1>3, <1>4 DEF LeftOnce, Shown
<1> QED
  BY <1>5, <1>6, <1>7, <1>8

\* A page that opens is not busy and has no label.
LEMMA FreshForm ==
    ASSUME NEW name \in FormNames
    PROVE  /\ Fresh(name) = [page |-> Fresh(name).page, entry |-> Fresh(name).entry, busy |-> Fresh(name).busy,
                             done |-> Fresh(name).done, flash |-> Fresh(name).flash,
                             items |-> Fresh(name).items, panel |-> Fresh(name).panel]
           /\ Fresh(name).page = name /\ ~Fresh(name).busy /\ ~Fresh(name).flash
BY DEF Fresh

\* A page that appears has no handler, those before it keep theirs.
LEMMA AppearsKeeps ==
    ASSUME FormInv, NEW name \in FormNames, Appears(name)
    PROVE  FormInv'
<1> USE DEF FormInv
<1>1. /\ opened' = opened + 1 /\ opened' \in 1..MaxOpened /\ opened \in Nat
      /\ UNCHANGED <<awaits, redirects>> /\ form' = Fresh(name)
  BY FormPagesConstants DEF Appears, FormShape
<1>2. FormShape'
  BY <1>1, FreshForm DEF FormShape
<1>3. OneHandler'
  BY <1>1, FreshForm DEF OneHandler, FormShape, Own
<1>4. BusyHasHandler' /\ FlashHasTimer'
  BY <1>1, FreshForm DEF BusyHasHandler, FlashHasTimer
<1>5. LeftOnce'
  <2> SUFFICES ASSUME NEW v \in 1..opened', NEW n \in FormNames \ {"newProposal"}
               PROVE  /\ <<v, n, 2>> \notin redirects
                      /\ <<v, n, 1>> \in redirects =>
                            /\ \A a \in awaits : ~(a.kind = "handler" /\ a.visit = v)
                            /\ v # opened'
    BY <1>1 DEF LeftOnce
  <2>1. \A k \in {1, 2} : <<v, n, k>> \in redirects => v \in 1..opened
    <3> SUFFICES ASSUME NEW k \in {1, 2}, <<v, n, k>> \in redirects PROVE v \in 1..opened
      OBVIOUS
    <3>1. <<v, n, k>>[1] \in 1..opened
      BY DEF FormShape
    <3> QED
      BY <3>1
  <2> QED
    BY <1>1, <2>1 DEF LeftOnce
<1> QED
  BY <1>2, <1>3, <1>4, <1>5

\* A timer takes the label of its page away, and with it the need of one.
LEMMA FlashEndsKeeps ==
    ASSUME FormInv, NEW a \in awaits, FlashEnds(a)
    PROVE  FormInv'
<1> USE DEF FormInv
<1>1. a.kind = "flash" /\ awaits' = awaits \ {a} /\ UNCHANGED <<opened, leaving, redirects>>
  BY DEF FlashEnds
<1>2. /\ form' = [page |-> form'.page, entry |-> form'.entry, busy |-> form'.busy, done |-> form'.done,
                  flash |-> form'.flash, items |-> form'.items, panel |-> form'.panel]
      /\ form'.page = form.page /\ form'.busy = form.busy /\ form'.done = form.done
      /\ form'.flash => form.flash /\ a.visit # opened
  BY DEF FlashEnds, FormShape
<1>3. FormShape'
  BY <1>1, <1>2 DEF FormShape
<1>4. OneHandler'
  BY <1>1, <1>2 DEF OneHandler, Own, Shown
<1>5. BusyHasHandler' /\ FlashHasTimer'
  BY <1>1, <1>2 DEF BusyHasHandler, FlashHasTimer, Own, Shown
<1>6. LeftOnce'
  BY <1>1, <1>2 DEF LeftOnce, Shown
<1> QED
  BY <1>3, <1>4, <1>5, <1>6

\* What the effects of a step leave of the form.
LEMMA EffectsOf ==
    ASSUME FormShape, NEW effects
    PROVE  LET f == After(effects) IN
           /\ f = [page |-> f.page, entry |-> f.entry, busy |-> f.busy, done |-> f.done,
                   flash |-> f.flash, items |-> f.items, panel |-> f.panel]
           /\ f.page = form.page
           /\ f.busy => form.busy /\ "lower" \notin effects
           /\ form.busy /\ "lower" \notin effects => f.busy
           /\ form.done \/ "done" \in effects => f.done
           /\ f.done => form.done \/ "done" \in effects
           /\ f.flash => form.flash \/ "flash" \in effects
<1> DEFINE items == IF "add" \in effects /\ form.items # 1..3
                    THEN form.items \cup {CHOOSE k \in 1..3 : k \notin form.items} ELSE form.items
           entry == IF "add" \in effects THEN "empty" ELSE form.entry
           busy == form.busy /\ "lower" \notin effects
           done == form.done \/ "done" \in effects
           flash == form.flash \/ "flash" \in effects
           shows == form.panel /\ "add" \notin effects
<1>1. After(effects) = [form EXCEPT !.busy = busy, !.done = done, !.flash = flash,
                                    !.items = items, !.entry = entry, !.panel = shows]
  BY Zenon DEF After
<1> HIDE DEF items, entry, busy, done, flash, shows
<1>2. After(effects) = [page |-> form.page, entry |-> entry, busy |-> busy, done |-> done,
                        flash |-> flash, items |-> items, panel |-> shows]
  BY <1>1 DEF FormShape
<1>3. /\ After(effects).page = form.page /\ After(effects).busy = busy /\ After(effects).done = done
      /\ After(effects).flash = flash /\ After(effects).items = items /\ After(effects).entry = entry
      /\ After(effects).panel = shows
  BY <1>2
<1> QED
  BY Zenon, <1>2, <1>3 DEF busy, done, flash

\* An await of a handler ends.  On its last step it asks to leave the page,
\* lowers the flag or shows the view of success; on a step before, which shows
\* that view, it goes on as the same handler.
LEMMA ContinueKeeps ==
    ASSUME FormInv, NEW a \in awaits, Continue(a)
    PROVE  FormInv'
<1> USE DEF FormInv
<1> DEFINE p == FormPage[a.page]
           effects == p.chain[a.at]
           last == a.at = Len(p.chain)
<1>1. /\ a.kind = "handler" /\ a.page \in FormNames /\ a.at \in 1..Len(p.chain)
      /\ a.visit \in 1..opened
  BY DEF Continue, FormShape
<1>2. /\ "push" \in effects \/ "flash" \in effects => last
      /\ "lower" \in effects \/ "push" \in effects \/ ("done" \in effects /\ p.replaces)
      /\ ~last => "done" \in effects /\ p.replaces
      /\ Len(p.chain) \in Nat
      /\ a.page # "newProposal" /\ "push" \in effects => "lower" \notin effects
  BY <1>1, PagesBehave DEF Behaves, StaysBusy
<1>3. \A b \in awaits : b.kind = "handler" /\ b.visit = a.visit => b = a
  BY <1>1 DEF OneHandler
<1>4. /\ opened' = opened /\ form' = IF a.visit = opened THEN After(effects) ELSE form
      /\ leaving => leaving'
      /\ "push" \in effects => leaving'
      /\ redirects' = IF "push" \in effects THEN redirects \cup {Redirect(a)} ELSE redirects
  BY DEF Continue
<1>5. /\ form' = [page |-> form'.page, entry |-> form'.entry, busy |-> form'.busy, done |-> form'.done,
                  flash |-> form'.flash, items |-> form'.items, panel |-> form'.panel]
      /\ form'.page = form.page
      /\ form.done => form'.done
      /\ a.visit = opened => /\ form'.busy => "lower" \notin effects
                             /\ "done" \in effects => form'.done
                             /\ form.busy /\ "lower" \notin effects => form'.busy
      /\ a.visit # opened => form' = form
      /\ form'.busy => form.busy
      /\ form'.flash => form.flash \/ (a.visit = opened /\ "flash" \in effects)
  BY <1>4, EffectsOf DEF FormShape
<1>6. a.visit = opened => a.page = form.page /\ (form.busy \/ ~Shown(form))
  BY <1>1 DEF OneHandler, Own
<1>7. \A x \in redirects' : x = <<x[1], x[2], x[3]>> /\ x[1] \in 1..opened /\ x[2] \in FormNames
  BY <1>1, <1>4 DEF FormShape, Redirect
<1>8. \A n \in FormNames \ {"newProposal"} : <<a.visit, n, 1>> \notin redirects /\ <<a.visit, n, 2>> \notin redirects
  BY <1>1 DEF LeftOnce
<1>9. PICK b :
         /\ awaits' = IF ~last \/ "flash" \in effects THEN (awaits \ {a}) \cup {b} ELSE awaits \ {a}
         /\ b = [slot |-> b.slot, kind |-> b.kind, visit |-> b.visit, page |-> b.page, at |-> b.at]
         /\ b.visit = a.visit /\ b.page = a.page
         /\ last => b.kind = "flash"
         /\ ~last => b.kind = "handler" /\ b.at \in 1..Len(p.chain)
  <2>1. CASE last
    <3> DEFINE b == [slot |-> a.slot, kind |-> "flash", visit |-> a.visit, page |-> a.page, at |-> a.at]
    <3>1. [a EXCEPT !.kind = "flash"] = b
      BY DEF FormShape
    <3>2. awaits' = IF "flash" \in effects THEN (awaits \ {a}) \cup {b} ELSE awaits \ {a}
      BY <2>1, <3>1 DEF Continue
    <3>3. /\ b = [slot |-> b.slot, kind |-> b.kind, visit |-> b.visit, page |-> b.page, at |-> b.at]
          /\ b.visit = a.visit /\ b.page = a.page /\ b.kind = "flash"
      OBVIOUS
    <3> HIDE DEF b
    <3> QED
      BY Zenon, <2>1, <3>2, <3>3
  <2>2. CASE ~last
    <3> DEFINE b == [slot |-> a.slot, kind |-> a.kind, visit |-> a.visit, page |-> a.page, at |-> a.at + 1]
    <3>1. [a EXCEPT !.at = @ + 1] = b
      BY DEF FormShape
    <3>2. awaits' = (awaits \ {a}) \cup {b}
      BY <2>2, <3>1 DEF Continue
    <3>3. a.at + 1 \in 1..Len(p.chain)
      BY <1>1, <1>2, <2>2
    <3>4. /\ b = [slot |-> b.slot, kind |-> b.kind, visit |-> b.visit, page |-> b.page, at |-> b.at]
          /\ b.visit = a.visit /\ b.page = a.page /\ b.kind = "handler" /\ b.at \in 1..Len(p.chain)
      BY <1>1, <3>3
    <3> HIDE DEF b
    <3> QED
      BY Zenon, <2>2, <3>2, <3>4
  <2> QED
    BY <2>1, <2>2
\* whether the handler ends or goes on, it is the only one of its visit
<1>10. /\ \A c \in awaits' : c.kind = "handler" /\ c.visit = a.visit => ~last /\ c = b
       /\ \A c \in awaits' : c.kind = "handler" /\ c.visit # a.visit => c \in awaits
  BY <1>3, <1>9
<1> HIDE DEF effects, last, p
<1>11. FormShape'
  <2>1. \A c \in awaits' : c \in awaits \/ c = b
    BY <1>9
  <2>2. b \in awaits' => /\ b.visit \in 1..opened
                         /\ b.kind = "handler" =>
                               b.page \in FormNames /\ b.at \in 1..Len(FormPage[b.page].chain)
    <3>1. b.kind = "handler" => ~last
      BY <1>9
    <3> QED
      BY <1>1, <1>9, <3>1 DEF p
  <2> QED
    BY <1>4, <1>5, <1>7, <1>9, <2>1, <2>2 DEF FormShape
<1>12. OneHandler'
  <2>1. \A c, d \in awaits' : c.kind = "handler" /\ d.kind = "handler" /\ c.visit = d.visit => c = d
    BY <1>10 DEF OneHandler
  <2>2. ASSUME NEW c \in awaits', Own(c)'
        PROVE  c.page = form'.page /\ (form'.busy \/ ~Shown(form'))
    <3>1. CASE c.visit = a.visit
      <4>1. ~last /\ c = b /\ a.visit = opened
        BY <1>4, <1>10, <2>2, <3>1 DEF Own
      <4>2. form'.done /\ p.replaces /\ form'.page = a.page /\ c.page = a.page
        BY <1>2, <1>5, <1>6, <1>9, <4>1
      <4> QED
        BY <4>2 DEF Shown, p
    <3>2. CASE c.visit # a.visit
      BY <1>4, <1>5, <1>10, <2>2, <3>2 DEF Own, OneHandler
    <3> QED
      BY <3>1, <3>2
  <2> QED
    BY <2>1, <2>2 DEF OneHandler
<1>13. BusyHasHandler'
  <2>1. CASE a.visit = opened
    <3>1. form'.busy => "push" \in effects \/ (form'.done /\ p.replaces)
      BY Zenon, <1>2, <1>5, <2>1
    <3>2. form'.done /\ p.replaces => ~Shown(form')
      BY <1>5, <1>6, <2>1 DEF Shown, p
    <3>3. form'.busy /\ Shown(form') => leaving'
      BY <1>4, <3>1, <3>2
    <3>4. Shown(form') = Shown(form)'
      BY DEF Shown
    <3> QED
      BY Zenon, <3>3, <3>4 DEF BusyHasHandler
  <2>2. CASE a.visit # opened
    <3>1. \A c \in awaits : Own(c) => c \in awaits' /\ Own(c)'
      BY <1>4, <1>9, <2>2 DEF Own
    <3>2. form' = form
      BY <1>5, <2>2
    <3>3. form.busy /\ Shown(form) => leaving' \/ \E c \in awaits' : Own(c)'
      BY <1>4, <3>1 DEF BusyHasHandler
    <3>4. (form.busy /\ Shown(form))' <=> form.busy /\ Shown(form)
      BY <3>2 DEF Shown
    <3> QED
      BY Zenon, <3>3, <3>4 DEF BusyHasHandler
  <2> QED
    BY <2>1, <2>2
<1>14. FlashHasTimer'
  <2>1. CASE a.visit = opened /\ "flash" \in effects
    <3>1. b \in awaits' /\ b.kind = "flash" /\ b.visit = opened'
      BY <1>2, <1>4, <1>9, <2>1
    <3> QED
      BY <3>1 DEF FlashHasTimer
  <2>2. CASE ~(a.visit = opened /\ "flash" \in effects)
    <3>1. \A c \in awaits : c.kind = "flash" => c \in awaits'
      BY <1>1, <1>9
    <3>2. form'.flash => form.flash
      BY <1>5, <2>2
    <3> QED
      BY <1>4, <3>1, <3>2 DEF FlashHasTimer
  <2> QED
    BY <2>1, <2>2
<1>15. LeftOnce'
  <2> SUFFICES ASSUME NEW v \in 1..opened, NEW n \in FormNames \ {"newProposal"}
               PROVE  /\ <<v, n, 2>> \notin redirects'
                      /\ <<v, n, 1>> \in redirects' =>
                            /\ \A c \in awaits' : ~(c.kind = "handler" /\ c.visit = v)
                            /\ v = opened => form'.page = n /\ (form'.busy \/ ~Shown(form'))
    BY <1>4 DEF LeftOnce
  <2>1. CASE v # a.visit
    <3>1. \A k \in {1, 2} : <<v, n, k>> \in redirects' => <<v, n, k>> \in redirects
      <4>1. <<v, n, 1>> # Redirect(a) /\ <<v, n, 2>> # Redirect(a)
        BY <2>1 DEF Redirect
      <4> QED
        BY <1>4, <4>1
    <3>2. \A c \in awaits' : c.kind = "handler" /\ c.visit = v => c \in awaits
      BY <1>10, <2>1
    <3>3. v = opened => form' = form
      BY <1>5, <2>1
    <3> QED
      BY <3>1, <3>2, <3>3 DEF LeftOnce
  <2>2. CASE v = a.visit
    <3>1. a.page # "newProposal" => Redirect(a) = <<a.visit, a.page, 1>>
      BY <1>1, <1>8 DEF Redirect
    <3>2. Redirect(a)[2] = a.page
      BY DEF Redirect
    <3>3. <<v, n, 2>> \notin redirects'
      <4>1. <<v, n, 2>> # Redirect(a)
        <5>1. CASE a.page = "newProposal"
          BY <3>2, <5>1
        <5>2. CASE a.page # "newProposal"
          BY <3>1, <5>2
        <5> QED
          BY <5>1, <5>2
      <4> QED
        BY <1>4, <1>8, <2>2, <4>1
    <3>4. ASSUME <<v, n, 1>> \in redirects'
          PROVE  "push" \in effects /\ a.page = n
      <4>1. "push" \in effects /\ <<v, n, 1>> = Redirect(a)
        BY <1>4, <1>8, <2>2, <3>4
      <4> QED
        BY <3>2, <4>1
    <3>5. <<v, n, 1>> \in redirects' => \A c \in awaits' : ~(c.kind = "handler" /\ c.visit = v)
      BY <1>2, <1>10, <2>2, <3>4
    <3>6. ASSUME <<v, n, 1>> \in redirects', v = opened
          PROVE  form'.page = n /\ (form'.busy \/ ~Shown(form'))
      <4>1. form'.page = n /\ "lower" \notin effects /\ a.page = n
        BY <1>2, <1>5, <1>6, <2>2, <3>4, <3>6
      <4>2. CASE form.busy
        BY <1>5, <2>2, <3>6, <4>1, <4>2
      <4>3. CASE ~Shown(form)
        <5>1. ~Shown(form')
          BY <1>5, <4>3 DEF Shown
        <5> QED
          BY <4>1, <5>1
      <4> QED
        BY <1>6, <2>2, <3>6, <4>1, <4>2, <4>3
    <3> QED
      BY <3>3, <3>5, <3>6
  <2> QED
    BY <2>1, <2>2
<1> QED
  BY <1>11, <1>12, <1>13, <1>14, <1>15

\* A refused call lowers the flag and ends the handler.
LEMMA RefusedKeeps ==
    ASSUME FormInv, NEW a \in awaits, Refused(a)
    PROVE  FormInv'
<1> USE DEF FormInv
<1>1. /\ a.kind = "handler" /\ a.page \in FormNames /\ FormPage[a.page].fails = {"lower"}
  BY PagesBehave DEF Refused, FormShape, Behaves
<1>2. /\ awaits' = awaits \ {a} /\ UNCHANGED <<opened, leaving, redirects>>
      /\ form' = IF a.visit = opened THEN After({"lower"}) ELSE form
  BY <1>1 DEF Refused
<1>3. \A b \in awaits : b.kind = "handler" /\ b.visit = a.visit => b = a
  BY <1>1 DEF OneHandler
<1>4. /\ form' = [page |-> form'.page, entry |-> form'.entry, busy |-> form'.busy, done |-> form'.done,
                  flash |-> form'.flash, items |-> form'.items, panel |-> form'.panel]
      /\ form'.page = form.page
      /\ a.visit = opened => ~form'.busy
      /\ a.visit # opened => form' = form
      /\ form'.flash => form.flash
  BY <1>2, EffectsOf DEF FormShape
<1>5. FormShape'
  BY <1>2, <1>4 DEF FormShape
<1>6. OneHandler'
  <2>1. \A c \in awaits' : Own(c)' => Own(c) /\ form' = form
    BY <1>2, <1>3, <1>4 DEF Own
  <2> QED
    BY <2>1, <1>2 DEF OneHandler
<1>7. BusyHasHandler'
  BY <1>2, <1>4 DEF BusyHasHandler, Own
<1>8. FlashHasTimer'
  BY <1>1, <1>2, <1>4 DEF FlashHasTimer
<1>9. LeftOnce'
  BY <1>1, <1>2, <1>4 DEF LeftOnce
<1> QED
  BY <1>5, <1>6, <1>7, <1>8, <1>9

\* FormsSettle, for any number of pages opened and of awaits.
THEOREM FormsAlwaysSettle == FormPagesSpec => []FormsSettle
<1>1. FormInv /\ [FormPagesNext]_formPagesVars => FormInv'
  <2> SUFFICES ASSUME FormInv, [FormPagesNext]_formPagesVars PROVE FormInv'
    OBVIOUS
  <2>1. CASE (\E name \in FormNames : Open(name)) \/ Navigated
    <3>1. "list" \in FormNames
      BY DEF FormNames, FormPage
    <3> QED
      BY <2>1, <3>1, AppearsKeeps DEF Open, Navigated
  <2>2. CASE \/ \E entry \in Entries : Enter(entry)
             \/ TogglePanel
             \/ \E k \in 1..3 : RemoveItem(k)
             \/ UNCHANGED formPagesVars
    BY <2>2, ClicksKeep
  <2>3. CASE Submit
    BY <2>3, FormSubmitKeeps
  <2>4. CASE handleCopy
    BY <2>4, CopyKeeps
  <2>5. CASE \E a \in awaits : Continue(a) \/ Refused(a) \/ FlashEnds(a)
    BY <2>5, ContinueKeeps, RefusedKeeps, FlashEndsKeeps
  <2> QED
    BY <2>1, <2>2, <2>3, <2>4, <2>5 DEF FormPagesNext
<1>2. FormInv => FormsSettle
  <2> SUFFICES ASSUME FormInv PROVE FormsSettle
    OBVIOUS
  <2>1. ASSUME NEW r \in redirects, r[3] = 2 PROVE r[2] = "newProposal"
    <3>1. r = <<r[1], r[2], 2>> /\ r[1] \in 1..opened /\ r[2] \in FormNames
      BY <2>1 DEF FormInv, FormShape
    <3>2. r[2] # "newProposal" => <<r[1], r[2], 2>> \notin redirects
      BY <3>1 DEF FormInv, LeftOnce
    <3> QED
      BY <2>1, <3>1, <3>2
  <2> QED
    BY <2>1 DEF FormInv, OneHandler, BusyHasHandler, FlashHasTimer, FormsSettle, FormShown, Shown, Here, Own
<1> QED
  BY <1>1, <1>2, FormStart, PTL DEF FormPagesSpec

-----------------------------------------------------------------------------
(* The settings page *)

PreferencesShape ==
    /\ settings = [open |-> settings.open, section |-> settings.section, prefs |-> settings.prefs,
                   isSaving |-> settings.isSaving, saved |-> settings.saved]
    /\ saving = [stage |-> saving.stage, values |-> saving.values, left |-> saving.left, mounted |-> saving.mounted]
    /\ settings.saved \in Nat /\ saving.left \subseteq NotifKeys
    /\ stored = [k \in PrefKeys |-> stored[k]]
    /\ \A w \in strays : w.key \in NotifKeys

\* While the session lives, a save has written what it has passed: the profile
\* first, then the keys that are not left, the last of which lets it go on.
PassedIsWritten ==
    /\ saving.stage = "profile" => saving.left = NotifKeys
    /\ authSession = "live" /\ saving.stage \in {"notifs", "node"} =>
          /\ \A k \in (NotifKeys \ saving.left) \cup {"profile"} : k \in overtaken \/ stored[k] = saving.values[k]
          /\ saving.stage = "node" => saving.left = {}

PreferencesInv == PreferencesShape /\ PassedIsWritten

\* The invariant holds at first.
LEMMA PreferencesStart == PreferencesInit => PreferencesInv
BY PreferencesConstants DEF PreferencesInit, PreferencesInv, PreferencesShape, PassedIsWritten, SettingsPage, Idle, Defaults, PrefKeys

Announced ==
    settings'.saved > settings.saved /\ authSession = "live" =>
        \A k \in PrefKeys \ overtaken : stored'[k] = saving.values[k]

\* A handler that leaves the save and the database alone.
LEMMA PageStepsKeep ==
    ASSUME PreferencesInv,
           \/ \E l \in loads : LoadRead(l) \/ loadPrefs(l)
           \/ UserRefreshed
           \/ \E s \in {"fields", "danger"} : OpenSection(s)
           \/ \E k \in Editable : EditPref(k)
           \/ SavedEnds \/ DeleteAccountModal \/ handleDelete \/ DeleteAnswered \/ LeaveSettings \/ SessionLost
           \/ UNCHANGED preferencesVars
    PROVE  PreferencesInv' /\ Announced
<1> USE DEF PreferencesInv
<1>1. UNCHANGED <<stored, strays, overtaken>> /\ (authSession' = "live" => authSession = "live")
  BY DEF LoadRead, loadPrefs, UserRefreshed, OpenSection, EditPref, SavedEnds, DeleteAccountModal, handleDelete,
         DeleteAnswered, LeaveSettings, SessionLost, preferencesVars
<1>2. \/ UNCHANGED saving
      \/ \E m : saving' = [saving EXCEPT !.mounted = m]
  BY DEF LoadRead, loadPrefs, UserRefreshed, OpenSection, EditPref, SavedEnds, DeleteAccountModal, handleDelete,
         DeleteAnswered, LeaveSettings, SessionLost, preferencesVars
<1>3. /\ saving' = [stage |-> saving'.stage, values |-> saving'.values, left |-> saving'.left,
                    mounted |-> saving'.mounted]
      /\ saving'.stage = saving.stage /\ saving'.values = saving.values /\ saving'.left = saving.left
  BY <1>2 DEF PreferencesShape
<1>4. /\ settings' = [open |-> settings'.open, section |-> settings'.section, prefs |-> settings'.prefs,
                      isSaving |-> settings'.isSaving, saved |-> settings'.saved]
      /\ settings'.saved \in Nat /\ ~(settings'.saved > settings.saved)
  <2>1. CASE UNCHANGED settings
    BY <2>1 DEF PreferencesShape
  <2>2. CASE \E p : settings' = [settings EXCEPT !.prefs = p]
    BY <2>2 DEF PreferencesShape
  <2>3. CASE \E p, k : settings' = [settings EXCEPT !.prefs[k] = p]
    BY <2>3 DEF PreferencesShape
  <2>4. CASE \E s : settings' = [settings EXCEPT !.section = s]
    BY <2>4 DEF PreferencesShape
  <2>5. CASE settings' = [SettingsPage EXCEPT !.open = FALSE]
    <3>1. settings' = [open |-> FALSE, section |-> "fields", prefs |-> Defaults, isSaving |-> FALSE, saved |-> 0]
      BY <2>5 DEF SettingsPage
    <3>2. settings.saved \in Nat
      BY DEF PreferencesShape
    <3> QED
      BY ONLY <3>1, <3>2
  <2>6. CASE SavedEnds
    BY <2>6 DEF PreferencesShape, SavedEnds
  <2> QED
    BY <2>1, <2>2, <2>3, <2>4, <2>5, <2>6
       DEF LoadRead, loadPrefs, UserRefreshed, OpenSection, EditPref, DeleteAccountModal, handleDelete,
           DeleteAnswered, LeaveSettings, SessionLost, preferencesVars
<1> QED
  BY <1>1, <1>3, <1>4 DEF PreferencesShape, PassedIsWritten, Announced

\* What a failed save leaves of the page.
LEMMA SaveFailedKeeps ==
    ASSUME PreferencesShape, SaveFailed
    PROVE  /\ settings' = [open |-> settings'.open, section |-> settings'.section, prefs |-> settings'.prefs,
                           isSaving |-> settings'.isSaving, saved |-> settings'.saved]
           /\ settings'.saved = settings.saved
           /\ saving' = Idle
BY DEF PreferencesShape, SaveFailed

\* The steps of a save, and what they leave of the page.
LEMMA SaveStepsKeep ==
    ASSUME PreferencesInv,
           \/ handleSave \/ UpdateProfile \/ saveNodeProviderPrefs
           \/ \E k \in NotifKeys : setNotificationPref(k) \/ NotificationPrefRefused(k)
           \/ \E w \in strays : StrayWritten(w)
    PROVE  PreferencesInv' /\ Announced
<1> USE DEF PreferencesInv
<1>0. /\ Idle.stage = "idle"
      /\ Idle = [stage |-> Idle.stage, values |-> Idle.values, left |-> Idle.left, mounted |-> Idle.mounted]
      /\ Idle.left = {}
  BY DEF Idle
<1>1. CASE handleSave
  <2>1. UNCHANGED <<strays, stored, authSession>>
    BY <1>1 DEF handleSave
  <2>2. CASE authSession = "ended"
    BY <1>1, <2>1, <2>2 DEF handleSave, PreferencesShape, PassedIsWritten, Announced
  <2>3. CASE authSession # "ended"
    <3>1. /\ \E i : settings' = [settings EXCEPT !.isSaving = i]
          /\ \E m : saving' = [stage |-> "profile", values |-> settings.prefs, left |-> NotifKeys, mounted |-> m]
      BY <1>1, <2>3 DEF handleSave
    <3> QED
      BY <2>1, <3>1 DEF PreferencesShape, PassedIsWritten, Announced
  <2> QED
    BY <2>2, <2>3
<1>2. CASE UpdateProfile
  <2>1. UNCHANGED <<strays, authSession, overtaken>>
    BY <1>2 DEF UpdateProfile
  <2>2. CASE SaveFailed /\ UNCHANGED stored
    BY <1>0, <2>1, <2>2, SaveFailedKeeps DEF PreferencesShape, PassedIsWritten, Announced
  <2>3. CASE /\ stored' = [stored EXCEPT !["profile"] = saving.values["profile"]]
             /\ saving' = [saving EXCEPT !.stage = "notifs"]
             /\ UNCHANGED settings
    <3>1. /\ saving'.values = saving.values /\ saving'.left = saving.left /\ saving'.stage = "notifs"
          /\ saving' = [stage |-> saving'.stage, values |-> saving'.values, left |-> saving'.left,
                        mounted |-> saving'.mounted]
      BY <2>3 DEF PreferencesShape
    <3>2. \A k \in PrefKeys : stored'[k] = IF k = "profile" THEN saving.values[k] ELSE stored[k]
      BY <2>3 DEF PreferencesShape
    <3>3. PreferencesShape' /\ ~(settings'.saved > settings.saved)
      BY <2>1, <2>3, <3>1 DEF PreferencesShape
    <3>4. saving.stage = "profile"
      BY <1>2 DEF UpdateProfile
    <3> QED
      BY <2>1, <3>1, <3>2, <3>3, <3>4 DEF PassedIsWritten, Announced, PrefKeys
  <2> QED
    BY <1>2, <2>2, <2>3 DEF UpdateProfile
<1>3. CASE \E k \in NotifKeys : setNotificationPref(k)
  <2> PICK k \in NotifKeys : setNotificationPref(k)
    BY <1>3
  <2>1. UNCHANGED <<settings, strays, authSession, overtaken>> /\ saving.stage = "notifs" /\ k \in saving.left
    BY DEF setNotificationPref
  <2>2. /\ saving'.values = saving.values /\ saving'.left = saving.left \ {k}
        /\ saving'.stage = IF saving.left = {k} THEN "node" ELSE "notifs"
        /\ saving' = [stage |-> saving'.stage, values |-> saving'.values, left |-> saving'.left,
                      mounted |-> saving'.mounted]
    <3>1. saving' = [saving EXCEPT !.left = saving.left \ {k},
                                   !.stage = IF saving.left = {k} THEN "node" ELSE "notifs"]
      BY <2>1 DEF setNotificationPref
    <3> QED
      BY <3>1 DEF PreferencesShape
  <2>3. stored' = [j \in PrefKeys |-> stored'[j]]
    BY DEF setNotificationPref, Upsert, PreferencesShape
  <2>4. authSession = "live" =>
           \A j \in PrefKeys : stored'[j] = IF j = k THEN saving.values[k] ELSE stored[j]
    BY DEF setNotificationPref, Upsert, PreferencesShape
  <2>5. PreferencesShape' /\ ~(settings'.saved > settings.saved)
    BY <2>1, <2>2, <2>3 DEF PreferencesShape
  <2> QED
    BY <2>1, <2>2, <2>4, <2>5 DEF PassedIsWritten, Announced, PrefKeys
<1>4. CASE \E k \in NotifKeys : NotificationPrefRefused(k)
  <2> PICK k \in NotifKeys : NotificationPrefRefused(k)
    BY <1>4
  <2>1. /\ UNCHANGED <<stored, authSession, overtaken>> /\ SaveFailed
        /\ strays' = strays \cup {[nr |-> saves, key |-> j, value |-> saving.values[j]] : j \in saving.left \ {k}}
    BY DEF NotificationPrefRefused
  <2>2. \A w \in strays' : w.key \in NotifKeys
    BY <2>1 DEF PreferencesShape
  <2> QED
    BY <1>0, <2>1, <2>2, SaveFailedKeeps DEF PreferencesShape, PassedIsWritten, Announced
<1>5. CASE \E w \in strays : StrayWritten(w)
  <2> PICK w \in strays : StrayWritten(w)
    BY <1>5
  <2>1. /\ UNCHANGED <<settings, saving, authSession>> /\ strays' = strays \ {w}
        /\ w.key \in PrefKeys
    BY DEF StrayWritten, PreferencesShape, PrefKeys
  <2>2. stored' = [j \in PrefKeys |-> stored'[j]]
    BY DEF StrayWritten, Upsert, PreferencesShape
  <2>3. \A j \in PrefKeys : stored'[j] = stored[j] \/ j \in overtaken'
    BY <2>1 DEF StrayWritten, Upsert, PreferencesShape
  <2>4. overtaken \subseteq overtaken'
    BY DEF StrayWritten
  <2>5. PreferencesShape' /\ ~(settings'.saved > settings.saved)
    BY <2>1, <2>2 DEF PreferencesShape
  <2> QED
    BY <2>1, <2>3, <2>4, <2>5 DEF PassedIsWritten, Announced, PrefKeys
<1>6. CASE saveNodeProviderPrefs
  <2>1. UNCHANGED <<strays, authSession, overtaken>> /\ saving.stage = "node"
    BY <1>6 DEF saveNodeProviderPrefs
  <2>2. CASE SaveFailed /\ UNCHANGED stored
    BY <1>0, <2>1, <2>2, SaveFailedKeeps DEF PreferencesShape, PassedIsWritten, Announced
  <2>3. CASE /\ Upsert("node", saving.values["node"])
             /\ settings' = IF saving.mounted
                            THEN [settings EXCEPT !.isSaving = FALSE, !.saved = @ + 1] ELSE settings
             /\ saving' = Idle
    <3>1. stored' = [j \in PrefKeys |-> stored'[j]]
      BY <2>3 DEF Upsert, PreferencesShape
    <3>2. authSession = "live" =>
             \A j \in PrefKeys : stored'[j] = IF j = "node" THEN saving.values["node"] ELSE stored[j]
      BY <2>3 DEF Upsert, PreferencesShape
    <3>3. /\ settings' = [open |-> settings'.open, section |-> settings'.section, prefs |-> settings'.prefs,
                          isSaving |-> settings'.isSaving, saved |-> settings'.saved]
          /\ settings'.saved \in Nat
      <4>1. CASE settings' = settings
        BY <4>1 DEF PreferencesShape
      <4>2. CASE \E i : settings' = [[settings EXCEPT !.isSaving = i] EXCEPT !.saved = settings.saved + 1]
        <5> PICK i : settings' = [[settings EXCEPT !.isSaving = i] EXCEPT !.saved = settings.saved + 1]
          BY <4>2
        <5> DEFINE d == [settings EXCEPT !.isSaving = i]
        <5>1. d = [open |-> settings.open, section |-> settings.section, prefs |-> settings.prefs,
                   isSaving |-> i, saved |-> settings.saved]
          BY DEF PreferencesShape
        <5>2. settings' = [d EXCEPT !.saved = settings.saved + 1]
          OBVIOUS
        <5> HIDE DEF d
        <5>3. settings' = [open |-> settings.open, section |-> settings.section, prefs |-> settings.prefs,
                           isSaving |-> i, saved |-> settings.saved + 1]
          BY <5>1, <5>2
        <5>4. settings.saved \in Nat
          BY DEF PreferencesShape
        <5> QED
          BY ONLY <5>3, <5>4
      <4> QED
        BY <2>3, <4>1, <4>2
    <3>4. PreferencesShape'
      BY <1>0, <2>1, <2>3, <3>1, <3>3 DEF PreferencesShape
    <3>5. authSession = "live" => \A k \in PrefKeys \ overtaken : stored'[k] = saving.values[k]
      BY <2>1, <3>2 DEF PassedIsWritten, PrefKeys
    <3> QED
      BY <1>0, <2>3, <3>4, <3>5 DEF PassedIsWritten, Announced
  <2> QED
    BY <1>6, <2>2, <2>3 DEF saveNodeProviderPrefs
<1> QED
  BY <1>1, <1>2, <1>3, <1>4, <1>5, <1>6

\* "Saved" means written: the save has passed every key, and only a write that
\* an earlier save left on its way can have replaced what it wrote.
THEOREM SavedMeansWritten == PreferencesSpec => SavedWasWritten
<1>1. PreferencesInit => PreferencesInv
  BY PreferencesStart
<1>2. PreferencesInv /\ [PreferencesNext]_preferencesVars => PreferencesInv' /\ Announced
  BY PageStepsKeep, SaveStepsKeep DEF PreferencesNext
<1>3. PreferencesInv /\ [PreferencesNext]_preferencesVars =>
        [settings'.saved > settings.saved /\ authSession = "live" =>
           \A k \in PrefKeys \ overtaken : stored'[k] = saving.values[k]]_preferencesVars
  BY <1>2 DEF Announced
<1> QED
  BY <1>1, <1>2, <1>3, PTL DEF PreferencesSpec, SavedWasWritten

-----------------------------------------------------------------------------
(* The administration pages *)

IsRow(r) == r = Row(r.id, r.has, r.status)

(* What a decision rests on: a row has its id to itself, and the copy that the *)
(* panel and the dialogs look at, while it is pending, is one of the rows.     *)
SelectionIsCurrent ==
    /\ content = [page |-> content.page, phase |-> content.phase, rows |-> content.rows,
                  filter |-> content.filter, selected |-> content.selected,
                  dialogs |-> content.dialogs, reason |-> content.reason]
    /\ content.page \in AdminNames
    /\ content.phase = "loading" => content.selected = NoRow
    /\ content.phase = "rows" =>
          /\ \A r \in content.rows : IsRow(r)
          /\ \A r, s \in content.rows : r.id = s.id => r = s
          /\ content.selected.status = "pending" => content.selected \in content.rows

TableNames == {"jobs", "nodes", "profiles", "slashing_events", "alerts", "proposals", "disputes", "contracts"}

\* Every page reads one of the tables, and a table has rows.
LEMMA PagesReadTables == \A name \in AdminNames : AdminPage[name].from \in TableNames
BY DEF AdminNames, AdminPage, TableNames, List, Detail, AdminUsersPage, AdminUserPage, AdminJobsPage, AdminJobPage,
       AdminNodesPage, AdminNodePage, AdminAlertsPage, AdminAlertPage, AdminGovernancePage, AdminProposalPage,
       AdminDisputesPage, AdminDisputePage, AdminContractsPage, AdminContractPage, AdminSlashingPage

\* The rows of the tables are rows.
LEMMA TablesHaveRows == \A table \in TableNames : \A r \in TableRows(table) : IsRow(r)
<1> SUFFICES ASSUME NEW table \in TableNames, NEW r \in TableRows(table)
             PROVE  IsRow(r)
  OBVIOUS
<1>1. CASE tables = "schema"
  BY <1>1 DEF TableRows, SchemaRows, TableNames, IsRow, Row
<1>2. CASE tables # "schema"
  BY <1>2 DEF TableRows, DeclaredRows, IsRow, Row
<1> QED
  BY <1>1, <1>2

\* The invariant holds at first.
LEMMA AdminPagesStart == AdminPagesInit => SelectionIsCurrent
BY DEF AdminPagesInit, SelectionIsCurrent, NoContent, Loading, AdminNames, AdminPage

\* What a rendering makes of the content it is given.
LEMMA RenderedKeeps ==
    ASSUME NEW c, c.page \in AdminNames,
           content' = Rendered(c),
           c = [page |-> c.page, phase |-> "rows", rows |-> c.rows, filter |-> c.filter,
                selected |-> c.selected, dialogs |-> c.dialogs, reason |-> c.reason],
           \A r \in c.rows : IsRow(r),
           \A r, s \in c.rows : r.id = s.id => r = s,
           c.selected.status = "pending" => c.selected \in c.rows
    PROVE  SelectionIsCurrent' /\ (content'.phase = "rows" => content'.rows = c.rows)
<1>1. CASE content' = c
  BY <1>1 DEF SelectionIsCurrent
<1>2. CASE content' = [Loading(c.page) EXCEPT !.phase = "thrown"]
  BY <1>2 DEF SelectionIsCurrent, Loading
<1> QED
  BY <1>1, <1>2 DEF Rendered

\* A decision replaces the row that was selected, and it alone.
LEMMA DecideKeeps ==
    ASSUME SelectionIsCurrent, content.phase = "rows", NEW status \in {"executed", "overridden"}
    PROVE  /\ \A r \in Decide(status) : IsRow(r)
           /\ \A r, s \in Decide(status) : r.id = s.id => r = s
           /\ \A d \in Decide(status) : d \in content.rows \/ (d.id = content.selected.id /\ d.status = status)
<1>1. \A r \in content.rows : LET d == [r EXCEPT !.status = status] IN IsRow(d) /\ d.id = r.id /\ d.has = r.has
  BY DEF SelectionIsCurrent, IsRow, Row
<1>2. \A d \in Decide(status) : d \in content.rows \/ (d.id = content.selected.id /\ d.status = status)
  BY DEF Decide, SelectionIsCurrent, IsRow, Row
<1>3. ASSUME NEW d \in Decide(status)
      PROVE  IsRow(d) /\ \E r \in content.rows : /\ d.id = r.id
                                                /\ d = IF r.id = content.selected.id THEN [r EXCEPT !.status = status]
                                                                                     ELSE r
  <2>1. PICK r \in content.rows : d = IF r.id = content.selected.id THEN [r EXCEPT !.status = status] ELSE r
    BY DEF Decide
  <2>2. IsRow(r) /\ IsRow(d) /\ d.id = r.id
    BY <1>1, <2>1 DEF SelectionIsCurrent
  <2> QED
    BY <2>1, <2>2
<1>4. \A d, e \in Decide(status) : d.id = e.id => d = e
  BY <1>3 DEF SelectionIsCurrent
<1> QED
  BY <1>2, <1>3, <1>4

\* Every step keeps it, and executes an event that is pending only.
LEMMA AdminPagesKept ==
    ASSUME SelectionIsCurrent, [AdminPagesNext]_adminPagesVars
    PROVE  SelectionIsCurrent' /\
           (content.phase = "rows" /\ content'.phase = "rows" =>
              \A e \in content'.rows : e.status = "executed" =>
                 \E r \in content.rows : r.id = e.id /\ r.status \in {"pending", "executed"})
<1> USE DEF SelectionIsCurrent
<1>1. CASE \E u \in {"out", "viewer", "admin"} : useRequireAuth(u)
  BY <1>1 DEF useRequireAuth, NoContent, Loading, AdminNames, AdminPage
<1>2. CASE \E name \in AdminNames : RequireAuth(name)
  BY <1>2 DEF RequireAuth, Loading
<1>3. CASE LoadData
  <2>1. CASE content' = [content EXCEPT !.phase = "error"]
    BY <1>3, <2>1 DEF LoadData
  <2>2. ASSUME NEW found \in SUBSET TableRows(AdminPage[content.page].from),
               \A r, s \in found : r.id = s.id => r = s,
               content' = Rendered([content EXCEPT !.phase = "rows", !.rows = found])
        PROVE  SelectionIsCurrent'
    <3> DEFINE c == [content EXCEPT !.phase = "rows", !.rows = found]
    <3>0. content.phase = "loading"
      BY <1>3 DEF LoadData
    <3>1. \A r \in c.rows : IsRow(r)
      BY PagesReadTables, TablesHaveRows
    <3>2. c.page = content.page /\ c.rows = found /\ c.selected = NoRow
      BY <3>0
    <3>4. ASSUME NEW k, k = [content EXCEPT !.phase = "rows"]
          PROVE  [k EXCEPT !.rows = found] =
                 [page |-> content.page, phase |-> "rows", rows |-> found, filter |-> content.filter,
                  selected |-> content.selected, dialogs |-> content.dialogs, reason |-> content.reason]
      <4>1. k = [page |-> content.page, phase |-> "rows", rows |-> content.rows, filter |-> content.filter,
                 selected |-> content.selected, dialogs |-> content.dialogs, reason |-> content.reason]
        BY <3>4
      <4> QED
        BY <4>1
    <3>5. c = [page |-> c.page, phase |-> "rows", rows |-> c.rows, filter |-> c.filter,
               selected |-> c.selected, dialogs |-> c.dialogs, reason |-> c.reason]
      BY <3>4
    <3>3. NoRow.status = "none"
      BY DEF NoRow, Row
    <3> HIDE DEF c
    <3> QED
      BY <2>2, <3>1, <3>2, <3>3, <3>5, RenderedKeeps DEF c
  <2> QED
    BY <1>3, <2>1, <2>2 DEF LoadData
<1>4. CASE \E s \in SlashStatuses \cup {"none"} : FilterStatus(s)
  <2> PICK s : FilterStatus(s)
    BY <1>4
  <2> DEFINE c == [content EXCEPT !.filter = s]
  <2>1. /\ c.page = content.page /\ c.rows = content.rows /\ c.selected = content.selected
        /\ c = [page |-> c.page, phase |-> "rows", rows |-> c.rows, filter |-> c.filter,
                selected |-> c.selected, dialogs |-> c.dialogs, reason |-> c.reason]
    BY DEF FilterStatus, OnSlashing
  <2>2. content' = Rendered(c) /\ content.phase = "rows"
    BY DEF FilterStatus, OnSlashing
  <2> HIDE DEF c
  <2>3. SelectionIsCurrent' /\ (content'.phase = "rows" => content'.rows = c.rows)
    BY <2>1, <2>2, RenderedKeeps
  <2> QED
    BY <2>1, <2>3
<1>5. CASE \E e \in content.rows : openDetailModal(e)
  BY <1>5 DEF openDetailModal, OnSlashing
<1>6. CASE openOverrideModal
  BY <1>6 DEF openOverrideModal, OnSlashing, Decidable
<1>7. CASE EnterReason
  BY <1>7 DEF EnterReason, OnSlashing
<1>8. CASE CloseModal
  BY <1>8 DEF CloseModal, OnSlashing
<1>9. ASSUME NEW status \in {"executed", "overridden"}, content.phase = "rows", NEW dialogs,
             status = "executed" => content.selected.status = "pending",
             content' = [content EXCEPT !.rows = Decide(status), !.dialogs = dialogs, !.selected = NoRow]
      PROVE  SelectionIsCurrent' /\
             \A e \in content'.rows : e.status = "executed" =>
                \E r \in content.rows : r.id = e.id /\ r.status \in {"pending", "executed"}
  <2>1. NoRow.status = "none"
    BY DEF NoRow, Row
  <2>2. content'.rows = Decide(status)
    BY <1>9
  <2>3. SelectionIsCurrent'
    <3>1. content' = [page |-> content.page, phase |-> content.phase, rows |-> Decide(status),
                      filter |-> content.filter, selected |-> NoRow, dialogs |-> dialogs, reason |-> content.reason]
      BY <1>9
    <3>2. /\ \A d \in Decide(status) : IsRow(d)
          /\ \A d, e \in Decide(status) : d.id = e.id => d = e
      BY <1>9, DecideKeeps
    <3>3. /\ content'.page \in AdminNames /\ content'.phase = "rows" /\ content'.rows = Decide(status)
          /\ content'.selected.status = "none"
          /\ content' = [page |-> content'.page, phase |-> content'.phase, rows |-> content'.rows,
                         filter |-> content'.filter, selected |-> content'.selected,
                         dialogs |-> content'.dialogs, reason |-> content'.reason]
      BY <1>9, <2>1, <3>1
    <3> QED
      BY ONLY <3>2, <3>3 DEF SelectionIsCurrent
  <2>4. ASSUME NEW e \in Decide(status), e.status = "executed"
        PROVE  \E r \in content.rows : r.id = e.id /\ r.status \in {"pending", "executed"}
    <3>1. CASE e \in content.rows
      BY <2>4, <3>1
    <3>2. CASE e \notin content.rows
      <4>1. e.id = content.selected.id /\ content.selected \in content.rows /\ content.selected.status = "pending"
        BY <1>9, <2>4, <3>2, DecideKeeps
      <4> QED
        BY <4>1
    <3> QED
      BY <3>1, <3>2
  <2> QED
    BY <2>2, <2>3, <2>4
<1>10. CASE overrideSlash
  BY <1>9, <1>10 DEF overrideSlash, OnSlashing
<1>11. CASE executeSlash
  BY <1>9, <1>11 DEF executeSlash, OnSlashing, Decidable
<1>12. CASE UNCHANGED adminPagesVars
  BY <1>12 DEF adminPagesVars
<1> QED
  BY <1>1, <1>2, <1>3, <1>4, <1>5, <1>6, <1>7, <1>8, <1>10, <1>11, <1>12 DEF AdminPagesNext

\* A slash is executed when it is pending only, whichever dialogs, filters and
\* decisions come before it.
THEOREM ExecutionsWerePending == AdminPagesSpec => ExecutedWasPending
<1>1. AdminPagesInit => SelectionIsCurrent
  BY AdminPagesStart
<1>2. SelectionIsCurrent /\ [AdminPagesNext]_adminPagesVars => SelectionIsCurrent'
  BY AdminPagesKept
<1>3. SelectionIsCurrent /\ [AdminPagesNext]_adminPagesVars =>
        [content.phase = "rows" /\ content'.phase = "rows" =>
           \A e \in content'.rows : e.status = "executed" =>
              \E r \in content.rows : r.id = e.id /\ r.status \in {"pending", "executed"}]_adminPagesVars
  BY AdminPagesKept
<1> QED
  BY <1>1, <1>2, <1>3, PTL DEF AdminPagesSpec, ExecutedWasPending

-----------------------------------------------------------------------------
(* The sockets *)

NoneLive == \A c \in ConnIds : conns[c] \notin Live

\* A timer that opens a source runs only while none is open, and a source that
\* is open is the one the hook or the manager can close.
SocketsInv ==
    /\ client \in {"ws", "sse", "hook"}
    /\ conns \in [ConnIds -> {"unused", "connecting", "open", "closing", "closed"}]
    /\ current \in 0..MaxSockets /\ attempts \in 0..MaxReconnectAttempts
    /\ timers \in Nat
    /\ client = "ws" => timers <= 1 /\ (~wanted => timers = 0)
    /\ client # "ws" => \A c \in ConnIds : conns[c] \in Live => c = current
    /\ client = "hook" => /\ timers <= 1
                          /\ timers = 1 => NoneLive
                          /\ ~wanted => NoneLive /\ timers = 0

\* It holds at first.
LEMMA SocketsStart == SocketsInit => SocketsInv
<1> MaxSockets \in Nat /\ MaxReconnectAttempts \in Nat
  BY SocketsConstants
<1> QED
  BY DEF SocketsInit, SocketsInv, NoneLive, ConnIds, Live

\* The WebSocketManager: one timer at most, and the attempts limited.
LEMMA ManagerKeeps ==
    ASSUME SocketsInv,
           \/ useWebSocket \/ ReconnectTimer \/ disconnect
           \/ \E c \in ConnIds : onclose(c)
    PROVE  SocketsInv'
<1> USE SocketsConstants DEF SocketsInv, ConnIds
<1>0. /\ client = "ws" /\ client' = "ws" /\ timers \in {0, 1}
      /\ MaxSockets \in Nat /\ MaxReconnectAttempts \in Nat \ {0}
  BY DEF useWebSocket, ReconnectTimer, disconnect, onclose, wsOnly
<1>1. ASSUME NEW left \in {0, 1}, left <= timers, Connect(left)
      PROVE  SocketsInv'
  <2>1. CASE wanted' = wanted /\ timers' = left /\ UNCHANGED <<conns, current, attempts>>
    BY <1>0, <1>1, <2>1
  <2>2. CASE /\ wanted' /\ timers' = left /\ attempts' = attempts
             /\ \E c \in ConnIds : conns' = [conns EXCEPT ![c] = "connecting"] /\ current' = c
    BY <1>0, <1>1, <2>2
  <2>3. CASE wanted' /\ scheduleReconnect(left) /\ UNCHANGED <<conns, current>>
    BY <1>0, <1>1, <2>3 DEF scheduleReconnect
  <2>4. CASE current # 0 /\ conns[current] = "open"
    BY <1>1, <2>1, <2>4 DEF Connect
  <2>5. CASE ~(current # 0 /\ conns[current] = "open")
    BY <1>1, <2>2, <2>3, <2>5 DEF Connect, NextConn
  <2> QED
    BY <2>4, <2>5
<1>2. CASE useWebSocket
  BY <1>0, <1>1, <1>2 DEF useWebSocket
<1>3. CASE ReconnectTimer
  <2> timers - 1 \in {0, 1} /\ timers - 1 <= timers
    BY <1>0, <1>3 DEF ReconnectTimer
  <2> QED
    BY <1>1, <1>3 DEF ReconnectTimer
<1>4. CASE disconnect
  <2>1. conns' \in [ConnIds -> {"unused", "connecting", "open", "closing", "closed"}]
    BY <1>4 DEF disconnect
  <2> QED
    BY <1>0, <1>4, <2>1 DEF disconnect
<1>5. CASE \E c \in ConnIds : onclose(c)
  BY <1>0, <1>5 DEF onclose, scheduleReconnect
<1> QED
  BY <1>2, <1>3, <1>4, <1>5

\* The SSEManager and the hook: whatever is opened, the one before is closed.
LEMMA SourcesKeep ==
    ASSUME SocketsInv,
           \/ sseConnect \/ sseDisconnect
           \/ \E h \in {"h1", "h2"} : sseSubscribe(h) \/ sseUnsubscribe(h)
           \/ useSSE \/ SSECleanup \/ SSEReconnect
           \/ \E c \in ConnIds : onopen(c) \/ SSEError(c)
    PROVE  SocketsInv'
<1> USE SocketsConstants DEF SocketsInv, ConnIds, Live, NoneLive
<1>1. CASE sseConnect
  BY <1>1 DEF sseConnect, CloseSource, NextConn
<1>2. CASE sseDisconnect
  BY <1>2 DEF sseDisconnect, CloseSource
<1>3. CASE \E h \in {"h1", "h2"} : sseSubscribe(h) \/ sseUnsubscribe(h)
  BY <1>3 DEF sseSubscribe, sseUnsubscribe
<1>4. CASE useSSE
  BY <1>4 DEF useSSE, CloseSource, NextConn
<1>5. CASE SSECleanup
  <2>1. conns' \in [ConnIds -> {"unused", "connecting", "open", "closing", "closed"}]
    BY <1>5 DEF SSECleanup, CloseSource
  <2>2. \A c \in ConnIds : conns'[c] \notin Live
    BY <1>5 DEF SSECleanup, CloseSource
  <2> QED
    BY <1>5, <2>1, <2>2 DEF SSECleanup
<1>6. CASE SSEReconnect
  BY <1>6 DEF SSEReconnect, NextConn
<1>7. CASE \E c \in ConnIds : onopen(c)
  BY <1>7 DEF onopen
<1>8. CASE \E c \in ConnIds : SSEError(c)
  BY <1>8 DEF SSEError
<1> QED
  BY <1>1, <1>2, <1>3, <1>4, <1>5, <1>6, <1>7, <1>8

\* Every step keeps it.
LEMMA SocketsKept == SocketsInv /\ [SocketsNext]_socketsVars => SocketsInv'
<1> SUFFICES ASSUME SocketsInv, [SocketsNext]_socketsVars
             PROVE  SocketsInv'
  OBVIOUS
<1>1. CASE UNCHANGED socketsVars
  BY <1>1 DEF SocketsInv, NoneLive, socketsVars
<1> QED
  BY <1>1, ManagerKeeps, SourcesKeep DEF SocketsNext

\* It implies the property.
LEMMA SocketsSafe == SocketsInv => DisconnectLasts
<1> SUFFICES ASSUME SocketsInv, client # "ws"
             PROVE  Cardinality(InUse) <= 1 /\ (client = "hook" /\ ~wanted => InUse = {})
  BY DEF SocketsInv, DisconnectLasts
<1>1. InUse = {} \/ InUse = {current}
  BY DEF SocketsInv, InUse
<1>2. Cardinality({}) = 0 /\ Cardinality({current}) = 1
  BY FS_EmptySet, FS_Singleton
<1> QED
  BY <1>1, <1>2 DEF SocketsInv, InUse, NoneLive

\* What disconnect() and an unmounted useSSE promise: no timer survives them,
\* and a component never listens to two event sources.
THEOREM SocketsStayClosed == SocketsSpec => []DisconnectLasts
<1>1. SocketsInit => SocketsInv
  BY SocketsStart
<1>2. SocketsInv /\ [SocketsNext]_socketsVars => SocketsInv'
  BY SocketsKept
<1>3. SocketsInv => DisconnectLasts
  BY SocketsSafe
<1> QED
  BY <1>1, <1>2, <1>3, PTL DEF SocketsSpec

-----------------------------------------------------------------------------
(* Feeds: the lines of a log *)

Times(s, k) == Cardinality({i \in DOMAIN s : s[i] = k})

\* How often a line is shown is a number;
LEMMA TimesType ==
    ASSUME NEW s \in Seq(Nat), NEW k
    PROVE  IsFiniteSet({i \in DOMAIN s : s[i] = k}) /\ Times(s, k) \in Nat
<1>1. DOMAIN s = 1..Len(s) /\ Len(s) \in Nat
  OBVIOUS
<1>2. IsFiniteSet(1..Len(s))
  BY <1>1, FS_Interval
<1>3. IsFiniteSet({i \in DOMAIN s : s[i] = k})
  BY <1>1, <1>2, FS_Subset
<1> QED
  BY <1>3, FS_CardinalityType DEF Times

\* a line that comes adds one to its own number;
LEMMA TimesAppend ==
    ASSUME NEW s \in Seq(Nat), NEW x \in Nat, NEW k
    PROVE  Times(Append(s, x), k) = IF x = k THEN Times(s, k) + 1 ELSE Times(s, k)
<1> DEFINE at == {i \in DOMAIN s : s[i] = k}
<1>1. DOMAIN s = 1..Len(s) /\ Len(s) \in Nat /\ DOMAIN Append(s, x) = 1..(Len(s) + 1)
  OBVIOUS
<1>2. Append(s, x)[Len(s) + 1] = x /\ \A i \in 1..Len(s) : Append(s, x)[i] = s[i]
  OBVIOUS
<1>3. {i \in DOMAIN Append(s, x) : Append(s, x)[i] = k} = IF x = k THEN at \cup {Len(s) + 1} ELSE at
  BY <1>1, <1>2
<1>4. IsFiniteSet(at)
  BY TimesType
<1>6. Len(s) + 1 \notin at
  BY <1>1
<1> HIDE DEF at
<1>5. Cardinality(at \cup {Len(s) + 1}) = Cardinality(at) + 1
  BY <1>4, <1>6, FS_AddElement
<1> QED
  BY <1>3, <1>5 DEF Times, at

\* a line that is not there is shown no times.
LEMMA TimesNone ==
    ASSUME NEW s, NEW k, \A i \in DOMAIN s : s[i] # k
    PROVE  Times(s, k) = 0
<1>1. {i \in DOMAIN s : s[i] = k} = {}
  OBVIOUS
<1> QED
  BY <1>1, FS_EmptySet DEF Times

\* A query answers with each line once.
LEMMA TimesOnce ==
    ASSUME NEW n \in Nat, NEW k
    PROVE  Times([i \in 1..n |-> i], k) \in {0, 1}
<1> DEFINE s == [i \in 1..n |-> i]
           at == {i \in DOMAIN s : s[i] = k}
<1>1. at = IF k \in 1..n THEN {k} ELSE {}
  OBVIOUS
<1> HIDE DEF at
<1>2. Cardinality(at) \in {0, 1}
  BY <1>1, FS_EmptySet, FS_Singleton
<1> QED
  BY <1>2 DEF Times, at, s

Delivers(c, k) == \E i \in 1..Len(c.due) : c.due[i] = k

\* There is one channel at most, which owes a line once, in order; one it owes
\* has been shown at most once, and no line more than twice.
LogsInv ==
    /\ written \in Nat
    /\ logs \in Seq(1..written)
    /\ \A f \in fetches : f = [nr |-> f.nr, read |-> f.read, upto |-> f.upto] /\ f.upto \in 0..written
    /\ \A c, d \in channels : c = d
    /\ \A c \in channels :
          /\ c = [nr |-> c.nr, joined |-> c.joined, due |-> c.due]
          /\ c.due \in Seq(1..written)
          /\ \A i, j \in 1..Len(c.due) : i < j => c.due[i] < c.due[j]
          /\ \A k \in Nat : Delivers(c, k) => Times(logs, k) <= 1
    /\ \A k \in Nat : Times(logs, k) <= 2

\* A channel that owes nothing.
LEMMA NothingOwed ==
    ASSUME NEW c, c.due = << >>
    PROVE  /\ \A S : c.due \in Seq(S)
           /\ \A i, j \in 1..Len(c.due) : i < j => c.due[i] < c.due[j]
           /\ \A k \in Nat : ~Delivers(c, k)
<1>1. (\A S : << >> \in Seq(S)) /\ 1..Len(<< >>) = {}
  OBVIOUS
<1> QED
  BY Zenon, <1>1 DEF Delivers

\* What the changes of a channel and of a query leave of them.
LEMMA ChannelChanges ==
    ASSUME NEW c, c = [nr |-> c.nr, joined |-> c.joined, due |-> c.due], NEW v
    PROVE  /\ LET d == [c EXCEPT !.due = v] IN
              d = [nr |-> d.nr, joined |-> d.joined, due |-> d.due] /\ d.due = v
           /\ LET d == [c EXCEPT !.joined = v] IN
              d = [nr |-> d.nr, joined |-> d.joined, due |-> d.due] /\ d.due = c.due
OBVIOUS

\* What the changes of a query leave of it.
LEMMA QueryChanges ==
    ASSUME NEW f, f = [nr |-> f.nr, read |-> f.read, upto |-> f.upto], NEW v
    PROVE  /\ LET g == [f EXCEPT !.read = v] IN
              g = [nr |-> g.nr, read |-> g.read, upto |-> g.upto] /\ g.upto = f.upto
           /\ LET g == [f EXCEPT !.upto = v] IN
              g = [nr |-> g.nr, read |-> g.read, upto |-> g.upto] /\ g.upto = v
OBVIOUS

\* What the tail of a sequence holds.
LEMMA Tails ==
    ASSUME NEW S, NEW s \in Seq(S), s # << >>
    PROVE  /\ Tail(s) \in Seq(S) /\ Len(Tail(s)) = Len(s) - 1
           /\ \A i \in 1..Len(Tail(s)) : Tail(s)[i] = s[i + 1]
OBVIOUS

\* It holds at first.
LEMMA LogsStart == FeedsInit => LogsInv
<1> SUFFICES ASSUME FeedsInit PROVE LogsInv
  OBVIOUS
<1>1. /\ written = 0 /\ logs = << >>
      /\ fetches = {[nr |-> 1, read |-> FALSE, upto |-> 0]}
      /\ channels = {[nr |-> 1, joined |-> FALSE, due |-> << >>]}
  BY Zenon DEF FeedsInit
<1>2. /\ << >> \in Seq(1..0) /\ Len(<< >>) = 0 /\ \A i \in DOMAIN << >> : FALSE
  OBVIOUS
<1>3. \A k \in Nat : Times(<< >>, k) = 0
  BY <1>2, TimesNone
<1>4. \A f \in fetches : f = [nr |-> f.nr, read |-> f.read, upto |-> f.upto] /\ f.upto \in 0..written
  BY <1>1
<1>5. \A c \in channels : c = [nr |-> c.nr, joined |-> c.joined, due |-> c.due] /\ c.due = << >>
  BY <1>1
<1>6. \A c, d \in channels : c = d
  BY Zenon, <1>1
<1>7. \A c \in channels : /\ c.due \in Seq(1..written)
                          /\ \A i, j \in 1..Len(c.due) : i < j => c.due[i] < c.due[j]
                          /\ \A k \in Nat : ~Delivers(c, k)
  BY <1>5, NothingOwed
<1>8. logs \in Seq(1..written) /\ \A k \in Nat : Times(logs, k) = 0
  BY Zenon, <1>1, <1>2, <1>3
<1> QED
  BY <1>1, <1>4, <1>5, <1>6, <1>7, <1>8 DEF LogsInv

\* A new line: nobody shows it yet, and a channel that has joined owes it last.
LEMMA LogWrittenKeeps ==
    ASSUME LogsInv, LogWritten
    PROVE  LogsInv'
<1> USE DEF LogsInv
<1> DEFINE w == written + 1
<1>1. /\ written' = w /\ w \in Nat /\ UNCHANGED <<logs, fetches>>
      /\ channels' = {IF c.joined THEN [c EXCEPT !.due = Append(@, w)] ELSE c : c \in channels}
  BY DEF LogWritten, NotFiltering
<1>2. logs \in Seq(1..w) /\ \A n : n \in 1..written => n \in 1..w
  <2>1. \A i \in 1..Len(logs) : logs[i] \in 1..w
    OBVIOUS
  <2> QED
    BY <2>1
<1>3. Times(logs, w) = 0
  BY TimesNone
<1>4. \A f \in fetches' : f = [nr |-> f.nr, read |-> f.read, upto |-> f.upto] /\ f.upto \in 0..w
  BY <1>1
<1>5. \A c, d \in channels' : c = d
  <2> DEFINE after(c) == IF c.joined THEN [c EXCEPT !.due = Append(@, w)] ELSE c
  <2>1. channels' = {after(c) : c \in channels}
    BY <1>1
  <2>2. \A c, d \in channels : c = d
    OBVIOUS
  <2> HIDE DEF after
  <2> QED
    BY Zenon, <2>1, <2>2
<1> DEFINE Fine(c) ==
      /\ c = [nr |-> c.nr, joined |-> c.joined, due |-> c.due]
      /\ c.due \in Seq(1..w)
      /\ \A i, j \in 1..Len(c.due) : i < j => c.due[i] < c.due[j]
      /\ \A k \in Nat : Delivers(c, k) => Times(logs, k) <= 1
<1>6. ASSUME NEW c \in channels PROVE Fine(c)
  <2>1. \A i \in 1..Len(c.due) : c.due[i] \in 1..w
    OBVIOUS
  <2> QED
    BY <2>1
<1>7. ASSUME NEW c \in channels, NEW d, d = [c EXCEPT !.due = Append(@, w)] PROVE Fine(d)
  <2>0. c = [nr |-> c.nr, joined |-> c.joined, due |-> c.due]
    OBVIOUS
  <2>1. d = [nr |-> d.nr, joined |-> d.joined, due |-> d.due] /\ d.due = Append(c.due, w)
    BY ONLY <1>7, <2>0, ChannelChanges
  <2>2. c.due \in Seq(1..w) /\ c.due \in Seq(1..written) /\ w \in 1..w /\ written \in Nat
        /\ \A i, j \in 1..Len(c.due) : i < j => c.due[i] < c.due[j]
    BY <1>1, <1>6
  <2>3. d.due \in Seq(1..w) /\ Len(d.due) = Len(c.due) + 1 /\ d.due[Len(c.due) + 1] = w
        /\ \A i \in 1..Len(c.due) : d.due[i] = c.due[i] /\ d.due[i] \in 1..written
    BY ONLY <2>1, <2>2
  <2>4. \A i, j \in 1..Len(d.due) : i < j => d.due[i] < d.due[j]
    <3>1. ASSUME NEW i \in 1..Len(c.due) PROVE d.due[i] < w
      <4>1. d.due[i] \in 1..written
        BY <2>3
      <4>2. written \in Nat
        BY ONLY <2>2
      <4> QED
        BY ONLY <4>1, <4>2
    <3>2. Len(c.due) \in Nat
      BY ONLY <2>2
    <3> SUFFICES ASSUME NEW i \in 1..Len(d.due), NEW j \in 1..Len(d.due), i < j
                 PROVE  d.due[i] < d.due[j]
      OBVIOUS
    <3>3. i \in 1..Len(c.due) /\ (j \in 1..Len(c.due) \/ j = Len(c.due) + 1)
      BY ONLY <3>2, <2>3, i < j
    <3>4. CASE j \in 1..Len(c.due)
      BY ONLY <3>3, <3>4, <2>2, <2>3, i < j
    <3>5. CASE j = Len(c.due) + 1
      BY ONLY <3>1, <3>3, <3>5, <2>3
    <3> QED
      BY <3>3, <3>4, <3>5
  <2>5. \A k \in Nat : Delivers(d, k) => Times(logs, k) <= 1
    <3> SUFFICES ASSUME NEW k \in Nat, Delivers(d, k) PROVE Times(logs, k) <= 1
      OBVIOUS
    <3>1. PICK i \in 1..Len(d.due) : d.due[i] = k
      BY DEF Delivers
    <3>2. CASE i = Len(c.due) + 1
      BY <3>1, <3>2, <2>3, <1>3
    <3>3. CASE i \in 1..Len(c.due)
      BY <3>1, <3>3, <2>3 DEF Delivers
    <3> QED
      BY <3>2, <3>3, <2>2, <2>3
  <2> QED
    BY <2>1, <2>3, <2>4, <2>5
<1>8. \A c \in channels' : Fine(c)
  BY <1>1, <1>6, <1>7
<1> QED
  BY <1>1, <1>2, <1>4, <1>5, <1>8 DEF Delivers

\* A line is delivered: the channel owes it no more, as it owed it once.
LEMMA DeliveredKeeps ==
    ASSUME LogsInv, NEW c \in channels, LogDelivered(c)
    PROVE  LogsInv'
<1> USE DEF LogsInv
<1> DEFINE line == Head(c.due)
<1>1. /\ UNCHANGED <<written, fetches>> /\ c.due # << >>
      /\ channels' = (channels \ {c}) \cup {[c EXCEPT !.due = Tail(@)]}
      /\ logs' = Append(logs, line)
  BY DEF LogDelivered, NotFiltering
<1>2. PICK d : /\ d = [nr |-> d.nr, joined |-> d.joined, due |-> d.due] /\ d.due = Tail(c.due)
               /\ channels' = {d}
  <2> DEFINE d == [c EXCEPT !.due = Tail(c.due)]
  <2>1. c = [nr |-> c.nr, joined |-> c.joined, due |-> c.due]
    OBVIOUS
  <2>2. d = [nr |-> d.nr, joined |-> d.joined, due |-> d.due] /\ d.due = Tail(c.due)
    BY ONLY <2>1, ChannelChanges
  <2>3. channels \ {c} = {}
    OBVIOUS
  <2>4. channels' = {d}
    BY <1>1, <2>3
  <2> HIDE DEF d
  <2> QED
    BY ONLY <2>2, <2>4
<1>3. /\ c.due \in Seq(1..written) /\ Len(c.due) \in Nat /\ Len(c.due) >= 1 /\ line = c.due[1]
      /\ line \in 1..written /\ line \in Nat
  <2>1. c.due \in Seq(1..written) /\ c.due # << >> /\ written \in Nat
    BY <1>1
  <2> QED
    BY ONLY <2>1
<1>4. /\ d.due \in Seq(1..written) /\ Len(d.due) = Len(c.due) - 1
      /\ \A i \in 1..Len(d.due) : d.due[i] = c.due[i + 1]
  <2>1. c.due \in Seq(1..written) /\ c.due # << >> /\ d.due = Tail(c.due)
    BY <1>1, <1>2
  <2> DEFINE t == Tail(c.due)
  <2>2. /\ t \in Seq(1..written) /\ Len(t) = Len(c.due) - 1
        /\ \A i \in 1..Len(t) : t[i] = c.due[i + 1]
    BY ONLY <2>1, Tails
  <2> HIDE DEF t
  <2>3. d.due = t
    BY <2>1 DEF t
  <2> QED
    BY Zenon, <2>2, <2>3
<1>5. \A i, j \in 1..Len(d.due) : i < j => d.due[i] < d.due[j]
  <2>1. \A i, j \in 1..Len(c.due) : i < j => c.due[i] < c.due[j]
    OBVIOUS
  <2> SUFFICES ASSUME NEW i \in 1..Len(d.due), NEW j \in 1..Len(d.due), i < j
               PROVE  d.due[i] < d.due[j]
    OBVIOUS
  <2>2. i + 1 \in 1..Len(c.due) /\ j + 1 \in 1..Len(c.due) /\ i + 1 < j + 1
    BY ONLY <1>3, <1>4, i < j
  <2>3. c.due[i + 1] < c.due[j + 1]
    BY ONLY <2>1, <2>2
  <2> QED
    BY ONLY <1>4, <2>3
<1>6. \A k \in Nat : Delivers(d, k) => Delivers(c, k) /\ k # line
  <2> SUFFICES ASSUME NEW k \in Nat, Delivers(d, k) PROVE Delivers(c, k) /\ k # line
    OBVIOUS
  <2>1. PICK i \in 1..Len(d.due) : d.due[i] = k
    BY DEF Delivers
  <2>2. i + 1 \in 1..Len(c.due) /\ 1 \in 1..Len(c.due) /\ c.due[i + 1] = k /\ 1 < i + 1
    BY ONLY <2>1, <1>3, <1>4
  <2>3. c.due[1] < c.due[i + 1] /\ c.due[1] \in Nat /\ c.due[i + 1] \in Nat
    BY <2>2, <1>3
  <2> QED
    BY <2>2, <2>3, <1>3 DEF Delivers
<1> HIDE DEF line
<1>7. logs \in Seq(Nat) /\ logs' \in Seq(1..written)
  <2>1. \A i \in 1..Len(logs) : logs[i] \in Nat
    OBVIOUS
  <2> QED
    BY <2>1, <1>1, <1>3
<1>8. \A k \in Nat : Times(logs', k) = IF line = k THEN Times(logs, k) + 1 ELSE Times(logs, k)
  BY <1>1, <1>3, <1>7, TimesAppend
<1>9. Times(logs, line) <= 1
  <2>1. Delivers(c, line)
    BY ONLY <1>3 DEF Delivers
  <2> QED
    BY <2>1, <1>3
<1>10. \A k \in Nat : Times(logs', k) <= 2 /\ (Delivers(d, k) => Times(logs', k) <= 1)
  <2>1. \A k \in Nat : Times(logs, k) \in Nat
    BY <1>7, TimesType
  <2> QED
    BY <2>1, <1>6, <1>8, <1>9
<1> QED
  BY <1>1, <1>2, <1>4, <1>5, <1>7, <1>10 DEF Delivers

\* An answer shows each line once, in the place of all that was shown; or it is an error.
LEMMA AnsweredKeeps ==
    ASSUME LogsInv, NEW f \in fetches, FetchAnswered(f)
    PROVE  LogsInv'
<1> USE DEF LogsInv
<1>1. /\ UNCHANGED <<written, channels>> /\ fetches' = fetches \ {f}
      /\ logs' = [i \in 1..f.upto |-> i] \/ logs' = logs
  BY DEF FetchAnswered, NotFiltering
<1>2. CASE logs' = [i \in 1..f.upto |-> i]
  <2>1. f.upto \in Nat /\ f.upto <= written
    OBVIOUS
  <2>2. logs' \in Seq(1..written)
    BY <1>2, <2>1
  <2>3. \A k \in Nat : Times(logs', k) \in {0, 1}
    BY <1>2, <2>1, TimesOnce
  <2>4. \A k \in Nat : Times(logs', k) <= 1 /\ Times(logs', k) <= 2
    BY ONLY <2>3
  <2> HIDE DEF LogsInv
  <2> QED
    BY <1>1, <2>2, <2>4 DEF Delivers, LogsInv
<1>3. CASE logs' = logs
  BY <1>1, <1>3 DEF Delivers
<1> QED
  BY <1>1, <1>2, <1>3

\* Every step keeps it.
LEMMA LogsKept == LogsInv /\ [FeedsNext]_feedsVars => LogsInv'
<1> SUFFICES ASSUME LogsInv, [FeedsNext]_feedsVars PROVE LogsInv'
  OBVIOUS
<1> USE DEF LogsInv
<1>1. CASE UNCHANGED <<written, logs, fetches, channels>>
  BY <1>1 DEF Delivers
<1>2. CASE LogWritten
  BY <1>2, LogWrittenKeeps
<1>3. CASE useStreamingLogs
  <2>1. UNCHANGED <<written, logs>>
    BY <1>3 DEF useStreamingLogs, NotFiltering
  <2>2. \A f \in fetches' : f = [nr |-> f.nr, read |-> f.read, upto |-> f.upto] /\ f.upto \in 0..written
    BY <1>3 DEF useStreamingLogs
  <2>3. channels' = {} \/ channels' = {[nr |-> 1, joined |-> FALSE, due |-> << >>]}
    BY <1>3 DEF useStreamingLogs
  <2>4. \A c \in channels' : c = [nr |-> c.nr, joined |-> c.joined, due |-> c.due] /\ c.due = << >>
    BY <2>3
  <2>5. \A c, d \in channels' : c = d
    BY Zenon, <2>3
  <2>7. \A c \in channels' : /\ c.due \in Seq(1..written)
                             /\ \A i, j \in 1..Len(c.due) : i < j => c.due[i] < c.due[j]
                             /\ \A k \in Nat : ~Delivers(c, k)
    BY <2>4, NothingOwed
  <2> QED
    BY <2>1, <2>2, <2>4, <2>5, <2>7 DEF Delivers
<1>4. ASSUME NEW c \in channels, ChannelJoined(c) PROVE LogsInv'
  <2>1. UNCHANGED <<written, logs, fetches>>
    BY <1>4 DEF ChannelJoined, NotFiltering
  <2>2. PICK d : channels' = {d} /\ d = [nr |-> d.nr, joined |-> d.joined, due |-> d.due] /\ d.due = c.due
    <3> DEFINE d == [c EXCEPT !.joined = TRUE]
    <3>1. c = [nr |-> c.nr, joined |-> c.joined, due |-> c.due]
      OBVIOUS
    <3>2. d = [nr |-> d.nr, joined |-> d.joined, due |-> d.due] /\ d.due = c.due
      BY ONLY <3>1, ChannelChanges
    <3>3. channels \ {c} = {}
      OBVIOUS
    <3>4. channels' = {d}
      BY <1>4, <3>3 DEF ChannelJoined
    <3> HIDE DEF d
    <3> QED
      BY ONLY <3>2, <3>4
  <2> QED
    BY <2>1, <2>2 DEF Delivers
<1>5. ASSUME NEW c \in channels, LogDelivered(c) PROVE LogsInv'
  BY <1>5, DeliveredKeeps
<1>6. ASSUME NEW f \in fetches, fetchJobLogs(f) PROVE LogsInv'
  <2>1. UNCHANGED <<written, logs, channels>>
    BY <1>6 DEF fetchJobLogs, NotFiltering
  <2>2. PICK g : /\ fetches' = (fetches \ {f}) \cup {g}
                 /\ g = [nr |-> g.nr, read |-> g.read, upto |-> g.upto] /\ g.upto = written
    <3> DEFINE yes == TRUE
               h == [f EXCEPT !.read = yes]
               g == [h EXCEPT !.upto = written]
    <3> HIDE DEF yes
    <3>1. f = [nr |-> f.nr, read |-> f.read, upto |-> f.upto]
      OBVIOUS
    <3>4. h = [nr |-> h.nr, read |-> h.read, upto |-> h.upto]
      BY ONLY <3>1, QueryChanges
    <3> HIDE DEF h
    <3>2. g = [nr |-> g.nr, read |-> g.read, upto |-> g.upto] /\ g.upto = written
      BY ONLY <3>4, QueryChanges
    <3>3. fetches' = (fetches \ {f}) \cup {g}
      BY <1>6 DEF fetchJobLogs, yes, h
    <3> HIDE DEF g
    <3> QED
      BY ONLY <3>2, <3>3
  <2> QED
    BY <2>1, <2>2 DEF Delivers
<1>7. ASSUME NEW f \in fetches, FetchAnswered(f) PROVE LogsInv'
  BY <1>7, AnsweredKeeps
<1>8. FeedsNext =>
        \/ UNCHANGED <<written, logs, fetches, channels>>
        \/ LogWritten \/ useStreamingLogs
        \/ \E c \in channels : ChannelJoined(c) \/ LogDelivered(c)
        \/ \E f \in fetches : fetchJobLogs(f) \/ FetchAnswered(f)
  BY DEF FeedsNext, handleToggleLevel, NodeChanged, dismissAlert, removeToast, addNotification, removeNotification,
         markAsRead, markAllAsRead, clearAll, toggleSidebar, setSidebar, partialize, OtherThanUpdates,
         OtherThanNotifications, logsVars
<1> QED
  BY <1>1, <1>2, <1>3, <1>4, <1>5, <1>6, <1>7, <1>8 DEF feedsVars, logsVars

-----------------------------------------------------------------------------
(* Feeds: the list of updates *)

\* An entry in front of a list, and the part of a list that is kept.
LEMMA InFront ==
    ASSUME NEW S, NEW x \in S, NEW s \in Seq(S)
    PROVE  LET r == <<x>> \o s IN
           /\ r \in Seq(S) /\ Len(r) = Len(s) + 1 /\ r[1] = x
           /\ \A i \in 1..Len(s) : r[i + 1] = s[i]
           /\ \A i \in 1..Len(r) : i # 1 => i - 1 \in 1..Len(s) /\ r[i] = s[i - 1]
<1>1. <<x>> \in Seq(S) /\ Len(<<x>>) = 1
  OBVIOUS
<1> QED
  BY <1>1

\* The part of a list that is kept is its front.
LEMMA NewestKeeps ==
    ASSUME NEW S, NEW s \in Seq(S), NEW n \in Nat
    PROVE  /\ Newest(s, n) \in Seq(S)
           /\ DOMAIN Newest(s, n) \subseteq 1..Len(s)
           /\ \A i \in DOMAIN Newest(s, n) : Newest(s, n)[i] = s[i]
<1> DEFINE m == IF Len(s) < n THEN Len(s) ELSE n
<1>1. Len(s) \in Nat /\ m \in 0..Len(s)
  OBVIOUS
<1> HIDE DEF m
<1>2. /\ SubSeq(s, 1, m) \in Seq(S)
      /\ DOMAIN SubSeq(s, 1, m) = 1..m
      /\ \A i \in 1..m : SubSeq(s, 1, m)[i] = s[i]
  BY <1>1
<1>3. Newest(s, n) = SubSeq(s, 1, m)
  BY DEF Newest, m
<1> QED
  BY <1>1, <1>2, <1>3

\* An update takes the place of the last one of its node, in front.
LEMMA OnePerNode ==
    ASSUME NEW list \in Seq(Updates), NEW u \in Updates,
           \A i, j \in 1..Len(list) : list[i].node = list[j].node => i = j
    PROVE  LET r == useNodeUpdates(list, u) IN
           /\ r \in Seq(Updates)
           /\ \A i, j \in DOMAIN r : r[i].node = r[j].node => i = j
           /\ \A i \in DOMAIN r : \/ r[i] = u
                                  \/ \E k \in 1..Len(list) : r[i] = list[k] /\ list[k].node # u.node
<1> DEFINE others == {v \in Updates : v.node # u.node}
           F == Filter(list, others)
           G == <<u>> \o F
           r == Newest(G, MaxUpdates)
<1>1. F \in Seq(Updates)
  BY FilterType
<1>2. PICK m : Places(list, others, Len(list), F, m)
  BY FilterPlaces
<1>3. /\ m \in [1..Len(F) -> 1..Len(list)]
      /\ \A k \in 1..Len(F) : F[k] = list[m[k]] /\ F[k].node # u.node
      /\ \A k, l \in 1..Len(F) : k < l => m[k] < m[l]
  BY <1>2 DEF Places
<1> HIDE DEF F, others
<1>4. \A k, l \in 1..Len(F) : F[k].node = F[l].node => k = l
  <2> SUFFICES ASSUME NEW k \in 1..Len(F), NEW l \in 1..Len(F), F[k].node = F[l].node PROVE k = l
    OBVIOUS
  <2>1. m[k] \in 1..Len(list) /\ m[l] \in 1..Len(list)
    BY <1>3
  <2>2. list[m[k]].node = list[m[l]].node
    BY <1>3
  <2>3. m[k] = m[l]
    BY <2>1, <2>2
  <2>4. Len(F) \in Nat /\ Len(list) \in Nat
    BY <1>1
  <2>5. ~(k < l) /\ ~(l < k)
    BY ONLY <1>3, <2>1, <2>3, <2>4, k \in 1..Len(F), l \in 1..Len(F)
  <2> QED
    BY ONLY <2>4, <2>5, k \in 1..Len(F), l \in 1..Len(F)
<1>5. /\ G \in Seq(Updates) /\ G[1] = u
      /\ \A i \in 1..Len(G) : i # 1 => i - 1 \in 1..Len(F) /\ G[i] = F[i - 1]
      /\ Len(G) \in Nat
  BY <1>1, InFront
<1> HIDE DEF G
<1>6. \A i, j \in 1..Len(G) : G[i].node = G[j].node => i = j
  <2> SUFFICES ASSUME NEW i \in 1..Len(G), NEW j \in 1..Len(G), G[i].node = G[j].node PROVE i = j
    OBVIOUS
  <2>1. CASE i = 1
    BY <2>1, <1>3, <1>5
  <2>2. CASE j = 1
    BY <2>2, <1>3, <1>5
  <2>3. CASE i # 1 /\ j # 1
    <3>1. /\ i - 1 \in 1..Len(F) /\ j - 1 \in 1..Len(F) /\ F[i - 1].node = F[j - 1].node
          /\ i \in Int /\ j \in Int
      BY <2>3, <1>5
    <3>2. i - 1 = j - 1
      BY <3>1, <1>4
    <3> QED
      BY ONLY <3>1, <3>2
  <2> QED
    BY <2>1, <2>2, <2>3
<1>7. \A i \in 1..Len(G) : G[i] = u \/ \E k \in 1..Len(list) : G[i] = list[k] /\ list[k].node # u.node
  <2> SUFFICES ASSUME NEW i \in 1..Len(G), i # 1
               PROVE  \E k \in 1..Len(list) : G[i] = list[k] /\ list[k].node # u.node
    BY <1>5
  <2>1. i - 1 \in 1..Len(F) /\ G[i] = F[i - 1]
    BY <1>5
  <2>2. m[i - 1] \in 1..Len(list) /\ F[i - 1] = list[m[i - 1]] /\ F[i - 1].node # u.node
    BY <2>1, <1>3
  <2> QED
    BY <2>1, <2>2
<1>8. /\ r \in Seq(Updates) /\ DOMAIN r \subseteq 1..Len(G)
      /\ \A i \in DOMAIN r : r[i] = G[i]
  <2>1. MaxUpdates \in Nat
    BY FeedsConstants
  <2> QED
    BY ONLY <1>5, <2>1, NewestKeeps
<1>9. useNodeUpdates(list, u) = r
  BY DEF useNodeUpdates, G, F, others
<1> HIDE DEF r
<1> QED
  BY <1>6, <1>7, <1>8, <1>9

UpdatesInv ==
    /\ updates = [nodes |-> updates.nodes, jobs |-> updates.jobs, alerts |-> updates.alerts]
    /\ updates.nodes \in Seq(Updates) /\ pushed \in Seq(Updates)
    /\ \A i, j \in DOMAIN updates.nodes : updates.nodes[i].node = updates.nodes[j].node => i = j
    /\ \A i \in DOMAIN updates.nodes : \E k \in DOMAIN pushed :
          /\ pushed[k] = updates.nodes[i]
          /\ \A l \in (k + 1)..Len(pushed) : pushed[l].node # pushed[k].node

\* It holds at first.
LEMMA UpdatesStart == FeedsInit => UpdatesInv
<1> SUFFICES ASSUME FeedsInit PROVE UpdatesInv
  OBVIOUS
<1>1. updates = [nodes |-> << >>, jobs |-> << >>, alerts |-> << >>] /\ pushed = << >>
  BY Zenon DEF FeedsInit
<1>2. updates = [nodes |-> updates.nodes, jobs |-> updates.jobs, alerts |-> updates.alerts]
  BY <1>1
<1>3. updates.nodes = << >>
  BY <1>1
<1>4. << >> \in Seq(Updates) /\ \A i \in DOMAIN << >> : FALSE
  OBVIOUS
<1> QED
  BY Zenon, <1>1, <1>2, <1>3, <1>4 DEF UpdatesInv

\* An update is pushed: the entries it leaves are still the last of their nodes.
LEMMA NodeChangedKeeps ==
    ASSUME UpdatesInv, NEW n \in FeedNodes, NEW s \in {"online", "stale", "offline"}, NodeChanged(n, s)
    PROVE  UpdatesInv'
<1> DEFINE u == [node |-> n, status |-> s]
<1>1. u \in Updates /\ u.node = n
  BY DEF Updates
<1>2. /\ updates' = [nodes |-> useNodeUpdates(updates.nodes, u), jobs |-> useJobUpdates(updates.jobs, u),
                     alerts |-> handleAlert(updates.alerts, u)]
      /\ pushed' = Append(pushed, u)
  BY DEF NodeChanged
<1> HIDE DEF u
<1>3. updates' = [nodes |-> updates'.nodes, jobs |-> updates'.jobs, alerts |-> updates'.alerts]
      /\ updates'.nodes = useNodeUpdates(updates.nodes, u)
  BY <1>2
<1>4. \A i, j \in 1..Len(updates.nodes) : updates.nodes[i].node = updates.nodes[j].node => i = j
  BY DEF UpdatesInv
<1>5. updates.nodes \in Seq(Updates) /\ pushed \in Seq(Updates)
  BY DEF UpdatesInv
<1> DEFINE r == updates'.nodes
<1>6. /\ r \in Seq(Updates)
      /\ \A i, j \in DOMAIN r : r[i].node = r[j].node => i = j
      /\ \A i \in DOMAIN r : \/ r[i] = u
                             \/ \E k \in 1..Len(updates.nodes) :
                                   r[i] = updates.nodes[k] /\ updates.nodes[k].node # u.node
  <2> DEFINE list == updates.nodes
             t == useNodeUpdates(list, u)
  <2>1. list \in Seq(Updates) /\ \A i, j \in 1..Len(list) : list[i].node = list[j].node => i = j
    BY <1>4, <1>5
  <2> HIDE DEF list
  <2>2. /\ t \in Seq(Updates)
        /\ \A i, j \in DOMAIN t : t[i].node = t[j].node => i = j
        /\ \A i \in DOMAIN t : t[i] = u \/ \E k \in 1..Len(list) : t[i] = list[k] /\ list[k].node # u.node
    BY ONLY <1>1, <2>1, OnePerNode
  <2>3. r = t
    BY <1>3 DEF list
  <2> HIDE DEF t, r
  <2> QED
    BY Zenon, <2>2, <2>3 DEF list
<1>7. /\ pushed' \in Seq(Updates) /\ Len(pushed') = Len(pushed) + 1 /\ Len(pushed) \in Nat
      /\ pushed'[Len(pushed) + 1] = u
      /\ \A k \in 1..Len(pushed) : pushed'[k] = pushed[k]
      /\ DOMAIN pushed = 1..Len(pushed) /\ DOMAIN pushed' = 1..(Len(pushed) + 1)
  BY ONLY <1>1, <1>2, <1>5
<1>8. ASSUME NEW i \in DOMAIN r
      PROVE  \E k \in DOMAIN pushed' :
                /\ pushed'[k] = r[i]
                /\ \A l \in (k + 1)..Len(pushed') : pushed'[l].node # pushed'[k].node
  <2>1. CASE r[i] = u
    <3>1. Len(pushed) + 1 \in DOMAIN pushed' /\ (Len(pushed) + 1 + 1)..Len(pushed') = {}
      BY ONLY <1>7
    <3> QED
      BY <2>1, <3>1, <1>7
  <2>2. CASE \E k \in 1..Len(updates.nodes) : r[i] = updates.nodes[k] /\ updates.nodes[k].node # u.node
    <3>1. PICK j \in 1..Len(updates.nodes) : r[i] = updates.nodes[j] /\ updates.nodes[j].node # u.node
      BY <2>2
    <3>2. j \in DOMAIN updates.nodes
      BY <1>5
    <3>3. PICK k \in DOMAIN pushed : /\ pushed[k] = updates.nodes[j]
                                     /\ \A l \in (k + 1)..Len(pushed) : pushed[l].node # pushed[k].node
      BY <3>2 DEF UpdatesInv
    <3>4. k \in DOMAIN pushed' /\ pushed'[k] = r[i] /\ r[i].node # u.node
      BY <3>1, <3>3, <1>7
    <3>5. ASSUME NEW l \in (k + 1)..Len(pushed') PROVE pushed'[l].node # pushed'[k].node
      <4>1. CASE l = Len(pushed) + 1
        BY <4>1, <3>4, <1>7
      <4>2. CASE l # Len(pushed) + 1
        <5>1. l \in (k + 1)..Len(pushed) /\ l \in 1..Len(pushed) /\ k \in 1..Len(pushed)
          BY <4>2, <1>7, <3>3
        <5> QED
          BY <5>1, <1>7, <3>3
      <4> QED
        BY <4>1, <4>2
    <3> QED
      BY <3>4, <3>5
  <2> QED
    BY <1>6, <2>1, <2>2
<1> QED
  BY <1>3, <1>6, <1>7, <1>8 DEF UpdatesInv

\* Every step keeps it.
LEMMA UpdatesKept == UpdatesInv /\ [FeedsNext]_feedsVars => UpdatesInv'
<1> SUFFICES ASSUME UpdatesInv, [FeedsNext]_feedsVars PROVE UpdatesInv'
  OBVIOUS
<1>1. CASE UNCHANGED <<updates, pushed>>
  BY <1>1 DEF UpdatesInv
<1>2. ASSUME NEW n \in FeedNodes, NEW s \in {"online", "stale", "offline"}, NodeChanged(n, s) PROVE UpdatesInv'
  BY <1>2, NodeChangedKeeps
<1>3. ASSUME NEW n \in FeedNodes, dismissAlert(n) PROVE UpdatesInv'
  <2>1. PICK v : updates' = [updates EXCEPT !.alerts = v]
    BY <1>3 DEF dismissAlert
  <2>2. /\ updates' = [nodes |-> updates'.nodes, jobs |-> updates'.jobs, alerts |-> updates'.alerts]
        /\ updates'.nodes = updates.nodes
    BY <2>1 DEF UpdatesInv
  <2>3. pushed' = pushed
    BY <1>3 DEF dismissAlert
  <2> QED
    BY <2>2, <2>3 DEF UpdatesInv
<1>4. FeedsNext =>
        \/ UNCHANGED <<updates, pushed>>
        \/ \E n \in FeedNodes : (\E s \in {"online", "stale", "offline"} : NodeChanged(n, s)) \/ dismissAlert(n)
  BY DEF FeedsNext, LogWritten, useStreamingLogs, handleToggleLevel, ChannelJoined, LogDelivered, fetchJobLogs,
         FetchAnswered, removeToast, addNotification, removeNotification, markAsRead, markAllAsRead, clearAll,
         toggleSidebar, setSidebar, partialize, NotFiltering, OtherThanLogs, OtherThanNotifications, updatesVars
<1> QED
  BY <1>1, <1>2, <1>3, <1>4 DEF feedsVars, updatesVars

-----------------------------------------------------------------------------
(* Feeds: the bell *)

UnreadAt(s) == {i \in DOMAIN s : ~s[i].read}

\* The unread notifications can be counted.
LEMMA UnreadType ==
    ASSUME NEW s \in Seq(Notifications)
    PROVE  /\ IsFiniteSet(UnreadAt(s)) /\ Cardinality(UnreadAt(s)) \in Nat
           /\ Unread(s) = Cardinality(UnreadAt(s)) /\ UnreadAt(s) \subseteq 1..Len(s) /\ Len(s) \in Nat
<1>1. DOMAIN s = 1..Len(s) /\ Len(s) \in Nat
  OBVIOUS
<1>2. IsFiniteSet(1..Len(s)) /\ UnreadAt(s) \subseteq 1..Len(s)
  BY <1>1, FS_Interval DEF UnreadAt
<1>3. IsFiniteSet(UnreadAt(s))
  BY <1>2, FS_Subset
<1> QED
  BY <1>1, <1>2, <1>3, FS_CardinalityType DEF Unread, UnreadAt

\* A notification in front that is not read is one more to read.
LEMMA UnreadInFront ==
    ASSUME NEW s \in Seq(Notifications), NEW x \in Notifications, ~x.read
    PROVE  Unread(<<x>> \o s) = Unread(s) + 1
<1> DEFINE r == <<x>> \o s
           U == UnreadAt(s)
           V == {i \in UnreadAt(r) : i # 1}
           f == [i \in U |-> i + 1]
<1>1. /\ r \in Seq(Notifications) /\ Len(r) = Len(s) + 1 /\ r[1] = x
      /\ \A i \in 1..Len(s) : r[i + 1] = s[i]
      /\ \A i \in 1..Len(r) : i # 1 => i - 1 \in 1..Len(s) /\ r[i] = s[i - 1]
  BY InFront
<1>2. /\ IsFiniteSet(U) /\ U \subseteq 1..Len(s) /\ Len(s) \in Nat
      /\ Unread(s) = Cardinality(U) /\ Unread(r) = Cardinality(UnreadAt(r))
      /\ Cardinality(U) \in Nat
  BY <1>1, UnreadType
<1> HIDE DEF r
<1>3. DOMAIN r = 1..Len(r) /\ DOMAIN s = 1..Len(s)
  BY <1>1
<1>4. \A i : i \in V <=> i \in 1..Len(r) /\ i # 1 /\ ~r[i].read
  BY <1>3 DEF UnreadAt
<1>5. \A i : i \in U <=> i \in 1..Len(s) /\ ~s[i].read
  BY <1>3 DEF UnreadAt
<1>6. UnreadAt(r) = V \cup {1}
  BY <1>1, <1>2, <1>3 DEF UnreadAt
<1> HIDE DEF U, V
<1>7. f \in [U -> V]
  <2>1. ASSUME NEW i \in U PROVE i + 1 \in V
    BY <1>1, <1>2, <1>4, <1>5
  <2> QED
    BY <2>1
<1>8. \A i, j \in U : f[i] = f[j] => i = j
  BY <1>2
<1>9. ASSUME NEW i \in V PROVE \E j \in U : f[j] = i
  <2>1. i \in 1..Len(r) /\ i - 1 \in 1..Len(s) /\ r[i] = s[i - 1] /\ ~r[i].read
    BY <1>1, <1>4
  <2>2. i - 1 \in U /\ (i - 1) + 1 = i
    BY <2>1, <1>5
  <2>3. f[i - 1] = i
    BY <2>2
  <2> QED
    BY <2>2, <2>3
<1> HIDE DEF f
<1>10. IsFiniteSet(V) /\ Cardinality(V) = Cardinality(U)
  BY <1>2, <1>7, <1>8, <1>9, SameSize
<1>11. 1 \notin V
  BY <1>4
<1>12. Cardinality(V \cup {1}) = Cardinality(V) + 1
  BY <1>10, <1>11, FS_AddElement
<1> QED
  BY <1>2, <1>6, <1>10, <1>12 DEF r

\* Without the notification of an id, there is one less to read if it was not read.
LEMMA UnreadWithout ==
    ASSUME NEW s \in Seq(Notifications), NEW id,
           \A i, j \in 1..Len(s) : s[i].id = s[j].id => i = j
    PROVE  LET F == Filter(s, {n \in Notifications : n.id # id}) IN
           /\ F \in Seq(Notifications)
           /\ \A i, j \in 1..Len(F) : F[i].id = F[j].id => i = j
           /\ \A i \in 1..Len(s) : s[i].id = id =>
                 Unread(F) = IF ~s[i].read THEN Unread(s) - 1 ELSE Unread(s)
<1> DEFINE others == {n \in Notifications : n.id # id}
           F == Filter(s, others)
           U == UnreadAt(s)
           V == UnreadAt(F)
           W == {i \in U : s[i].id # id}
<1>1. F \in Seq(Notifications)
  BY FilterType
<1>2. PICK m : Places(s, others, Len(s), F, m)
  BY FilterPlaces
<1>3. /\ m \in [1..Len(F) -> 1..Len(s)]
      /\ \A k \in 1..Len(F) : F[k] = s[m[k]] /\ F[k].id # id
      /\ \A k, l \in 1..Len(F) : k < l => m[k] < m[l]
      /\ \A i \in 1..Len(s) : s[i].id # id => \E k \in 1..Len(F) : m[k] = i
  <2> HIDE DEF F
  <2>1. \A i \in 1..Len(s) : s[i].id # id => s[i] \in others
    OBVIOUS
  <2>2. \A n \in others : n.id # id
    OBVIOUS
  <2> HIDE DEF others
  <2> QED
    BY <1>2, <2>1, <2>2 DEF Places
<1> HIDE DEF F, others
<1>4. \A k, l \in 1..Len(F) : m[k] = m[l] => k = l
  <2> SUFFICES ASSUME NEW k \in 1..Len(F), NEW l \in 1..Len(F), m[k] = m[l] PROVE k = l
    OBVIOUS
  <2>1. m[k] \in 1..Len(s) /\ m[l] \in 1..Len(s) /\ Len(F) \in Nat /\ Len(s) \in Nat
    BY <1>1, <1>3
  <2>2. ~(k < l) /\ ~(l < k)
    BY ONLY <1>3, <2>1, m[k] = m[l], k \in 1..Len(F), l \in 1..Len(F)
  <2> QED
    BY ONLY <2>1, <2>2, k \in 1..Len(F), l \in 1..Len(F)
<1>5. \A k, l \in 1..Len(F) : F[k].id = F[l].id => k = l
  <2> SUFFICES ASSUME NEW k \in 1..Len(F), NEW l \in 1..Len(F), F[k].id = F[l].id PROVE k = l
    OBVIOUS
  <2>1. m[k] \in 1..Len(s) /\ m[l] \in 1..Len(s) /\ s[m[k]].id = s[m[l]].id
    BY <1>3
  <2> QED
    BY <1>4, <2>1
<1>6. /\ IsFiniteSet(U) /\ U \subseteq 1..Len(s) /\ Unread(s) = Cardinality(U) /\ Cardinality(U) \in Nat
      /\ IsFiniteSet(V) /\ V \subseteq 1..Len(F) /\ Unread(F) = Cardinality(V)
  BY <1>1, UnreadType
<1>7. \A i : i \in U <=> i \in 1..Len(s) /\ ~s[i].read
  BY DEF UnreadAt
<1>8. \A i : i \in V <=> i \in 1..Len(F) /\ ~F[i].read
  BY <1>1 DEF UnreadAt
<1> HIDE DEF U, V
<1> DEFINE f == [k \in V |-> m[k]]
<1>9. f \in [V -> W]
  <2>1. ASSUME NEW k \in V PROVE m[k] \in W
    BY <1>3, <1>7, <1>8
  <2> QED
    BY <2>1
<1>10. \A k, l \in V : f[k] = f[l] => k = l
  BY <1>4, <1>8
<1>11. ASSUME NEW i \in W PROVE \E k \in V : f[k] = i
  <2>1. i \in 1..Len(s) /\ ~s[i].read /\ s[i].id # id
    BY <1>7
  <2>2. PICK k \in 1..Len(F) : m[k] = i
    BY <1>3, <2>1
  <2>3. k \in V
    BY <2>1, <2>2, <1>3, <1>8
  <2> QED
    BY <2>2, <2>3
<1> HIDE DEF f
<1>12. Cardinality(W) = Cardinality(V)
  BY <1>6, <1>9, <1>10, <1>11, SameSize
<1>13. ASSUME NEW i \in 1..Len(s), s[i].id = id
       PROVE  Unread(F) = IF ~s[i].read THEN Unread(s) - 1 ELSE Unread(s)
  <2>1. W = U \ {i}
    BY <1>7, <1>13
  <2>2. i \in U <=> ~s[i].read
    BY <1>7
  <2>3. Cardinality(U \ {i}) = IF i \in U THEN Cardinality(U) - 1 ELSE Cardinality(U)
    BY <1>6, FS_RemoveElement
  <2> QED
    BY <1>6, <1>12, <2>1, <2>2, <2>3
<1> QED
  BY <1>1, <1>5, <1>13 DEF F, others

UnreadInv ==
    /\ notifications \in Seq(Notifications)
    /\ \A i, j \in 1..Len(notifications) : notifications[i].id = notifications[j].id => i = j
    /\ unreadCount = Unread(notifications)

\* When all are read, none is left to read.
LEMMA NoneUnread ==
    ASSUME NEW s \in Seq(Notifications), \A i \in 1..Len(s) : s[i].read
    PROVE  Unread(s) = 0
<1>1. UnreadAt(s) = {}
  BY DEF UnreadAt
<1> QED
  BY <1>1, UnreadType, FS_EmptySet

\* It holds at first.
LEMMA UnreadStart == FeedsInit => UnreadInv
<1> SUFFICES ASSUME FeedsInit PROVE UnreadInv
  OBVIOUS
<1>1. notifications = << >> /\ unreadCount = 0
  BY Zenon DEF FeedsInit
<1>2. << >> \in Seq(Notifications) /\ 1..Len(<< >>) = {}
  OBVIOUS
<1>3. Unread(<< >>) = 0
  BY <1>2, NoneUnread
<1> QED
  BY Zenon, <1>1, <1>2, <1>3 DEF UnreadInv

\* Notifications, before and after they are read.
LEMMA NotificationsOf ==
    /\ \A id \in 1..MaxEvents : [id |-> id, read |-> FALSE] \in Notifications
    /\ \A n \in Notifications : ~n.read => n = [id |-> n.id, read |-> FALSE]
    /\ \A n \in Notifications : [n EXCEPT !.read = TRUE] \in Notifications
    /\ \A n \in Notifications : [n EXCEPT !.read = TRUE].read /\ [n EXCEPT !.read = TRUE].id = n.id
<1>1. \A id \in 1..MaxEvents : [id |-> id, read |-> FALSE] \in Notifications
  BY DEF Notifications
<1>2. ASSUME NEW n \in Notifications
      PROVE  /\ ~n.read => n = [id |-> n.id, read |-> FALSE]
             /\ [n EXCEPT !.read = TRUE] = [id |-> n.id, read |-> TRUE]
             /\ n.id \in 1..MaxEvents
  <2>1. n = [id |-> n.id, read |-> n.read] /\ n.id \in 1..MaxEvents
    BY DEF Notifications
  <2>2. n.read = TRUE \/ n.read = FALSE
    BY Zenon DEF Notifications
  <2>3. [n EXCEPT !.read = TRUE] = [id |-> n.id, read |-> TRUE]
    <3> DEFINE yes == TRUE
    <3> HIDE DEF yes
    <3>1. [n EXCEPT !.read = yes] = [id |-> n.id, read |-> yes]
      BY ONLY <2>1
    <3> QED
      BY <3>1 DEF yes
  <2>4. ~n.read => n.read = FALSE
    BY Zenon, <2>2
  <2>5. n.read = FALSE => n = [id |-> n.id, read |-> FALSE]
    BY Zenon, <2>1
  <2> QED
    BY <2>1, <2>3, <2>4, <2>5
<1>3. \A n \in Notifications : LET r == [id |-> n.id, read |-> TRUE] IN
          n.id \in 1..MaxEvents => r \in Notifications /\ r.read /\ r.id = n.id
  BY DEF Notifications
<1> QED
  BY <1>1, <1>2, <1>3

\* A notification is added.
LEMMA AddKeeps ==
    ASSUME UnreadInv, NEW id \in 1..MaxEvents, addNotification(id)
    PROVE  UnreadInv'
<1> DEFINE x == [id |-> id, read |-> FALSE]
<1>1. x \in Notifications /\ x.id = id /\ ~x.read
  BY NotificationsOf
<1>2. notifications' = <<x>> \o notifications /\ unreadCount' = unreadCount + 1
  BY DEF addNotification
<1>3. \A i \in 1..Len(notifications) : notifications[i].id # id
  BY DEF addNotification, NotificationIds, UnreadInv
<1> HIDE DEF x
<1>4. /\ notifications \in Seq(Notifications) /\ unreadCount = Unread(notifications)
      /\ \A i, j \in 1..Len(notifications) : notifications[i].id = notifications[j].id => i = j
  BY DEF UnreadInv
<1> DEFINE s == notifications
           r == <<x>> \o s
<1>5. /\ r \in Seq(Notifications) /\ Len(r) = Len(s) + 1 /\ r[1] = x
      /\ \A i \in 1..Len(r) : i # 1 => i - 1 \in 1..Len(s) /\ r[i] = s[i - 1]
  BY <1>1, <1>4, InFront
<1>6. Unread(r) = Unread(s) + 1
  BY <1>1, <1>4, UnreadInFront
<1>7. \A i, j \in 1..Len(r) : r[i].id = r[j].id => i = j
  <2> HIDE DEF r, s
  <2> SUFFICES ASSUME NEW i \in 1..Len(r), NEW j \in 1..Len(r), r[i].id = r[j].id PROVE i = j
    OBVIOUS
  <2>1. CASE i = 1 \/ j = 1
    BY <2>1, <1>1, <1>3, <1>5 DEF s
  <2>2. CASE i # 1 /\ j # 1
    <3>1. /\ i - 1 \in 1..Len(s) /\ j - 1 \in 1..Len(s) /\ s[i - 1].id = s[j - 1].id
          /\ i \in Int /\ j \in Int
      BY <2>2, <1>5
    <3>2. i - 1 = j - 1
      BY <3>1, <1>4 DEF s
    <3> QED
      BY ONLY <3>1, <3>2
  <2> QED
    BY <2>1, <2>2
<1>8. notifications' = r
  BY <1>2
<1> HIDE DEF r
<1> QED
  BY <1>2, <1>4, <1>5, <1>6, <1>7, <1>8 DEF UnreadInv

\* A notification is removed: the counter goes down if it was not read.
LEMMA RemoveKeeps ==
    ASSUME UnreadInv, NEW id \in 1..MaxEvents, removeNotification(id)
    PROVE  UnreadInv'
<1> DEFINE s == notifications
           F == Filter(s, {n \in Notifications : n.id # id})
<1>1. /\ s \in Seq(Notifications) /\ unreadCount = Unread(s)
      /\ \A i, j \in 1..Len(s) : s[i].id = s[j].id => i = j
  BY DEF UnreadInv
<1>2. /\ F \in Seq(Notifications)
      /\ \A i, j \in 1..Len(F) : F[i].id = F[j].id => i = j
      /\ \A i \in 1..Len(s) : s[i].id = id =>
            Unread(F) = IF ~s[i].read THEN Unread(s) - 1 ELSE Unread(s)
  <2> HIDE DEF s
  <2> QED
    BY ONLY <1>1, UnreadWithout
<1>3. PICK i \in 1..Len(s) : s[i].id = id
  BY <1>1 DEF removeNotification, NotificationIds
<1>4. notifications' = F /\ unreadCount' = IF \E j \in 1..Len(s) : s[j] = [id |-> id, read |-> FALSE]
                                           THEN unreadCount - 1 ELSE unreadCount
  <2>1. DOMAIN s = 1..Len(s)
    BY <1>1
  <2> QED
    BY Zenon, <2>1 DEF removeNotification
<1>5. (\E j \in 1..Len(s) : s[j] = [id |-> id, read |-> FALSE]) <=> ~s[i].read
  <2>1. ASSUME NEW j \in 1..Len(s), s[j] = [id |-> id, read |-> FALSE] PROVE ~s[i].read
    <3>1. s[j].id = id /\ ~s[j].read
      BY <2>1
    <3>2. i = j
      BY <1>1, <1>3, <3>1
    <3> QED
      BY <3>1, <3>2
  <2>2. ASSUME ~s[i].read PROVE s[i] = [id |-> id, read |-> FALSE]
    <3>1. s[i] \in Notifications
      BY <1>1
    <3> QED
      BY <3>1, <2>2, <1>3, NotificationsOf
  <2> QED
    BY <2>1, <2>2
<1> HIDE DEF F
<1> QED
  BY <1>1, <1>2, <1>3, <1>4, <1>5 DEF UnreadInv

\* A notification is read.
LEMMA ReadKeeps ==
    ASSUME UnreadInv, NEW id \in 1..MaxEvents, markAsRead(id)
    PROVE  UnreadInv'
<1> DEFINE s == notifications
<1>1. /\ s \in Seq(Notifications) /\ unreadCount = Unread(s) /\ DOMAIN s = 1..Len(s)
      /\ \A i, j \in 1..Len(s) : s[i].id = s[j].id => i = j
  BY DEF UnreadInv
<1>2. PICK i \in 1..Len(s) : s[i] = [id |-> id, read |-> FALSE] /\ notifications' = [s EXCEPT ![i].read = TRUE]
  BY <1>1 DEF markAsRead
<1>3. unreadCount' = IF unreadCount = 0 THEN 0 ELSE unreadCount - 1
  BY DEF markAsRead
<1> HIDE DEF s
<1> DEFINE x == [s[i] EXCEPT !.read = TRUE]
           r == [s EXCEPT ![i] = x]
<1>4. x \in Notifications /\ x.read /\ x.id = s[i].id /\ ~s[i].read
  <2>1. s[i] \in Notifications
    BY <1>1
  <2> QED
    BY <1>2, <2>1, NotificationsOf
<1>5. notifications' = r
  BY <1>2
<1> HIDE DEF x
<1>6. /\ r \in Seq(Notifications) /\ Len(r) = Len(s) /\ r[i] = x
      /\ \A j \in 1..Len(s) : j # i => r[j] = s[j]
  BY <1>1, <1>4
<1> HIDE DEF r
<1>7. \A j, k \in 1..Len(r) : r[j].id = r[k].id => j = k
  <2>1. \A j \in 1..Len(s) : r[j].id = s[j].id
    BY <1>4, <1>6
  <2> QED
    BY <1>1, <1>6, <2>1
<1>8. UnreadAt(r) = UnreadAt(s) \ {i} /\ i \in UnreadAt(s)
  <2>1. DOMAIN r = 1..Len(s)
    BY <1>6
  <2> QED
    BY <2>1, <1>1, <1>4, <1>6 DEF UnreadAt
<1>9. Unread(r) = Unread(s) - 1 /\ Unread(s) \in Nat /\ Unread(r) \in Nat
  <2>1. Cardinality(UnreadAt(s) \ {i}) = Cardinality(UnreadAt(s)) - 1
    BY <1>1, <1>8, UnreadType, FS_RemoveElement
  <2> QED
    BY <2>1, <1>1, <1>6, <1>8, UnreadType
<1>10. unreadCount' = Unread(r)
  BY <1>1, <1>3, <1>9
<1> QED
  BY <1>5, <1>6, <1>7, <1>10 DEF UnreadInv

\* All notifications are read.
LEMMA AllReadKeeps ==
    ASSUME UnreadInv, markAllAsRead
    PROVE  UnreadInv'
<1> DEFINE s == notifications
           r == [i \in DOMAIN s |-> [s[i] EXCEPT !.read = TRUE]]
<1>1. /\ s \in Seq(Notifications) /\ DOMAIN s = 1..Len(s) /\ Len(s) \in Nat
      /\ \A i, j \in 1..Len(s) : s[i].id = s[j].id => i = j
  BY DEF UnreadInv
<1>2. notifications' = r /\ unreadCount' = 0
  BY DEF markAllAsRead
<1>3. \A i \in 1..Len(s) : r[i] \in Notifications /\ r[i].read /\ r[i].id = s[i].id
  <2> SUFFICES ASSUME NEW i \in 1..Len(s)
               PROVE  r[i] \in Notifications /\ r[i].read /\ r[i].id = s[i].id
    OBVIOUS
  <2>1. s[i] \in Notifications /\ i \in DOMAIN s
    BY <1>1
  <2>2. r[i] = [s[i] EXCEPT !.read = TRUE]
    BY <2>1
  <2> HIDE DEF r
  <2> QED
    BY Zenon, <2>1, <2>2, NotificationsOf
<1>4. r \in Seq(Notifications) /\ Len(r) = Len(s)
  BY <1>1, <1>3
<1> HIDE DEF r
<1>5. \A i, j \in 1..Len(r) : r[i].id = r[j].id => i = j
  BY <1>1, <1>3, <1>4
<1>6. Unread(r) = 0
  BY <1>3, <1>4, NoneUnread
<1> QED
  BY <1>2, <1>4, <1>5, <1>6 DEF UnreadInv

\* Every step keeps it.
LEMMA UnreadKept == UnreadInv /\ [FeedsNext]_feedsVars => UnreadInv'
<1> SUFFICES ASSUME UnreadInv, [FeedsNext]_feedsVars PROVE UnreadInv'
  OBVIOUS
<1>1. CASE UNCHANGED notificationsVars
  BY <1>1 DEF UnreadInv, notificationsVars
<1>2. ASSUME NEW id \in 1..MaxEvents, addNotification(id) \/ removeNotification(id) \/ markAsRead(id)
      PROVE  UnreadInv'
  BY <1>2, AddKeeps, RemoveKeeps, ReadKeeps
<1>3. CASE markAllAsRead
  BY <1>3, AllReadKeeps
<1>4. CASE clearAll
  <2>1. notifications' = << >> /\ unreadCount' = 0
    BY Zenon, <1>4 DEF clearAll
  <2>2. << >> \in Seq(Notifications) /\ 1..Len(<< >>) = {}
    OBVIOUS
  <2>3. Unread(<< >>) = 0
    BY <2>2, NoneUnread
  <2> QED
    BY Zenon, <2>1, <2>2, <2>3 DEF UnreadInv
<1>5. FeedsNext =>
        \/ UNCHANGED notificationsVars
        \/ \E id \in 1..MaxEvents : addNotification(id) \/ removeNotification(id) \/ markAsRead(id)
        \/ markAllAsRead \/ clearAll
  BY DEF FeedsNext, LogWritten, useStreamingLogs, handleToggleLevel, ChannelJoined, LogDelivered, fetchJobLogs,
         FetchAnswered, NodeChanged, dismissAlert, removeToast, toggleSidebar, setSidebar, partialize,
         NotFiltering, OtherThanLogs, OtherThanUpdates
<1> QED
  BY <1>1, <1>2, <1>3, <1>4, <1>5 DEF feedsVars

\* FeedsAreExact, for any number of lines, queries, updates and notifications.
THEOREM FeedsAreAlwaysExact == FeedsSpec => []FeedsAreExact
<1>1. LogsInv /\ UpdatesInv /\ UnreadInv => FeedsAreExact
  <2> SUFFICES ASSUME LogsInv, UpdatesInv, UnreadInv PROVE FeedsAreExact
    OBVIOUS
  <2>1. \A k \in 1..MaxLogs : Cardinality({i \in DOMAIN logs : logs[i] = k}) <= 2
    BY FeedsConstants DEF LogsInv, Times
  <2>2. unreadCount = Unread(notifications)
    BY DEF UnreadInv
  <2> QED
    BY <2>1, <2>2 DEF FeedsAreExact, UpdatesInv
<1>2. FeedsInit => LogsInv /\ UpdatesInv /\ UnreadInv
  BY LogsStart, UpdatesStart, UnreadStart
<1>3. LogsInv /\ UpdatesInv /\ UnreadInv /\ [FeedsNext]_feedsVars => (LogsInv /\ UpdatesInv /\ UnreadInv)'
  BY LogsKept, UpdatesKept, UnreadKept
<1> QED
  BY <1>1, <1>2, <1>3, PTL DEF FeedsSpec

-----------------------------------------------------------------------------
(* The session *)

One(holds) == IF holds THEN 1 ELSE 0

\* The pages the program may still open by itself, if nobody does anything:
\* from the login page, from the dashboard of a visitor, from another page, and
\* from the one an OAuth provider has come back to or may yet come back to.
DueAtDoor == One(SignedIn(known) \/ SignedIn(session))
DueInside == IF known = "none" THEN 2 + One(SignedIn(session)) ELSE 0
DueCalled ==
    IF SignedIn(session)
    THEN IF known = "none" THEN 4 ELSE 1
    ELSE IF callback.at = "asking" THEN 3 ELSE 2
DueHere ==
    IF place \in {"login", "signup"} THEN DueAtDoor
    ELSE IF place = "dashboard" THEN DueInside
    ELSE IF callback.at \in {"reading", "asking"} THEN DueCalled
    ELSE One(known = "none" /\ SignedIn(session))
Due == DueHere + (2 * One(oauth = "asked"))

\* The layout on the screen is the one for what the provider holds, and every
\* page still due is paid for by a change of the session or a choice of the user.
RedirectsInv ==
    /\ session \in Users \cup {"none"} /\ known \in Users \cup {"none", "loading"}
    /\ place = "dashboard" => hooks = HooksFor(known)
    /\ callback.at \in {"idle", "reading", "asking"}
    /\ callback.at # "idle" => place = "callback"
    /\ changes \in Nat /\ opens \in Nat /\ pushes \in Nat
    /\ pushes + Due <= 2 * (changes + opens)

\* The onboarding page is a record, and shows a key that has been stored.
OnboardingInv ==
    /\ onb = [app |-> onb.app, step |-> onb.step, role |-> onb.role, busy |-> onb.busy, shown |-> onb.shown,
              walletLinked |-> onb.walletLinked, nodeRegistered |-> onb.nodeRegistered,
              fields |-> onb.fields, left |-> onb.left]
    /\ KeysShownAreStored

\* A nonce that can still be used has not linked, and one that was accepted, and
\* is about to link, cannot be used any more: nonces are those of earlier tries.
LinkInv ==
    /\ tries \in Nat
    /\ link = [at |-> link.at, by |-> link.by, nonce |-> link.nonce, signer |-> link.signer,
               sentFor |-> link.sentFor, signature |-> link.signature]
    /\ link.nonce \in 0..tries
    /\ \A n \in nonceStore : n = [nonce |-> n.nonce, expired |-> n.expired] /\ n.nonce \in 0..tries
    /\ \A l \in links : l.nonce \in 0..tries
    /\ link.at = "challenge" => \A l \in links : l.nonce # tries
    /\ \A n \in nonceStore, l \in links : n.nonce # l.nonce
    /\ link.at = "write" =>
          /\ link.signer = link.sentFor
          /\ \A n \in nonceStore : n.nonce # link.nonce
          /\ \A l \in links : l.nonce # link.nonce
    /\ LinksAreProven

\* All three hold at first.
LEMMA SessionStart == SessionInit => RedirectsInv /\ OnboardingInv /\ LinkInv
<1> SUFFICES ASSUME SessionInit PROVE RedirectsInv /\ OnboardingInv /\ LinkInv
  OBVIOUS
<1>1. OnboardingInv
  BY DEF SessionInit, OnboardingInv, KeysShownAreStored
<1>2. Due = 0
  <2>1. known = "loading" /\ session = "none" /\ place = "login" /\ oauth = "idle"
    BY DEF SessionInit
  <2>2. ~SignedIn(session) /\ ~SignedIn(known)
    BY <2>1, SessionConstants DEF SignedIn
  <2> QED
    BY <2>1, <2>2 DEF Due, DueHere, DueAtDoor, One
<1>3. RedirectsInv
  BY <1>2, SessionConstants DEF SessionInit, RedirectsInv, NoCallback
<1>4. LinkInv
  BY DEF SessionInit, LinkInv, NoLink, LinksAreProven
<1> QED
  BY <1>1, <1>3, <1>4

\* The onboarding pages show a key that has been stored.
LEMMA OnboardingKeeps ==
    ASSUME OnboardingInv,
           \/ onNext \/ CompleteAnswered \/ handleGenerateKey \/ handleLinkWallet \/ handleRegisterNode
           \/ \E role \in {"client", "provider"} : RoleCard(role)
           \/ EnterFields \/ KeyAnswered \/ LinkAnswered \/ NodeAnswered
    PROVE  OnboardingInv'
<1> USE DEF OnboardingInv, KeysShownAreStored, OtherThanOnboarding
<1>1. CASE onNext
  BY <1>1 DEF onNext
<1>2. CASE CompleteAnswered
  BY <1>2 DEF CompleteAnswered
<1>3. CASE handleGenerateKey \/ handleLinkWallet \/ handleRegisterNode
  BY <1>3 DEF handleGenerateKey, handleLinkWallet, handleRegisterNode, Start
<1>4. CASE \E role \in {"client", "provider"} : RoleCard(role)
  BY <1>4 DEF RoleCard
<1>5. CASE EnterFields
  BY <1>5 DEF EnterFields
<1>6. CASE KeyAnswered
  BY <1>6 DEF KeyAnswered
<1>7. CASE LinkAnswered
  BY <1>7 DEF LinkAnswered
<1>8. CASE NodeAnswered
  BY <1>8 DEF NodeAnswered
<1> QED
  BY <1>1, <1>2, <1>3, <1>4, <1>5, <1>6, <1>7, <1>8

\* A link that is over leaves what it has done.
LEMMA LinkOverKeeps ==
    ASSUME LinkInv, link.at = "write", NEW ok, Answered(ok), nonceStore' = nonceStore,
           NEW new, new.nonce = link.nonce, new.signer = new.address, ~new.again,
           links' = links \/ links' = links \cup {new}
    PROVE  LinkInv'
<1>1. /\ tries' = tries \/ tries' = tries + 1
      /\ \/ link' = NoLink
         \/ link' = [link EXCEPT !.at = "verify"]
  BY Zenon DEF Answered
<1>2. /\ link' = [at |-> link'.at, by |-> link'.by, nonce |-> link'.nonce, signer |-> link'.signer,
                  sentFor |-> link'.sentFor, signature |-> link'.signature]
      /\ link'.at \in {"idle", "verify"} /\ link'.nonce \in {0, link.nonce}
  BY <1>1 DEF LinkInv, NoLink
<1> QED
  BY <1>1, <1>2 DEF LinkInv, LinksAreProven

\* A wallet is linked by a nonce that was there until its signature was
\* accepted, and by the account that signed.
LEMMA LinkKeeps ==
    ASSUME LinkInv,
           \/ \E a \in Accounts \cup {"none"} : WalletAccount(a)
           \/ \E a \in Accounts : ApiClient(a)
           \/ signAndLink \/ GenerateChallenge \/ signMessage \/ VerifyAndLink \/ LinkWalletToProfile
           \/ \E n \in nonceStore : NonceExpires(n)
    PROVE  LinkInv'
<1> USE DEF LinkInv, LinksAreProven
<1>1. CASE \E a \in Accounts \cup {"none"} : WalletAccount(a)
  BY <1>1 DEF WalletAccount
<1>2. ASSUME NEW by, NEW a, StartLink(by, a) PROVE LinkInv'
  <2>1. /\ tries' = tries + 1 /\ UNCHANGED <<nonceStore, links>>
        /\ link' = [at |-> "challenge", by |-> by, nonce |-> 0, signer |-> "none", sentFor |-> a,
                    signature |-> Unsigned]
    BY <1>2 DEF StartLink, NoLink
  <2> QED
    BY <2>1
<1>3. CASE signAndLink \/ \E a \in Accounts : ApiClient(a)
  BY <1>2, <1>3 DEF signAndLink, ApiClient
<1>4. CASE GenerateChallenge
  <2>1. /\ link.at = "challenge" /\ UNCHANGED <<links, tries>>
        /\ nonceStore' = nonceStore \cup {[nonce |-> tries, expired |-> FALSE]}
    BY <1>4 DEF GenerateChallenge
  <2>2. /\ link' = [at |-> link'.at, by |-> link'.by, nonce |-> link'.nonce, signer |-> link'.signer,
                    sentFor |-> link'.sentFor, signature |-> link'.signature]
        /\ link'.at \in {"idle", "sign"} /\ link'.nonce \in {0, tries}
    <3>1. link' = NoLink \/ link' = [link EXCEPT !.at = "sign", !.nonce = tries]
      BY Zenon, <1>4 DEF GenerateChallenge, LinkFailed
    <3>2. \/ link' = NoLink
          \/ link' = [at |-> "sign", by |-> link.by, nonce |-> tries, signer |-> link.signer,
                      sentFor |-> link.sentFor, signature |-> link.signature]
      BY <3>1
    <3> QED
      BY ONLY <3>2 DEF NoLink
  <2> QED
    BY <2>1, <2>2
<1>5. CASE signMessage
  <2>1. UNCHANGED <<nonceStore, links, tries>>
    BY <1>5 DEF signMessage
  <2>2. /\ link' = [at |-> link'.at, by |-> link'.by, nonce |-> link'.nonce, signer |-> link'.signer,
                    sentFor |-> link'.sentFor, signature |-> link'.signature]
        /\ link'.at \in {"idle", "verify"} /\ link'.nonce \in {0, link.nonce}
    <3>1. \/ link' = NoLink
          \/ link' = [link EXCEPT !.at = "verify", !.signer = wallet.address]
          \/ \E a \in Accounts, signature \in [hex : {"0x", "bare"}, v : {"low", "high"}] :
                link' = [link EXCEPT !.at = "verify", !.signer = a, !.signature = signature]
      BY Zenon, <1>5 DEF signMessage, LinkFailed
    <3>2. \/ link' = NoLink
          \/ \E a, signature : link' = [at |-> "verify", by |-> link.by, nonce |-> link.nonce, signer |-> a,
                                        sentFor |-> link.sentFor, signature |-> signature]
      BY <3>1
    <3> QED
      BY <3>2 DEF NoLink
  <2> QED
    BY <2>1, <2>2
<1>6. CASE VerifyAndLink
  <2>1. nonceStore' = (IF NonceSpent THEN nonceStore \ NonceHeld ELSE nonceStore) /\ UNCHANGED links
    BY <1>6 DEF VerifyAndLink
  <2>2. CASE Verified
    <3>1. /\ UNCHANGED tries
          /\ link' = [at |-> "write", by |-> link.by, nonce |-> link.nonce, signer |-> link.signer,
                      sentFor |-> link.sentFor, signature |-> link.signature]
      BY <1>6, <2>2 DEF VerifyAndLink
    <3>2. nonceStore' = nonceStore \ NonceHeld
      BY <2>1, <2>2 DEF NonceSpent
    <3>3. \A n \in nonceStore' : n \in nonceStore /\ n.nonce # link.nonce
      BY <3>2 DEF NonceHeld
    <3>4. PICK n \in nonceStore : n.nonce = link.nonce
      BY <2>2 DEF Verified, NonceLive, NonceHeld
    <3>5. \A l \in links : l.nonce # link.nonce
      BY <3>4
    <3>6. link.signer = link.sentFor
      BY <2>2 DEF Verified
    <3> QED
      BY <2>1, <3>1, <3>3, <3>5, <3>6
  <2>3. CASE ~Verified
    <3>1. Answered(FALSE)
      BY <1>6, <2>3 DEF VerifyAndLink
    <3>2. nonceStore' \subseteq nonceStore
      BY <2>1
    <3>3. /\ tries' \in {tries, tries + 1}
          /\ \/ link' = NoLink
             \/ link' = [link EXCEPT !.at = "verify"]
      BY <3>1 DEF Answered
    <3>4. /\ link' = [at |-> link'.at, by |-> link'.by, nonce |-> link'.nonce, signer |-> link'.signer,
                      sentFor |-> link'.sentFor, signature |-> link'.signature]
          /\ link'.at \in {"idle", "verify"} /\ link'.nonce \in {0, link.nonce}
      BY <3>3 DEF NoLink
    <3> QED
      BY <2>1, <3>2, <3>3, <3>4
  <2> QED
    BY <2>2, <2>3
<1>7. CASE LinkWalletToProfile
  <2> DEFINE new == [nonce |-> link.nonce, address |-> link.sentFor, signer |-> link.signer,
                     again |-> \E l \in links : l.nonce = link.nonce]
  <2>1. PICK put \in BOOLEAN, ok \in BOOLEAN :
           links' = (IF put THEN links \cup {new} ELSE links) /\ Answered(ok)
    BY <1>7 DEF LinkWalletToProfile
  <2>2. link.at = "write" /\ UNCHANGED <<nonceStore>>
    BY <1>7 DEF LinkWalletToProfile
  <2>3. new.nonce = link.nonce /\ new.signer = new.address /\ ~new.again
    BY <2>2
  <2> HIDE DEF new
  <2>4. links' = links \/ links' = links \cup {new}
    BY <2>1
  <2> QED
    BY ONLY Zenon, LinkInv, <2>1, <2>2, <2>3, <2>4, LinkOverKeeps
<1>8. CASE \E n \in nonceStore : NonceExpires(n)
  <2>1. PICK n \in nonceStore : NonceExpires(n)
    BY <1>8
  <2>2. /\ nonceStore' = (nonceStore \ {n}) \cup {[nonce |-> n.nonce, expired |-> TRUE]}
        /\ UNCHANGED <<link, links, tries>>
    BY <2>1 DEF NonceExpires
  <2> QED
    BY <2>2
<1> QED
  BY <1>1, <1>3, <1>4, <1>5, <1>6, <1>7, <1>8

\* Steps of the pages that redirect.
LEMMA RedirectsKeep ==
    ASSUME RedirectsInv,
           \/ SupabaseAuthProvider \/ handleLogout \/ logout \/ RedirectIfAuthenticated \/ RedirectToLogin
           \/ \E u \in Users : LoginForm(u) \/ SignupPage(u)
           \/ \E u \in Users \cup {"none"} : AnotherTab(u) \/ OAuthAnswered(u)
           \/ \E p \in {"login", "signup", "dashboard"} : OpenPage(p)
           \/ handleOAuthSignIn \/ AuthCallbackPage \/ OnboardingStatus
    PROVE  RedirectsInv'
<1> USE SessionConstants DEF RedirectsInv, HooksFor, Goto, NoCallback
<1> USE DEF Due, DueHere, DueAtDoor, DueInside, DueCalled, One, SignedIn
<1>1. CASE SupabaseAuthProvider
  BY <1>1 DEF SupabaseAuthProvider, LayoutRendered, DashboardLayout
<1>2. CASE handleLogout
  BY <1>2 DEF handleLogout, SessionChanges
<1>3. CASE logout
  BY <1>3 DEF logout, SessionChanges
<1>4. CASE RedirectIfAuthenticated
  BY <1>4 DEF RedirectIfAuthenticated
<1>5. CASE RedirectToLogin
  <2>1. /\ known = "none" /\ place = "dashboard" /\ place' = "login" /\ hooks' = "unmounted"
        /\ pushes' = pushes + 1 \/ pushes' = pushes + 2
        /\ UNCHANGED <<session, known, callback, oauth, changes, opens>>
    BY <1>5 DEF RedirectToLogin
  <2>2. Due' = One(SignedIn(session)) + (2 * One(oauth = "asked"))
    BY <2>1
  <2>3. Due = 2 + One(SignedIn(session)) + (2 * One(oauth = "asked"))
    BY <2>1
  <2>4. pushes' \in Nat /\ pushes' + Due' <= 2 * (changes' + opens')
    BY <2>1, <2>2, <2>3
  <2> QED
    BY <2>1, <2>4 DEF RedirectToLogin
<1>6. CASE \E u \in Users : LoginForm(u) \/ SignupPage(u)
  BY <1>6 DEF LoginForm, SignupPage, login, SessionChanges
<1>7. CASE \E u \in Users \cup {"none"} : AnotherTab(u)
  BY <1>7 DEF AnotherTab, SessionChanges
<1>8. CASE \E u \in Users \cup {"none"} : OAuthAnswered(u)
  BY <1>8 DEF OAuthAnswered, SessionChanges
<1>9. CASE \E p \in {"login", "signup", "dashboard"} : OpenPage(p)
  BY <1>9 DEF OpenPage
<1>10. CASE handleOAuthSignIn
  BY <1>10 DEF handleOAuthSignIn
<1>11. CASE AuthCallbackPage
  BY <1>11 DEF AuthCallbackPage
<1>12. CASE OnboardingStatus
  BY <1>12 DEF OnboardingStatus
<1> QED
  BY <1>1, <1>2, <1>3, <1>4, <1>5, <1>6, <1>7, <1>8, <1>9, <1>10, <1>11, <1>12

\* Every step keeps the three invariants.
LEMMA SessionKept ==
    ASSUME RedirectsInv, OnboardingInv, LinkInv, [SessionNext]_sessionVars
    PROVE  (RedirectsInv /\ OnboardingInv /\ LinkInv)'
<1>1. ASSUME UNCHANGED signinVars
      PROVE  RedirectsInv'
  BY <1>1 DEF RedirectsInv, Due, DueHere, DueAtDoor, DueInside, DueCalled, One, SignedIn, HooksFor, signinVars
<1>2. ASSUME UNCHANGED onboardingVars
      PROVE  OnboardingInv'
  BY <1>2 DEF OnboardingInv, KeysShownAreStored, onboardingVars
<1>3. ASSUME UNCHANGED linkVars, tries' \in {tries, tries + 1}
       PROVE  LinkInv'
  BY <1>3 DEF LinkInv, LinksAreProven, linkVars
<1>4. CASE \/ SupabaseAuthProvider \/ handleLogout \/ logout \/ RedirectIfAuthenticated \/ RedirectToLogin
           \/ \E u \in Users : LoginForm(u) \/ SignupPage(u)
           \/ \E u \in Users \cup {"none"} : AnotherTab(u) \/ OAuthAnswered(u)
           \/ \E p \in {"login", "signup", "dashboard"} : OpenPage(p)
           \/ handleOAuthSignIn \/ AuthCallbackPage \/ OnboardingStatus
  <2>1. OtherThanSignin
    BY <1>4 DEF SupabaseAuthProvider, handleLogout, logout, RedirectIfAuthenticated, RedirectToLogin, LoginForm,
                SignupPage, login, AnotherTab, OAuthAnswered, OpenPage, handleOAuthSignIn, AuthCallbackPage,
                OnboardingStatus
  <2> QED
    BY <1>2, <1>3, <1>4, <2>1, RedirectsKeep DEF OtherThanSignin
<1>5. CASE \/ onNext \/ CompleteAnswered \/ handleGenerateKey \/ handleLinkWallet \/ handleRegisterNode
           \/ \E role \in {"client", "provider"} : RoleCard(role)
           \/ EnterFields \/ KeyAnswered \/ LinkAnswered \/ NodeAnswered
  <2>1. OtherThanOnboarding
    BY <1>5 DEF onNext, CompleteAnswered, handleGenerateKey, handleLinkWallet, handleRegisterNode, Start,
                RoleCard, EnterFields, KeyAnswered, LinkAnswered, NodeAnswered
  <2>2. tries' \in {tries, tries + 1}
    BY <1>5 DEF onNext, CompleteAnswered, handleGenerateKey, handleLinkWallet, handleRegisterNode, Start,
                RoleCard, EnterFields, KeyAnswered, LinkAnswered, NodeAnswered
  <2> QED
    BY <1>1, <1>3, <1>5, <2>1, <2>2, OnboardingKeeps DEF OtherThanOnboarding
<1>6. CASE \/ \E a \in Accounts \cup {"none"} : WalletAccount(a)
           \/ \E a \in Accounts : ApiClient(a)
           \/ signAndLink \/ GenerateChallenge \/ signMessage \/ VerifyAndLink \/ LinkWalletToProfile
           \/ \E n \in nonceStore : NonceExpires(n)
  <2>1. OtherThanLink
    BY <1>6 DEF WalletAccount, ApiClient, signAndLink, StartLink, GenerateChallenge, signMessage, VerifyAndLink,
                LinkWalletToProfile, NonceExpires
  <2> QED
    BY <1>1, <1>2, <1>6, <2>1, LinkKeeps DEF OtherThanLink
<1>7. CASE UNCHANGED sessionVars
  BY <1>1, <1>2, <1>3, <1>7 DEF sessionVars
<1> QED
  BY <1>4, <1>5, <1>6, <1>7 DEF SessionNext

\* Redirections come to an end, whoever signs in or out and in whichever tab,
\* the onboarding pages show what has been stored, and the wallets of profiles
\* were proven.
THEOREM SessionAlwaysSettles == SessionSpec => []SessionSettles
<1>1. RedirectsInv /\ OnboardingInv /\ LinkInv => SessionSettles
  <2>1. Due \in Nat
    BY DEF Due, DueHere, DueAtDoor, DueInside, DueCalled, One
  <2> QED
    BY <2>1 DEF RedirectsInv, OnboardingInv, LinkInv, SessionSettles, RedirectsSettle
<1> QED
  BY <1>1, SessionStart, SessionKept, PTL DEF SessionSpec

-----------------------------------------------------------------------------
(* Popups and dialogs *)

PopupsInv ==
    /\ dialogStack \in Seq(Dialogs)
    /\ PopupsLeaveNothing

\* A count of one condition is 0 or 1.
LEMMA Counts == \A b : Count(b) \in {0, 1}
BY DEF Count

\* An effect takes away the listeners of the last render and adds its own.
LEMMA ListenersFollow ==
    ASSUME NEW open, NEW was
    PROVE  ListenersAfter(open, was, Count(was)) = Count(open)
BY DEF ListenersAfter, Count

\* The listeners of menus and selects follow their state.
LEMMA PopupsFollow ==
    ASSUME PopupsInv, NEW open, SetPopups(open)
    PROVE  \A p \in Popups : listening'[p] = Count(popupOpen'[p])
BY ListenersFollow DEF PopupsInv, PopupsLeaveNothing, SetPopups

\* The listeners of dialogs, and the scroll lock, follow the stack.
LEMMA DialogsFollow ==
    ASSUME PopupsInv, NEW stack \in Seq(Dialogs), DialogOverlay(stack)
    PROVE  /\ dialogStack' \in Seq(Dialogs)
           /\ \A d \in Dialogs : escapes'[d] = Count(Contains(dialogStack', d))
           /\ dialogStack' = << >> => overflow' = ""
<1>1. dialogStack' = stack
  BY DEF DialogOverlay
<1>2. \A d \in Dialogs : escapes'[d] = Count(Contains(stack, d))
  BY ListenersFollow DEF DialogOverlay, PopupsInv, PopupsLeaveNothing
<1>3. stack = << >> => overflow' = ""
  <2> SUFFICES ASSUME stack = << >> PROVE overflow' = ""
    OBVIOUS
  <2>1. ~(Len(stack) > Len(dialogStack))
    BY DEF PopupsInv
  <2>2. overflow' = IF stack = dialogStack THEN overflow ELSE ""
    BY <2>1 DEF DialogOverlay
  <2>3. dialogStack = << >> => overflow = ""
    BY DEF PopupsInv, PopupsLeaveNothing
  <2> QED
    BY Zenon, <2>2, <2>3
<1> QED
  BY <1>1, <1>2, <1>3

\* Stacks stay stacks of dialogs.
LEMMA StacksOfDialogs ==
    ASSUME NEW s \in Seq(Dialogs), NEW d \in Dialogs, NEW S
    PROVE  Filter(s, S) \in Seq(Dialogs) /\ Append(s, d) \in Seq(Dialogs)
BY FilterType

\* Every step keeps it.
LEMMA PopupsKept == PopupsInv /\ [WidgetsNext]_widgetsVars => PopupsInv'
<1> SUFFICES ASSUME PopupsInv, [WidgetsNext]_widgetsVars PROVE PopupsInv'
  OBVIOUS
<1>1. CASE UNCHANGED popupVars
  BY <1>1 DEF popupVars, PopupsInv, PopupsLeaveNothing
<1>2. ASSUME NEW open, SetPopups(open), NoDialogChange PROVE PopupsInv'
  <2>1. UNCHANGED <<dialogStack, escapes, overflow>>
    BY <1>2 DEF NoDialogChange
  <2>2. \A p \in Popups : listening'[p] = Count(popupOpen'[p])
    BY <1>2, PopupsFollow
  <2> QED
    BY <2>1, <2>2 DEF PopupsInv, PopupsLeaveNothing
<1>3. ASSUME NEW open, SetPopups(open), NEW stack \in Seq(Dialogs), DialogOverlay(stack) PROVE PopupsInv'
  BY <1>3, PopupsFollow, DialogsFollow DEF PopupsInv, PopupsLeaveNothing
<1>4. ASSUME NEW p \in Popups, ClickTrigger(p) PROVE PopupsInv'
  BY <1>4, <1>2 DEF ClickTrigger
<1>5. ASSUME NEW option \in Options, handleValueChange(option) PROVE PopupsInv'
  BY <1>5, <1>2 DEF handleValueChange
<1>6. CASE handleClickOutside
  <2>1. (IF dialogStack = << >> THEN << >> ELSE Front(dialogStack)) \in Seq(Dialogs)
    BY DEF PopupsInv, Front
  <2> QED
    BY <1>6, <1>3, <2>1 DEF handleClickOutside
<1>7. CASE handleEscape
  <2>1. Filter(dialogStack, {d \in Dialogs : escapes[d] = 0}) \in Seq(Dialogs)
    BY FilterType DEF PopupsInv
  <2> QED
    BY <1>7, <1>3, <2>1 DEF handleEscape
<1>8. ASSUME NEW d \in Dialogs, Dialog(d) PROVE PopupsInv'
  <2> DEFINE stack == IF Contains(dialogStack, d) THEN Filter(dialogStack, Dialogs \ {d})
                      ELSE Append(dialogStack, d)
  <2>1. stack \in Seq(Dialogs)
    BY StacksOfDialogs DEF PopupsInv
  <2>2. SetPopups([q \in Popups |-> FALSE]) /\ DialogOverlay(stack)
    BY <1>8 DEF Dialog
  <2> HIDE DEF stack
  <2> QED
    BY <1>3, <2>1, <2>2
<1>9. WidgetsNext =>
        \/ UNCHANGED popupVars
        \/ \E p \in Popups : ClickTrigger(p)
        \/ \E option \in Options : handleValueChange(option)
        \/ handleClickOutside \/ handleEscape
        \/ \E d \in Dialogs : Dialog(d)
  BY DEF WidgetsNext, showTooltip, hideTooltip, TooltipDelayEnds, TabsTrigger, ToggleDrawer, toggleExpanded,
         FollowLink, FollowLogo, OnTooltip, OnTabs, OnDrawer
<1>10. UNCHANGED widgetsVars => UNCHANGED popupVars
  BY DEF widgetsVars
<1> QED
  BY <1>1, <1>4, <1>5, <1>6, <1>7, <1>8, <1>9, <1>10

\* PopupsLeaveNothing, for any set of dialogs.
THEOREM PopupsAlwaysLeaveNothing == WidgetsSpec => []PopupsLeaveNothing
<1>1. WidgetsInit => PopupsInv
  <2> SUFFICES ASSUME WidgetsInit PROVE PopupsInv
    OBVIOUS
  <2>1. dialogStack = << >> /\ overflow = ""
    BY Zenon DEF WidgetsInit
  <2>2. << >> \in Seq(Dialogs) /\ \A d \in Dialogs : ~Contains(<< >>, d)
    BY DEF Contains
  <2>3. \A p \in Popups : listening[p] = Count(popupOpen[p])
    BY DEF WidgetsInit, Count
  <2>4. \A d \in Dialogs : escapes[d] = Count(Contains(dialogStack, d))
    BY <2>1, <2>2 DEF WidgetsInit, Count
  <2> QED
    BY Zenon, <2>1, <2>2, <2>3, <2>4 DEF PopupsInv, PopupsLeaveNothing
<1>2. PopupsInv => PopupsLeaveNothing
  BY DEF PopupsInv
<1> QED
  BY <1>1, <1>2, PopupsKept, PTL DEF WidgetsSpec

-----------------------------------------------------------------------------
(* The list of nodes and the timeline of one *)

Listed == [id : NodeIds, status : RowStatus, reputation : Nat, tier : {"gold", "silver", "bronze"}]

\* The answer lists nodes, each once.
NodeListInv ==
    /\ nodeRows \in [NodeIds -> [status : RowStatus, score : Scores]]
    /\ nodeList \in Seq(Listed)
    /\ \A i, j \in 1..Len(nodeList) : nodeList[i].id = nodeList[j].id => i = j

\* An update of node 1 that is still in the list is the last one pushed for it.
TimelineInv ==
    /\ nodeUpdates \in Seq([node : NodeIds, status : RowStatus])
    /\ \A i \in 1..Len(nodeUpdates) : nodeUpdates[i].node = 1 => nodeUpdates[i].status = latest
    /\ heartbeatSlots \in Seq({"generated", "ok", "vramm_warn", "missed"})
    /\ TimelineEndsWithLatest

\* A row is listed as one of its tier.
LEMMA RowsAreListed ==
    ASSUME NEW n \in NodeIds, NEW row \in [status : RowStatus, score : Scores]
    PROVE  mapNode(n, row) \in Listed /\ mapNode(n, row).id = n
BY DEF mapNode, Listed, getReputationTier, RowStatus, Scores

\* An answer lists every row once, whatever the order of equal scores.
LEMMA AnswersListOnce ==
    ASSUME NodePagesConstants, NEW given \in [NodeIds -> [status : RowStatus, score : Scores]],
           NEW list \in fetchNodes(given)
    PROVE  list \in Seq(Listed) /\ \A i, j \in 1..Len(list) : list[i].id = list[j].id => i = j
<1>1. PICK order \in AnswerOrders(given) : list = [k \in NodeIds |-> mapNode(order[k], given[order[k]])]
  BY DEF fetchNodes
<1>2. /\ order \in [NodeIds -> NodeIds]
      /\ \A i, j \in NodeIds : i < j => order[i] # order[j]
  BY DEF AnswerOrders
<1>3. MaxNodes \in Nat /\ NodeIds = 1..MaxNodes
  BY DEF NodePagesConstants, NodeIds
<1>4. \A k \in NodeIds : list[k] \in Listed /\ list[k].id = order[k]
  BY <1>1, <1>2, RowsAreListed
<1>5. list \in Seq(Listed) /\ Len(list) = MaxNodes
  BY <1>1, <1>3, <1>4
<1>6. ASSUME NEW i \in 1..Len(list), NEW j \in 1..Len(list), list[i].id = list[j].id PROVE i = j
  <2>1. i \in NodeIds /\ j \in NodeIds /\ order[i] = order[j] /\ i \in Nat /\ j \in Nat
    BY <1>3, <1>4, <1>5, <1>6
  <2> QED
    BY <1>2, <2>1
<1> QED
  BY <1>5, <1>6

\* Both hold at first.
LEMMA NodePagesStart == NodePagesConstants /\ NodePagesInit => NodeListInv /\ TimelineInv
<1> SUFFICES ASSUME NodePagesConstants, NodePagesInit PROVE NodeListInv /\ TimelineInv
  OBVIOUS
<1>1. InitialRows \in [NodeIds -> [status : RowStatus, score : Scores]]
  BY DEF InitialRows, RowStatus, Scores
<1>2. nodeRows = InitialRows /\ nodeList \in fetchNodes(InitialRows)
  BY DEF NodePagesInit
<1>3. NodeListInv
  BY <1>1, <1>2, AnswersListOnce DEF NodeListInv
<1>4. MaxSlots \in Nat \ {0} /\ heartbeatSlots = [k \in 1..MaxSlots |-> "generated"] /\ nodeUpdates = << >> /\ latest = "none"
  BY DEF NodePagesInit, NodePagesConstants
<1>5. heartbeatSlots \in Seq({"generated", "ok", "vramm_warn", "missed"}) /\ Len(heartbeatSlots) = MaxSlots
  BY <1>4
<1>6. nodeUpdates \in Seq([node : NodeIds, status : RowStatus]) /\ Len(nodeUpdates) = 0
  BY <1>4
<1>7. TimelineInv
  BY <1>4, <1>5, <1>6 DEF TimelineInv, TimelineEndsWithLatest
<1> QED
  BY <1>3, <1>7

\* A timeline that gets a slot loses its oldest.
LEMMA SlotAppended ==
    ASSUME NodePagesConstants, NEW status \in RowStatus,
           NEW slots \in Seq({"generated", "ok", "vramm_warn", "missed"}), Len(slots) = MaxSlots
    PROVE  /\ AppendSlot(slots, status) \in Seq({"generated", "ok", "vramm_warn", "missed"})
           /\ Len(AppendSlot(slots, status)) = MaxSlots
           /\ AppendSlot(slots, status)[MaxSlots] = SlotOf(status)
<1> DEFINE T == {"generated", "ok", "vramm_warn", "missed"}
           old == Tail(slots)
           new == <<SlotOf(status)>>
<1>1. MaxSlots \in Nat \ {0} /\ SlotOf(status) \in T
  BY DEF NodePagesConstants, SlotOf
<1>2. old \in Seq(T) /\ Len(old) = MaxSlots - 1 /\ new \in Seq(T) /\ Len(new) = 1 /\ new[1] = SlotOf(status)
  <2>1. slots \in Seq(T) /\ slots # << >>
    BY <1>1
  <2> HIDE DEF T
  <2>2. old \in Seq(T) /\ Len(old) = MaxSlots - 1
    BY <1>1, <2>1
  <2>3. new \in Seq(T) /\ Len(new) = 1 /\ new[1] = SlotOf(status)
    BY <1>1
  <2> QED
    BY <2>2, <2>3
<1> HIDE DEF T, old, new
<1>3. old \o new \in Seq(T) /\ Len(old \o new) = MaxSlots /\ (old \o new)[MaxSlots] = new[1]
  <2>1. /\ old \o new \in Seq(T) /\ Len(old \o new) = Len(old) + Len(new)
        /\ \A i \in 1..Len(old) + Len(new) : (old \o new)[i] = IF i <= Len(old) THEN old[i] ELSE new[i - Len(old)]
    BY <1>2, ConcatProperties
  <2>2. MaxSlots \in 1..Len(old) + Len(new) /\ ~(MaxSlots <= Len(old)) /\ MaxSlots - Len(old) = 1
    BY <1>1, <1>2
  <2> QED
    BY <1>1, <1>2, <2>1, <2>2
<1> QED
  BY <1>2, <1>3 DEF T, old, new, AppendSlot

\* A pushed row takes the place of the update of its node, and the timeline
\* of node 1 gets a slot if an update of it is in the list.
LEMMA PushKeeps ==
    ASSUME NodePagesConstants, TimelineInv, NEW n \in NodeIds, NEW status \in RowStatus,
           NodeDetailPage(n, status)
    PROVE  TimelineInv'
<1> DEFINE U == [node : NodeIds, status : RowStatus]
           u == [node |-> n, status |-> status]
           another == {v \in ToSet(nodeUpdates) : v.node # n}
           others == Filter(nodeUpdates, another)
           list == <<u>> \o others
           top == IF Len(list) < MaxNodeUpdates THEN Len(list) ELSE MaxNodeUpdates
           mine == {v \in ToSet(nodeUpdates') : v.node = 1}
           own == Filter(nodeUpdates', mine)
<1>1. MaxNodeUpdates \in Nat \ {0} /\ u \in U /\ u.node = n /\ u.status = status
  BY DEF NodePagesConstants
<1>2. nodeUpdates \in Seq(U) /\ \A i \in 1..Len(nodeUpdates) : nodeUpdates[i].node = 1 => nodeUpdates[i].status = latest
  BY DEF TimelineInv
<1>3. /\ nodeUpdates' = SubSeq(list, 1, top)
      /\ heartbeatSlots' = IF own = << >> THEN heartbeatSlots ELSE AppendSlot(heartbeatSlots, Head(own).status)
      /\ latest' = IF n = 1 THEN status ELSE latest
  BY DEF NodeDetailPage, HeartbeatTimeline
<1>4. /\ others \in Seq(U)
      /\ \A k \in 1..Len(others) : others[k].node # n /\ (others[k].node = 1 => others[k].status = latest)
  <2>1. /\ others \in Seq(U)
        /\ \A k \in 1..Len(others) : /\ others[k] \in another
                                     /\ \E i \in 1..Len(nodeUpdates) : others[k] = nodeUpdates[i]
    <3> HIDE DEF another, U
    <3> QED
      BY <1>2, FilterEntries
  <2> HIDE DEF others
  <2> QED
    BY <1>2, <2>1
<1> HIDE DEF others, another, u, U
<1>5. /\ list \in Seq(U) /\ Len(list) = Len(others) + 1 /\ list[1] = u
      /\ \A k \in 2..Len(list) : list[k] = others[k - 1] /\ k - 1 \in 1..Len(others)
  BY <1>1, <1>4
<1>6. \A k \in 1..Len(list) : list[k].node = 1 => list[k].status = latest'
  <2> SUFFICES ASSUME NEW k \in 1..Len(list), list[k].node = 1 PROVE list[k].status = latest'
    OBVIOUS
  <2>1. CASE k = 1
    <3>1. list[k] = u /\ n = 1
      BY <1>1, <1>5, <2>1
    <3> QED
      BY <1>1, <1>3, <3>1
  <2>2. CASE k # 1
    <3>1. k \in 2..Len(list)
      BY <1>4, <1>5, <2>2
    <3>2. list[k] = others[k - 1] /\ k - 1 \in 1..Len(others)
      BY <1>5, <3>1
    <3> QED
      BY <1>3, <1>4, <3>2
  <2> QED
    BY <2>1, <2>2
<1> HIDE DEF list
<1>7. top \in 1..Len(list)
  BY <1>1, <1>4, <1>5
<1> HIDE DEF top
<1>8. /\ nodeUpdates' \in Seq(U) /\ Len(nodeUpdates') = top
      /\ \A k \in 1..top : nodeUpdates'[k] = list[k] /\ k \in 1..Len(list)
  <2>1. /\ SubSeq(list, 1, top) \in Seq(U) /\ Len(SubSeq(list, 1, top)) = top
        /\ \A k \in 1..top : SubSeq(list, 1, top)[k] = list[k] /\ k \in 1..Len(list)
    BY <1>5, <1>7
  <2> QED
    BY <1>3, <2>1
<1>9. \A k \in 1..Len(nodeUpdates') : nodeUpdates'[k].node = 1 => nodeUpdates'[k].status = latest'
  BY <1>6, <1>8
<1>10. /\ own \in Seq(U)
       /\ \A k \in 1..Len(own) : own[k] \in mine /\ \E i \in 1..Len(nodeUpdates') : own[k] = nodeUpdates'[i]
       /\ \A i \in 1..Len(nodeUpdates') : nodeUpdates'[i] \in mine => \E k \in 1..Len(own) : own[k] = nodeUpdates'[i]
  <2> DEFINE now == nodeUpdates'
  <2>1. now \in Seq(U)
    BY <1>8
  <2> HIDE DEF mine, now
  <2>2. LET F == Filter(now, mine)
        IN  /\ F \in Seq(U)
            /\ \A k \in 1..Len(F) : F[k] \in mine /\ \E i \in 1..Len(now) : F[k] = now[i]
            /\ \A i \in 1..Len(now) : now[i] \in mine => \E k \in 1..Len(F) : F[k] = now[i]
    BY <2>1, FilterEntries
  <2> QED
    BY <2>2 DEF now
<1> HIDE DEF own
<1>11. own # << >> => Head(own).status = latest' /\ latest' \in RowStatus
  <2> SUFFICES ASSUME own # << >> PROVE Head(own).status = latest' /\ latest' \in RowStatus
    OBVIOUS
  <2> HIDE DEF mine
  <2>1. Head(own) = own[1] /\ own[1] \in U /\ 1 \in 1..Len(own)
    BY <1>10
  <2>2. own[1] \in mine /\ \E i \in 1..Len(nodeUpdates') : own[1] = nodeUpdates'[i]
    BY <1>10, <2>1
  <2>3. own[1].node = 1
    BY <2>2 DEF mine
  <2> QED
    BY <1>9, <2>1, <2>2, <2>3 DEF U
<1>12. n = 1 => own # << >>
  <2> SUFFICES ASSUME n = 1, own = << >> PROVE FALSE
    OBVIOUS
  <2>1. nodeUpdates'[1] = u /\ 1 \in 1..Len(nodeUpdates')
    BY <1>5, <1>7, <1>8
  <2>2. u \in mine
    BY <1>1, <1>8, <2>1 DEF ToSet
  <2> HIDE DEF mine
  <2>3. \E k \in 1..Len(own) : own[k] = u
    BY <1>10, <2>1, <2>2
  <2> QED
    BY <2>3
<1>13. /\ heartbeatSlots \in Seq({"generated", "ok", "vramm_warn", "missed"})
       /\ Len(heartbeatSlots) = MaxSlots
       /\ latest # "none" => heartbeatSlots[MaxSlots] = SlotOf(latest)
  BY DEF TimelineInv, TimelineEndsWithLatest
<1>14. /\ heartbeatSlots' \in Seq({"generated", "ok", "vramm_warn", "missed"})
       /\ Len(heartbeatSlots') = MaxSlots
       /\ latest' # "none" => heartbeatSlots'[MaxSlots] = SlotOf(latest')
  <2>1. CASE own = << >>
    BY <1>3, <1>12, <1>13, <2>1
  <2>2. CASE own # << >>
    <3>1. heartbeatSlots' = AppendSlot(heartbeatSlots, latest') /\ latest' \in RowStatus
      BY <1>3, <1>11, <2>2
    <3> QED
      BY <1>13, <3>1, SlotAppended
  <2> QED
    BY <2>1, <2>2
<1>15. TimelineEndsWithLatest'
  BY <1>14 DEF TimelineEndsWithLatest, SlotOf
<1> QED
  BY <1>8, <1>9, <1>14, <1>15 DEF TimelineInv, U

\* Every step keeps both.
LEMMA NodePagesKept ==
    NodePagesConstants /\ NodeListInv /\ TimelineInv /\ [NodePagesNext]_nodePagesVars => (NodeListInv /\ TimelineInv)'
<1> SUFFICES ASSUME NodePagesConstants, NodeListInv, TimelineInv, [NodePagesNext]_nodePagesVars
             PROVE  NodeListInv' /\ TimelineInv'
  OBVIOUS
<1>1. UNCHANGED timelineVars => TimelineInv'
  BY DEF timelineVars, TimelineInv, TimelineEndsWithLatest, SlotOf
<1>2. UNCHANGED <<nodeRows, nodeList>> => NodeListInv'
  BY DEF NodeListInv
<1>3. ASSUME NEW n \in NodeIds, NEW s \in RowStatus, NEW score \in Scores,
             RowChanges(n, [status |-> s, score |-> score])
      PROVE  NodeListInv' /\ TimelineInv'
  <2>1. UNCHANGED timelineVars /\ UNCHANGED nodeList
        /\ nodeRows' = [nodeRows EXCEPT ![n] = [status |-> s, score |-> score]]
    BY <1>3 DEF RowChanges, OnList, listVars
  <2>2. nodeRows' \in [NodeIds -> [status : RowStatus, score : Scores]]
    BY <2>1 DEF NodeListInv
  <2> QED
    BY <1>1, <2>1, <2>2 DEF NodeListInv
<1>4. ASSUME useNodes PROVE NodeListInv' /\ TimelineInv'
  <2>1. UNCHANGED timelineVars /\ nodeRows' = nodeRows /\ nodeList' \in fetchNodes(nodeRows)
    BY <1>4 DEF useNodes, OnList, NotTable
  <2>2. nodeRows \in [NodeIds -> [status : RowStatus, score : Scores]]
    BY DEF NodeListInv
  <2>3. nodeList' \in Seq(Listed) /\ \A i, j \in 1..Len(nodeList') : nodeList'[i].id = nodeList'[j].id => i = j
    BY <2>1, <2>2, AnswersListOnce
  <2> QED
    BY <1>1, <2>1, <2>2, <2>3 DEF NodeListInv
<1>5. ASSUME \/ RefetchStats \/ ClearFilters \/ ToggleView
             \/ \E field \in {"reputation", "tier"} : handleSort(field)
             \/ StatusFilterPills
             \/ \E n \in {0} \cup NodeIds : Search(n)
      PROVE  NodeListInv' /\ TimelineInv'
  BY <1>1, <1>2, <1>5 DEF RefetchStats, ClearFilters, ToggleView, handleSort, StatusFilterPills, handleStatusToggle,
       Search, NotTable, OnList
<1>6. ASSUME NEW n \in NodeIds, NEW s \in RowStatus, NodeDetailPage(n, s) PROVE NodeListInv' /\ TimelineInv'
  <2>1. UNCHANGED <<nodeRows, nodeList>>
    BY <1>6 DEF NodeDetailPage, listVars
  <2> QED
    BY <1>2, <1>6, <2>1, PushKeeps
<1>7. CASE UNCHANGED nodePagesVars
  BY <1>1, <1>2, <1>7 DEF nodePagesVars, listVars
<1> QED
  BY <1>3, <1>4, <1>5, <1>6, <1>7 DEF NodePagesNext

\* The comparison of two entries, by the column asked for and then by their places.
Precedes(list, j, i) ==
    LET a == SortKey(list[j], sorting.field)
        b == SortKey(list[i], sorting.field)
    IN \/ (IF sorting.dir = "asc" THEN a < b ELSE a > b)
       \/ a = b /\ j <= i

\* It is a total order, since the keys are numbers.
LEMMA KeysOrder ==
    ASSUME NEW list \in Seq(Listed)
    PROVE  TotalOrder(Len(list), {p \in (1..Len(list)) \X (1..Len(list)) : Precedes(list, p[1], p[2])})
<1> DEFINE N == Len(list)
           key == [i \in 1..N |-> SortKey(list[i], sorting.field)]
           R == {p \in (1..N) \X (1..N) : Precedes(list, p[1], p[2])}
<1>1. \A i \in 1..N : key[i] \in Nat /\ key[i] = SortKey(list[i], sorting.field)
  <2> SUFFICES ASSUME NEW i \in 1..N PROVE key[i] \in Nat /\ key[i] = SortKey(list[i], sorting.field)
    OBVIOUS
  <2>1. list[i] \in Listed
    OBVIOUS
  <2> QED
    BY <2>1 DEF SortKey, TierRank, Listed
<1>2. N \in Nat
  OBVIOUS
<1> HIDE DEF key, N
<1>3. \A i, j \in 1..N : <<i, j>> \in R <=>
          \/ (IF sorting.dir = "asc" THEN key[i] < key[j] ELSE key[i] > key[j])
          \/ key[i] = key[j] /\ i <= j
  BY <1>1 DEF Precedes
<1> HIDE DEF R
<1>4. ASSUME NEW i \in 1..N, NEW j \in 1..N PROVE <<i, j>> \in R \/ <<j, i>> \in R
  <2>1. key[i] \in Nat /\ key[j] \in Nat /\ i \in Nat /\ j \in Nat
    BY <1>1, <1>2
  <2>2. key[i] < key[j] \/ key[j] < key[i] \/ (key[i] = key[j] /\ (i <= j \/ j <= i))
    BY <2>1
  <2> QED
    BY <1>3, <2>1, <2>2
<1>5. \A i, j \in 1..N : <<i, j>> \in R /\ <<j, i>> \in R => i = j
  BY <1>1, <1>2, <1>3
<1>6. \A i, j, k \in 1..N : <<i, j>> \in R /\ <<j, k>> \in R => <<i, k>> \in R
  BY <1>1, <1>2, <1>3
<1> QED
  BY <1>4, <1>5, <1>6 DEF TotalOrder, R, N

\* The table: the entries of the filtered list, each at one place, in order.
LEMMA ListsAnswer == NodeListInv => ListAnswersQuestion
<1> SUFFICES ASSUME NodeListInv PROVE ListAnswersQuestion
  OBVIOUS
<1> DEFINE asked == {n \in ToSet(nodeList) : query \in {0, n.id} /\ (statusFilter = {} \/ n.status \in statusFilter)}
           list == FilterNodes(nodeList)
           N == Len(list)
           R == {p \in (1..N) \X (1..N) : Precedes(list, p[1], p[2])}
           from == [k \in 1..N |-> CHOOSE i \in 1..N : Place(list, i) = k]
           shown == filteredNodes
<1>1. nodeList \in Seq(Listed) /\ \A i, j \in 1..Len(nodeList) : nodeList[i].id = nodeList[j].id => i = j
  BY DEF NodeListInv
<1>2. list = Filter(nodeList, asked)
  BY DEF FilterNodes
<1>3. PICK m : Places(nodeList, asked, Len(nodeList), list, m)
  BY <1>1, <1>2, FilterPlaces
<1>4. list \in Seq(Listed)
  BY <1>1, <1>2, FilterType
<1>5. TotalOrder(N, R)
  BY <1>4, KeysOrder
<1>6. N \in Nat /\ DOMAIN list = 1..N
  BY <1>4
<1> HIDE DEF list
<1>7. \A i \in 1..N : Place(list, i) = Rank(N, R, i)
  <2> SUFFICES ASSUME NEW i \in 1..N PROVE Place(list, i) = Rank(N, R, i)
    OBVIOUS
  <2>1. UpTo(N, R, i) = {j \in 1..N : Precedes(list, j, i)}
    BY <1>6 DEF UpTo
  <2> QED
    BY <1>6, <2>1 DEF Place, Precedes, Rank
<1> HIDE DEF R, N
<1>8. \A k \in 1..N : from[k] = CHOOSE i \in 1..N : Rank(N, R, i) = k
  BY <1>7
<1>9. shown = [k \in 1..N |-> list[from[k]]]
  BY <1>6 DEF filteredNodes, SortNodes, list
<1> HIDE DEF from
<1>10. /\ \A k \in 1..N : from[k] \in 1..N
       /\ \A k, l \in 1..N : from[k] = from[l] => k = l
       /\ \A i \in 1..N : \E k \in 1..N : from[k] = i
       /\ \A k, l \in 1..N : k < l => <<from[k], from[l]>> \in R
  BY <1>5, <1>6, <1>8, SortingPermutes
<1>11. DOMAIN shown = 1..N /\ \A k \in 1..N : shown[k] = list[from[k]]
  BY <1>9
<1> HIDE DEF shown
<1>12. ToSet(shown) = {list[i] : i \in 1..N}
  <2>1. ToSet(shown) = {shown[k] : k \in 1..N}
    BY <1>11 DEF ToSet
  <2>2. \A k \in 1..N : shown[k] \in {list[i] : i \in 1..N}
    BY <1>10, <1>11
  <2>3. ASSUME NEW i \in 1..N PROVE \E k \in 1..N : list[i] = shown[k]
    <3>1. PICK k \in 1..N : from[k] = i
      BY <1>10
    <3> QED
      BY <1>11, <3>1
  <2> QED
    BY <2>1, <2>2, <2>3
<1>13. {list[i] : i \in 1..N} = asked
  <2>1. \A i \in 1..N : list[i] \in asked
    BY <1>3 DEF Places, N
  <2>2. ASSUME NEW n \in asked PROVE \E i \in 1..N : list[i] = n
    <3>1. PICK j \in 1..Len(nodeList) : nodeList[j] = n
      BY <1>1 DEF ToSet
    <3> HIDE DEF asked
    <3>2. \E i \in 1..N : m[i] = j
      BY <1>3, <2>2, <3>1 DEF Places, N
    <3> QED
      BY <1>3, <3>1, <3>2 DEF Places, N
  <2> QED
    BY <2>1, <2>2
<1>14. ToSet(shown) = {n \in ToSet(nodeList) :
                          (query = 0 \/ n.id = query) /\ (statusFilter = {} \/ n.status \in statusFilter)}
  BY <1>12, <1>13
<1>15. ASSUME NEW i \in 1..N, NEW j \in 1..N, i # j PROVE shown[i].id # shown[j].id
  <2>1. from[i] \in 1..N /\ from[j] \in 1..N /\ from[i] # from[j]
    BY <1>10, <1>15
  <2> HIDE DEF asked
  <2>2. /\ m[from[i]] \in 1..Len(nodeList) /\ m[from[j]] \in 1..Len(nodeList)
        /\ list[from[i]] = nodeList[m[from[i]]] /\ list[from[j]] = nodeList[m[from[j]]]
    BY <1>3, <2>1 DEF Places, N
  <2>3. m[from[i]] # m[from[j]]
    <3>1. /\ m[from[i]] \in Nat /\ m[from[j]] \in Nat
          /\ from[i] < from[j] \/ from[j] < from[i]
      BY <1>6, <2>1, <2>2
    <3> QED
      BY <1>3, <2>1, <3>1 DEF Places, N
  <2> QED
    BY <1>1, <1>11, <2>2, <2>3
<1>16. ASSUME NEW i \in 1..N, NEW j \in 1..N, i < j
       PROVE  LET a == SortKey(shown[i], sorting.field)
                  b == SortKey(shown[j], sorting.field)
              IN IF sorting.dir = "asc" THEN a <= b ELSE a >= b
  <2>1. from[i] \in 1..N /\ from[j] \in 1..N /\ <<from[i], from[j]>> \in R
    BY <1>10, <1>16
  <2>2. Precedes(list, from[i], from[j])
    BY <2>1 DEF R
  <2>3. SortKey(list[from[i]], sorting.field) \in Nat /\ SortKey(list[from[j]], sorting.field) \in Nat
    <3>1. list[from[i]] \in Listed /\ list[from[j]] \in Listed
      BY <1>4, <2>1 DEF N
    <3> QED
      BY <3>1 DEF SortKey, TierRank, Listed
  <2>4. shown[i] = list[from[i]] /\ shown[j] = list[from[j]]
    BY <1>11
  <2> QED
    BY <2>2, <2>3, <2>4 DEF Precedes
<1> QED
  <2>1. \A i, j \in DOMAIN shown : i < j =>
            /\ shown[i].id # shown[j].id
            /\ LET a == SortKey(shown[i], sorting.field)
                   b == SortKey(shown[j], sorting.field)
               IN IF sorting.dir = "asc" THEN a <= b ELSE a >= b
    <3> SUFFICES ASSUME NEW i \in 1..N, NEW j \in 1..N, i < j
                 PROVE  /\ shown[i].id # shown[j].id
                        /\ LET a == SortKey(shown[i], sorting.field)
                               b == SortKey(shown[j], sorting.field)
                           IN IF sorting.dir = "asc" THEN a <= b ELSE a >= b
      BY <1>11
    <3>1. i # j
      BY <1>6
    <3> QED
      BY <1>15, <1>16, <3>1
  <2> QED
    BY <1>14, <2>1 DEF ListAnswersQuestion, shown

\* However the list was typed at, toggled, sorted and refreshed, it shows the
\* nodes that match, each once and in order; and however updates of this and
\* other nodes follow each other, the timeline ends with the latest of its own.
THEOREM NodePagesAlwaysShowRows == NodePagesSpec => []NodePagesShowRows
<1>1. NodePagesInit => NodeListInv /\ TimelineInv
  BY NodePagesConstants, NodePagesStart
<1>2. NodeListInv /\ TimelineInv /\ [NodePagesNext]_nodePagesVars => (NodeListInv /\ TimelineInv)'
  BY NodePagesConstants, NodePagesKept
<1>3. NodeListInv /\ TimelineInv => NodePagesShowRows
  BY ListsAnswer DEF TimelineInv, NodePagesShowRows
<1> QED
  BY <1>1, <1>2, <1>3, PTL DEF NodePagesSpec

-----------------------------------------------------------------------------
(* The charts *)

ChartEntries == [date : Nat, counts : [Series -> Nat]]
RowsOn(days, n, day) == {k \in 1..n : days[k] = day}

\* What a chart of the first n rows is: one entry for each of their days,
\* whose series add up to the number of rows of that day.
IsChart(b, days, n) ==
    /\ b \in Seq(ChartEntries)
    /\ \A i, j \in 1..Len(b) : b[i].date = b[j].date => i = j
    /\ \A i \in 1..Len(b) :
          /\ RowsOn(days, n, b[i].date) # {}
          /\ SumFunction(b[i].counts) = Cardinality(RowsOn(days, n, b[i].date))
    /\ \A k \in 1..n : \E i \in 1..Len(b) : b[i].date = days[k]

\* There are six series.
LEMMA SeriesFinite == IsFiniteSet(Series)
<1>1. Series = {"completed"} \cup ({"failed"} \cup ({"pending"} \cup ({"revenue"} \cup ({"cost"} \cup {"nothing"}))))
  BY DEF Series
<1> QED
  BY <1>1, FS_Singleton, FS_Union

\* A row counts once in the entry it is added to.
LEMMA CountsAddUp ==
    ASSUME NEW counts \in [Series -> Nat], NEW s \in Series
    PROVE  LET more == [counts EXCEPT ![s] = @ + 1]
           IN  more \in [Series -> Nat] /\ SumFunction(more) = SumFunction(counts) + 1 /\ SumFunction(counts) \in Int
<1> DEFINE more == [counts EXCEPT ![s] = @ + 1]
<1>1. more \in [Series -> Nat] /\ more[s] = counts[s] + 1 /\ \A y \in Series \ {s} : more[y] = counts[y]
  OBVIOUS
<1>2. counts \in [Series -> Int] /\ more \in [Series -> Int] /\ counts[s] \in Int
  BY <1>1
<1> HIDE DEF more
<1>3. SumFunction(counts) \in Int /\ SumFunction(more) = SumFunction(counts) + more[s] - counts[s]
  BY <1>1, <1>2, SeriesFinite, SumUpdates
<1> QED
  BY <1>1, <1>2, <1>3 DEF more

\* The first row of a day makes an entry that counts one.
LEMMA FirstCountsOne ==
    ASSUME NEW day \in Nat, NEW s \in Series
    PROVE  LET e == [Entry(day) EXCEPT !.counts[s] = 1]
           IN  e \in ChartEntries /\ e.date = day /\ SumFunction(e.counts) = 1
<1> DEFINE zeros == [t \in Series |-> 0]
           one == [zeros EXCEPT ![s] = @ + 1]
           e == [Entry(day) EXCEPT !.counts[s] = 1]
<1>1. zeros \in [Series -> Nat] /\ zeros \in [Series -> Int] /\ \A t \in Series : zeros[t] = 0
  OBVIOUS
<1>2. SumFunction(zeros) = 0
  <2> HIDE DEF zeros
  <2> QED
    BY <1>1, SeriesFinite, SumOfZeros
<1>3. one \in [Series -> Nat] /\ SumFunction(one) = 1
  <2> HIDE DEF zeros
  <2>1. one \in [Series -> Nat] /\ SumFunction(one) = SumFunction(zeros) + 1
    BY <1>1, CountsAddUp
  <2> QED
    BY <1>2, <2>1
<1>4. e = [date |-> day, counts |-> one]
  BY DEF Entry
<1> HIDE DEF one, e
<1> QED
  BY <1>3, <1>4 DEF ChartEntries, e

\* One more row: its day has one more, the others as many as before.
LEMMA RowsOnGrow ==
    ASSUME NEW days, NEW n \in Nat, NEW day
    PROVE  /\ IsFiniteSet(RowsOn(days, n, day)) /\ Cardinality(RowsOn(days, n, day)) \in Nat
           /\ days[n + 1] # day => RowsOn(days, n + 1, day) = RowsOn(days, n, day)
           /\ days[n + 1] = day => /\ RowsOn(days, n + 1, day) # {}
                                   /\ Cardinality(RowsOn(days, n + 1, day)) = Cardinality(RowsOn(days, n, day)) + 1
<1>1. IsFiniteSet(RowsOn(days, n, day))
  <2>1. RowsOn(days, n, day) \in SUBSET (1..n) /\ IsFiniteSet(1..n)
    BY FS_Interval DEF RowsOn
  <2> QED
    BY <2>1, FS_Subset
<1>2. Cardinality(RowsOn(days, n, day)) \in Nat
  BY <1>1, FS_CardinalityType
<1>3. \A k : k \in 1..(n + 1) <=> k \in 1..n \/ k = n + 1
  OBVIOUS
<1>4. days[n + 1] # day => RowsOn(days, n + 1, day) = RowsOn(days, n, day)
  BY <1>3 DEF RowsOn
<1>5. ASSUME days[n + 1] = day
      PROVE  /\ RowsOn(days, n + 1, day) # {}
             /\ Cardinality(RowsOn(days, n + 1, day)) = Cardinality(RowsOn(days, n, day)) + 1
  <2>1. RowsOn(days, n + 1, day) = RowsOn(days, n, day) \cup {n + 1} /\ n + 1 \notin RowsOn(days, n, day)
    BY <1>3, <1>5 DEF RowsOn
  <2> QED
    BY <1>1, <2>1, FS_AddElement
<1> QED
  BY <1>1, <1>2, <1>4, <1>5

\* A chart with one more row counted is a chart of one more row.
LEMMA CountedKeeps ==
    ASSUME NEW days, NEW n \in Nat, NEW b, IsChart(b, days, n),
           days[n + 1] \in Nat, NEW s \in Series
    PROVE  IsChart(Counted(b, days[n + 1], s), days, n + 1)
<1> DEFINE day == days[n + 1]
           c == Counted(b, day, s)
<1>1. /\ b \in Seq(ChartEntries)
      /\ \A i, j \in 1..Len(b) : b[i].date = b[j].date => i = j
      /\ \A i \in 1..Len(b) :
            /\ RowsOn(days, n, b[i].date) # {}
            /\ SumFunction(b[i].counts) = Cardinality(RowsOn(days, n, b[i].date))
      /\ \A k \in 1..n : \E i \in 1..Len(b) : b[i].date = days[k]
  BY DEF IsChart
<1>2. DOMAIN b = 1..Len(b) /\ Len(b) \in Nat /\ \A i \in 1..Len(b) : b[i] \in ChartEntries
  BY <1>1
<1>3. \A k \in 1..(n + 1) : k \in 1..n \/ k = n + 1
  OBVIOUS
<1>4. CASE \E i \in 1..Len(b) : b[i].date = day
  <2> DEFINE more(e) == [e EXCEPT !.counts[s] = @ + 1]
  <2>1. c = [i \in 1..Len(b) |-> IF b[i].date = day THEN more(b[i]) ELSE b[i]]
    BY <1>2, <1>4 DEF Counted
  <2>2. ASSUME NEW e \in ChartEntries
        PROVE  more(e) \in ChartEntries /\ more(e).date = e.date /\ SumFunction(more(e).counts) = SumFunction(e.counts) + 1
    <3>1. e = [date |-> e.date, counts |-> e.counts] /\ e.date \in Nat /\ e.counts \in [Series -> Nat]
      BY DEF ChartEntries
    <3>2. more(e) = [date |-> e.date, counts |-> [e.counts EXCEPT ![s] = @ + 1]]
      BY <3>1
    <3> DEFINE counts == [e.counts EXCEPT ![s] = @ + 1]
    <3>3. counts \in [Series -> Nat] /\ SumFunction(counts) = SumFunction(e.counts) + 1
      BY <3>1, CountsAddUp
    <3> HIDE DEF counts, more
    <3> QED
      BY <3>1, <3>2, <3>3 DEF ChartEntries, counts
  <2> HIDE DEF more, c
  <2>3. ASSUME NEW i \in 1..Len(b)
        PROVE  /\ c[i] \in ChartEntries /\ c[i].date = b[i].date
               /\ RowsOn(days, n + 1, c[i].date) # {}
               /\ SumFunction(c[i].counts) = Cardinality(RowsOn(days, n + 1, c[i].date))
    <3>1. /\ b[i] \in ChartEntries /\ RowsOn(days, n, b[i].date) # {}
          /\ SumFunction(b[i].counts) = Cardinality(RowsOn(days, n, b[i].date))
      BY <1>1, <1>2
    <3>2. CASE b[i].date = day
      <4>1. c[i] = more(b[i])
        BY <2>1, <3>2
      <4>2. c[i] \in ChartEntries /\ c[i].date = b[i].date /\ SumFunction(c[i].counts) = SumFunction(b[i].counts) + 1
        BY <2>2, <3>1, <4>1
      <4>3. /\ RowsOn(days, n + 1, b[i].date) # {}
            /\ Cardinality(RowsOn(days, n + 1, b[i].date)) = Cardinality(RowsOn(days, n, b[i].date)) + 1
        BY <3>2, RowsOnGrow
      <4> QED
        BY <3>1, <4>2, <4>3
    <3>3. CASE b[i].date # day
      <4>1. c[i] = b[i]
        BY <2>1, <3>3
      <4> QED
        BY <3>1, <3>3, <4>1, RowsOnGrow
    <3> QED
      BY <3>2, <3>3
  <2>4. c \in Seq(ChartEntries) /\ Len(c) = Len(b)
    BY <1>2, <2>1, <2>3
  <2>5. \A i, j \in 1..Len(c) : c[i].date = c[j].date => i = j
    BY <1>1, <2>3, <2>4
  <2>6. \A k \in 1..(n + 1) : \E i \in 1..Len(c) : c[i].date = days[k]
    BY <1>1, <1>3, <1>4, <2>3, <2>4
  <2> QED
    BY <2>3, <2>4, <2>5, <2>6 DEF IsChart, c
<1>5. CASE ~ \E i \in 1..Len(b) : b[i].date = day
  <2> DEFINE e == [Entry(day) EXCEPT !.counts[s] = 1]
  <2>1. c = Append(b, e)
    BY <1>2, <1>5 DEF Counted
  <2>2. e \in ChartEntries /\ e.date = day /\ SumFunction(e.counts) = 1
    BY FirstCountsOne
  <2> HIDE DEF e, c
  <2>3. /\ c \in Seq(ChartEntries) /\ Len(c) = Len(b) + 1 /\ c[Len(b) + 1] = e
        /\ \A i \in 1..Len(b) : c[i] = b[i]
    BY <1>1, <2>1, <2>2
  <2>4. \A i \in 1..Len(c) : i \in 1..Len(b) \/ i = Len(b) + 1
    BY <1>2, <2>3
  <2>5. RowsOn(days, n, day) = {}
    BY <1>1, <1>5 DEF RowsOn
  <2>6. ASSUME NEW i \in 1..Len(c)
        PROVE  /\ RowsOn(days, n + 1, c[i].date) # {}
               /\ SumFunction(c[i].counts) = Cardinality(RowsOn(days, n + 1, c[i].date))
    <3>1. CASE i \in 1..Len(b)
      <4>1. c[i] = b[i] /\ b[i].date # day
        BY <1>5, <2>3, <3>1
      <4>2. RowsOn(days, n + 1, b[i].date) = RowsOn(days, n, b[i].date)
        BY <4>1, RowsOnGrow
      <4> QED
        BY <1>1, <3>1, <4>1, <4>2
    <3>2. CASE i = Len(b) + 1
      <4>1. c[i] = e
        BY <2>3, <3>2
      <4>2. Cardinality(RowsOn(days, n, day)) = 0
        BY <2>5, FS_EmptySet
      <4> QED
        BY <2>2, <4>1, <4>2, RowsOnGrow
    <3> QED
      BY <2>4, <3>1, <3>2
  <2>7. ASSUME NEW i \in 1..Len(c), NEW j \in 1..Len(c), c[i].date = c[j].date PROVE i = j
    BY <1>1, <1>5, <2>2, <2>3, <2>4, <2>7
  <2>8. ASSUME NEW k \in 1..(n + 1) PROVE \E i \in 1..Len(c) : c[i].date = days[k]
    <3>1. CASE k \in 1..n
      <4>1. PICK i \in 1..Len(b) : b[i].date = days[k]
        BY <1>1, <3>1
      <4>2. i \in 1..Len(c) /\ c[i] = b[i]
        BY <1>2, <2>3
      <4> QED
        BY <4>1, <4>2
    <3>2. CASE k = n + 1
      <4>1. Len(b) + 1 \in 1..Len(c)
        BY <1>2, <2>3
      <4> QED
        BY <2>2, <2>3, <3>2, <4>1
    <3> QED
      BY <1>3, <3>1, <3>2
  <2> QED
    BY <2>3, <2>6, <2>7, <2>8 DEF IsChart, c
<1> QED
  BY <1>4, <1>5

ChartStep(days, series, f, k) == IF k = 0 THEN << >> ELSE Counted(f[k - 1], days[k], series[k])
Grouping(days, series) == CHOOSE f : f = [k \in 0..Len(days) |-> ChartStep(days, series, f, k)]

\* The recursion of GroupedByDate defines a function.
LEMMA GroupingsExist ==
    ASSUME NEW days, NEW series, Len(days) \in Nat
    PROVE  \E f : f = [k \in 0..Len(days) |-> ChartStep(days, series, f, k)]
<1> DEFINE N == Len(days)
           P == {n \in 0..N : \E f : f = [k \in 0..n |-> ChartStep(days, series, f, k)]}
<1>1. 0 \in P
  <2> DEFINE f == [k \in 0..0 |-> << >>]
  <2>1. f = [k \in 0..0 |-> ChartStep(days, series, f, k)]
    BY DEF ChartStep
  <2>2. \E g : g = [k \in 0..0 |-> ChartStep(days, series, g, k)]
    <3> HIDE DEF f
    <3> QED
      BY <2>1
  <2> QED
    BY <2>2
<1>2. ASSUME NEW n \in 0..(N - 1), n \in P PROVE n + 1 \in P
  <2>1. PICK f : f = [k \in 0..n |-> ChartStep(days, series, f, k)]
    BY <1>2
  <2> DEFINE h == [k \in 0..(n + 1) |-> ChartStep(days, series, f, k)]
  <2>2. ASSUME NEW k \in 0..(n + 1) PROVE ChartStep(days, series, h, k) = ChartStep(days, series, f, k)
    <3>1. CASE k = 0
      BY <3>1 DEF ChartStep
    <3>2. CASE k # 0
      <4>1. k - 1 \in 0..n /\ k - 1 \in 0..(n + 1)
        BY <3>2
      <4>2. h[k - 1] = ChartStep(days, series, f, k - 1) /\ f[k - 1] = ChartStep(days, series, f, k - 1)
        BY <2>1, <4>1
      <4> HIDE DEF h
      <4> QED
        BY <3>2, <4>2 DEF ChartStep
    <3> QED
      BY <3>1, <3>2
  <2>3. h = [k \in 0..(n + 1) |-> ChartStep(days, series, h, k)]
    <3> DEFINE g == [k \in 0..(n + 1) |-> ChartStep(days, series, h, k)]
    <3>1. \A k \in 0..(n + 1) : h[k] = g[k]
      BY <2>2
    <3> QED
      BY <3>1
  <2>4. \E g : g = [k \in 0..(n + 1) |-> ChartStep(days, series, g, k)]
    <3> HIDE DEF h
    <3> QED
      BY <2>3
  <2>5. n + 1 \in 0..N
    OBVIOUS
  <2> HIDE DEF h, N
  <2> QED
    BY <2>4, <2>5
<1>3. N \in P
  <2> HIDE DEF P, N
  <2>1. N \in Nat /\ N \in 0..N
    BY DEF N
  <2> QED
    BY <1>1, <1>2, <2>1, ReachesAll
<1> QED
  BY <1>3

\* What is grouped by date is a chart of all rows.
LEMMA GroupedIsChart ==
    ASSUME NEW days \in Seq(Nat), NEW series, \A k \in 1..Len(days) : series[k] \in Series
    PROVE  IsChart(GroupedByDate(days, series), days, Len(days))
<1> DEFINE N == Len(days)
           f == Grouping(days, series)
           P == {n \in 0..N : IsChart(f[n], days, n)}
<1>1. N \in Nat /\ \A k \in 1..N : days[k] \in Nat
  OBVIOUS
<1>2. f = [k \in 0..N |-> ChartStep(days, series, f, k)]
  <2>1. \E g : g = [k \in 0..Len(days) |-> ChartStep(days, series, g, k)]
    BY <1>1, GroupingsExist
  <2> QED
    BY <2>1, Zenon DEF Grouping
<1>3. GroupedByDate(days, series) = f[N]
  BY DEF GroupedByDate, Grouping, ChartStep
<1> HIDE DEF f, N
<1>4. \A k \in 0..N : f[k] = ChartStep(days, series, f, k)
  BY <1>2
<1>5. 0 \in P
  <2>1. 0 \in 0..N /\ f[0] = << >>
    BY <1>1, <1>4 DEF ChartStep
  <2>2. << >> \in Seq(ChartEntries) /\ Len(<< >>) = 0
    OBVIOUS
  <2>3. IsChart(<< >>, days, 0)
    BY <2>2 DEF IsChart
  <2> QED
    BY <2>1, <2>3
<1>6. ASSUME NEW n \in 0..(N - 1), n \in P PROVE n + 1 \in P
  <2>1. n + 1 \in 0..N /\ n + 1 \in 1..N /\ (n + 1) - 1 = n /\ n + 1 # 0 /\ n \in Nat
    BY <1>1
  <2>2. f[n + 1] = Counted(f[n], days[n + 1], series[n + 1])
    BY <1>4, <2>1 DEF ChartStep
  <2>3. days[n + 1] \in Nat /\ series[n + 1] \in Series /\ IsChart(f[n], days, n)
    BY <1>1, <1>6, <2>1 DEF N
  <2>4. IsChart(f[n + 1], days, n + 1)
    BY <2>1, <2>2, <2>3, CountedKeeps
  <2> QED
    BY <2>1, <2>4
<1>7. N \in P
  <2>1. \A n \in 0..N : n \in P
    <3> HIDE DEF P
    <3> QED
      BY <1>1, <1>5, <1>6, ReachesAll
  <2> QED
    BY <1>1, <2>1
<1> QED
  BY <1>3, <1>7 DEF N

ChartRow == [owner : Viewers, day : Nat, started : Nat,
        status : {"completed", "failed", "running", "assigned", "reward_payment", "job_payment", "slashing_credit"}]

\* The table holds rows, and what was drawn from them is in the cache.
AnalyticsInv ==
    /\ records \in Seq(ChartRow)
    /\ cached = [of |-> cached.of, fresh |-> cached.fresh, read |-> cached.read, entries |-> cached.entries,
                 figures |-> cached.figures]
    /\ ChartsCountRows

\* The order in which assignments come: by start, those not started last.
LEMMA StartsOrder ==
    ASSUME NEW given \in Seq(ChartRow)
    PROVE  TotalOrder(Len(given), {p \in (1..Len(given)) \X (1..Len(given)) : StartsBy(given, p[1], p[2])})
<1> DEFINE N == Len(given)
           start == [i \in 1..N |-> given[i].started]
           R == {p \in (1..N) \X (1..N) : StartsBy(given, p[1], p[2])}
<1>1. \A i \in 1..N : start[i] \in Nat /\ start[i] = given[i].started
  <2> SUFFICES ASSUME NEW i \in 1..N PROVE start[i] \in Nat /\ start[i] = given[i].started
    OBVIOUS
  <2>1. given[i] \in ChartRow
    OBVIOUS
  <2>2. given[i].started \in Nat
    BY <2>1 DEF ChartRow
  <2> QED
    BY <2>2
<1>2. N \in Nat
  OBVIOUS
<1> HIDE DEF start, N
<1>3. \A i, j \in 1..N : <<i, j>> \in R <=>
          \/ start[i] # 0 /\ (start[j] = 0 \/ start[i] < start[j])
          \/ start[i] = start[j] /\ i <= j
  BY <1>1 DEF StartsBy
<1> HIDE DEF R
<1>4. ASSUME NEW i \in 1..N, NEW j \in 1..N PROVE <<i, j>> \in R \/ <<j, i>> \in R
  <2>1. start[i] \in Nat /\ start[j] \in Nat /\ i \in Nat /\ j \in Nat
    BY <1>1, <1>2
  <2>2. start[i] < start[j] \/ start[j] < start[i] \/ (start[i] = start[j] /\ (i <= j \/ j <= i))
    BY <2>1
  <2> QED
    BY <1>3, <2>1, <2>2
<1>5. \A i, j \in 1..N : <<i, j>> \in R /\ <<j, i>> \in R => i = j
  BY <1>1, <1>2, <1>3
<1>6. \A i, j, k \in 1..N : <<i, j>> \in R /\ <<j, k>> \in R => <<i, k>> \in R
  BY <1>1, <1>2, <1>3
<1> QED
  BY <1>4, <1>5, <1>6 DEF TotalOrder, R, N

\* Sorted rows are the rows, each at another place.
LEMMA StartedRows ==
    ASSUME NEW given \in Seq(ChartRow)
    PROVE  \E from : /\ \A k \in 1..Len(given) : from[k] \in 1..Len(given)
                     /\ \A k, l \in 1..Len(given) : from[k] = from[l] => k = l
                     /\ \A i \in 1..Len(given) : \E k \in 1..Len(given) : from[k] = i
                     /\ ByStart(given) = [k \in 1..Len(given) |-> given[from[k]]]
<1> DEFINE N == Len(given)
           R == {p \in (1..N) \X (1..N) : StartsBy(given, p[1], p[2])}
           StartPlace(i) == Cardinality({j \in 1..N : StartsBy(given, j, i)})
           from == [k \in 1..N |-> CHOOSE i \in 1..N : StartPlace(i) = k]
<1>1. TotalOrder(N, R) /\ N \in Nat /\ DOMAIN given = 1..N
  BY StartsOrder
<1>2. ByStart(given) = [k \in 1..N |-> given[from[k]]]
  BY <1>1 DEF ByStart
<1> HIDE DEF N
<1>3. \A i \in 1..N : StartPlace(i) = Rank(N, R, i)
  <2> SUFFICES ASSUME NEW i \in 1..N PROVE StartPlace(i) = Rank(N, R, i)
    OBVIOUS
  <2>1. UpTo(N, R, i) = {j \in 1..N : StartsBy(given, j, i)}
    BY DEF UpTo
  <2> QED
    BY <2>1 DEF Rank
<1> HIDE DEF R, StartPlace
<1>4. \A k \in 1..N : from[k] = CHOOSE i \in 1..N : Rank(N, R, i) = k
  BY <1>3
<1> HIDE DEF from
<1>5. /\ \A k \in 1..N : from[k] \in 1..N
      /\ \A k, l \in 1..N : from[k] = from[l] => k = l
      /\ \A i \in 1..N : \E k \in 1..N : from[k] = i
      /\ \A k, l \in 1..N : k < l => <<from[k], from[l]>> \in R
  <2>1. N \in Nat /\ TotalOrder(N, R)
    BY <1>1
  <2> HIDE DEF N
  <2> QED
    BY <1>4, <2>1, SortingPermutes
<1> QED
  BY <1>2, <1>5 DEF N

\* The chart of rows by date counts those of each date.
LEMMA HistoryCounts ==
    ASSUME NEW given \in Seq(ChartRow)
    PROVE  \E days \in Seq(Nat) :
              /\ Len(days) = Len(given)
              /\ IsChart(History(given), days, Len(given))
              /\ \A day \in Nat : /\ IsFiniteSet({k \in 1..Len(given) : DayShown(given[k]) = day})
                                  /\ Cardinality({k \in 1..Len(given) : DayShown(given[k]) = day})
                                        = Cardinality(RowsOn(days, Len(given), day))
<1> DEFINE N == Len(given)
           Of(day) == {k \in 1..N : DayShown(given[k]) = day}
<1>1. N \in Nat /\ DOMAIN given = 1..N /\ \A k \in 1..N : given[k] \in ChartRow
  OBVIOUS
<1>2. \A k \in 1..N : given[k].day \in Nat /\ DayShown(given[k]) \in Nat
  BY <1>1 DEF ChartRow, DayShown
<1>3. IsFiniteSet(1..N)
  BY <1>1, FS_Interval
<1>4. \A day : IsFiniteSet(Of(day))
  <2> SUFFICES ASSUME NEW day PROVE IsFiniteSet(Of(day))
    OBVIOUS
  <2>1. Of(day) \in SUBSET (1..N)
    OBVIOUS
  <2> HIDE DEF Of
  <2> QED
    BY <1>3, <2>1, FS_Subset
<1>5. CASE chart # "volume"
  <2> DEFINE days == [k \in 1..N |-> given[k].day]
             completed == [k \in 1..N |-> IF given[k].status = "completed" THEN "completed" ELSE "pending"]
             flow == [k \in 1..N |-> CASE given[k].status \in {"reward", "job_payment"} -> "revenue"
                                       [] given[k].status = "slashing" -> "cost"
                                       [] OTHER -> "nothing"]
  <2>1. History(given) = GroupedByDate(days, completed) \/ History(given) = GroupedByDate(days, flow)
    BY <1>1, <1>5 DEF History, fetchUptimeHistory, fetchValueFlowHistory
  <2>2. \A k \in 1..N : completed[k] \in Series /\ flow[k] \in Series
    BY DEF Series
  <2>3. days \in Seq(Nat) /\ Len(days) = N /\ \A k \in 1..N : days[k] = DayShown(given[k])
    BY <1>1, <1>2, <1>5 DEF DayShown
  <2> HIDE DEF days, completed, flow
  <2>4. IsChart(History(given), days, N)
    BY <2>1, <2>2, <2>3, GroupedIsChart
  <2>5. \A day : Of(day) = RowsOn(days, N, day)
    BY <2>3 DEF RowsOn
  <2> QED
    BY <1>4, <2>3, <2>4, <2>5
<1>6. CASE chart = "volume"
  <2>1. PICK from : /\ \A k \in 1..N : from[k] \in 1..N
                    /\ \A k, l \in 1..N : from[k] = from[l] => k = l
                    /\ \A i \in 1..N : \E k \in 1..N : from[k] = i
                    /\ ByStart(given) = [k \in 1..N |-> given[from[k]]]
    BY StartedRows
  <2> DEFINE sorted == ByStart(given)
             days == [k \in 1..N |-> DayShown(sorted[k])]
             series == [k \in 1..N |-> IF sorted[k].status \in {"completed", "failed"} THEN sorted[k].status ELSE "pending"]
  <2>2. DOMAIN sorted = 1..N /\ \A k \in 1..N : sorted[k] = given[from[k]]
    BY <2>1
  <2>3. History(given) = GroupedByDate(days, series)
    BY <1>6, <2>2 DEF History, fetchJobVolumeHistory
  <2> HIDE DEF sorted
  <2>4. \A k \in 1..N : series[k] \in Series
    BY DEF Series
  <2>5. \A k \in 1..N : days[k] = DayShown(given[from[k]]) /\ days[k] \in Nat
    BY <1>2, <2>1, <2>2
  <2>6. days \in Seq(Nat) /\ Len(days) = N
    BY <1>1, <2>5
  <2> HIDE DEF days, series
  <2>7. IsChart(History(given), days, N)
    BY <2>3, <2>4, <2>6, GroupedIsChart
  <2>8. ASSUME NEW day PROVE Cardinality(Of(day)) = Cardinality(RowsOn(days, N, day))
    <3> DEFINE A == RowsOn(days, N, day)
               B == Of(day)
               f == [k \in A |-> from[k]]
    <3>1. A \in SUBSET (1..N) /\ IsFiniteSet(A)
      <4>1. A \in SUBSET (1..N)
        BY DEF RowsOn
      <4> HIDE DEF A
      <4> QED
        BY <1>3, <4>1, FS_Subset
    <3>2. f \in [A -> B]
      BY <2>1, <2>5 DEF RowsOn
    <3>3. \A x, y \in A : f[x] = f[y] => x = y
      BY <2>1, <3>1
    <3>4. ASSUME NEW b \in B PROVE \E a \in A : f[a] = b
      <4>1. PICK k \in 1..N : from[k] = b
        BY <2>1
      <4>2. k \in A
        BY <2>5, <4>1 DEF RowsOn
      <4> QED
        BY <4>1, <4>2
    <3> HIDE DEF A, B, f
    <3>5. Cardinality(B) = Cardinality(A)
      BY <3>1, <3>2, <3>3, <3>4, SameSize
    <3> QED
      BY <3>5 DEF A, B
  <2> QED
    BY <1>4, <2>6, <2>7, <2>8
<1> QED
  BY <1>5, <1>6

\* An answer with the chart of its rows, all of one owner, counts them.
LEMMA AnswerCounts ==
    ASSUME NEW given \in Seq(ChartRow), NEW of, \A k \in 1..Len(given) : given[k].owner = of,
           cached'.read = given, cached'.of = of, cached'.entries = History(given), chart' = chart,
           AnalyticsConstants
    PROVE  ChartsCountRows'
<1> DEFINE N == Len(given)
           Of(day) == {k \in 1..N : DayShown(given[k]) = day}
           entries == History(given)
<1>1. PICK days \in Seq(Nat) :
          /\ Len(days) = N
          /\ IsChart(entries, days, N)
          /\ \A day \in Nat : /\ IsFiniteSet(Of(day))
                              /\ Cardinality(Of(day)) = Cardinality(RowsOn(days, N, day))
  BY HistoryCounts
<1>2. N \in Nat /\ DOMAIN given = 1..N
  OBVIOUS
<1> HIDE DEF entries
<1>3. DOMAIN entries = 1..Len(entries)
  BY <1>1 DEF IsChart
<1>4. \A r : DayShown(r)' = DayShown(r)
  BY DEF DayShown
<1>5. Days \subseteq Nat
  BY DEF Days, AnalyticsConstants
<1>6. ASSUME NEW day \in Days
      PROVE  IF Of(day) = {} THEN \A i \in 1..Len(entries) : entries[i].date # day
             ELSE \E i \in 1..Len(entries) :
                     entries[i].date = day /\ SumFunction(entries[i].counts) = Cardinality(Of(day))
  <2>1. /\ day \in Nat /\ IsFiniteSet(Of(day))
        /\ Cardinality(Of(day)) = Cardinality(RowsOn(days, N, day))
    BY <1>1, <1>5, <1>6
  <2>2. RowsOn(days, N, day) \in SUBSET (1..N) /\ IsFiniteSet(RowsOn(days, N, day))
    <3>1. RowsOn(days, N, day) \in SUBSET (1..N) /\ IsFiniteSet(1..N)
      BY <1>2, FS_Interval DEF RowsOn
    <3> QED
      BY <3>1, FS_Subset
  <2> HIDE DEF N, Of
  <2>3. Of(day) = {} <=> RowsOn(days, N, day) = {}
    BY <2>1, <2>2, FS_EmptySet
  <2>4. CASE RowsOn(days, N, day) = {}
    BY <1>1, <2>3, <2>4 DEF IsChart
  <2>5. CASE RowsOn(days, N, day) # {}
    <3>1. PICK k \in 1..N : days[k] = day
      BY <2>5 DEF RowsOn
    <3>2. PICK i \in 1..Len(entries) : entries[i].date = days[k]
      BY <1>1 DEF IsChart
    <3>3. SumFunction(entries[i].counts) = Cardinality(RowsOn(days, N, day))
      BY <1>1, <3>1, <3>2 DEF IsChart
    <3> QED
      BY <2>1, <2>3, <2>5, <3>1, <3>2, <3>3
  <2> QED
    BY <2>4, <2>5
<1>7. \A i, j \in 1..Len(entries) : entries[i].date = entries[j].date => i = j
  BY <1>1 DEF IsChart
<1>8. \A day : {k \in DOMAIN cached'.read : DayShown(cached.read[k])' = day} = Of(day)
  <2>1. \A k \in 1..N : DayShown(cached.read[k])' = DayShown(given[k])
    BY DEF DayShown
  <2> QED
    BY <1>2, <2>1
<1>9. cached'.entries = entries
  BY DEF entries
<1> HIDE DEF Of, N
<1>10. \A k \in DOMAIN cached'.read : cached'.read[k].owner = cached'.of
  BY <1>2 DEF N
<1>11. \A i, j \in DOMAIN cached'.entries : cached'.entries[i].date = cached'.entries[j].date => i = j
  BY <1>3, <1>7, <1>9
<1>12. \A day \in Days :
          LET shown == {k \in DOMAIN cached'.read : DayShown(cached.read[k])' = day}
          IN  IF shown = {} THEN \A i \in DOMAIN cached'.entries : cached'.entries[i].date # day
              ELSE \E i \in DOMAIN cached'.entries :
                      cached'.entries[i].date = day /\ SumFunction(cached'.entries[i].counts) = Cardinality(shown)
  <2> SUFFICES ASSUME NEW day \in Days
               PROVE  IF Of(day) = {} THEN \A i \in DOMAIN cached'.entries : cached'.entries[i].date # day
                      ELSE \E i \in DOMAIN cached'.entries :
                              cached'.entries[i].date = day /\ SumFunction(cached'.entries[i].counts) = Cardinality(Of(day))
    BY <1>8
  <2> QED
    BY <1>3, <1>6, <1>9
<1> QED
  BY <1>10, <1>11, <1>12 DEF ChartsCountRows, DayShown, Days

\* It holds at first.
LEMMA AnalyticsStart == AnalyticsInit => AnalyticsInv
<1> SUFFICES ASSUME AnalyticsInit PROVE AnalyticsInv
  OBVIOUS
<1>1. records = << >> /\ cached = NotAsked
  BY DEF AnalyticsInit
<1>2. records \in Seq(ChartRow)
  BY <1>1
<1>3. cached.read = << >> /\ cached.entries = << >> /\ cached = [of |-> cached.of, fresh |-> cached.fresh,
          read |-> cached.read, entries |-> cached.entries, figures |-> cached.figures]
  BY <1>1 DEF NotAsked
<1>4. ChartsCountRows
  BY <1>3 DEF ChartsCountRows
<1> QED
  BY <1>2, <1>3, <1>4 DEF AnalyticsInv

\* A query reads rows of the one who asked.
LEMMA AnsweredKeepsCharts ==
    ASSUME AnalyticsConstants, AnalyticsInv, QueryAnswered
    PROVE  AnalyticsInv'
<1> DEFINE own == {r \in ToSet(records) : r.owner = asking /\ r.owner = viewer}
           all == Filter(records, own)
           recent == {r \in ToSet(all) : r.day >= Since}
           given == Filter(all, recent)
<1>1. PICK latencies \in IF chart = "volume" /\ all # << >> THEN BOOLEAN ELSE {FALSE} :
          cached' = [of |-> asking, fresh |-> TRUE, read |-> given,
                     entries |-> History(given), figures |-> fetchNodeAnalytics(all, latencies)]
  BY Zenon DEF QueryAnswered
<1>2. UNCHANGED <<chart, records, viewer, signIns>>
  BY DEF QueryAnswered
<1>3. records \in Seq(ChartRow)
  BY DEF AnalyticsInv
<1>4. all \in Seq(ChartRow) /\ \A k \in 1..Len(all) : all[k].owner = asking
  <2>1. all \in Seq(ChartRow) /\ \A k \in 1..Len(all) : all[k] \in own
    <3> HIDE DEF own
    <3> QED
      BY <1>3, FilterEntries
  <2> HIDE DEF all
  <2> QED
    BY <2>1
<1> HIDE DEF all
<1>5. given \in Seq(ChartRow) /\ \A k \in 1..Len(given) : \E i \in 1..Len(all) : given[k] = all[i]
  <2> HIDE DEF recent
  <2> QED
    BY <1>4, FilterEntries
<1> HIDE DEF given
<1>6. \A k \in 1..Len(given) : given[k].owner = asking
  BY <1>4, <1>5
<1>7. cached'.read = given /\ cached'.of = asking /\ cached'.entries = History(given)
  BY <1>1
<1>8. ChartsCountRows'
  BY <1>2, <1>5, <1>6, <1>7, AnswerCounts
<1>9. cached' = [of |-> cached'.of, fresh |-> cached'.fresh, read |-> cached'.read, entries |-> cached'.entries,
                 figures |-> cached'.figures]
  BY <1>1
<1> QED
  BY <1>2, <1>3, <1>8, <1>9 DEF AnalyticsInv

\* What a chart shows depends on nothing else.
LEMMA ChartsStay == ChartsCountRows /\ UNCHANGED <<chart, cached>> => ChartsCountRows'
  BY DEF ChartsCountRows, DayShown

\* Every step keeps it.
LEMMA AnalyticsKept == AnalyticsConstants /\ AnalyticsInv /\ [AnalyticsNext]_analyticsVars => AnalyticsInv'
<1> SUFFICES ASSUME AnalyticsConstants, AnalyticsInv, [AnalyticsNext]_analyticsVars PROVE AnalyticsInv'
  OBVIOUS
<1>1. UNCHANGED <<chart, records, cached>> => AnalyticsInv'
  BY ChartsStay DEF AnalyticsInv
<1>2. ASSUME NEW u \in Viewers, NEW d \in Days, NEW s \in Statuses, RecordWritten(u, d, s) PROVE AnalyticsInv'
  <2>1. PICK begun \in IF chart = "volume" /\ s # "assigned" THEN d..MaxDays ELSE {0} :
            records' = Append(records, [owner |-> u, day |-> d, started |-> begun, status |-> s])
    BY <1>2 DEF RecordWritten
  <2>2. d \in Nat /\ begun \in Nat
        /\ s \in {"completed", "failed", "running", "assigned", "reward_payment", "job_payment", "slashing_credit"}
    <3>1. d \in Nat /\ \A n \in d..MaxDays : n \in Nat
      BY DEF Days, AnalyticsConstants
    <3>2. begun \in Nat
      BY <2>1, <3>1
    <3>3. s \in {"completed", "failed", "running", "assigned", "reward_payment", "job_payment", "slashing_credit"}
      BY DEF Statuses
    <3> QED
      BY <3>1, <3>2, <3>3
  <2>3. records' \in Seq(ChartRow)
    BY <2>1, <2>2 DEF AnalyticsInv, ChartRow
  <2>4. chart' = chart /\ cached' = cached
    BY <1>2 DEF RecordWritten
  <2>5. ChartsCountRows'
    BY <2>4, ChartsStay DEF AnalyticsInv
  <2> QED
    BY <2>3, <2>4, <2>5 DEF AnalyticsInv
<1>3. CASE useAnalyticsQuery \/ (\E u \in Viewers \cup {"none"} : ViewerChanges(u)) \/ UNCHANGED analyticsVars
  BY <1>1, <1>3 DEF useAnalyticsQuery, ViewerChanges, analyticsVars
<1>4. CASE QueryAnswered
  BY <1>4, AnsweredKeepsCharts
<1>5. CASE QueryTurnsStale
  <2>1. UNCHANGED <<chart, records>> /\ cached' = [cached EXCEPT !.fresh = FALSE]
    BY <1>5 DEF QueryTurnsStale
  <2>2. cached = [of |-> cached.of, fresh |-> cached.fresh, read |-> cached.read, entries |-> cached.entries,
                 figures |-> cached.figures]
    BY DEF AnalyticsInv
  <2>3. cached' = [of |-> cached.of, fresh |-> FALSE, read |-> cached.read, entries |-> cached.entries,
                 figures |-> cached.figures]
    BY <2>1, <2>2
  <2>4. cached'.read = cached.read /\ cached'.entries = cached.entries /\ cached'.of = cached.of
        /\ cached' = [of |-> cached'.of, fresh |-> cached'.fresh, read |-> cached'.read, entries |-> cached'.entries,
                      figures |-> cached'.figures]
    BY <2>3
  <2>5. ChartsCountRows'
    BY <2>1, <2>4 DEF AnalyticsInv, ChartsCountRows, DayShown
  <2> QED
    BY <2>1, <2>4, <2>5 DEF AnalyticsInv
<1> QED
  BY <1>2, <1>3, <1>4, <1>5 DEF AnalyticsNext

\* A chart counts each row it was drawn from in the entry of its day, whoever
\* signs in while a query is under way.
THEOREM ChartsAlwaysCountRows == AnalyticsSpec => []ChartsCountRows
<1>1. AnalyticsInit => AnalyticsInv
  BY AnalyticsStart
<1>2. AnalyticsInv /\ [AnalyticsNext]_analyticsVars => AnalyticsInv'
  BY AnalyticsConstants, AnalyticsKept
<1>3. AnalyticsInv => ChartsCountRows
  BY DEF AnalyticsInv
<1> QED
  BY <1>1, <1>2, <1>3, PTL DEF AnalyticsSpec

-----------------------------------------------------------------------------
(* The areas together *)

\* Each area starts as it does alone.
LEMMA AreasStart ==
    WebInit => /\ JobPagesInit /\ StakePagesInit /\ FormPagesInit /\ PreferencesInit /\ AdminPagesInit
               /\ NodePagesInit /\ SocketsInit /\ FeedsInit /\ SessionInit /\ WidgetsInit /\ AnalyticsInit
BY DEF WebInit

\* A step of the application is one of an area, or none of it.
LEMMA PagesStep ==
    [WebNext]_webVars =>
        /\ [JobPagesNext]_jobPagesVars /\ [StakePagesNext]_stakePagesVars /\ [FormPagesNext]_formPagesVars
        /\ [PreferencesNext]_preferencesVars /\ [AdminPagesNext]_adminPagesVars
        /\ [NodePagesNext]_nodePagesVars /\ [AnalyticsNext]_analyticsVars
BY DEF WebNext, webVars, pagesVars

\* The same of the clients.
LEMMA ClientsStep ==
    [WebNext]_webVars =>
        [SocketsNext]_socketsVars /\ [FeedsNext]_feedsVars /\ [SessionNext]_sessionVars /\ [WidgetsNext]_widgetsVars
BY DEF WebNext, webVars, clientsVars

\* The areas run side by side and share no state: what the application does
\* is, in each of them, what that area does alone.
THEOREM AreasRunAlone ==
    WebSpec => /\ JobPagesSpec /\ StakePagesSpec /\ FormPagesSpec /\ PreferencesSpec /\ AdminPagesSpec
               /\ NodePagesSpec /\ SocketsSpec /\ FeedsSpec /\ SessionSpec /\ WidgetsSpec /\ AnalyticsSpec
BY AreasStart, PagesStep, ClientsStep, PTL
   DEF WebSpec, JobPagesSpec, StakePagesSpec, FormPagesSpec, PreferencesSpec, AdminPagesSpec, NodePagesSpec,
       SocketsSpec, FeedsSpec, SessionSpec, WidgetsSpec, AnalyticsSpec

\* So the pages that list, draw and count rows show those they were given
\* (filteredNodes, NodeDetailPage, fetchUptimeHistory and its kin).
THEOREM ListsAlwaysShowRows == WebSpec => []ListsShowRows
BY AreasRunAlone, NodePagesAlwaysShowRows, ChartsAlwaysCountRows, PTL DEF ListsShowRows

=============================================================================
