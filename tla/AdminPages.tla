---------------------------- MODULE AdminPages ----------------------------
(***************************************************************************)
(* The administration pages, app/(dashboard)/admin, behind the RequireAuth *)
(* of components/providers/require-auth.tsx, and the queries of            *)
(* lib/supabase-admin.ts.                                                  *)
(*                                                                         *)
(* Every page loads once, when it mounts, and renders the rows as they     *)
(* are.  A column the page dereferences and the row lacks, or a status its *)
(* lookup table lacks, makes the render throw.  The rows are those of the  *)
(* migrations or, for comparison, rows with everything the pages declare.  *)
(*                                                                         *)
(* The slashing page also decides: its lists and dialogs show a copy of    *)
(* the event that was clicked, and a decision changes the list only.  The  *)
(* dialogs trap no focus: what lies behind one can be used from the        *)
(* keyboard, and both may be open at once.                                 *)
(***************************************************************************)
EXTENDS Naturals, FiniteSets

CONSTANTS
    MaxRows,       \* bound: rows a list loads
    MaxContents    \* bound: pages whose content is mounted

ASSUME AdminPagesConstants == {MaxRows, MaxContents} \subseteq Nat \ {0}

VARIABLES
    tables,        \* "schema" or "declared": the rows the queries answer
    adminUser,     \* "loading", "out", or the role of the signed-in user
    content,       \* the mounted page
    contents       \* pages mounted so far

adminPagesVars == <<tables, adminUser, content, contents>>

Row(id, has, status) == [id |-> id, has |-> has, status |-> status]
NoRow == Row(0, {}, "none")

(***************************************************************************)
(* The tables.                                                             *)
(***************************************************************************)
\* supabase/migrations: the columns the pages dereference, and the status
SchemaRows ==
    [jobs |-> {Row(1, {"user_id"}, "running")},
     nodes |-> {Row(1, {"wallet_address"}, "online")},
     profiles |-> {Row(1, {"wallet_address"}, "none"), Row(2, {}, "none")},
     slashing_events |-> {Row(1, {"node_id"}, "none")},
     alerts |-> {Row(1, {"message"}, "triggered"), Row(2, {"message"}, "acknowledged")},
     proposals |-> {Row(1, {"votes_for", "quorum"}, "active"), Row(2, {"votes_for", "quorum"}, "draft")},
     disputes |-> {Row(1, {}, "open"), Row(2, {}, "resolved")},
     contracts |-> {Row(1, {"name"}, "none")}]

Columns == {"user_id", "wallet_address", "node_id", "message", "votes_for", "quorum", "proposer", "name",
            "total_stake", "amount", "slash_amount", "node_address",
            "checkpoints", "parameters"}
DeclaredStatus ==
    [jobs |-> "running", nodes |-> "online", profiles |-> "active", slashing_events |-> "pending",
     alerts |-> "open", proposals |-> "active", disputes |-> "pending", contracts |-> "none"]
SlashStatuses == {"pending", "executed", "disputed", "overridden"}
DeclaredRows(table) ==
    {Row(k, Columns, s) : k \in 1..2, s \in IF table = "slashing_events" THEN SlashStatuses ELSE {DeclaredStatus[table]}}
TableRows(table) == IF tables = "schema" THEN SchemaRows[table] ELSE DeclaredRows(table)

(***************************************************************************)
(* The pages: the table a page reads, whether it reads one row, the        *)
(* columns the render dereferences, and the statuses its lookup table has  *)
(* ({} when there is none or it is guarded).  The searches dereference no  *)
(* column that would throw on rows the render has let through.             *)
(***************************************************************************)
List(table, needs, looks) ==
    [from |-> table, single |-> FALSE, needs |-> needs, looks |-> looks]
Detail(table, needs, looks) ==
    [from |-> table, single |-> TRUE, needs |-> needs, looks |-> looks]

AdminUsersPage == List("profiles", {"wallet_address"}, {})
AdminUserPage == Detail("profiles", {}, {})
AdminJobsPage == List("jobs", {}, {})
AdminJobPage == Detail("jobs", {"checkpoints"}, {})
AdminNodesPage == List("nodes", {"wallet_address", "total_stake"}, {})
AdminNodePage == Detail("nodes", {"total_stake"}, {})
\* severities and types are looked up by names the table does not use either
AdminAlertsPage == List("alerts", {}, {"open"})
AdminAlertPage == Detail("alerts", {}, {})
AdminGovernancePage == List("proposals", {"votes_for"}, {"pending", "active", "passed", "rejected"})
AdminProposalPage == Detail("proposals", {"votes_for", "quorum", "proposer"}, {"pending", "active", "passed", "rejected"})
AdminDisputesPage ==
    List("disputes", {"slash_amount", "node_address"}, {"pending", "resolved", "rejected"})
AdminDisputePage == Detail("disputes", {"slash_amount", "node_address"}, {})
AdminContractsPage == List("contracts", {"name"}, {})
AdminContractPage == Detail("contracts", {"parameters"}, {})
AdminSlashingPage ==
    List("slashing_events", {"amount"}, SlashStatuses)

AdminPage ==
    [users |-> AdminUsersPage, user |-> AdminUserPage, jobs |-> AdminJobsPage, job |-> AdminJobPage,
     nodes |-> AdminNodesPage, node |-> AdminNodePage, alerts |-> AdminAlertsPage, alert |-> AdminAlertPage,
     governance |-> AdminGovernancePage, proposal |-> AdminProposalPage,
     disputes |-> AdminDisputesPage, dispute |-> AdminDisputePage,
     contracts |-> AdminContractsPage, contract |-> AdminContractPage, slashing |-> AdminSlashingPage]
AdminNames == DOMAIN AdminPage

RenderThrows(name, row) ==
    LET p == AdminPage[name]
    IN ~(p.needs \subseteq row.has /\ (p.looks # {} => row.status \in p.looks))

(***************************************************************************)
(* Mounting and loading.                                                   *)
(***************************************************************************)
Loading(name) ==
    [page |-> name, phase |-> "loading", rows |-> {}, filter |-> "none",
     selected |-> NoRow, dialogs |-> {}, reason |-> FALSE]
NoContent == [Loading("jobs") EXCEPT !.phase = "none"]

AdminPagesInit ==
    /\ tables \in {"schema", "declared"}
    /\ adminUser = "loading" /\ content = NoContent /\ contents = 0

\* hasAccess of useRequireAuth: only then are the children mounted
HasAccess(user) == user = "admin"

\* The session is known, or it changes.  A user below the required role is
\* sent away and meanwhile sees the refusal; the content goes in both cases
useRequireAuth(user) ==
    /\ adminUser' = user
    /\ content' = IF HasAccess(user) THEN content ELSE NoContent
    /\ UNCHANGED <<tables, contents>>

RequireAuth(name) ==
    /\ HasAccess(adminUser) /\ contents < MaxContents
    /\ content' = Loading(name) /\ contents' = contents + 1
    /\ UNCHANGED <<tables, adminUser>>

Rendered(c) ==
    IF c.phase = "rows" /\ \E r \in c.rows : (c.filter \in {"none", r.status}) /\ RenderThrows(c.page, r)
    THEN [Loading(c.page) EXCEPT !.phase = "thrown"] ELSE c

\* The answer: rows, newest first and limited, or an error.  A detail page
\* asks for one row, which the address may fail to name
LoadData ==
    /\ content.phase = "loading"
    /\ \/ \E rows \in SUBSET TableRows(AdminPage[content.page].from) :
             /\ Cardinality(rows) <= MaxRows
             /\ \A r, s \in rows : r.id = s.id => r = s
             /\ AdminPage[content.page].single => Cardinality(rows) = 1
             /\ content' = Rendered([content EXCEPT !.phase = "rows", !.rows = rows])
       \/ content' = [content EXCEPT !.phase = "error"]
    /\ UNCHANGED <<tables, adminUser, contents>>

(***************************************************************************)
(* The slashing page.                                                      *)
(***************************************************************************)
OnSlashing == content.phase = "rows" /\ content.page = "slashing"

FilterStatus(s) ==
    /\ OnSlashing
    /\ content' = Rendered([content EXCEPT !.filter = s])
    /\ UNCHANGED <<tables, adminUser, contents>>

\* An entry of the list, or the eye of the panel
openDetailModal(e) ==
    /\ OnSlashing /\ (content.filter \in {"none", e.status} \/ e = content.selected)
    /\ content' = [content EXCEPT !.selected = e, !.dialogs = @ \cup {"detail"}]
    /\ UNCHANGED <<tables, adminUser, contents>>

\* the buttons of the panel and of the dialog with the details: both look at
\* the copy
Decidable == content.selected.status = "pending"

\* from the panel, or from the dialog with the details, which then closes
openOverrideModal ==
    /\ OnSlashing /\ Decidable
    /\ \E open \in {content.dialogs, content.dialogs \ {"detail"}} :
          content' = [content EXCEPT !.dialogs = open \cup {"override"}, !.reason = FALSE]
    /\ UNCHANGED <<tables, adminUser, contents>>

EnterReason ==
    /\ OnSlashing /\ "override" \in content.dialogs /\ content.selected # NoRow
    /\ content' = [content EXCEPT !.reason = ~@]
    /\ UNCHANGED <<tables, adminUser, contents>>

\* a button closes its dialog, Escape both
CloseModal ==
    /\ OnSlashing
    /\ \E closed \in SUBSET content.dialogs : content' = [content EXCEPT !.dialogs = @ \ closed]
    /\ UNCHANGED <<tables, adminUser, contents>>

\* A decision is a change of the list; nothing is sent anywhere.
Decide(status) ==
    {IF r.id = content.selected.id THEN [r EXCEPT !.status = status] ELSE r : r \in content.rows}

overrideSlashKeepingSelection ==
    /\ OnSlashing /\ "override" \in content.dialogs /\ content.reason /\ content.selected # NoRow
    /\ content' = [content EXCEPT !.rows = Decide("overridden"), !.dialogs = {}]
    /\ UNCHANGED <<tables, adminUser, contents>>

\* It asks for a reason, and not for the status of the event
overrideSlash ==
    /\ OnSlashing /\ "override" \in content.dialogs /\ content.reason /\ content.selected # NoRow
    /\ content' = [content EXCEPT !.rows = Decide("overridden"), !.dialogs = {}, !.selected = NoRow]
    /\ UNCHANGED <<tables, adminUser, contents>>

\* It leaves the dialog of the override as it is
executeSlash ==
    /\ OnSlashing /\ Decidable
    /\ content' = [content EXCEPT !.rows = Decide("executed"), !.dialogs = @ \ {"detail"}, !.selected = NoRow]
    /\ UNCHANGED <<tables, adminUser, contents>>

AdminPagesNext ==
    \/ \E u \in {"out", "viewer", "admin"} : useRequireAuth(u)
    \/ \E name \in AdminNames : RequireAuth(name)
    \/ LoadData
    \/ \E s \in SlashStatuses \cup {"none"} : FilterStatus(s)
    \/ \E e \in content.rows : openDetailModal(e)
    \/ openOverrideModal \/ EnterReason \/ CloseModal \/ overrideSlash \/ executeSlash

AdminPagesSpec == AdminPagesInit /\ [][AdminPagesNext]_adminPagesVars

(***************************************************************************)
(* Properties.                                                             *)
(***************************************************************************)
\* A slash is executed when its event is pending, never after it was overridden
\* or disputed, by whichever sequence of decisions, filters and dialogs: the
\* buttons of the panel look at the copy of the event taken when it was clicked
\* (selectedEvent), which must not outlive a change of its entry in the list.
ExecutedWasPending ==
    [][ content.phase = "rows" /\ content'.phase = "rows" =>
          \A e \in content'.rows : e.status = "executed" =>
             \E r \in content.rows : r.id = e.id /\ r.status \in {"pending", "executed"} ]_adminPagesVars

\* Not kept: a slash once decided is not decided again.  An event can be chosen
\* behind the dialog of the override, which then overrides it whatever it is.
SlashDecisionFinal ==
    [][ content.phase = "rows" /\ content'.phase = "rows" =>
          \A e \in content.rows : e.status \in {"executed", "overridden"} => e \in content'.rows ]_adminPagesVars
=============================================================================
