----------------------------- MODULE FormPages -----------------------------
(***************************************************************************)
(* The pages of the two applications that are one form each: staking,      *)
(* withdrawing, registering, saving and inviting in apps/nodes, and the    *)
(* registration, top-up, team, key and webhook pages of apps/web.  Most of *)
(* them only wait where a service would be called.                         *)
(*                                                                         *)
(* A page is a record; one engine runs them all.  Its handler raises a     *)
(* busy flag and then goes through a chain of awaits.  Between two of them *)
(* the user may type, press, or leave: state set for a page that is gone   *)
(* is lost, while router.push still moves the tab, some time later: until  *)
(* the next page is there, the one that called it stays as it is.          *)
(***************************************************************************)
EXTENDS Naturals, Sequences, FiniteSets

CONSTANTS
    MaxAwaits,     \* bound: handlers and timers under way
    MaxOpened      \* bound: pages opened

ASSUME FormPagesConstants == {MaxAwaits, MaxOpened} \subseteq Nat \ {0}

VARIABLES
    form,          \* the mounted page
    awaits,        \* handlers and timers under way
    opened,        \* pages opened so far; the last one is mounted
    leaving,       \* a router.push was made whose page is not there yet
    redirects      \* history: <<opened page, its name, 1>> when a handler of it
                   \* has called router.push, the same with 2 when again

formPagesVars == <<form, awaits, opened, leaving, redirects>>

\* What a field holds: nothing, an amount of zero or less (in a field for
\* text, blanks), one within the limits the page states, or one beyond them.
Entries == {"empty", "zero", "fits", "over"}
Positive == {"fits", "over"}

(***************************************************************************)
(* What a handler does after an await: "lower" the busy flag, record that  *)
(* it is "done", start the "flash" of a label that a timer takes away,     *)
(* "add" an entry to the list and close the panel, or "push" the router.   *)
(* A page says for which entries its button is enabled (offered), for      *)
(* which its handler goes past its early returns (goes), the chain of      *)
(* effects, those of its catch block (fails), whether "done" replaces the  *)
(* form, and where it has a button that copies.                            *)
(***************************************************************************)
Plain(chain) ==
    [entries |-> {"fits"}, offered |-> {"fits"}, goes |-> {"fits"}, chain |-> chain,
     fails |-> {}, replaces |-> TRUE, copies |-> "never", items |-> {}]
Amount(offered, chain) ==
    [Plain(chain) EXCEPT !.entries = Entries, !.offered = offered, !.goes = Positive]

ThenRedirect == <<{"lower", "done"}, {"push"}>>

\* apps/nodes
DepositStakePage == Amount(Positive, ThenRedirect)
\* the button knows the limit of 11.5 ETH, the handler does not
WithdrawStakePage == Amount({"fits"}, ThenRedirect)
UnregisterNodePage == Plain(ThenRedirect)
WithdrawEarningsPage == Plain(ThenRedirect)
\* the browser refuses what its required, min and max attributes exclude; a
\* name of blanks and a price of zero pass
NewNodePage == [Amount(Entries, <<{"push"}>>) EXCEPT !.goes = {"zero", "fits"}]
NodeSettingsPage == [Plain(<<{"lower"}>>) EXCEPT !.entries = Entries, !.offered = Entries, !.goes = Entries]
AccountSettingsPage == [Plain(<<{"lower"}>>) EXCEPT !.entries = Entries, !.offered = Entries, !.goes = Entries]
NodeWalletPage == [Plain(<<{"lower"}>>) EXCEPT !.copies = "always"]

\* apps/web
\* validate wants every field filled in, and a stake of at least 10 ETH
validate == {"fits", "over"}
RegisterNodePage == [Amount(Entries, <<{"lower", "done"}>>) EXCEPT !.goes = validate]
TopupPage == Amount(Positive, <<{"lower", "done"}>>)
\* a toggle is an entry here: it takes the label "saved" away
NotificationsPage == [Plain(<<{"lower", "flash"}>>) EXCEPT !.replaces = FALSE]
TeamPage == [Amount(Entries, <<{"add", "lower"}>>) EXCEPT !.goes = Positive, !.items = {1, 2, 3}]
ApiKeysPage == [Amount(Positive, << >>) EXCEPT !.items = {1, 2}]
NewApiKeyPage == [Amount(Positive, <<{"done"}>>) EXCEPT !.fails = {"lower"}, !.copies = "done"]
ApiKeyCatchesNothing == [Plain(<<{"push"}>>) EXCEPT !.fails = {"log"}, !.copies = "always"]
ApiKeyPage == [Plain(<<{"push"}>>) EXCEPT !.fails = {"lower"}, !.copies = "always"]
WebhooksPage == [Plain(<< >>) EXCEPT !.offered = {}, !.items = {1, 2, 3}]
WebhookPage == [Plain(<< >>) EXCEPT !.offered = {}]
TestWebhookPage == [Plain(<<{"lower", "done"}>>) EXCEPT !.replaces = FALSE]
NewWebhookLowersFirst == Amount(Positive, <<{"lower", "push"}>>)
NewWebhookPage == Amount(Positive, <<{"push"}>>)
WalletSettingsPage == [Plain(<< >>) EXCEPT !.offered = {}, !.copies = "always"]
\* required, too, lets blanks pass; the flag is lowered before the page is left
NewProposalPage == [Amount(Entries, <<{"lower", "push"}>>) EXCEPT !.goes = {"zero", "fits", "over"}]
\* where the redirects lead: lists, which this module leaves out
ListPage == [Plain(<< >>) EXCEPT !.offered = {}]

FormPage ==
    [deposit |-> DepositStakePage, withdraw |-> WithdrawStakePage,
     unregister |-> UnregisterNodePage, earnings |-> WithdrawEarningsPage,
     newNode |-> NewNodePage, nodeSettings |-> NodeSettingsPage,
     account |-> AccountSettingsPage, nodeWallet |-> NodeWalletPage,
     register |-> RegisterNodePage, topup |-> TopupPage,
     notifications |-> NotificationsPage, team |-> TeamPage, apiKeys |-> ApiKeysPage,
     newApiKey |-> NewApiKeyPage, apiKey |-> ApiKeyPage, webhooks |-> WebhooksPage,
     webhook |-> WebhookPage, testWebhook |-> TestWebhookPage, newWebhook |-> NewWebhookPage,
     wallet |-> WalletSettingsPage, newProposal |-> NewProposalPage, list |-> ListPage]
FormNames == DOMAIN FormPage

(***************************************************************************)
(* The engine.                                                             *)
(***************************************************************************)
Here == FormPage[form.page]
Fresh(name) ==
    [page |-> name, entry |-> IF "empty" \in FormPage[name].entries THEN "empty" ELSE "fits",
     busy |-> FALSE, done |-> FALSE, flash |-> FALSE, items |-> FormPage[name].items,
     \* the forms of team and API keys are panels that a button opens
     panel |-> FormPage[name].items = {}]

FormPagesInit ==
    /\ \E name \in FormNames : form = Fresh(name)
    /\ awaits = {} /\ opened = 1
    /\ leaving = FALSE /\ redirects = {}

FormShown == form.panel /\ ~(form.done /\ Here.replaces)
Slots == (1..MaxAwaits) \ {a.slot : a \in awaits}
Begin(kind, at) ==
    \E s \in Slots :
        /\ \A t \in Slots : s <= t
        /\ awaits' = awaits \cup {[slot |-> s, kind |-> kind, visit |-> opened, page |-> form.page, at |-> at]}

\* A page appears, the one the user asked for or a router.push did: the last
\* of the two that was asked for.
Appears(name) ==
    /\ opened < MaxOpened
    /\ form' = Fresh(name) /\ opened' = opened + 1 /\ leaving' = FALSE
    /\ UNCHANGED <<awaits, redirects>>

Open(name) == Appears(name)
Navigated == leaving /\ Appears("list")

\* Typing, a preset, or a toggle; on the page of notifications a toggle also
\* takes the label away
Enter(entry) ==
    /\ FormShown /\ entry \in Here.entries
    /\ form' = [form EXCEPT !.entry = entry,
                            !.flash = IF form.page = "notifications" THEN FALSE ELSE @]
    /\ UNCHANGED <<awaits, opened, leaving, redirects>>

\* The handler up to its first await.  isLoading disables the button as well;
\* a handler without an await (a key created in the list) ends here
Submit ==
    /\ FormShown /\ form.entry \in Here.offered \cap Here.goes /\ ~form.busy
    /\ IF Here.chain = << >>
       THEN /\ \E k \in 1..3 \ form.items :
                  form' = [form EXCEPT !.items = @ \cup {k}, !.entry = "empty", !.panel = FALSE]
            /\ UNCHANGED awaits
       ELSE /\ form' = [form EXCEPT !.busy = TRUE, !.done = FALSE]
            /\ Begin("handler", 1)
    /\ UNCHANGED <<opened, leaving, redirects>>

\* The effects of one step of a handler on the page that started it.
After(effects) ==
    [form EXCEPT !.busy = @ /\ "lower" \notin effects,
                 !.done = @ \/ "done" \in effects,
                 !.flash = @ \/ "flash" \in effects,
                 !.items = IF "add" \in effects /\ @ # 1..3
                           THEN @ \cup {CHOOSE k \in 1..3 : k \notin @} ELSE @,
                 !.entry = IF "add" \in effects THEN "empty" ELSE @,
                 !.panel = @ /\ "add" \notin effects]

Redirect(a) == <<a.visit, a.page, IF <<a.visit, a.page, 1>> \in redirects THEN 2 ELSE 1>>

\* An await ends: the next effects of the chain, and whatever awaits after
\* them (the next await, or the timer of a label)
Continue(a) ==
    LET effects == FormPage[a.page].chain[a.at]
        last == a.at = Len(FormPage[a.page].chain)
        follow == IF ~last THEN {[a EXCEPT !.at = @ + 1]}
                  ELSE IF "flash" \in effects THEN {[a EXCEPT !.kind = "flash"]} ELSE {}
    IN /\ a.kind = "handler"
       /\ awaits' = (awaits \ {a}) \cup follow
       /\ form' = IF a.visit = opened THEN After(effects) ELSE form
       /\ IF "push" \in effects
          THEN leaving' = TRUE /\ redirects' = redirects \cup {Redirect(a)}
          ELSE UNCHANGED <<leaving, redirects>>
       /\ UNCHANGED opened

\* The call is refused: the catch block.
Refused(a) ==
    /\ a.kind = "handler" /\ FormPage[a.page].fails # {}
    /\ awaits' = awaits \ {a}
    /\ form' = IF a.visit = opened THEN After(FormPage[a.page].fails) ELSE form
    /\ UNCHANGED <<opened, leaving, redirects>>

handleCopyForever ==
    /\ Here.copies = "always"
    /\ form' = [form EXCEPT !.flash = TRUE]
    /\ UNCHANGED <<awaits, opened, leaving, redirects>>

handleCopy ==
    /\ \/ Here.copies = "always"
       \/ Here.copies = "done" /\ form.done
    /\ form' = [form EXCEPT !.flash = TRUE]
    /\ Begin("flash", 1)
    /\ UNCHANGED <<opened, leaving, redirects>>

\* setTimeout(() => setCopied(false)), the same for the label "saved"
FlashEnds(a) ==
    /\ a.kind = "flash"
    /\ awaits' = awaits \ {a}
    /\ form' = IF a.visit = opened THEN [form EXCEPT !.flash = FALSE] ELSE form
    /\ UNCHANGED <<opened, leaving, redirects>>

\* "Cancel" hides the panel whatever its handler is doing
TogglePanel ==
    /\ form.page \in {"team", "apiKeys"}
    /\ form' = [form EXCEPT !.panel = ~@]
    /\ UNCHANGED <<awaits, opened, leaving, redirects>>

\* removeMember, deleteKey, deleteWebhook; the first member is the admin,
\* which has no button
RemoveItem(k) ==
    /\ k \in form.items /\ ~(form.page = "team" /\ k = 1)
    /\ form' = [form EXCEPT !.items = @ \ {k}]
    /\ UNCHANGED <<awaits, opened, leaving, redirects>>

FormPagesNext ==
    \/ \E name \in FormNames : Open(name)
    \/ Navigated
    \/ \E entry \in Entries : Enter(entry)
    \/ Submit \/ handleCopy \/ TogglePanel
    \/ \E a \in awaits : Continue(a) \/ Refused(a) \/ FlashEnds(a)
    \/ \E k \in 1..3 : RemoveItem(k)

FormPagesSpec == FormPagesInit /\ [][FormPagesNext]_formPagesVars

(***************************************************************************)
(* Properties.                                                             *)
(***************************************************************************)
\* A form ends well (the handlers of the form pages).  One visit has one
\* handler at a time, and calls router.push once, although the page stays
\* until the next one is there: no sequence of clicks and timers makes a second
\* call, because from the click on either the busy flag or the view of success
\* keeps the button away.  The page of a new proposal alone lowers its flag
\* first.  A button is never left loading: while the form is shown and busy, a
\* handler that this visit started is still under way or a page is about to
\* appear, the refused calls of the pages of API keys included.  And "Copied"
\* and "Settings saved" go away: while one is shown, a timer of this visit that
\* takes it away runs, however often it is pressed.
FormsSettle ==
    /\ \A a, b \in awaits : a.kind = "handler" /\ b.kind = "handler" /\ a.visit = b.visit => a = b
    /\ \A r \in redirects : r[3] = 2 => r[2] = "newProposal"
    /\ form.busy /\ FormShown => leaving \/ \E a \in awaits : a.kind = "handler" /\ a.visit = opened
    /\ form.flash => \E a \in awaits : a.kind = "flash" /\ a.visit = opened

\* Not kept: a form is sent once.  A proposal can be sent again while its page
\* waits to be left.
FormsRedirectOnce == \A r \in redirects : r[3] = 1
=============================================================================
