------------------------------ MODULE Session ------------------------------
(***************************************************************************)
(* Signing in, being sent from page to page, and taking up the service:    *)
(* the provider of the session (supabase-auth-provider.tsx), useAuth       *)
(* (hooks/use-auth.ts), the layout of the dashboard, the login and signup  *)
(* pages, the page an OAuth provider comes back to, the two onboarding     *)
(* pages and the linking of a wallet (hooks/use-wallet-link.ts with the    *)
(* backend's handlers/wallet_link.go).                                     *)
(*                                                                         *)
(* The session belongs to the browser: another tab may sign in or out at   *)
(* any time, and the page learns of it by an event.  One of the three      *)
(* scenes is on stage at a time.  The page a router.push leads to is there *)
(* at once; FormPages has the time it takes.                               *)
(***************************************************************************)
EXTENDS Naturals, FiniteSets

CONSTANTS
    Users,         \* accounts of the service
    MaxChanges,    \* bound: times the session changes
    MaxOpens,     \* bound: pages the user opens himself
    MaxTries       \* bound: keys generated, links tried

ASSUME SessionConstants ==
    {MaxChanges, MaxOpens, MaxTries} \subseteq Nat \ {0} /\ Users \cap {"none", "loading"} = {}

VARIABLES
    scene,         \* "signin", "onboarding" or "link"
    session,       \* the session of the browser: a user or "none"
    known,         \* what the provider holds: a user, "none", or "loading"
    place,         \* the page on the screen; "error" once a rendering has thrown
    hooks,         \* hooks of the layout's last rendering: "unmounted", "short" or "long"
    callback,      \* handleCallback: "idle", "reading", "asking", and whose session it read
    oauth,         \* oauthLoading with what it waits for: "idle", "asked" or "stuck"
    userType,      \* the persisted user type: whose it is, or "none"
    changes,       \* counters: changes of the session,
    opens,        \* pages, and OAuth providers, opened by the user,
    pushes,        \* pages opened by the program
    onb,           \* the onboarding page: which application, step, role, calls under way, results
    profile,       \* the user's row of profiles
    keys,          \* keys stored in api_keys
    tries,         \* counter: keys generated, links tried
    link,          \* a link of a wallet under way, with what it has in hand
    wallet,        \* address connected in the wallet, and what useWalletLink shows
    nonceStore,    \* WalletLinkHandler.nonceStore
    links          \* history: what was written to profiles.wallet_address, by which
                   \* nonce and whose signature, and whether the nonce had linked before

signinVars == <<session, known, place, hooks, callback, oauth, userType, changes, opens, pushes>>
onboardingVars == <<onb, profile, keys>>
linkVars == <<link, wallet, nonceStore, links>>
sessionVars == <<scene, tries, signinVars, onboardingVars, linkVars>>

SignedIn(u) == u \in Users
NoCallback == [at |-> "idle", as |-> "none"]
\* A signature, as it is sent: digits with or without "0x" before them, whose
\* last byte is 0 or 1 ("low"), or 27 or 28 ("high")
Unsigned == [hex |-> "0x", v |-> "high"]
NoLink == [at |-> "idle", by |-> "card", nonce |-> 0, signer |-> "none", sentFor |-> "none", signature |-> Unsigned]

SessionInit ==
    /\ scene \in {"signin", "onboarding", "link"}
    /\ session = "none" /\ known = "loading" /\ place = "login" /\ hooks = "unmounted"
    /\ callback = NoCallback /\ oauth = "idle" /\ userType = "none"
    /\ changes = 0 /\ opens = 0 /\ pushes = 0 /\ tries = 0
    /\ \E app \in {"web", "nodes"} :
         onb = [app |-> app, step |-> 0, role |-> "none", busy |-> {}, shown |-> 0,
                walletLinked |-> FALSE, nodeRegistered |-> FALSE, fields |-> FALSE, left |-> FALSE]
    /\ profile = [user_type |-> "none", onboarding_completed |-> FALSE]
    /\ keys = {}
    /\ link = NoLink
    /\ wallet = [address |-> "none", linkError |-> FALSE, linkSuccess |-> FALSE]
    /\ nonceStore = {} /\ links = {}

(***************************************************************************)
(* Signing in and being sent on.                                           *)
(***************************************************************************)
OtherThanSignin == scene = "signin" /\ UNCHANGED <<scene, tries, onboardingVars, linkVars>>

\* A rendering of the layout: the effect that sends a signed-out visitor to
\* the login page is a hook of its own, called in that case only, and React
\* refuses a rendering whose number of hooks is not the last one's.
HooksFor(u) == IF u = "none" THEN "long" ELSE "short"
DashboardLayout(u) ==
    IF hooks \in {"unmounted", HooksFor(u)} THEN place' = "dashboard" /\ hooks' = HooksFor(u)
                                            ELSE place' = "error" /\ hooks' = "unmounted"

LayoutRendered(u) == IF place = "dashboard" THEN DashboardLayout(u) ELSE UNCHANGED <<place, hooks>>

\* The page in front of the user changes; the layout of the dashboard mounts anew
Goto(p) == place' = p /\ hooks' = IF p = "dashboard" THEN HooksFor(known) ELSE "unmounted"

\* getSession().then(...), and the listener: both take over what the browser has
SupabaseAuthProvider ==
    /\ known # session
    /\ known' = session
    /\ LayoutRendered(session)
    /\ UNCHANGED <<session, callback, oauth, userType, changes, opens, pushes>> /\ OtherThanSignin

\* signIn and signOut of this tab or another one
SessionChanges(u) ==
    /\ changes < MaxChanges /\ u # session
    /\ session' = u /\ changes' = changes + 1

\* login of use-auth.ts: an error is put on the page, a session comes with an event
login(u) ==
    /\ known # "loading"
    /\ SessionChanges(u) /\ SignedIn(u)
    /\ UNCHANGED <<known, place, hooks, callback, oauth, userType, opens, pushes>> /\ OtherThanSignin

LoginForm(u) == place = "login" /\ login(u)
\* The signup page calls the same function: it creates no account
SignupPage(u) == place = "signup" /\ login(u)

AnotherTab(u) ==
    /\ SessionChanges(u)
    /\ UNCHANGED <<known, place, hooks, callback, oauth, userType, opens, pushes>> /\ OtherThanSignin

\* The header's handleLogout: signOut, setUser(null), push("/"); the rendering
\* that throws in between is replaced by the page pushed
handleLogout ==
    /\ place = "dashboard" /\ SignedIn(known)
    /\ SessionChanges("none")
    /\ known' = "none"
    /\ Goto("home") /\ pushes' = pushes + 1
    /\ UNCHANGED <<callback, oauth, userType, opens>> /\ OtherThanSignin

\* logout of useAuth, which the sidebar and the menu of a small screen call:
\* what the provider holds changes with the event only, and both it and the
\* handler that awaits it push "/"
logout ==
    /\ place = "dashboard" /\ SignedIn(known)
    /\ SessionChanges("none")
    /\ Goto("home") /\ pushes' = pushes + 2
    /\ UNCHANGED <<known, callback, oauth, userType, opens>> /\ OtherThanSignin

RedirectAlways ==
    /\ place \in {"login", "signup"} /\ known # "loading"
    /\ Goto("dashboard") /\ pushes' = pushes + 1
    /\ UNCHANGED <<session, known, callback, oauth, userType, changes, opens>> /\ OtherThanSignin

\* "Redirect if already authenticated"
RedirectIfAuthenticated ==
    /\ place \in {"login", "signup"} /\ SignedIn(known)
    /\ Goto("dashboard") /\ pushes' = pushes + 1
    /\ UNCHANGED <<session, known, callback, oauth, userType, changes, opens>> /\ OtherThanSignin

\* The effects of a layout that was mounted for a visitor already known to be
\* signed out: useAuth's, with the returnUrl, on the routes it knows as
\* protected, and then the layout's own; each pushes a page
RedirectToLogin ==
    /\ place = "dashboard" /\ hooks = "long" /\ known = "none"
    /\ Goto("login") /\ pushes' \in {pushes + 1, pushes + 2}
    /\ UNCHANGED <<session, known, callback, oauth, userType, changes, opens>> /\ OtherThanSignin

\* A link within the application, or an address typed: then the provider starts over
OpenPage(p) ==
    /\ opens < MaxOpens /\ opens' = opens + 1
    /\ p \in {"login", "signup", "dashboard"}
    /\ \/ Goto(p) /\ place # "error" /\ UNCHANGED known
       \/ place' = p /\ known' = "loading" /\ hooks' = IF p = "dashboard" THEN "short" ELSE "unmounted"
    /\ callback' = NoCallback /\ oauth' = "idle"
    /\ UNCHANGED <<session, userType, changes, pushes>> /\ OtherThanSignin

\* handleOAuthSignIn: only an exception brings the buttons back, an error
\* that signInWithOAuth returns does not
handleOAuthSignIn ==
    /\ place \in {"login", "signup"} /\ known # "loading" /\ oauth = "idle"
    /\ oauth' = "asked"
    /\ opens < MaxOpens /\ opens' = opens + 1
    /\ UNCHANGED <<session, known, place, hooks, callback, userType, changes, pushes>> /\ OtherThanSignin

OAuthAnswered(u) ==
    /\ oauth = "asked"
    /\ \/ oauth' \in {"idle", "stuck"} /\ UNCHANGED <<session, known, place, hooks, callback, changes>>
       \/ /\ oauth' = "idle" /\ place' = "callback" /\ hooks' = "unmounted" /\ known' = "loading"
          /\ callback' = [at |-> "reading", as |-> "none"]
          /\ IF u = session THEN UNCHANGED <<session, changes>> ELSE SessionChanges(u)
    /\ UNCHANGED <<userType, opens, pushes>> /\ OtherThanSignin

\* handleCallback up to its second await: the type of the metadata is stored
AuthCallbackPage ==
    /\ callback.at = "reading"
    /\ IF SignedIn(session)
       THEN /\ callback' = [at |-> "asking", as |-> session]
            /\ userType' \in {userType, session}
       ELSE callback' = NoCallback /\ UNCHANGED userType
    /\ UNCHANGED <<session, known, place, hooks, oauth, changes, opens, pushes>> /\ OtherThanSignin

\* and its end: the view's type is never null for a row that is there; an
\* answer without a row is taken for "not completed"
OnboardingStatus ==
    /\ callback.at = "asking"
    /\ callback' = NoCallback
    /\ \/ place' = "onboarding" /\ hooks' = "unmounted" /\ userType' \in {userType, callback.as}
       \/ Goto("dashboard") /\ userType' = callback.as
    /\ pushes' = pushes + 1
    /\ UNCHANGED <<session, known, oauth, changes, opens>> /\ OtherThanSignin

(***************************************************************************)
(* Onboarding, in the web application and in the one for nodes.            *)
(***************************************************************************)
OtherThanOnboarding == scene = "onboarding" /\ UNCHANGED <<scene, signinVars, linkVars>>
LastStep == IF onb.app = "web" THEN 2 ELSE 3

onboardingCanProceed ==
    CASE onb.app = "web" /\ onb.step = 0 -> onb.role # "none"
      [] onb.app = "nodes" /\ onb.step = 1 -> onb.walletLinked
      [] onb.app = "nodes" /\ onb.step = 2 -> onb.fields
      [] OTHER -> TRUE

\* The shell's button, which knows of no call under way; its "Back" is given no handler
onNext ==
    /\ ~onb.left /\ onboardingCanProceed
    /\ onb' = CASE onb.app = "web" /\ onb.step = 0 /\ onb.role = "provider" -> [onb EXCEPT !.left = TRUE]
                [] onb.step < LastStep -> [onb EXCEPT !.step = @ + 1]
                [] OTHER -> [onb EXCEPT !.busy = @ \cup {"complete"}]
    /\ UNCHANGED <<profile, keys, tries>> /\ OtherThanOnboarding

RoleCard(role) ==
    /\ ~onb.left /\ onb.app = "web" /\ onb.step = 0
    /\ onb' = [onb EXCEPT !.role = role]
    /\ UNCHANGED <<profile, keys, tries>> /\ OtherThanOnboarding

\* handleComplete: the web page looks at no error of the update before it
\* moves on, the one for nodes wants the address of a wallet first
CompleteAnswered ==
    /\ "complete" \in onb.busy
    /\ onb' = [onb EXCEPT !.busy = @ \ {"complete"}, !.left = onb.app = "web" \/ onb.walletLinked \/ @]
    /\ \/ UNCHANGED profile
       \/ /\ onb.app = "web" \/ onb.walletLinked
          /\ profile' = [user_type |-> IF onb.app = "web" THEN onb.role ELSE "provider", onboarding_completed |-> TRUE]
    /\ UNCHANGED <<keys, tries>> /\ OtherThanOnboarding

\* A button that starts a call is disabled while that call runs
Start(call, step) ==
    /\ ~onb.left /\ onb.step = step /\ call \notin onb.busy
    /\ tries < MaxTries /\ tries' = tries + 1
    /\ onb' = [onb EXCEPT !.busy = @ \cup {call}]
    /\ UNCHANGED <<profile, keys>> /\ OtherThanOnboarding

handleGenerateKey == onb.app = "web" /\ onb.shown = 0 /\ Start("key", 1)
handleLinkWallet == ~onb.walletLinked /\ Start("link", IF onb.app = "web" THEN 2 ELSE 1)
handleRegisterNode == onb.app = "nodes" /\ ~onb.nodeRegistered /\ onb.fields /\ Start("node", 2)

EnterFields ==
    /\ ~onb.left /\ onb.app = "nodes" /\ onb.step = 2
    /\ onb' = [onb EXCEPT !.fields = ~@]
    /\ UNCHANGED <<profile, keys, tries>> /\ OtherThanOnboarding

KeyShownDespiteError ==
    /\ "key" \in onb.busy
    /\ keys' \in {keys, keys \cup {tries}} /\ onb' = [onb EXCEPT !.busy = @ \ {"key"}, !.shown = tries]
    /\ UNCHANGED <<profile, tries>> /\ OtherThanOnboarding

\* The insert may have been made though its answer is an error; only an
\* answer without one shows the key, which is the one that was hashed
KeyAnswered ==
    /\ "key" \in onb.busy
    /\ \/ keys' = keys \cup {tries} /\ onb' = [onb EXCEPT !.busy = @ \ {"key"}, !.shown = tries]
       \/ keys' \in {keys, keys \cup {tries}} /\ onb' = [onb EXCEPT !.busy = @ \ {"key"}]
    /\ UNCHANGED <<profile, tries>> /\ OtherThanOnboarding

\* Both pages send a made-up address with a made-up signature, and take the
\* answer for what it says
LinkAnswered ==
    /\ "link" \in onb.busy
    /\ \E ok \in BOOLEAN : onb' = [onb EXCEPT !.busy = @ \ {"link"}, !.walletLinked = ok \/ @]
    /\ UNCHANGED <<profile, keys, tries>> /\ OtherThanOnboarding

NodeAnswered ==
    /\ "node" \in onb.busy
    /\ \E ok \in BOOLEAN : onb' = [onb EXCEPT !.busy = @ \ {"node"}, !.nodeRegistered = ok \/ @]
    /\ UNCHANGED <<profile, keys, tries>> /\ OtherThanOnboarding

(***************************************************************************)
(* Linking a wallet.                                                       *)
(***************************************************************************)
OtherThanLink == scene = "link" /\ UNCHANGED <<scene, signinVars, onboardingVars>>
Accounts == {"a", "b"}

\* Connect, disconnect and change of account, in the card or in the wallet
WalletAccount(a) ==
    /\ a # wallet.address
    /\ wallet' = [wallet EXCEPT !.address = a]
    /\ UNCHANGED <<link, nonceStore, links, tries>> /\ OtherThanLink

StartLink(by, address) ==
    /\ link.at = "idle"
    /\ tries < MaxTries /\ tries' = tries + 1
    /\ link' = [NoLink EXCEPT !.at = "challenge", !.by = by, !.sentFor = address]
    /\ UNCHANGED <<nonceStore, links>> /\ OtherThanLink

\* The card's button, gone once a link has succeeded; the functions it calls
\* keep the address of the rendering it was clicked in
signAndLink ==
    /\ wallet.address # "none" /\ ~wallet.linkSuccess
    /\ StartLink("card", wallet.address)
    /\ wallet' = [wallet EXCEPT !.linkError = FALSE, !.linkSuccess = FALSE]

\* Any other client of the two routes, with keys of its own
ApiClient(a) == StartLink("client", a) /\ UNCHANGED wallet

\* The end of a link: the card shows it, another client may send the same
\* request again when it has no answer or a bad one
Answered(ok) ==
    IF link.by = "card"
    THEN link' = NoLink /\ wallet' = [wallet EXCEPT !.linkSuccess = ok, !.linkError = ~ok] /\ UNCHANGED tries
    ELSE /\ \/ link' = NoLink /\ UNCHANGED tries
            \/ ~ok /\ tries < MaxTries /\ tries' = tries + 1 /\ link' = [link EXCEPT !.at = "verify"]
         /\ UNCHANGED wallet

LinkFailed ==
    /\ link' = NoLink
    /\ wallet' = [wallet EXCEPT !.linkError = @ \/ link.by = "card"]

\* GenerateChallenge keeps the nonce, and its answer may be lost
GenerateChallenge ==
    /\ link.at = "challenge"
    /\ nonceStore' = nonceStore \cup {[nonce |-> tries, expired |-> FALSE]}
    /\ \/ link' = [link EXCEPT !.at = "sign", !.nonce = tries] /\ UNCHANGED wallet
       \/ LinkFailed
    /\ UNCHANGED <<links, tries>> /\ OtherThanLink

\* Five minutes
NonceExpires(n) ==
    /\ ~n.expired
    /\ nonceStore' = (nonceStore \ {n}) \cup {[n EXCEPT !.expired = TRUE]}
    /\ UNCHANGED <<link, wallet, links, tries>> /\ OtherThanLink

\* signMessageAsync: the account of the moment signs, or the user refuses.
\* Wallets write "0x" and a v of 27 or 28, libraries any form
signMessage ==
    /\ link.at = "sign"
    /\ \/ /\ link.by = "card" /\ wallet.address # "none"
          /\ link' = [link EXCEPT !.at = "verify", !.signer = wallet.address]
          /\ UNCHANGED wallet
       \/ /\ link.by = "client"
          /\ \E a \in Accounts, signature \in [hex : {"0x", "bare"}, v : {"low", "high"}] :
                link' = [link EXCEPT !.at = "verify", !.signer = a, !.signature = signature]
          /\ UNCHANGED wallet
       \/ LinkFailed
    /\ UNCHANGED <<nonceStore, links, tries>> /\ OtherThanLink

\* hex.DecodeString takes digits only, crypto.SigToPub a v of 0 or 1 only
DecodeString(signature) == signature.hex = "bare"
SigToPub(signature) == signature.v = "low"

NonceHeld == {n \in nonceStore : n.nonce = link.nonce}
NonceLive == \E n \in NonceHeld : ~n.expired
Verified == NonceLive /\ DecodeString(link.signature) /\ SigToPub(link.signature) /\ link.signer = link.sentFor

\* A nonce is deleted when it has expired, and when a signature was accepted for it
NonceExpired == ~NonceLive
NonceSpent == ~NonceLive \/ Verified

\* VerifyAndLink up to the write of the profile
VerifyAndLink ==
    /\ link.at = "verify"
    /\ nonceStore' = IF NonceSpent THEN nonceStore \ NonceHeld ELSE nonceStore
    /\ IF Verified THEN link' = [link EXCEPT !.at = "write"] /\ UNCHANGED <<wallet, tries>> ELSE Answered(FALSE)
    /\ UNCHANGED links /\ OtherThanLink

\* The write, which may fail, or be made without its answer
LinkWalletToProfile ==
    /\ link.at = "write"
    /\ \E written, ok \in BOOLEAN :
          /\ ok => written
          /\ links' = IF written
                      THEN links \cup {[nonce |-> link.nonce, address |-> link.sentFor, signer |-> link.signer,
                                        again |-> \E l \in links : l.nonce = link.nonce]}
                      ELSE links
          /\ Answered(ok)
    /\ UNCHANGED nonceStore /\ OtherThanLink

SessionNext ==
    \/ SupabaseAuthProvider \/ handleLogout \/ logout \/ RedirectIfAuthenticated \/ RedirectToLogin
    \/ \E u \in Users : LoginForm(u) \/ SignupPage(u)
    \/ \E u \in Users \cup {"none"} : AnotherTab(u) \/ OAuthAnswered(u)
    \/ \E p \in {"login", "signup", "dashboard"} : OpenPage(p)
    \/ handleOAuthSignIn \/ AuthCallbackPage \/ OnboardingStatus
    \/ onNext \/ CompleteAnswered \/ handleGenerateKey \/ handleLinkWallet \/ handleRegisterNode
    \/ \E role \in {"client", "provider"} : RoleCard(role)
    \/ EnterFields \/ KeyAnswered \/ LinkAnswered \/ NodeAnswered
    \/ \E a \in Accounts \cup {"none"} : WalletAccount(a)
    \/ \E a \in Accounts : ApiClient(a)
    \/ signAndLink \/ GenerateChallenge \/ signMessage \/ VerifyAndLink \/ LinkWalletToProfile
    \/ \E n \in nonceStore : NonceExpires(n)

SessionSpec == SessionInit /\ [][SessionNext]_sessionVars

(***************************************************************************)
(* Properties.                                                             *)
(***************************************************************************)

\* The login page sends the signed-in on to the dashboard and the dashboard
\* sends the signed-out back: they never do so in turns.  Every change of the
\* session, and every page or OAuth provider the user chose, is followed by
\* two pages the program opens by itself at most: two because two effects send
\* a visitor to the login page, because the page the provider comes back to may
\* know the session before the layout does, and because signing out in the
\* sidebar pushes the home page twice.
RedirectsSettle == pushes <= 2 * (changes + opens)

\* The onboarding shows what the services have.  A key is shown once, so the
\* one shown is one the table has, though inserts lose their answers.
KeysShownAreStored == onb.shown # 0 => onb.shown \in keys

\* A wallet in a profile was proven (VerifyAndLink, LinkWalletToProfile): the
\* account linked is the one that signed, and a nonce links once, although a
\* request may be sent again whose write failed or whose answer was lost.
LinksAreProven == \A l \in links : l.signer = l.address /\ ~l.again

\* All three, of the session as a whole.
SessionSettles == RedirectsSettle /\ KeysShownAreStored /\ LinksAreProven

\* What a reader of the code would expect, and TLC refutes:
\* a visitor who is signed out is sent to the login page;
SignedOutReachesLogin == place # "error"
\* the user type shown is that of the user;
UserTypeIsOwn == SignedIn(known) /\ place = "dashboard" => userType \in {"none", known}
\* who leaves the onboarding has completed it;
LeftMeansCompleted == onb.left /\ onb.role # "provider" => profile.onboarding_completed
\* and has a node, in the application for nodes.
ProviderHasNode == onb.app = "nodes" /\ onb.left => onb.nodeRegistered
====
