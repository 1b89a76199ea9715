---------------------------- MODULE Preferences ----------------------------
(***************************************************************************)
(* The settings page, app/(dashboard)/settings/page.tsx, with the profile  *)
(* and preference calls of lib/supabase.ts.                                *)
(*                                                                         *)
(* One button saves everything: the profile, then the notification keys    *)
(* all at once, then the node preferences.  The first refusal of the       *)
(* second group ends the handler while the other writes are still on their *)
(* way; they land when they land, after a later save as well.  Preferences *)
(* are loaded when the page mounts and whenever the user object changes.   *)
(***************************************************************************)
EXTENDS Naturals

CONSTANTS
    NotifKeys,     \* keys of user_notification_prefs
    MaxSaves,      \* bound: saves started
    MaxEdits,      \* bound: fields changed
    MaxLoads       \* bound: loads under way

ASSUME PreferencesConstants == {MaxSaves, MaxEdits, MaxLoads} \subseteq Nat \ {0}

VARIABLES
    settings,      \* the page: what it shows and whether it is saving
    saving,        \* the handler of the last save
    strays,        \* writes a failed save left on their way
    loads,         \* loads under way
    stored,        \* key -> value in the database
    authSession,       \* "live", "lost" (the client does not know yet), "ended"
    deletion,      \* "asking", "deleting" or "done": the dialog that deletes the account
    saves,         \* saves started so far
    edits,         \* fields changed so far
    overtaken      \* history: keys a stray write has set since the last save began

preferencesVars == <<settings, saving, strays, loads, stored, authSession, deletion, saves, edits, overtaken>>

PrefKeys == NotifKeys \cup {"profile", "node"}
\* a row that is missing reads as the default
Defaults == [k \in PrefKeys |-> k \in NotifKeys]

SettingsPage == [open |-> TRUE, section |-> "fields", prefs |-> Defaults,
                 isSaving |-> FALSE, saved |-> 0]     \* saved: timers of the label "Saved"
Idle == [stage |-> "idle", values |-> Defaults, left |-> {}, mounted |-> FALSE]

\* The fields of each section.  Security has none that is saved; the danger
\* zone has the dialog instead, and no save button.
ProfileSection == {"profile"}
NodeSection == {"node"}
NotificationsSection == NotifKeys
SecuritySection == {}
Editable == ProfileSection \cup NodeSection \cup NotificationsSection \cup SecuritySection
SaveButton == settings.section = "fields" /\ ~settings.isSaving

PreferencesInit ==
    /\ settings = SettingsPage /\ saving = Idle /\ strays = {}
    /\ loads = {[nr |-> 1, at |-> "asked", prefs |-> Defaults]}
    /\ stored \in {Defaults, [Defaults EXCEPT !["node"] = TRUE]}
    /\ authSession = "live" /\ deletion = "asking" /\ saves = 0 /\ edits = 0 /\ overtaken = {}

(***************************************************************************)
(* Loading.                                                                *)
(***************************************************************************)
\* prefsApi.get...: an error, or no user, is answered with the defaults
getPrefs(failed) == IF failed \/ authSession # "live" THEN Defaults ELSE stored

LoadRead(l) ==
    /\ l.at = "asked"
    /\ \E failed \in BOOLEAN :
          loads' = (loads \ {l}) \cup {[l EXCEPT !.at = "read", !.prefs = getPrefs(failed)]}
    /\ UNCHANGED <<settings, saving, strays, stored, authSession, deletion, saves, edits, overtaken>>

\* The answers set the fields, whatever has been typed in the meantime; the
\* name is not loaded
loadPrefs(l) ==
    /\ l.at = "read"
    /\ loads' = loads \ {l}
    /\ settings' = IF settings.open
                   THEN [settings EXCEPT !.prefs = [l.prefs EXCEPT !["profile"] = settings.prefs["profile"]]]
                   ELSE settings
    /\ UNCHANGED <<saving, strays, stored, authSession, deletion, saves, edits, overtaken>>

\* A new user object (a refreshed token): the name is reset, the rest is loaded again
UserRefreshed ==
    /\ authSession = "live" /\ settings.open
    /\ \E n \in 1..MaxLoads :
          /\ {l.nr : l \in loads} \cap 1..n = 1..(n - 1)
          /\ loads' = loads \cup {[nr |-> n, at |-> "asked", prefs |-> Defaults]}
    /\ settings' = [settings EXCEPT !.prefs["profile"] = Defaults["profile"]]
    /\ UNCHANGED <<saving, strays, stored, authSession, deletion, saves, edits, overtaken>>

(***************************************************************************)
(* Editing and saving.                                                     *)
(***************************************************************************)
OpenSection(s) ==
    /\ settings.open /\ settings.section # "dialog"
    /\ settings' = [settings EXCEPT !.section = s]
    /\ UNCHANGED <<saving, strays, loads, stored, authSession, deletion, saves, edits, overtaken>>

EditPref(k) ==
    /\ settings.open /\ settings.section = "fields" /\ edits < MaxEdits
    /\ settings' = [settings EXCEPT !.prefs[k] = ~@]
    /\ edits' = edits + 1
    /\ UNCHANGED <<saving, strays, loads, stored, authSession, deletion, saves, overtaken>>

\* Without a user nothing is written, and "Saved" is shown all the same.
handleSave ==
    /\ settings.open /\ SaveButton /\ saves < MaxSaves
    /\ saves' = saves + 1
    /\ IF authSession = "ended"
       THEN settings' = [settings EXCEPT !.saved = @ + 1] /\ UNCHANGED <<saving, overtaken>>
       ELSE /\ settings' = [settings EXCEPT !.isSaving = TRUE]
            /\ saving' = [stage |-> "profile", values |-> settings.prefs, left |-> NotifKeys, mounted |-> TRUE]
            /\ overtaken' = {}
    /\ UNCHANGED <<strays, loads, stored, authSession, deletion, edits>>

\* catch and finally: the error is dropped, the label of an earlier save stays
SaveFailed ==
    /\ saving' = Idle
    /\ settings' = IF saving.mounted THEN [settings EXCEPT !.isSaving = FALSE] ELSE settings

\* profileApi.update answers one row or throws; without a session it finds none
UpdateProfile ==
    /\ saving.stage = "profile"
    /\ \/ /\ authSession = "live"
          /\ stored' = [stored EXCEPT !["profile"] = saving.values["profile"]]
          /\ saving' = [saving EXCEPT !.stage = "notifs"]
          /\ UNCHANGED settings
       \/ SaveFailed /\ UNCHANGED stored
    /\ UNCHANGED <<strays, loads, authSession, deletion, saves, edits, overtaken>>

\* An upsert: without a session it returns, and nothing is written.
Upsert(k, v) == stored' = IF authSession = "live" THEN [stored EXCEPT ![k] = v] ELSE stored

setNotificationPref(k) ==
    /\ saving.stage = "notifs" /\ k \in saving.left
    /\ Upsert(k, saving.values[k])
    /\ saving' = [saving EXCEPT !.left = @ \ {k}, !.stage = IF saving.left = {k} THEN "node" ELSE @]
    /\ UNCHANGED <<settings, strays, loads, authSession, deletion, saves, edits, overtaken>>

NotificationPrefIgnored(k) ==
    /\ saving.stage = "notifs" /\ k \in saving.left /\ authSession = "live"
    /\ saving' = [saving EXCEPT !.left = @ \ {k}, !.stage = IF saving.left = {k} THEN "node" ELSE @]
    /\ UNCHANGED <<settings, strays, loads, stored, authSession, deletion, saves, edits, overtaken>>

\* Promise.all rejects at the first refusal; the other writes are not cancelled
NotificationPrefRefused(k) ==
    /\ saving.stage = "notifs" /\ k \in saving.left /\ authSession = "live"
    /\ strays' = strays \cup {[nr |-> saves, key |-> j, value |-> saving.values[j]] : j \in saving.left \ {k}}
    /\ SaveFailed
    /\ UNCHANGED <<loads, stored, authSession, deletion, saves, edits, overtaken>>

StrayWritten(w) ==
    /\ strays' = strays \ {w}
    /\ \/ Upsert(w.key, w.value) /\ overtaken' = overtaken \cup {w.key}
       \/ UNCHANGED <<stored, overtaken>>
    /\ UNCHANGED <<settings, saving, loads, authSession, deletion, saves, edits>>

saveNodeProviderPrefs ==
    /\ saving.stage = "node"
    /\ \/ /\ Upsert("node", saving.values["node"])
          /\ settings' = IF saving.mounted THEN [settings EXCEPT !.isSaving = FALSE, !.saved = @ + 1] ELSE settings
          /\ saving' = Idle
       \/ authSession = "live" /\ SaveFailed /\ UNCHANGED stored
    /\ UNCHANGED <<strays, loads, authSession, deletion, saves, edits, overtaken>>

\* Every timer takes the label away, that of an earlier save included; the
\* count stands for the label and for the timers still running
SavedEnds ==
    /\ settings.open /\ settings.saved > 0
    /\ settings' = [settings EXCEPT !.saved = @ - 1]
    /\ UNCHANGED <<saving, strays, loads, stored, authSession, deletion, saves, edits, overtaken>>

(***************************************************************************)
(* The dialog that deletes the account.                                    *)
(***************************************************************************)
\* "Delete Account", and "Cancel" or a click beside the dialog, whose state
\* and whose handler outlive it
DeleteAccountModal ==
    /\ settings.open /\ settings.section # "fields"
    /\ settings' = [settings EXCEPT !.section = IF @ = "danger" THEN "dialog" ELSE "danger"]
    /\ UNCHANGED <<saving, strays, loads, stored, authSession, deletion, saves, edits, overtaken>>

\* with the e-mail typed in, which the button waits for
handleDelete ==
    /\ settings.open /\ settings.section = "dialog" /\ deletion = "asking"
    /\ authSession # "ended"
    /\ deletion' = "deleting"
    /\ UNCHANGED <<settings, saving, strays, loads, stored, authSession, saves, edits, overtaken>>

\* The answer is not looked at, and neither is the error signOut returns;
\* only a request that gets no answer is caught
DeleteAnswered ==
    /\ deletion = "deleting"
    /\ \/ \E s \in {authSession, "ended"} :
             deletion' = "done" /\ authSession' = s
       \/ deletion' = "asking" /\ UNCHANGED authSession
    /\ UNCHANGED <<settings, saving, strays, loads, stored, saves, edits, overtaken>>

\* The redirect, or the user, leaves the page: its handlers go on without it.
LeaveSettings ==
    /\ settings.open
    /\ settings' = [SettingsPage EXCEPT !.open = FALSE]
    /\ saving' = [saving EXCEPT !.mounted = FALSE]
    /\ UNCHANGED <<strays, loads, stored, authSession, deletion, saves, edits, overtaken>>

SessionLost ==
    /\ authSession = "live" /\ authSession' = "lost"
    /\ UNCHANGED <<settings, saving, strays, loads, stored, deletion, saves, edits, overtaken>>

PreferencesNext ==
    \/ \E l \in loads : LoadRead(l) \/ loadPrefs(l)
    \/ UserRefreshed
    \/ \E s \in {"fields", "danger"} : OpenSection(s)
    \/ \E k \in Editable : EditPref(k)
    \/ handleSave \/ UpdateProfile \/ saveNodeProviderPrefs \/ SavedEnds
    \/ \E k \in NotifKeys : setNotificationPref(k) \/ NotificationPrefRefused(k)
    \/ \E w \in strays : StrayWritten(w)
    \/ DeleteAccountModal \/ handleDelete \/ DeleteAnswered \/ LeaveSettings \/ SessionLost

PreferencesSpec == PreferencesInit /\ [][PreferencesNext]_preferencesVars

(***************************************************************************)
(* Properties.                                                             *)
(***************************************************************************)
\* "Saved" was written: when a save with a live session announces itself,
\* every preference has the value it had when the button was pressed.  Only a
\* write that an earlier, failed save left on its way may have replaced it.
SavedWasWritten ==
    [][ settings'.saved > settings.saved /\ authSession = "live" =>
          \A k \in PrefKeys \ overtaken : stored'[k] = saving.values[k] ]_preferencesVars

\* Not kept: with such a write on its way, "Saved" does not mean stored.
SavedIsStored ==
    [][ settings'.saved > settings.saved /\ authSession = "live" =>
          \A k \in PrefKeys : stored'[k] = saving.values[k] ]_preferencesVars
=============================================================================
