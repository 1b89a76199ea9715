------------------------------- MODULE Feeds -------------------------------
(***************************************************************************)
(* What the web application keeps in the browser from what is pushed to    *)
(* it: the log lines of a job (useStreamingLogs of hooks/use-jobs.ts and   *)
(* jobs/[id]/logs), the updates of nodes, jobs and alerts                  *)
(* (hooks/use-sse-node.ts, use-sse-job.ts, use-sse-alert.ts) with their    *)
(* toasts, and the stores for notifications and for the layout.            *)
(*                                                                         *)
(* Logs come twice, by a query and by a channel, each at its own time.     *)
(* One of the four feeds is on stage at a time.                            *)
(***************************************************************************)
EXTENDS Naturals, Sequences, FiniteSets, Filters

CONSTANTS
    FeedNodes,     \* nodes, jobs or alerts that send updates
    MaxUpdates,    \* the 50 or 100 updates a list keeps
    MaxLogs,       \* bound: log lines written
    MaxFetches,    \* bound: queries for logs under way, and channels opened
    MaxEvents      \* bound: updates pushed, notifications added

ASSUME FeedsConstants == {MaxUpdates, MaxLogs, MaxFetches, MaxEvents} \subseteq Nat \ {0}

VARIABLES
    feed,          \* "logs", "updates", "notifications" or "layout"
    written,       \* number of log lines in the table
    logs,          \* the lines the page holds
    fetches,       \* queries under way: 0 before the table is read, then what was read
    channels,      \* subscriptions: joining or joined, and what they still have to deliver
    isPaused,      \* the page's switch
    selectedLevels,\* the page's filter
    updates,       \* useNodeUpdates, and the two lists like it
    pushed,        \* history: the updates pushed, latest last
    hookToasts,    \* the toasts of hooks/use-toast.ts
    uiToasts,      \* the toasts of components/ui/toast.tsx, which the layout shows
    notifications, \* the store's notifications, newest first
    unreadCount,   \* its counter
    layout         \* the store of the layout, and what it has in localStorage

logsVars == <<written, logs, fetches, channels, isPaused, selectedLevels>>
updatesVars == <<updates, pushed, hookToasts, uiToasts>>
notificationsVars == <<notifications, unreadCount>>
feedsVars == <<feed, logsVars, updatesVars, notificationsVars, layout>>

Expanded == [sidebarView |-> "expanded", sidebarCollapsed |-> FALSE, storedView |-> "expanded"]

FeedsInit ==
    /\ feed \in {"logs", "updates", "notifications", "layout"}
    /\ written = 0 /\ logs = << >> /\ isPaused = FALSE /\ selectedLevels = {}
    \* the effect has run: a query and a subscription are on their way
    /\ fetches = {[nr |-> 1, read |-> FALSE, upto |-> 0]}
    /\ channels = {[nr |-> 1, joined |-> FALSE, due |-> << >>]}
    /\ updates = [nodes |-> << >>, jobs |-> << >>, alerts |-> << >>] /\ pushed = << >> /\ hookToasts = {} /\ uiToasts = {}
    /\ notifications = << >> /\ unreadCount = 0
    /\ layout = Expanded

(***************************************************************************)
(* Logs.                                                                   *)
(***************************************************************************)
OtherThanLogs == UNCHANGED <<feed, updatesVars, notificationsVars, layout>>
NotFiltering == OtherThanLogs /\ UNCHANGED selectedLevels
Free(things) == (1..MaxFetches) \ {t.nr : t \in things}

\* The node writes a line; the channels that have joined will deliver it.
LogWritten ==
    /\ feed = "logs" /\ written < MaxLogs
    /\ written' = written + 1
    /\ channels' = {IF c.joined THEN [c EXCEPT !.due = Append(@, written + 1)] ELSE c : c \in channels}
    /\ UNCHANGED <<logs, fetches, isPaused>> /\ NotFiltering

ChannelJoined(c) ==
    /\ feed = "logs" /\ ~c.joined
    /\ channels' = (channels \ {c}) \cup {[c EXCEPT !.joined = TRUE]}
    /\ UNCHANGED <<written, logs, fetches, isPaused>> /\ NotFiltering

\* postgres_changes: appended to whatever is there
LogDelivered(c) ==
    /\ feed = "logs" /\ c.due # << >>
    /\ channels' = (channels \ {c}) \cup {[c EXCEPT !.due = Tail(@)]}
    /\ logs' = Append(logs, Head(c.due))
    /\ UNCHANGED <<written, fetches, isPaused>> /\ NotFiltering

fetchJobLogs(f) ==
    /\ feed = "logs" /\ ~f.read
    /\ fetches' = (fetches \ {f}) \cup {[f EXCEPT !.read = TRUE, !.upto = written]}
    /\ UNCHANGED <<written, logs, channels, isPaused>> /\ NotFiltering

\* .then(setLogs): it replaces what the channel has appended since, and runs
\* for a query started before the page was paused as well; an error is logged
FetchAnswered(f) ==
    /\ feed = "logs" /\ f.read
    /\ fetches' = fetches \ {f}
    /\ \/ logs' = [i \in 1..f.upto |-> i]
       \/ UNCHANGED logs
    /\ UNCHANGED <<written, channels, isPaused>> /\ NotFiltering

useStreamingLogsWithoutCleanup ==
    /\ feed = "logs"
    /\ isPaused' = ~isPaused
    /\ IF isPaused /\ Free(channels) # {}
       THEN channels' = channels \cup {[nr |-> 2, joined |-> FALSE, due |-> << >>]}
       ELSE UNCHANGED channels
    /\ UNCHANGED <<written, logs, fetches>> /\ NotFiltering

\* The switch of the page: the cleanup removes the channel, the effect asks
\* for everything again
useStreamingLogs ==
    /\ feed = "logs"
    /\ isPaused' = ~isPaused
    /\ IF isPaused
       THEN /\ \E n \in Free(fetches) :
                  /\ \A m \in Free(fetches) : n <= m
                  /\ fetches' = fetches \cup {[nr |-> n, read |-> FALSE, upto |-> 0]}
            /\ channels' = {[nr |-> 1, joined |-> FALSE, due |-> << >>]}
       ELSE channels' = {} /\ UNCHANGED fetches
    /\ UNCHANGED <<written, logs>> /\ NotFiltering

\* The levels of the lines, and what the page makes of its filter: no level
\* selected means all of them, and an empty list is a job without logs.
\* "Clear logs" has a handler that does nothing.
Levels == {"info", "error"}
LevelOf(line) == IF line = 2 THEN "error" ELSE "info"
filteredLogs == SelectSeq(logs, LAMBDA k : selectedLevels = {} \/ LevelOf(k) \in selectedLevels)
JobLogsPage == IF filteredLogs = << >> THEN "no logs yet" ELSE "lines"

handleToggleLevel(level) ==
    /\ feed = "logs"
    /\ selectedLevels' = IF level \in selectedLevels THEN selectedLevels \ {level} ELSE selectedLevels \cup {level}
    /\ UNCHANGED <<written, logs, fetches, channels, isPaused>> /\ OtherThanLogs

(***************************************************************************)
(* Updates of nodes, jobs and alerts.                                      *)
(***************************************************************************)
OtherThanUpdates == UNCHANGED <<feed, logsVars, notificationsVars, layout>>

Updates == [node : FeedNodes, status : {"online", "stale", "offline"}]
Newest(list, n) == SubSeq(list, 1, IF Len(list) < n THEN Len(list) ELSE n)

useNodeUpdatesUnfiltered(list, u) == Newest(<<u>> \o list, MaxUpdates)

\* one entry per node, the newest first; the lists of jobs and of alerts keep
\* every update
useNodeUpdates(list, u) ==
    Newest(<<u>> \o Filter(list, {v \in Updates : v.node # u.node}), MaxUpdates)
useJobUpdates(list, u) == Newest(<<u>> \o list, MaxUpdates)
handleAlert(list, u) == Newest(<<u>> \o list, MaxUpdates)

\* toast.error and toast.warning of hooks/use-toast.ts: the list they add to
\* has a hook, which no component uses
Toasted(u) == IF u.status \in {"offline", "stale"} THEN {u.node} ELSE {}

NodeChanged(n, s) ==
    LET u == [node |-> n, status |-> s]
    IN /\ feed = "updates" /\ Len(pushed) < MaxEvents
       /\ updates' = [nodes |-> useNodeUpdates(updates.nodes, u),
                      jobs |-> useJobUpdates(updates.jobs, u),
                      alerts |-> handleAlert(updates.alerts, u)]
       /\ pushed' = Append(pushed, u)
       /\ hookToasts' = hookToasts \cup Toasted(u)
       /\ UNCHANGED uiToasts /\ OtherThanUpdates

\* the timer of addToast
removeToast(t) ==
    /\ feed = "updates"
    /\ hookToasts' = hookToasts \ {t}
    /\ UNCHANGED <<updates, pushed, uiToasts>> /\ OtherThanUpdates

\* hidden, not removed: it still counts towards the length of the list
dismissAlert(n) ==
    /\ feed = "updates" /\ \E i \in DOMAIN updates.alerts : updates.alerts[i].node = n
    /\ updates' = [updates EXCEPT !.alerts =
                      [i \in DOMAIN @ |-> IF @[i].node = n THEN [@[i] EXCEPT !.status = "dismissed"] ELSE @[i]]]
    /\ UNCHANGED <<pushed, hookToasts, uiToasts>> /\ OtherThanUpdates

\* ToastContainer: the toasts on screen
ToastContainer == uiToasts

(***************************************************************************)
(* The stores.                                                             *)
(***************************************************************************)
OtherThanNotifications == UNCHANGED <<feed, logsVars, updatesVars, layout>>
Notifications == [id : 1..MaxEvents, read : BOOLEAN]
NotificationIds == {notifications[i].id : i \in DOMAIN notifications}
Unread(list) == Cardinality({i \in DOMAIN list : ~list[i].read})

addNotification(id) ==
    /\ feed = "notifications" /\ id \notin NotificationIds
    /\ notifications' = <<[id |-> id, read |-> FALSE]>> \o notifications
    /\ unreadCount' = unreadCount + 1
    /\ OtherThanNotifications

removeNotificationCountingAll(id) ==
    /\ feed = "notifications" /\ id \in NotificationIds
    /\ notifications' = Filter(notifications, {n \in Notifications : n.id # id})
    /\ unreadCount' = IF unreadCount = 0 THEN 0 ELSE unreadCount - 1
    /\ OtherThanNotifications

removeNotification(id) ==
    /\ feed = "notifications" /\ id \in NotificationIds
    /\ notifications' = Filter(notifications, {n \in Notifications : n.id # id})
    /\ unreadCount' = IF \E i \in DOMAIN notifications : notifications[i] = [id |-> id, read |-> FALSE]
                      THEN unreadCount - 1 ELSE unreadCount
    /\ OtherThanNotifications

markAsRead(id) ==
    /\ feed = "notifications"
    /\ \E i \in DOMAIN notifications :
          /\ notifications[i] = [id |-> id, read |-> FALSE]
          /\ notifications' = [notifications EXCEPT ![i].read = TRUE]
    /\ unreadCount' = IF unreadCount = 0 THEN 0 ELSE unreadCount - 1
    /\ OtherThanNotifications

markAllAsRead ==
    /\ feed = "notifications"
    /\ notifications' = [i \in DOMAIN notifications |-> [notifications[i] EXCEPT !.read = TRUE]]
    /\ unreadCount' = 0
    /\ OtherThanNotifications

clearAll ==
    /\ feed = "notifications"
    /\ notifications' = << >> /\ unreadCount' = 0
    /\ OtherThanNotifications

\* the sidebar; every change is written to localStorage, the view alone
setSidebar(view) ==
    /\ feed = "layout"
    /\ layout' = [sidebarView |-> view, sidebarCollapsed |-> view = "collapsed", storedView |-> view]
    /\ UNCHANGED <<feed, logsVars, updatesVars, notificationsVars>>
toggleSidebar ==
    \/ layout.sidebarView = "expanded" /\ setSidebar("collapsed")
    \/ layout.sidebarView = "collapsed" /\ setSidebar("expanded")

\* the page is loaded again: what was stored is merged into the initial state
partialize ==
    /\ feed = "layout"
    /\ layout' = [Expanded EXCEPT !.sidebarView = layout.storedView, !.storedView = layout.storedView]
    /\ UNCHANGED <<feed, logsVars, updatesVars, notificationsVars>>

FeedsNext ==
    \/ LogWritten \/ useStreamingLogs
    \/ \E level \in Levels : handleToggleLevel(level)
    \/ \E c \in channels : ChannelJoined(c) \/ LogDelivered(c)
    \/ \E f \in fetches : fetchJobLogs(f) \/ FetchAnswered(f)
    \/ \E n \in FeedNodes : (\E s \in {"online", "stale", "offline"} : NodeChanged(n, s)) \/ dismissAlert(n)
    \/ \E t \in hookToasts : removeToast(t)
    \/ \E id \in 1..MaxEvents : addNotification(id) \/ removeNotification(id) \/ markAsRead(id)
    \/ markAllAsRead \/ clearAll
    \/ toggleSidebar \/ partialize

FeedsSpec == FeedsInit /\ [][FeedsNext]_feedsVars

(***************************************************************************)
(* Properties.                                                             *)
(***************************************************************************)
\* The feeds are exact.  A log line is shown at most twice, once for the query
\* and once for the channel, however often the page is paused and resumed while
\* lines are written and answers are late: pausing takes the old channel away.
\* The list of node updates has one entry for a node, and it is the last one
\* that was pushed, as long as the list has room for the nodes.  And the
\* counter of the bell is the number of unread notifications, after any
\* sequence of additions, removals and readings; it is kept, not computed.
FeedsAreExact ==
    /\ \A k \in 1..MaxLogs : Cardinality({i \in DOMAIN logs : logs[i] = k}) <= 2
    /\ \A i \in DOMAIN updates.nodes :
          /\ \A j \in DOMAIN updates.nodes : updates.nodes[j].node = updates.nodes[i].node => i = j
          /\ \E k \in DOMAIN pushed :
                /\ pushed[k] = updates.nodes[i]
                /\ \A l \in (k + 1)..Len(pushed) : pushed[l].node # pushed[k].node
    /\ unreadCount = Unread(notifications)

\* Not kept: every line the table has is shown once nothing is under way.
LogsComplete ==
    feed = "logs" /\ fetches = {} /\ (\E c \in channels : c.joined /\ c.due = << >>) =>
        \A k \in 1..written : k \in {logs[i] : i \in DOMAIN logs}
\* Not kept: "No logs yet" is said of a job without logs.
EmptyMeansNoLogs == JobLogsPage = "no logs yet" => logs = << >>
\* Not kept: what is toasted is on screen.
ToastsShown == hookToasts \subseteq ToastContainer
\* Not kept: the two fields for the sidebar agree; a reload separates them.
SidebarAgrees == layout.sidebarCollapsed = (layout.sidebarView = "collapsed")
=============================================================================
