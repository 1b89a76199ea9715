------------------------------- MODULE MCWeb -------------------------------
(***************************************************************************)
(* The web application on small instances.  Its areas share no state: what *)
(* one keeps, another neither reads nor writes, so a behaviour of all of   *)
(* them is an interleaving of a behaviour of each, and a property of one   *)
(* holds of the whole when it holds of the area.  A run explores one area  *)
(* at a time, the others resting in an initial state.                      *)
(* (WebProofs!AreasRunAlone proves that each behaves as it does alone.)    *)
(***************************************************************************)
EXTENDS JobPages, StakePages, FormPages, Preferences, AdminPages, NodePages,
        Sockets, Feeds, Session, Widgets, Analytics

VARIABLE area

pagesVars == <<jobPagesVars, stakePagesVars, formPagesVars, preferencesVars, adminPagesVars, nodePagesVars,
              analyticsVars>>
clientsVars == <<socketsVars, feedsVars, sessionVars, widgetsVars>>
webVars == <<area, pagesVars, clientsVars>>

Areas == {"jobs", "stake", "forms", "preferences", "admin", "nodes", "sockets", "feeds", "session", "widgets",
          "analytics"}

WebInit ==
    /\ area \in Areas
    /\ JobPagesInit
    /\ area # "jobs" => page = CHOOSE p \in TypedPages : TRUE
    /\ StakePagesInit
    /\ area # "stake" => host = "page" /\ chain = [balance |-> CHOOSE b \in Balances : TRUE, stake |-> 0]
    /\ FormPagesInit
    /\ area # "forms" => form = Fresh(CHOOSE name \in FormNames : TRUE)
    /\ PreferencesInit
    /\ area # "preferences" => stored = Defaults
    /\ AdminPagesInit
    /\ area # "admin" => tables = "schema"
    /\ NodePagesInit
    /\ area # "nodes" => nodePage = "list" /\ nodeList = CHOOSE list \in fetchNodes(nodeRows) : TRUE
    /\ SocketsInit
    /\ area # "sockets" => client = "ws"
    /\ FeedsInit
    /\ area # "feeds" => feed = "logs"
    /\ SessionInit
    /\ area # "session" => scene = "signin" /\ onb.app = "web"
    /\ WidgetsInit
    /\ area # "widgets" => widget = "tabs"
    /\ AnalyticsInit
    /\ area # "analytics" => chart = "uptime" /\ viewer = CHOOSE u \in Viewers : TRUE

Rest == UNCHANGED area

WebNext ==
    \/ /\ area = "jobs" /\ JobPagesNext /\ Rest
       /\ UNCHANGED <<stakePagesVars, formPagesVars, preferencesVars, adminPagesVars, nodePagesVars,
                      analyticsVars, clientsVars>>
    \/ /\ area = "stake" /\ StakePagesNext /\ Rest
       /\ UNCHANGED <<jobPagesVars, formPagesVars, preferencesVars, adminPagesVars, nodePagesVars,
                      analyticsVars, clientsVars>>
    \/ /\ area = "forms" /\ FormPagesNext /\ Rest
       /\ UNCHANGED <<jobPagesVars, stakePagesVars, preferencesVars, adminPagesVars, nodePagesVars,
                      analyticsVars, clientsVars>>
    \/ /\ area = "preferences" /\ PreferencesNext /\ Rest
       /\ UNCHANGED <<jobPagesVars, stakePagesVars, formPagesVars, adminPagesVars, nodePagesVars,
                      analyticsVars, clientsVars>>
    \/ /\ area = "admin" /\ AdminPagesNext /\ Rest
       /\ UNCHANGED <<jobPagesVars, stakePagesVars, formPagesVars, preferencesVars, nodePagesVars,
                      analyticsVars, clientsVars>>
    \/ /\ area = "nodes" /\ NodePagesNext /\ Rest
       /\ UNCHANGED <<jobPagesVars, stakePagesVars, formPagesVars, preferencesVars, adminPagesVars,
                      analyticsVars, clientsVars>>
    \/ /\ area = "sockets" /\ SocketsNext /\ Rest
       /\ UNCHANGED <<pagesVars, feedsVars, sessionVars, widgetsVars>>
    \/ /\ area = "feeds" /\ FeedsNext /\ Rest
       /\ UNCHANGED <<pagesVars, socketsVars, sessionVars, widgetsVars>>
    \/ /\ area = "session" /\ SessionNext /\ Rest
       /\ UNCHANGED <<pagesVars, socketsVars, feedsVars, widgetsVars>>
    \/ /\ area = "widgets" /\ WidgetsNext /\ Rest
       /\ UNCHANGED <<pagesVars, socketsVars, feedsVars, sessionVars>>
    \/ /\ area = "analytics" /\ AnalyticsNext /\ Rest
       /\ UNCHANGED <<jobPagesVars, stakePagesVars, formPagesVars, preferencesVars, adminPagesVars, nodePagesVars,
                      clientsVars>>

WebSpec == WebInit /\ [][WebNext]_webVars

\* The pages that list, draw or count rows show those they were given and
\* nothing else: the list of nodes and the timeline of one (filteredNodes,
\* NodeDetailPage), and the charts (fetchUptimeHistory and the like).
ListsShowRows == NodePagesShowRows /\ ChartsCountRows
=============================================================================
