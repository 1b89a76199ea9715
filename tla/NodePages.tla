----------------------------- MODULE NodePages -----------------------------
(***************************************************************************)
(* The pages of the nodes in the web application: the list                 *)
(* ((dashboard)/nodes) with its search, filter, order and statistics, and  *)
(* the page of one node (nodes/[id]) with the timeline of its heartbeats.  *)
(*                                                                         *)
(* The list and the statistics above it are two queries on the same table, *)
(* each polled on its own; the timeline is fed by useNodeUpdates, whose    *)
(* list holds the updates of every node.                                   *)
(***************************************************************************)
EXTENDS Naturals, Sequences, FiniteSets, SequencesExt, Filters

CONSTANTS
    MaxNodes,       \* the rows of the table nodes
    MaxNodeUpdates, \* the 50 updates useNodeUpdates keeps
    MaxSlots,       \* the 288 slots of a timeline
    MaxRowChanges,  \* bound: changes of the table under the list
    MaxPushes       \* bound: rows pushed to the page of a node

ASSUME NodePagesConstants ==
    {MaxNodes, MaxNodeUpdates, MaxSlots, MaxRowChanges, MaxPushes} \subseteq Nat \ {0}

VARIABLES
    nodePage,      \* "list" or "detail"
    nodeRows,      \* the table: node -> its row
    nodeList,      \* useNodes: the rows of the last answer, in its order
    nodeStats,     \* useNetworkStats: what it computed from its own last answer
    query,         \* searchQuery: the node it names, or 0
    statusFilter,  \* the set of states asked for
    sorting,       \* sortField and sortDir
    nodeView,      \* "table" or "cards"
    nodeUpdates,   \* useNodeUpdates: newest first, one per node
    heartbeatSlots,\* the timeline of node 1, oldest first
    latest,        \* history: state of node 1 as last pushed, or "none"
    ownPushes,     \* history: pushes of node 1
    rowChanges

listVars == <<nodeList, nodeStats, query, statusFilter, sorting, nodeView>>
timelineVars == <<nodeUpdates, heartbeatSlots, latest, ownPushes>>
nodePagesVars == <<nodePage, nodeRows, rowChanges, listVars, timelineVars>>

NodeIds == 1..MaxNodes
\* the states the table admits, and the scores at which a tier changes
RowStatus == {"online", "offline", "busy"}
Scores == {0, 50, 100}

(***************************************************************************)
(* The list.                                                               *)
(***************************************************************************)
getReputationTier(score) ==
    CASE score >= 100 -> "gold" [] score >= 50 -> "silver" [] OTHER -> "bronze"

\* "busy" and "maintenance" are shown as online
mapNode(n, row) ==
    [id |-> n, status |-> IF row.status = "busy" THEN "online" ELSE row.status,
     reputation |-> row.score, tier |-> getReputationTier(row.score)]

\* .order('reputation_score', { ascending: false }): equal scores in any order
AnswerOrders(rows) ==
    {order \in [NodeIds -> NodeIds] :
        \A i, j \in NodeIds : i < j => order[i] # order[j] /\ rows[order[i]].score >= rows[order[j]].score}
fetchNodes(rows) ==
    {[k \in NodeIds |-> mapNode(order[k], rows[order[k]])] : order \in AnswerOrders(rows)}

useNetworkStats(rows) ==
    [total |-> Cardinality(NodeIds),
     online |-> Cardinality({n \in NodeIds : mapNode(n, rows[n]).status = "online"}),
     gold |-> Cardinality({n \in NodeIds : mapNode(n, rows[n]).tier = "gold"})]

\* localeCompare: the tiers in the order of the alphabet
TierRank(tier) == CASE tier = "bronze" -> 1 [] tier = "gold" -> 2 [] OTHER -> 3
SortKey(node, field) == IF field = "tier" THEN TierRank(node.tier) ELSE node.reputation

FilterKeepsUnasked(list) ==
    Filter(list, {n \in ToSet(list) : query \in {0, n.id}})
FilterNodes(list) ==
    Filter(list, {n \in ToSet(list) : query \in {0, n.id} /\ (statusFilter = {} \/ n.status \in statusFilter)})

\* Array.prototype.sort is stable: equal keys stay in the order of the answer
Place(list, i) ==
    Cardinality({j \in DOMAIN list :
        LET a == SortKey(list[j], sorting.field)
            b == SortKey(list[i], sorting.field)
        IN \/ (IF sorting.dir = "asc" THEN a < b ELSE a > b)
           \/ a = b /\ j <= i})
SortNodes(list) ==
    [k \in DOMAIN list |-> list[CHOOSE i \in DOMAIN list : Place(list, i) = k]]

filteredNodes == SortNodes(FilterNodes(nodeList))

\* What the page shows below its filters: cards only where the screen is
\* narrow; and a list without a row as a network without nodes
NodesContent(isMobile) ==
    CASE (nodeView = "table" \/ ~isMobile) /\ filteredNodes = << >> -> "no nodes registered"
      [] (nodeView = "table" \/ ~isMobile) /\ filteredNodes # << >> -> "table"
      [] OTHER -> "cards"

InitialRows == [n \in NodeIds |-> [status |-> "online", score |-> IF n = 1 THEN 50 ELSE 0]]

NodePagesInit ==
    /\ nodePage \in {"list", "detail"}
    /\ nodeRows = InitialRows
    /\ nodeList \in fetchNodes(InitialRows) /\ nodeStats = useNetworkStats(InitialRows)
    /\ query = 0 /\ statusFilter = {} /\ sorting = [field |-> "reputation", dir |-> "desc"]
    /\ nodeView = "table"
    /\ nodeUpdates = << >> /\ heartbeatSlots = [k \in 1..MaxSlots |-> "generated"]
    /\ latest = "none" /\ ownPushes = 0
    /\ rowChanges = 0

OnList == nodePage = "list" /\ UNCHANGED <<nodePage, timelineVars>>
NotTable == UNCHANGED <<nodeRows, rowChanges>>

RowChanges(n, row) ==
    /\ rowChanges < MaxRowChanges /\ row # nodeRows[n]
    /\ nodeRows' = [nodeRows EXCEPT ![n] = row]
    /\ rowChanges' = rowChanges + 1
    /\ UNCHANGED listVars /\ OnList

\* refetchInterval of each query
useNodes ==
    /\ nodeList' \in fetchNodes(nodeRows)
    /\ UNCHANGED <<nodeStats, query, statusFilter, sorting, nodeView>> /\ NotTable /\ OnList
RefetchStats ==
    /\ nodeStats' = useNetworkStats(nodeRows)
    /\ UNCHANGED <<nodeList, query, statusFilter, sorting, nodeView>> /\ NotTable /\ OnList

handleSort(field) ==
    /\ sorting' = [field |-> field,
                   dir |-> IF sorting.field = field /\ sorting.dir = "desc" THEN "asc" ELSE "desc"]
    /\ UNCHANGED <<nodeList, nodeStats, query, statusFilter, nodeView>> /\ NotTable /\ OnList

handleStatusToggle(status) ==
    /\ statusFilter' = IF status \in statusFilter THEN statusFilter \ {status} ELSE statusFilter \cup {status}
    /\ UNCHANGED <<nodeList, nodeStats, query, sorting, nodeView>> /\ NotTable /\ OnList

StatusFilterPills ==
    \E status \in {"online", "stale", "offline", "slashed"} : handleStatusToggle(status)

Search(n) ==
    /\ query' = n
    /\ UNCHANGED <<nodeList, nodeStats, statusFilter, sorting, nodeView>> /\ NotTable /\ OnList

ClearFilters ==
    /\ query # 0 \/ statusFilter # {}
    /\ query' = 0 /\ statusFilter' = {}
    /\ UNCHANGED <<nodeList, nodeStats, sorting, nodeView>> /\ NotTable /\ OnList

ToggleView ==
    /\ nodeView' = IF nodeView = "table" THEN "cards" ELSE "table"
    /\ UNCHANGED <<nodeList, nodeStats, query, statusFilter, sorting>> /\ NotTable /\ OnList

(***************************************************************************)
(* The timeline of a node.                                                 *)
(***************************************************************************)
SlotOf(status) == CASE status = "online" -> "ok" [] status = "stale" -> "vramm_warn" [] OTHER -> "missed"

AppendSlotInFront(slots, status) == <<SlotOf(status)>> \o Tail(slots)
AppendSlot(slots, status) == Tail(slots) \o <<SlotOf(status)>>

\* A row is pushed.  The effect runs for every change of the list, and looks
\* for this node's entry in all of it: an update of another node adds a slot
\* to this node's timeline too, from the entry that is there.
HeartbeatTimeline(slots, list) ==
    LET own == Filter(list, {u \in ToSet(list) : u.node = 1})
    IN IF own = << >> THEN slots ELSE AppendSlot(slots, Head(own).status)
NodeDetailPage(n, status) ==
    /\ nodePage = "detail" /\ rowChanges < MaxPushes
    /\ rowChanges' = rowChanges + 1
    /\ LET list == <<[node |-> n, status |-> status]>> \o Filter(nodeUpdates, {u \in ToSet(nodeUpdates) : u.node # n})
       IN /\ nodeUpdates' = SubSeq(list, 1, IF Len(list) < MaxNodeUpdates THEN Len(list) ELSE MaxNodeUpdates)
          /\ heartbeatSlots' = HeartbeatTimeline(heartbeatSlots, nodeUpdates')
    /\ latest' = IF n = 1 THEN status ELSE latest
    /\ ownPushes' = IF n = 1 THEN ownPushes + 1 ELSE ownPushes
    /\ UNCHANGED <<nodePage, nodeRows, listVars>>

NodePagesNext ==
    \/ \E n \in NodeIds, s \in RowStatus, score \in Scores : RowChanges(n, [status |-> s, score |-> score])
    \/ useNodes \/ RefetchStats \/ ClearFilters \/ ToggleView
    \/ \E field \in {"reputation", "tier"} : handleSort(field)
    \/ StatusFilterPills
    \/ \E n \in {0} \cup NodeIds : Search(n)
    \/ \E n \in NodeIds, s \in RowStatus : NodeDetailPage(n, s)

NodePagesSpec == NodePagesInit /\ [][NodePagesNext]_nodePagesVars

(***************************************************************************)
(* Properties.                                                             *)
(***************************************************************************)

\* Whatever was typed, toggled and clicked in whichever order, and however
\* the rows changed under it, the table shows the nodes that match, each
\* once, every one before the ones with a smaller key.
ListAnswersQuestion ==
    LET shown == filteredNodes
    IN /\ ToSet(shown) = {n \in ToSet(nodeList) :
                            (query = 0 \/ n.id = query) /\ (statusFilter = {} \/ n.status \in statusFilter)}
       /\ \A i, j \in DOMAIN shown : i < j =>
             LET m == shown[i]
                 n == shown[j]
                 a == SortKey(m, sorting.field)
                 b == SortKey(n, sorting.field)
             IN m.id # n.id /\ IF sorting.dir = "asc" THEN a <= b ELSE a >= b

\* The last slot of the timeline tells the latest state pushed for the node,
\* however many updates of other nodes come in between, and the timeline
\* keeps its length.
TimelineEndsWithLatest ==
    /\ Len(heartbeatSlots) = MaxSlots
    /\ latest # "none" => heartbeatSlots[MaxSlots] = SlotOf(latest)

\* Both hold together: the list of useNodes and the timeline of
\* NodeDetailPage show the rows they were given, and nothing else.
NodePagesShowRows == ListAnswersQuestion /\ TimelineEndsWithLatest

\* What a reader of the page would expect, and TLC refutes:
\* one slot for each heartbeat of the node;
SlotsAreOwn == Cardinality({k \in DOMAIN heartbeatSlots : heartbeatSlots[k] # "generated"}) <= ownPushes
\* a node at work has not missed its heartbeat;
BusyIsNotMissed == latest = "busy" => heartbeatSlots[MaxSlots] # "missed"
\* the statistics are those of the rows below them;
StatsAgree == nodeStats.online = Cardinality({i \in DOMAIN nodeList : nodeList[i].status = "online"})
\* the best tier comes first;
BestTierFirst ==
    sorting = [field |-> "tier", dir |-> "desc"]
    /\ (\E i \in DOMAIN filteredNodes : filteredNodes[i].tier = "gold")
        => filteredNodes[1].tier = "gold"
\* the button "Card view", always visible, changes the view;
ToggleShowsCards == \A isMobile \in BOOLEAN : nodeView = "cards" => NodesContent(isMobile) = "cards"
\* "No nodes registered" is shown of a network without nodes.
EmptyMeansNoNodes ==
    \A isMobile \in BOOLEAN : NodesContent(isMobile) = "no nodes registered" => nodeList = << >>
=============================================================================
