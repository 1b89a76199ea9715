------------------------------ MODULE Widgets ------------------------------
(***************************************************************************)
(* The widgets of components/ui and the navigation of components/layout    *)
(* of the web application, where they keep state of their own: timers of a *)
(* tooltip, listeners on the document and the scroll lock of the body of   *)
(* menus, selects and dialogs, the tabs, and the drawer.                   *)
(*                                                                         *)
(* A handler, the render it causes and the effects of that render are one  *)
(* step; timers of the browser fire between steps.                         *)
(***************************************************************************)
EXTENDS Naturals, Sequences, SequencesExt, Filters

CONSTANTS
    Dialogs,     \* the dialogs of a page
    MaxTimers    \* bound: timers a tooltip starts

ASSUME WidgetsConstants == MaxTimers \in Nat \ {0}

VARIABLES
    widget,      \* the widgets on show: "tooltip", "popups", "tabs" or "drawer"
    over,        \* what holds the tooltip's trigger: subset of {"pointer", "focus"}
    tipVisible,  \* visible of Tooltip
    tipTimers,   \* timers that have not fired
    timeoutRef,  \* the timer the tooltip remembers, or 0
    tipStarted,  \* timers started so far
    popupOpen,   \* open of DropdownMenuTrigger and of Select
    listening,   \* their listeners on the document
    chosen,      \* selectedValue of Select
    dialogStack, \* the dialogs that are open, the topmost last
    escapes,     \* dialog -> its keydown listeners on the document
    overflow,    \* document.body.style.overflow
    activeTab,   \* currentValue of Tabs
    panel,       \* isActive of the panels, as memoised
    drawerOpen,  \* isOpen of MobileNav
    expandedItems,
    pathname

tipVars == <<over, tipVisible, tipTimers, timeoutRef, tipStarted>>
popupVars == <<popupOpen, listening, chosen, dialogStack, escapes, overflow>>
tabVars == <<activeTab, panel>>
drawerVars == <<drawerOpen, expandedItems, pathname>>
widgetsVars == <<widget, tipVars, popupVars, tabVars, drawerVars>>

Popups == {"menu", "select"}
Options == {"a", "b", "disabled"}
Count(b) == IF b THEN 1 ELSE 0

OnTooltip == widget = "tooltip" /\ UNCHANGED <<widget, popupVars, tabVars, drawerVars>>
OnPopups == widget = "popups" /\ UNCHANGED <<widget, tipVars, tabVars, drawerVars>>
OnTabs == widget = "tabs" /\ UNCHANGED <<widget, tipVars, popupVars, drawerVars>>
OnDrawer == widget = "drawer" /\ UNCHANGED <<widget, tipVars, popupVars, tabVars>>

(***************************************************************************)
(* Tooltip (and useTooltip): mouseenter and focus both start a timer, over *)
(* one that is already running; mouseleave and blur clear the last one.    *)
(***************************************************************************)
showTooltip(by) ==
    /\ by \notin over /\ tipStarted < MaxTimers
    /\ over' = over \cup {by}
    /\ tipStarted' = tipStarted + 1
    /\ tipTimers' = tipTimers \cup {tipStarted'} /\ timeoutRef' = tipStarted'
    /\ UNCHANGED tipVisible /\ OnTooltip

hideTooltip(by) ==
    /\ by \in over
    /\ over' = over \ {by}
    /\ tipTimers' = tipTimers \ {timeoutRef} /\ timeoutRef' = 0
    /\ tipVisible' = FALSE
    /\ UNCHANGED tipStarted /\ OnTooltip

TooltipDelayEnds(t) ==
    /\ t \in tipTimers
    /\ tipTimers' = tipTimers \ {t} /\ tipVisible' = TRUE
    /\ UNCHANGED <<over, timeoutRef, tipStarted>> /\ OnTooltip

(***************************************************************************)
(* DropdownMenu, Select, Dialog.                                           *)
(***************************************************************************)
\* the cleanup left out
ListenersWithoutCleanup(open, was, count) == IF open # was THEN count + Count(open) ELSE count
\* the effect of [open]: the cleanup of the last one, then the new one
ListenersAfter(open, was, count) == (count - Count(was)) + Count(open)

SetPopups(open) ==
    /\ popupOpen' = open
    /\ listening' = [p \in Popups |-> ListenersAfter(open[p], popupOpen[p], listening[p])]

\* a dialog is rendered while it is open; unmounting it runs its cleanups
DialogOverlay(stack) ==
    /\ dialogStack' = stack
    /\ escapes' = [d \in Dialogs |->
                     ListenersAfter(Contains(stack, d), Contains(dialogStack, d), escapes[d])]
    /\ overflow' = IF Len(stack) > Len(dialogStack) THEN "hidden"
                   ELSE IF stack = dialogStack THEN overflow ELSE ""

NoDialogChange == UNCHANGED <<dialogStack, escapes, overflow>>

\* The menu toggles, the select only opens; the click is outside the other.
ClickTrigger(p) ==
    /\ SetPopups([q \in Popups |-> q = p /\ (p = "select" \/ ~popupOpen[p])])
    /\ UNCHANGED chosen /\ NoDialogChange /\ OnPopups

\* The item is outside the trigger: the list closes, a disabled item's too.
handleValueChange(option) ==
    /\ popupOpen["select"]
    /\ chosen' = IF option = "disabled" THEN chosen ELSE option
    /\ SetPopups([q \in Popups |-> FALSE])
    /\ NoDialogChange /\ OnPopups

\* on the page, or on the backdrop of the topmost dialog
handleClickOutside ==
    /\ SetPopups([q \in Popups |-> FALSE])
    /\ DialogOverlay(IF dialogStack = << >> THEN << >> ELSE Front(dialogStack))
    /\ UNCHANGED chosen /\ OnPopups

\* every listener on the document hears the key
handleEscape ==
    /\ \E p \in Popups : listening[p] > 0 \/ \E d \in Dialogs : escapes[d] > 0
    /\ SetPopups([q \in Popups |-> popupOpen[q] /\ listening[q] = 0])
    /\ DialogOverlay(Filter(dialogStack, {d \in Dialogs : escapes[d] = 0}))
    /\ UNCHANGED chosen /\ OnPopups

\* a click on the page opens a dialog, or on a dialog's own button closes it
Dialog(d) ==
    /\ SetPopups([q \in Popups |-> FALSE])
    /\ DialogOverlay(IF Contains(dialogStack, d) THEN Filter(dialogStack, Dialogs \ {d})
                     ELSE Append(dialogStack, d))
    /\ UNCHANGED chosen /\ OnPopups

(***************************************************************************)
(* Tabs.                                                                   *)
(***************************************************************************)
TabValues == {"read", "write"}
\* TabsList clones the triggers with its own value in the place of theirs
TriggerValue(t) == activeTab
\* isActive, computed in the first render: the first element of the document
\* with a data-state is not there yet
FirstDataState == "none"
TabsContent(value) == FirstDataState = value

TabsTrigger(t) ==
    /\ t # "write" \* disabled
    /\ activeTab' = TriggerValue(t)
    \* recomputed for another value only, against the element as it still is
    /\ panel' = (activeTab' = activeTab /\ panel)
    /\ OnTabs

(***************************************************************************)
(* MobileNav and Sidebar.                                                  *)
(***************************************************************************)
NavItems == {<<"dashboard">>, <<"jobs">>, <<"billing">>}
NavChildren == {<<"billing", "topup">>}

ToggleDrawer ==
    /\ drawerOpen' = ~drawerOpen
    /\ UNCHANGED <<expandedItems, pathname>> /\ OnDrawer

\* an item with children is a button that only opens them
toggleExpanded(item) ==
    /\ drawerOpen /\ \E child \in NavChildren : IsStrictPrefix(item, child)
    /\ expandedItems' = IF item \in expandedItems THEN expandedItems \ {item} ELSE expandedItems \cup {item}
    /\ UNCHANGED <<drawerOpen, pathname>> /\ OnDrawer

FollowLink(href) ==
    /\ drawerOpen
    /\ \/ href \in NavItems /\ ~\E child \in NavChildren : IsStrictPrefix(href, child)
       \/ href \in NavChildren /\ Front(href) \in expandedItems
    /\ pathname' = href /\ drawerOpen' = FALSE
    /\ UNCHANGED expandedItems /\ OnDrawer

\* the logo of the mobile header, above the drawer
FollowLogo ==
    /\ pathname' = <<"dashboard">>
    /\ UNCHANGED <<drawerOpen, expandedItems>> /\ OnDrawer

WidgetsInit ==
    /\ widget \in {"tooltip", "popups", "tabs", "drawer"}
    /\ over = {} /\ tipVisible = FALSE /\ tipTimers = {} /\ timeoutRef = 0 /\ tipStarted = 0
    /\ popupOpen = [p \in Popups |-> FALSE] /\ listening = [p \in Popups |-> 0] /\ chosen = ""
    /\ dialogStack = << >> /\ escapes = [d \in Dialogs |-> 0] /\ overflow = ""
    /\ activeTab = "read" /\ panel = TabsContent("read")
    /\ drawerOpen = FALSE /\ expandedItems = {} /\ pathname = <<"dashboard">>

WidgetsNext ==
    \/ \E by \in {"pointer", "focus"} : showTooltip(by) \/ hideTooltip(by)
    \/ \E t \in 1..MaxTimers : TooltipDelayEnds(t)
    \/ \E p \in Popups : ClickTrigger(p)
    \/ \E option \in Options : handleValueChange(option)
    \/ handleClickOutside \/ handleEscape
    \/ \E d \in Dialogs : Dialog(d)
    \/ \E t \in TabValues : TabsTrigger(t)
    \/ ToggleDrawer \/ FollowLogo
    \/ \E item \in NavItems : toggleExpanded(item)
    \/ \E href \in NavItems \cup NavChildren : FollowLink(href)

WidgetsSpec == WidgetsInit /\ [][WidgetsNext]_widgetsVars

(***************************************************************************)
(* Properties.                                                             *)
(***************************************************************************)

\* However menus, selects and dialogs open over one another and close, by
\* their buttons, by Escape or by a click elsewhere: each has exactly one
\* pair of listeners on the document while it is open and none after, and
\* when the last dialog is gone the page scrolls again.
PopupsLeaveNothing ==
    /\ \A p \in Popups : listening[p] = Count(popupOpen[p])
    /\ \A d \in Dialogs : escapes[d] = Count(Contains(dialogStack, d))
    /\ dialogStack = << >> => overflow = ""

\* What a user expects of the widgets, and TLC refutes:
\* a tooltip is shown only while something holds its trigger;
TooltipFollowsTrigger == tipVisible => over # {}
\* the page does not scroll behind a dialog ("Prevent body scroll when open");
NoScrollBehindDialog == dialogStack # << >> => overflow = "hidden"
\* the panel of the active tab is shown;
ActivePanelShown == panel
\* the drawer is closed once a link has been followed.
DrawerClosesOnLink == [][pathname' # pathname => ~drawerOpen']_widgetsVars
====
