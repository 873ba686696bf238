----------------------------- MODULE SkyUILists -----------------------------
(***************************************************************************)
(* What SkyUI's InventoryLists.InvalidateListData promises: the items are  *)
(* refreshed, a category tab is non-empty if it is pinned or holds an item,*)
(* and the item filter follows the selected tab.                           *)
(*                                                                         *)
(* A 32-bit filter mask is the set of its bits.                            *)
(***************************************************************************)
EXTENDS Sequences

CONSTANTS
  Slots,   \* entries of the item list
  Tabs,    \* entries of the category list
  Bits,    \* bits of the filter masks
  FlagOf,  \* the mask of each tab
  Pinned,  \* tabs with bDontHide
  None     \* no selection

Masks == SUBSET Bits

VARIABLES
  items,       \* the filterFlag of each item
  nonEmpty,    \* the tabs whose filterFlag is 1
  tab,         \* categoryList.selectedEntry
  item,        \* itemList.selectedIndex
  itemFilter,  \* _typeFilter.itemFilter
  saved,       \* the selected tab's mask when the call began
  events,      \* what the running or last call dispatched
  phase        \* how far the running call is

vars == <<items, nonEmpty, tab, item, itemFilter, saved, events, phase>>

MaskOf(t) == IF t = None THEN {} ELSE FlagOf[t]

Holds(t) == t \in Pinned \/ \E s \in Slots : items[s] \cap FlagOf[t] # {}

Init ==
  /\ items \in [Slots -> Masks]
  /\ nonEmpty \in SUBSET Tabs
  /\ tab = None /\ item = None
  /\ itemFilter \in Masks /\ saved = {}
  /\ events = <<>>
  /\ phase = "idle"

\* The player picks a tab, and SkyUI the filter with it. Items come and go.
SelectTab(t) ==
  /\ phase = "idle"
  /\ tab' = t /\ itemFilter' = FlagOf[t]
  /\ UNCHANGED <<items, nonEmpty, item, saved, events, phase>>

ChangeItems ==
  /\ phase = "idle"
  /\ items' \in [Slots -> Masks] /\ item' \in Slots \cup {None}
  /\ UNCHANGED <<nonEmpty, tab, itemFilter, saved, events, phase>>

Call ==
  /\ phase = "idle"
  /\ phase' = "refresh"
  /\ saved' = MaskOf(tab) /\ events' = <<>>
  /\ UNCHANGED <<items, nonEmpty, tab, item, itemFilter>>

\* itemList.InvalidateData: data processors refine the masks, the selection
\* may be lost or restored.
Refresh ==
  /\ phase = "refresh"
  /\ phase' = "classify"
  /\ items' \in [Slots -> Masks] /\ item' \in Slots \cup {None}
  /\ UNCHANGED <<nonEmpty, tab, itemFilter, saved, events>>

Classify ==
  /\ phase = "classify"
  /\ phase' = "update"
  /\ nonEmpty' = {t \in Tabs : Holds(t)}
  /\ UNCHANGED <<items, tab, item, itemFilter, saved, events>>

\* categoryList.UpdateList: the selection may move off a tab that emptied.
Update ==
  /\ phase = "update"
  /\ phase' = "tail"
  /\ tab' \in {tab, None} \cup nonEmpty
  /\ UNCHANGED <<items, nonEmpty, item, itemFilter, saved, events>>

Changed == tab # None /\ MaskOf(tab) # saved

Events ==
  (IF Changed THEN <<[type |-> "categoryChange", index |-> tab]>> ELSE <<>>) \o
  (IF item = None THEN <<[type |-> "showItemsList", index |-> None]>>
   ELSE <<[type |-> "itemHighlightChange", index |-> item]>>)

DispatchEvents ==
  /\ phase = "tail"
  /\ phase' = "idle"
  /\ itemFilter' = IF Changed THEN MaskOf(tab) ELSE itemFilter
  /\ events' = Events
  /\ UNCHANGED <<items, nonEmpty, tab, item, saved>>

Next ==
  \/ \E t \in Tabs : SelectTab(t)
  \/ ChangeItems
  \/ Call \/ Refresh \/ Classify \/ Update \/ DispatchEvents

Spec == Init /\ [][Next]_vars

=============================================================================
