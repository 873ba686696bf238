-------------------------- MODULE InvalidateListFix --------------------------
(***************************************************************************)
(* InvalidateListFix.cpp: the DLL's InvalidateListData, which folds all    *)
(* item masks into one and tests each tab against it, in place of SkyUI's  *)
(* loop over items and tabs.                                               *)
(*                                                                         *)
(* The calls into SkyUI that both versions make are those of SkyUILists.   *)
(* Array elements that are not objects are left out, and writes of a tab's *)
(* filterFlag succeed.                                                     *)
(*                                                                         *)
(* Operators whose comment begins with "Faulty:" are wrong on purpose.     *)
(***************************************************************************)
EXTENDS Naturals, Sequences, FiniteSets

CONSTANTS
  Slots,   \* entries of the item list
  Tabs,    \* entries of the category list
  Bits,    \* bits of the filter masks
  FlagOf,  \* the mask of each tab
  Pinned,  \* tabs with bDontHide
  None     \* no selection

\* A tab of mask 0 could not be told from no tab at all.
ASSUME ListConstants ==
  /\ IsFiniteSet(Slots)
  /\ FlagOf \in [Tabs -> (SUBSET Bits) \ {{}}]
  /\ Pinned \subseteq Tabs
  /\ None \notin Tabs \cup Slots

VARIABLES items, nonEmpty, tab, item, itemFilter, saved, events, phase,
          features,   \* Features::IsEnabled()
          verify,     \* VerifyFlag()
          ready,      \* the members that Preconditions looks for are there
          mode,       \* which body the running call uses
          combined,   \* FoldEntryFilterFlags of the running call
          todo,       \* tabs whose filterFlag is still to be written
          mismatches  \* what the last verification found

listVars == <<items, nonEmpty, tab, item, itemFilter>>
callVars == <<saved, events, phase, mode, combined, todo>>
switchVars == <<features, verify, ready>>
vars == <<items, nonEmpty, tab, item, itemFilter, saved, events, phase,
          features, verify, ready, mode, combined, todo, mismatches>>

\* Faulty: the mask of one item stands for all.
FoldOne(its) == IF Slots = {} THEN {} ELSE its[CHOOSE s \in Slots : TRUE]

\* The OR of all item masks.
FoldItemMask(its) == UNION {its[s] : s \in Slots}

\* Faulty: pinned tabs are hidden when they are empty.
NonEmptyUnpinned(t, mask) == FlagOf[t] \cap mask # {}

CategoryNonEmpty(t, mask) == t \in Pinned \/ FlagOf[t] \cap mask # {}

\* The tabs SkyUI's loop sets: pinned ones first, then, item by item, those
\* that are not set yet and that the item belongs to.
CategoryFlagsNaive(its) ==
  LET len == Cardinality(Slots)
      order == CHOOSE q \in [1..len -> Slots] : \A s \in Slots : \E n \in 1..len : q[n] = s
      after[n \in 0..len] ==
        IF n = 0 THEN Pinned
        ELSE after[n - 1]
               \cup {t \in Tabs \ after[n - 1] : its[order[n]] \cap FlagOf[t] # {}}
  IN  after[len]

\* With the flags half written, SkyUI's call has classified them all.
Classified ==
  IF phase = "write" THEN {t \in Tabs : CategoryNonEmpty(t, combined)} ELSE nonEmpty

SkyUIPhase == CASE phase = "write" -> "update"
                [] phase = "check" -> "idle"
                [] OTHER -> phase

SkyUI == INSTANCE SkyUILists WITH nonEmpty <- Classified, phase <- SkyUIPhase

TypeOK ==
  /\ items \in [Slots -> SUBSET Bits]
  /\ nonEmpty \in SUBSET Tabs /\ todo \in SUBSET Tabs
  /\ tab \in Tabs \cup {None} /\ item \in Slots \cup {None}
  /\ itemFilter \in SUBSET Bits /\ saved \in SUBSET Bits /\ combined \in SUBSET Bits
  /\ phase \in {"idle", "refresh", "classify", "write", "update", "tail", "check"}
  /\ mode \in {"original", "fast", "verify"}
  /\ features \in BOOLEAN /\ verify \in BOOLEAN /\ ready \in BOOLEAN
  /\ mismatches \in SUBSET Tabs
  /\ todo # {} => phase = "write"

Init ==
  /\ items \in [Slots -> SUBSET Bits] /\ nonEmpty \in SUBSET Tabs
  /\ tab = None /\ item = None
  /\ itemFilter \in SUBSET Bits /\ saved = {}
  /\ events = <<>> /\ phase = "idle"
  /\ features = TRUE /\ verify = FALSE /\ ready \in BOOLEAN
  /\ mode = "original" /\ combined = {} /\ todo = {}
  /\ mismatches = {}

-----------------------------------------------------------------------------
(* Between calls *)

Environment ==
  /\ phase = "idle"
  /\ UNCHANGED <<nonEmpty, phase, switchVars, mode, combined, todo, mismatches>>
  /\ SkyUI!ChangeItems \/ \E t \in Tabs : SkyUI!SelectTab(t)

\* "i5 enable|disable" and "i5 verify on|off".
Switch ==
  /\ phase = "idle"
  /\ features' \in BOOLEAN /\ verify' \in BOOLEAN
  /\ UNCHANGED <<listVars, callVars, ready, mismatches>>

-----------------------------------------------------------------------------
(* A call *)

Body == IF ~features THEN "original"
        ELSE IF verify THEN "verify"
        ELSE IF ready THEN "fast"
        ELSE "original"

Call ==
  /\ phase = "idle"
  /\ phase' = "refresh" /\ mode' = Body
  /\ saved' = SkyUI!MaskOf(tab) /\ events' = <<>>
  /\ UNCHANGED <<listVars, switchVars, combined, todo, mismatches>>

\* itemList.InvalidateData; if the invoke fails, nothing changes and the call
\* goes on.
Refresh ==
  /\ phase = "refresh"
  /\ phase' = "classify"
  /\ items' \in [Slots -> SUBSET Bits] /\ item' \in Slots \cup {None}
  /\ UNCHANGED <<nonEmpty, tab, itemFilter, saved, events, mode, combined, todo,
                 switchVars, mismatches>>

\* SkyUI's own loop.
Loop ==
  /\ phase = "classify" /\ mode # "fast"
  /\ phase' = "update"
  /\ nonEmpty' = {t \in Tabs : SkyUI!Holds(t)}
  /\ UNCHANGED <<items, tab, item, itemFilter, saved, events, mode, combined, todo,
                 switchVars, mismatches>>

Fold ==
  /\ phase = "classify" /\ mode = "fast"
  /\ phase' = "write"
  /\ combined' = FoldItemMask(items)
  /\ todo' = Tabs
  /\ UNCHANGED <<listVars, saved, events, mode, switchVars, mismatches>>

\* One tab's filterFlag is written.
Write(t) ==
  /\ phase = "write" /\ t \in todo
  /\ nonEmpty' = IF CategoryNonEmpty(t, combined) THEN nonEmpty \cup {t} ELSE nonEmpty \ {t}
  /\ todo' = todo \ {t}
  /\ UNCHANGED <<items, tab, item, itemFilter, saved, events, phase, mode, combined,
                 switchVars, mismatches>>

\* Faulty: the first tab only.
WrittenEarly ==
  /\ phase = "write" /\ todo # Tabs
  /\ phase' = "update" /\ combined' = {}
  /\ UNCHANGED <<listVars, saved, events, mode, todo, switchVars, mismatches>>

Written ==
  /\ phase = "write" /\ todo = {}
  /\ phase' = "update" /\ combined' = {}
  /\ UNCHANGED <<listVars, saved, events, mode, todo, switchVars, mismatches>>

Update ==
  /\ phase = "update"
  /\ phase' = "tail"
  /\ tab' \in {tab, None} \cup nonEmpty
  /\ UNCHANGED <<items, nonEmpty, item, itemFilter, saved, events, mode, combined, todo,
                 switchVars, mismatches>>

\* The call returns; with verification, RunVerify goes on.
EndOf(m) ==
  /\ phase' = IF m = "verify" THEN "check" ELSE "idle"
  /\ mode' = IF m = "verify" THEN m ELSE "original"

\* Faulty: the filter is changed when there was a tab before, and only then.
TailFromTab ==
  /\ phase = "tail"
  /\ EndOf(mode)
  /\ itemFilter' = IF SkyUI!Changed /\ saved # {} THEN SkyUI!MaskOf(tab) ELSE itemFilter
  /\ events' = SkyUI!Events
  /\ UNCHANGED <<items, nonEmpty, tab, item, saved, combined, todo, switchVars, mismatches>>

\* The selected tab's mask is compared with the one saved, no tab counting as
\* 0; then the events go out.  The list has a _typeFilter, as SkyUI's always has.
DispatchTail ==
  /\ phase = "tail"
  /\ EndOf(mode)
  /\ itemFilter' = IF SkyUI!Changed THEN SkyUI!MaskOf(tab) ELSE itemFilter
  /\ events' = SkyUI!Events
  /\ UNCHANGED <<items, nonEmpty, tab, item, saved, combined, todo, switchVars, mismatches>>

\* RunVerify: what the fast path would have written, against what SkyUI did;
\* without the lists there is nothing to compare.
Check ==
  /\ phase = "check"
  /\ phase' = "idle" /\ mode' = "original"
  /\ \/ mismatches' = {t \in Tabs : ~(CategoryNonEmpty(t, FoldItemMask(items)) <=> t \in nonEmpty)}
     \/ ~ready /\ mismatches' = mismatches
  /\ UNCHANGED <<listVars, saved, events, combined, todo, switchVars>>

Next ==
  \/ Environment \/ Switch
  \/ Call \/ Refresh \/ Loop \/ Fold
  \/ \E t \in Tabs : Write(t)
  \/ Written \/ Update \/ DispatchTail \/ Check

Spec == Init /\ [][Next]_vars

-----------------------------------------------------------------------------
(* Properties *)

\* Whatever path a call takes, it is a call of SkyUI's: same tabs, same
\* filter, same events, in the same order.
ImplementsSkyUI == SkyUI!Spec

\* The item filter never shows another tab's items, however InvalidateData
\* and UpdateList moved the selection in between.
FilterFollowsTab == phase = "idle" /\ tab # None => itemFilter = FlagOf[tab]

\* "i5 verify on" never reports a difference.
VerifyAgrees == mismatches = {}

\* Folding first and testing once per tab sets the tabs that SkyUI's nested
\* loop sets.
FoldIsNaive ==
  CategoryFlagsNaive(items) = {t \in Tabs : CategoryNonEmpty(t, FoldItemMask(items))}

=============================================================================
