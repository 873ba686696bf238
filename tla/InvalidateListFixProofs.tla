----------------------- MODULE InvalidateListFixProofs -----------------------
(***************************************************************************)
(* The DLL's InvalidateListData is SkyUI's, for every set of items, tabs   *)
(* and masks: whichever body runs, each call takes SkyUI's steps, and the  *)
(* filter follows the selected tab.  And its fold gives what SkyUI's loop  *)
(* gives.                                                                  *)
(***************************************************************************)
EXTENDS InvalidateListFix, FiniteSetTheorems, TLAPS

-----------------------------------------------------------------------------
(* The fold *)

\* A tab meets the folded mask exactly when it meets some item's mask.
LEMMA FoldHolds ==
  \A t \in Tabs : CategoryNonEmpty(t, FoldItemMask(items)) <=> SkyUI!Holds(t)
BY DEF CategoryNonEmpty, FoldItemMask, SkyUI!Holds

\* The folded mask is a mask.
LEMMA FoldType ==
  ASSUME items \in [Slots -> SUBSET Bits]
  PROVE  FoldItemMask(items) \in SUBSET Bits
BY DEF FoldItemMask

\* The mask of a tab, or of none, is a mask.
LEMMA MaskType == \A t \in Tabs \cup {None} : SkyUI!MaskOf(t) \in SUBSET Bits
BY ListConstants DEF SkyUI!MaskOf

-----------------------------------------------------------------------------
(* The invariant *)

\* The tabs written so far are those that hold an item.
WriteInv ==
  phase = "write" => /\ combined = FoldItemMask(items)
                     /\ \A t \in Tabs \ todo : t \in nonEmpty <=> SkyUI!Holds(t)

\* From the last flag written to the end of the call, all of them are right.
FlagsInv ==
  phase \in {"update", "tail", "check"} => \A t \in Tabs : t \in nonEmpty <=> SkyUI!Holds(t)

\* During a call the filter is that of the tab it began with.
FilterInv ==
  /\ phase \in {"idle", "check"} => (tab # None => itemFilter = FlagOf[tab])
  /\ phase \notin {"idle", "check"} => (saved # {} => itemFilter = saved)

ListInv == TypeOK /\ WriteInv /\ FlagsInv /\ FilterInv /\ VerifyAgrees

\* The invariant holds before the first call.
LEMMA ListInit == Init => ListInv
BY DEF Init, ListInv, TypeOK, WriteInv, FlagsInv, FilterInv, VerifyAgrees

\* Every step keeps the types and leaves no tab unwritten.
LEMMA TypeStep == TypeOK /\ [Next]_vars => TypeOK'
<1>. SUFFICES ASSUME TypeOK, [Next]_vars
     PROVE  TypeOK'
  OBVIOUS
<1>. USE DEF TypeOK, listVars, callVars, switchVars
<1>1. CASE Environment
  <2>1. CASE SkyUI!ChangeItems
    BY <1>1, <2>1 DEF Environment, SkyUI!ChangeItems, SkyUI!Masks
  <2>2. ASSUME NEW t \in Tabs, SkyUI!SelectTab(t)
        PROVE  TypeOK'
    BY <1>1, <2>2, ListConstants DEF Environment, SkyUI!SelectTab
  <2>. QED
    BY <1>1, <2>1, <2>2 DEF Environment
<1>2. CASE Switch
  BY <1>2 DEF Switch
<1>3. CASE Call
  BY <1>3, MaskType DEF Call, Body
<1>4. CASE Refresh
  BY <1>4 DEF Refresh
<1>5. CASE Loop
  BY <1>5 DEF Loop
<1>6. CASE Fold
  BY <1>6, FoldType DEF Fold
<1>7. ASSUME NEW t \in Tabs, Write(t)
      PROVE  TypeOK'
  BY <1>7 DEF Write
<1>8. CASE Written
  BY <1>8 DEF Written
<1>9. CASE Update
  BY <1>9 DEF Update
<1>10. CASE DispatchTail
  BY <1>10, MaskType DEF DispatchTail, EndOf
<1>11. CASE Check
  BY <1>11 DEF Check
<1>12. CASE UNCHANGED vars
  BY <1>12 DEF vars
<1>. QED
  BY <1>1, <1>2, <1>3, <1>4, <1>5, <1>6, <1>7, <1>8, <1>9, <1>10, <1>11, <1>12
  DEF Next

\* Every step keeps the tabs that were written right, in all three bodies.
LEMMA FlagsStep ==
  ListInv /\ [Next]_vars => WriteInv' /\ FlagsInv' /\ VerifyAgrees'
<1>. SUFFICES ASSUME ListInv, [Next]_vars
     PROVE  WriteInv' /\ FlagsInv' /\ VerifyAgrees'
  OBVIOUS
<1>. USE DEF ListInv, TypeOK, WriteInv, FlagsInv, VerifyAgrees, SkyUI!Holds,
             listVars, callVars, switchVars
<1>1. CASE Environment
  BY <1>1 DEF Environment
<1>2. CASE Switch
  BY <1>2 DEF Switch
<1>3. CASE Call
  BY <1>3 DEF Call
<1>4. CASE Refresh
  BY <1>4 DEF Refresh
<1>5. CASE Loop
  BY <1>5 DEF Loop
<1>6. CASE Fold
  BY <1>6 DEF Fold
<1>7. ASSUME NEW t \in Tabs, Write(t)
      PROVE  WriteInv' /\ FlagsInv' /\ VerifyAgrees'
  BY <1>7, FoldHolds DEF Write
<1>8. CASE Written
  BY <1>8 DEF Written
<1>9. CASE Update
  BY <1>9 DEF Update
<1>10. CASE DispatchTail
  BY <1>10 DEF DispatchTail, EndOf
<1>11. CASE Check
  <2>1. \A t \in Tabs : CategoryNonEmpty(t, FoldItemMask(items)) <=> t \in nonEmpty
    BY <1>11, FoldHolds DEF Check
  <2>2. mismatches' = {}
    BY <1>11, <2>1 DEF Check
  <2>. QED
    BY <1>11, <2>2 DEF Check
<1>12. CASE UNCHANGED vars
  BY <1>12 DEF vars
<1>. QED
  BY <1>1, <1>2, <1>3, <1>4, <1>5, <1>6, <1>7, <1>8, <1>9, <1>10, <1>11, <1>12
  DEF Next

\* Every step keeps the filter the selected or the saved tab's.
LEMMA FilterStep == TypeOK /\ FilterInv /\ [Next]_vars => FilterInv'
<1>. SUFFICES ASSUME TypeOK, FilterInv, [Next]_vars
     PROVE  FilterInv'
  OBVIOUS
<1>. USE DEF TypeOK, FilterInv, listVars, callVars, switchVars
<1>1. CASE Environment
  <2>1. CASE SkyUI!ChangeItems
    BY <1>1, <2>1 DEF Environment, SkyUI!ChangeItems
  <2>2. ASSUME NEW t \in Tabs, SkyUI!SelectTab(t)
        PROVE  FilterInv'
    BY <1>1, <2>2 DEF Environment, SkyUI!SelectTab
  <2>. QED
    BY <1>1, <2>1, <2>2 DEF Environment
<1>2. CASE Switch
  BY <1>2 DEF Switch
<1>3. CASE Call
  BY <1>3 DEF Call, SkyUI!MaskOf
<1>4. CASE Refresh
  BY <1>4 DEF Refresh
<1>5. CASE Loop
  BY <1>5 DEF Loop
<1>6. CASE Fold
  BY <1>6 DEF Fold
<1>7. ASSUME NEW t \in Tabs, Write(t)
      PROVE  FilterInv'
  BY <1>7 DEF Write
<1>8. CASE Written
  BY <1>8 DEF Written
<1>9. CASE Update
  BY <1>9 DEF Update
\* The tab's mask is the filter, whether it changed, or is the one saved.
<1>10. CASE DispatchTail
  <2>1. tab # None => FlagOf[tab] # {}
    BY ListConstants
  <2>2. tab # None => itemFilter' = FlagOf[tab]
    BY <1>10, <2>1 DEF DispatchTail, SkyUI!Changed, SkyUI!MaskOf
  <2>. QED
    BY <1>10, <2>2 DEF DispatchTail, EndOf
<1>11. CASE Check
  BY <1>11 DEF Check
<1>12. CASE UNCHANGED vars
  BY <1>12 DEF vars
<1>. QED
  BY <1>1, <1>2, <1>3, <1>4, <1>5, <1>6, <1>7, <1>8, <1>9, <1>10, <1>11, <1>12
  DEF Next

\* The invariant holds in every state.
LEMMA ListInductive == Spec => []ListInv
<1>1. ListInv /\ [Next]_vars => ListInv'
  BY TypeStep, FlagsStep, FilterStep DEF ListInv
<1>. QED
  BY <1>1, ListInit, PTL DEF Spec

-----------------------------------------------------------------------------
(* Theorems *)

\* Every variable keeps its type, and no tab is left to write once the loop
\* over the tabs has ended.
THEOREM ListTypeCorrect == Spec => []TypeOK
BY ListInductive, PTL DEF ListInv

\* Whenever no call is running, the item filter is the selected tab's mask.
THEOREM FilterIsTabs == Spec => []FilterFollowsTab
<1>1. ListInv => FilterFollowsTab
  BY DEF ListInv, FilterInv, FilterFollowsTab
<1>. QED
  BY <1>1, ListInductive, PTL

\* What RunVerify compares is always equal.
THEOREM NoMismatch == Spec => []VerifyAgrees
BY ListInductive, PTL DEF ListInv

\* Initial states are SkyUI's.
LEMMA RefinesInit == Init => SkyUI!Init
BY DEF Init, SkyUI!Init, SkyUI!Masks, Classified, SkyUIPhase

\* Each step is one of SkyUI's, or none: writing one flag is none, for the
\* fold has decided them all.
LEMMA RefinesStep == ListInv /\ [Next]_vars => [SkyUI!Next]_SkyUI!vars
<1>. SUFFICES ASSUME ListInv, [Next]_vars
     PROVE  SkyUI!Next \/ UNCHANGED SkyUI!vars
  OBVIOUS
<1>. USE DEF ListInv, TypeOK, listVars, callVars, switchVars, Classified, SkyUIPhase
<1>1. CASE Environment
  BY <1>1 DEF Environment, SkyUI!Next
<1>2. CASE Switch
  BY <1>2 DEF Switch, SkyUI!vars
<1>3. CASE Call
  <2>1. SkyUI!Call
    BY <1>3 DEF Call, SkyUI!Call
  <2>. QED
    BY <2>1 DEF SkyUI!Next
<1>4. CASE Refresh
  <2>1. SkyUI!Refresh
    BY <1>4 DEF Refresh, SkyUI!Refresh, SkyUI!Masks
  <2>. QED
    BY <2>1 DEF SkyUI!Next
<1>5. CASE Loop
  <2>1. SkyUI!Classify
    BY <1>5 DEF Loop, SkyUI!Classify
  <2>. QED
    BY <2>1 DEF SkyUI!Next
<1>6. CASE Fold
  <2>1. Classified' = {t \in Tabs : SkyUI!Holds(t)}
    BY <1>6, FoldHolds DEF Fold, CategoryNonEmpty
  <2>2. SkyUI!Classify
    BY <1>6, <2>1 DEF Fold, SkyUI!Classify
  <2>. QED
    BY <2>2 DEF SkyUI!Next
<1>7. ASSUME NEW t \in Tabs, Write(t)
      PROVE  UNCHANGED SkyUI!vars
  BY <1>7 DEF Write, SkyUI!vars, CategoryNonEmpty
<1>8. CASE Written
  <2>1. {t \in Tabs : CategoryNonEmpty(t, combined)} = nonEmpty
    BY <1>8, FoldHolds DEF Written, WriteInv
  <2>. QED
    BY <1>8, <2>1 DEF Written, SkyUI!vars
<1>9. CASE Update
  <2>1. SkyUI!Update
    BY <1>9 DEF Update, SkyUI!Update
  <2>. QED
    BY <2>1 DEF SkyUI!Next
<1>10. CASE DispatchTail
  <2>1. SkyUI!DispatchEvents
    BY <1>10 DEF DispatchTail, EndOf, SkyUI!DispatchEvents
  <2>. QED
    BY <2>1 DEF SkyUI!Next
<1>11. CASE Check
  BY <1>11 DEF Check, SkyUI!vars
<1>12. CASE UNCHANGED vars
  BY <1>12 DEF vars, SkyUI!vars
<1>. QED
  BY <1>1, <1>2, <1>3, <1>4, <1>5, <1>6, <1>7, <1>8, <1>9, <1>10, <1>11, <1>12
  DEF Next

\* Whatever path a call takes, it is a call of SkyUI's InvalidateListData.
THEOREM FixIsSkyUIs == Spec => ImplementsSkyUI
BY ListInductive, RefinesInit, RefinesStep, PTL DEF Spec, SkyUI!Spec, ImplementsSkyUI

-----------------------------------------------------------------------------
(* The loop *)

\* Slots can be counted: there is an order in which the loop meets them all.
LEMMA SomeOrder ==
  LET len == Cardinality(Slots) IN
  /\ len \in Nat
  /\ \E q \in [1..len -> Slots] : \A s \in Slots : \E n \in 1..len : q[n] = s
<1>1. IsFiniteSet(Slots)
  BY ListConstants
<1>2. Cardinality(Slots) \in Nat /\ ExistsBijection(1..Cardinality(Slots), Slots)
  BY <1>1, FS_CardinalityType
<1> QED
  BY <1>2 DEF ExistsBijection, Bijection, Injection, Surjection

\* The least of some numbers.
LEMMA LeastNumber ==
  ASSUME NEW S \in SUBSET Nat, S # {}
  PROVE \E n \in S : \A m \in S : n <= m
<1>1. IsWellFoundedOn(OpToRel(<, Nat), Nat)
  BY NatLessThanWellFounded, Zenon
<1>2. PICK n \in S : \A m \in S : <<m, n>> \notin OpToRel(<, Nat)
  BY <1>1, WFMin, Zenon
<1>3. \A m \in S : ~(m < n)
  BY <1>2 DEF OpToRel
<1> QED
  BY <1>3

\* The tabs that SkyUI's loop has set after n items, for every n.
IsLoop(after, order, len) ==
  after = [n \in 0..len |->
             IF n = 0 THEN Pinned
             ELSE after[n - 1]
                    \cup {t \in Tabs \ after[n - 1] : items[order[n]] \cap FlagOf[t] # {}}]

\* The tabs that one of the first n items belongs to, and the pinned ones.
MetBy(order, n) ==
  Pinned \cup {t \in Tabs : \E m \in 1..n : items[order[m]] \cap FlagOf[t] # {}}

\* After n items SkyUI's loop has set the pinned tabs and those that one of the
\* items met so far belongs to.
LEMMA LoopAfter ==
  ASSUME NEW len \in Nat, NEW order, NEW after, IsLoop(after, order, len)
  PROVE \A n \in 0..len : after[n] = MetBy(order, n)
<1> DEFINE Wrong == {n \in 0..len : after[n] # MetBy(order, n)}
<1>1. SUFFICES ASSUME Wrong # {} PROVE FALSE
  OBVIOUS
<1>2. PICK n \in Wrong : \A m \in Wrong : n <= m
  <2>1. Wrong \in SUBSET Nat
    OBVIOUS
  <2> QED
    BY <1>1, <2>1, LeastNumber, Zenon
<1>3. CASE n = 0
  <2>1. after[0] = Pinned /\ MetBy(order, 0) = Pinned
    BY DEF IsLoop, MetBy
  <2> QED
    BY <1>3, <2>1
<1>4. CASE n # 0
  <2>1. n \in 1..len /\ n - 1 \in 0..len /\ n - 1 < n
    BY <1>4
  <2>2. after[n - 1] = MetBy(order, n - 1)
    BY <1>2, <2>1
  <2>3. after[n] = after[n - 1] \cup {t \in Tabs \ after[n - 1] : items[order[n]] \cap FlagOf[t] # {}}
    BY <1>4 DEF IsLoop
  <2>4. \A t : (\E m \in 1..n : items[order[m]] \cap FlagOf[t] # {})
                 <=> (\E m \in 1..n - 1 : items[order[m]] \cap FlagOf[t] # {})
                     \/ items[order[n]] \cap FlagOf[t] # {}
    BY <2>1
  <2>5. after[n] = MetBy(order, n)
    BY <2>2, <2>3, <2>4 DEF MetBy
  <2> QED
    BY <2>5
<1> QED
  BY <1>3, <1>4

\* The loop, in whatever order it meets the items, ends with the tabs that the
\* folded mask gives.
LEMMA LoopIsFold ==
  CategoryFlagsNaive(items) = {t \in Tabs : CategoryNonEmpty(t, FoldItemMask(items))}
<1> DEFINE len == Cardinality(Slots)
           order == CHOOSE q \in [1..len -> Slots] : \A s \in Slots : \E n \in 1..len : q[n] = s
           after[n \in 0..len] ==
             IF n = 0 THEN Pinned
             ELSE after[n - 1]
                    \cup {t \in Tabs \ after[n - 1] : items[order[n]] \cap FlagOf[t] # {}}
<1>1. len \in Nat /\ order \in [1..len -> Slots] /\ \A s \in Slots : \E n \in 1..len : order[n] = s
  BY SomeOrder
<1>2. CategoryFlagsNaive(items) = after[len]
  BY DEF CategoryFlagsNaive
<1> HIDE DEF len, order
<1>3. IsLoop(after, order, len)
  <2> DEFINE set == [n \in 0..len |-> MetBy(order, n)]
             step(g, n) == IF n = 0 THEN Pinned
                           ELSE g[n - 1] \cup {t \in Tabs \ g[n - 1] :
                                                 items[order[n]] \cap FlagOf[t] # {}}
  <2>1. ASSUME NEW n \in 0..len PROVE set[n] = step(set, n)
    <3>1. CASE n = 0
      BY <3>1 DEF MetBy
    <3>2. CASE n # 0
      <4>1. n - 1 \in 0..len /\ 1..n = (1..n - 1) \cup {n}
        BY <1>1, <3>2
      <4>2. set[n - 1] = MetBy(order, n - 1) /\ set[n] = MetBy(order, n)
        BY <4>1
      <4> QED
        BY <3>2, <4>1, <4>2 DEF MetBy
    <3> QED
      BY <3>1, <3>2
  <2>2. set = [n \in 0..len |-> step(set, n)]
    BY <2>1
  <2> HIDE DEF set
  <2>3. \E g : g = [n \in 0..len |-> step(g, n)]
    BY <2>2
  <2> QED
    BY <2>3, Zenon DEF IsLoop
<1> HIDE DEF after
<1>4. after[len] = MetBy(order, len)
  <2>1. \A n \in 0..len : after[n] = MetBy(order, n)
    BY <1>1, <1>3, LoopAfter
  <2> QED
    BY <1>1, <2>1
<1>5. Pinned \subseteq Tabs
  BY ListConstants
<1>6. \A t \in Tabs : (\E m \in 1..len : items[order[m]] \cap FlagOf[t] # {}) <=> FlagOf[t] \cap FoldItemMask(items) # {}
  BY <1>1 DEF FoldItemMask
<1> QED
  BY <1>2, <1>4, <1>5, <1>6 DEF CategoryNonEmpty, MetBy

\* Folding first and testing once per tab sets the tabs that SkyUI's nested
\* loop sets, for any number of items and tabs, whatever their masks.
THEOREM FoldIsLoop == Spec => []FoldIsNaive
BY LoopIsFold, PTL DEF FoldIsNaive

=============================================================================
