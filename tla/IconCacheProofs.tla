--------------------------- MODULE IconCacheProofs ---------------------------
(***************************************************************************)
(* Theorems about IconCache, for any number of entries, forms, items and   *)
(* nested calls, and whatever I4 writes.                                   *)
(***************************************************************************)
EXTENDS IconCache, TLAPS

\* The label is one of the members, and fresh entries have none of them set.
LEMMA FieldFacts == "iconLabel" \in Field /\ Fresh \in Output /\ NoSnapshot \in [Entries -> Output]
BY DEF Field, Fresh, Output, NoSnapshot

\* A delta is made of members.
LEMMA BuildDeltaType ==
  ASSUME NEW b \in Output, NEW a \in Output
  PROVE  BuildDelta(b, a) \in Delta
BY DEF BuildDelta, Output, Delta

\* A replayed delta leaves an entry an output.
LEMMA ApplyDeltaType ==
  ASSUME NEW o \in Output, NEW d \in Delta
  PROVE  ApplyDelta(o, d) \in Output
BY DEF ApplyDelta, Output, Delta

\* A key computed for an item is in the domain of its map.
LEMMA KeyOfStatic ==
  ASSUME NEW i \in StaticItems, NEW s \in Setters PROVE KeyOf(i, s) \in StaticKey
BY DEF StaticKey

\* The same of the other map.
LEMMA KeyOfDynamic ==
  ASSUME NEW i \in DynamicItems, NEW s \in Setters PROVE KeyOf(i, s) \in DynamicKey
BY DEF DynamicKey

\* Every item with a form belongs to one of the two maps.
LEMMA ItemKinds ==
  ASSUME NEW i \in Items, i.form # NoForm
  PROVE  /\ i.form \in Forms
         /\ IsDynamicForm(i.form) => i \in DynamicItems
         /\ ~IsDynamicForm(i.form) => i \in StaticItems
BY ConstantsOK DEF IdItems, DynamicItems, StaticItems

\* A hit replays a well-formed delta.
LEMMA LookupDeltaType ==
  ASSUME TypeOK, NEW e \in Entries, LookupDelta(item[e]) # Nothing
  PROVE  LookupDelta(item[e]) \in Delta
<1> DEFINE i == item[e]
<1>1. i \in Items /\ menu \in Setters
  BY DEF TypeOK
<1>2. i.form # NoForm
  BY DEF LookupDelta
<1>3. CASE IsDynamicForm(i.form)
  <2>1. KeyOf(i, menu) \in DynamicKey
    BY <1>1, <1>2, <1>3, ItemKinds, KeyOfDynamic
  <2>2. dynamicCache[KeyOf(i, menu)] \in DynamicEntry \cup {Nothing}
    BY <2>1 DEF TypeOK
  <2>. QED
    BY <1>2, <1>3, <2>2 DEF LookupDelta, DynamicEntry
<1>4. CASE ~IsDynamicForm(i.form)
  <2>1. KeyOf(i, menu) \in StaticKey
    BY <1>1, <1>2, <1>4, ItemKinds, KeyOfStatic
  <2>2. cache[KeyOf(i, menu)] \in Delta \cup {Nothing}
    BY <2>1 DEF TypeOK
  <2>. QED
    BY <1>2, <1>4, <2>2 DEF LookupDelta
<1>. QED
  BY <1>3, <1>4

\* What I4 would write to an entry now has the type of what entries hold.
LEMMA IconType ==
  ASSUME TypeOK, NEW e \in Entries
  PROVE  Icon(menu, item[e], e \in filled, version[item[e].form]) \in Output
<1>1. item[e] \in Items /\ menu \in Setters
  BY DEF TypeOK
<1>2. version[item[e].form] \in 0..MaxVersion
  BY <1>1, ConstantsOK DEF TypeOK
<1>3. (e \in filled) \in BOOLEAN
  OBVIOUS
<1>. QED
  BY <1>1, <1>2, <1>3, IconOK

-----------------------------------------------------------------------------
(* Type correctness *)

\* The caches start well typed.
LEMMA TypeOKInit == Init => TypeOK
<1> SUFFICES ASSUME Init PROVE TypeOK
  OBVIOUS
<1>1. /\ out \in [Entries -> Output]
      /\ before \in [Calls -> [Entries -> Output]]
  BY FieldFacts DEF Init, NoSnapshot
<1>2. /\ version \in [Forms \cup {NoForm} -> 0..MaxVersion]
      /\ invalidated \in [Forms -> 0..MaxVersion]
      /\ settled \in [Forms -> 0..MaxVersion]
  BY ConstantsOK DEF Init
<1>3. stack \in Seq(Calls) /\ phase \in [Calls -> Phase]
  BY DEF Init, Phase
<1>4. /\ cache \in [StaticKey -> Delta \cup {Nothing}]
      /\ dynamicCache \in [DynamicKey -> DynamicEntry \cup {Nothing}]
  BY DEF Init
<1>. QED
  BY <1>1, <1>2, <1>3, <1>4 DEF Init, TypeOK

\* A call that begins keeps the types of the call variables.
LEMMA PushType ==
  ASSUME TypeOK, NEW c \in Calls, NEW p \in Phase, Push(c, p)
  PROVE  /\ stack' \in Seq(Calls)
         /\ phase' \in [Calls -> Phase]
         /\ seen' \in [Calls -> SUBSET Entries]
         /\ todo' \in [Calls -> SUBSET Entries]
<1>1. <<c>> \in Seq(Calls) /\ stack \in Seq(Calls)
  BY DEF TypeOK
<1>. QED
  BY <1>1 DEF Push, TypeOK

\* Every step of I5, I4 and their environment keeps the types.
LEMMA TypeOKNext == TypeOK /\ [Next]_vars => TypeOK'
<1> SUFFICES ASSUME TypeOK, [Next]_vars PROVE TypeOK'
  OBVIOUS
<1> USE DEF historyVars, engineVars, entryVars, cacheVars, switchVars, callVars
<1>1. ASSUME NEW c \in Calls, CallOriginal(c) \/ RunPassthrough(c) \/ CallCached(c)
      PROVE  TypeOK'
  <2>1. \E p \in Phase : Push(c, p)
    BY <1>1 DEF CallOriginal, RunPassthrough, CallCached, Phase
  <2>2. filled' \in SUBSET Entries
    BY <1>1 DEF CallOriginal, RunPassthrough, CallCached, FillMissingKeywords, TypeOK
  <2>3. UNCHANGED <<menu, item, out, rawList, cache, dynamicCache, features,
                    bypass, misses, before, version, invalidated, settled>>
    BY <1>1 DEF CallOriginal, RunPassthrough, CallCached
  <2>. QED
    BY <2>1, <2>2, <2>3, PushType DEF TypeOK
<1>2. ASSUME NEW c \in Calls, LockForClassify(c) PROVE TypeOK'
  BY <1>2 DEF TypeOK, LockForClassify, Phase
<1>3. ASSUME NEW c \in Calls, NEW e \in Entries, ClassifyHit(c, e) PROVE TypeOK'
  <2>1. ApplyDelta(out[e], LookupDelta(item[e])) \in Output
    BY <1>3, LookupDeltaType, ApplyDeltaType DEF ClassifyHit, TypeOK
  <2>. QED
    BY <1>3, <2>1 DEF TypeOK, ClassifyHit
<1>4. ASSUME NEW c \in Calls, NEW e \in Entries, ClassifyMiss(c, e) PROVE TypeOK'
  BY <1>4 DEF TypeOK, ClassifyMiss
<1>5. ASSUME NEW c \in Calls, ClassifyEnd(c) PROVE TypeOK'
  BY <1>5 DEF TypeOK, ClassifyEnd, Phase
<1>6. ASSUME NEW c \in Calls, SwapEntries(c) PROVE TypeOK'
  BY <1>6 DEF TypeOK, SwapEntries, Phase
<1>7. ASSUME NEW c \in Calls, RunUncached(c) PROVE TypeOK'
  BY <1>7 DEF TypeOK, RunUncached, Phase
<1>8. ASSUME NEW c \in Calls, LockForWriteBack(c) PROVE TypeOK'
  BY <1>8 DEF TypeOK, LockForWriteBack, Phase
<1>9. ASSUME NEW c \in Calls, NEW e \in Entries, WriteBack(c, e) PROVE TypeOK'
  <2>1. BuildDelta(before[c][e], out[e]) \in Delta
    BY BuildDeltaType DEF TypeOK
  <2>2. item[e] \in Items
    BY DEF TypeOK
  <2>3. cache' \in [StaticKey -> Delta \cup {Nothing}]
    BY <1>9, <2>1 DEF TypeOK, WriteBack
  <2>4. dynamicCache' \in [DynamicKey -> DynamicEntry \cup {Nothing}]
    <3>1. Cacheable(c, e) /\ IsDynamicForm(item[e].form)
            => [delta |-> BuildDelta(before[c][e], out[e]),
                token |-> DynamicToken(item[e])] \in DynamicEntry
      BY <2>1, <2>2, ItemKinds DEF Cacheable, DynamicEntry
    <3>. QED
      BY <1>9, <3>1 DEF TypeOK, WriteBack
  <2>. QED
    BY <1>9, <2>3, <2>4 DEF TypeOK, WriteBack
<1>10. ASSUME NEW c \in Calls, WriteBackEnd(c) PROVE TypeOK'
  BY <1>10 DEF TypeOK, WriteBackEnd, Phase
<1>11. ASSUME NEW c \in Calls, Return(c) PROVE TypeOK'
  <2>1. stack' \in Seq(Calls)
    BY <1>11 DEF TypeOK, Return, OnTop
  <2>. QED
    BY <1>11, <2>1, FieldFacts DEF TypeOK, Return, Phase
<1>12. ASSUME NEW c \in Calls, NEW e \in Entries, I4Renders(c, e) PROVE TypeOK'
  BY <1>12, IconType DEF TypeOK, I4Renders
<1>13. ASSUME NEW c \in Calls, I4Returns(c) \/ I4Fails(c) PROVE TypeOK'
  BY <1>13 DEF TypeOK, I4Returns, I4Fails, RestoreEntries, Phase
<1>14. ASSUME NEW f \in Forms, InvalidateFormID(f) PROVE TypeOK'
  BY <1>14 DEF TypeOK, InvalidateFormID, Erased
<1>15. ASSUME NEW f \in Forms, ModChanges(f) PROVE TypeOK'
  BY <1>15, ConstantsOK DEF TypeOK, ModChanges
<1>16. CASE ClearCache
  BY <1>16 DEF TypeOK, ClearCache
<1>17. ASSUME NEW on \in BOOLEAN, SetBypass(on) \/ SetFeatures(on) PROVE TypeOK'
  BY <1>17 DEF TypeOK, SetBypass, SetFeatures
<1>18. CASE Rebuild
  BY <1>18, FieldFacts DEF TypeOK, Rebuild
<1>19. ASSUME NEW e \in Entries, UpdateInPlace(e) PROVE TypeOK'
  BY <1>19 DEF TypeOK, UpdateInPlace
<1>20. CASE UNCHANGED vars
  BY <1>20 DEF TypeOK, vars
<1>. QED
  BY <1>1, <1>2, <1>3, <1>4, <1>5, <1>6, <1>7, <1>8, <1>9, <1>10, <1>11,
     <1>12, <1>13, <1>14, <1>15, <1>16, <1>17, <1>18, <1>19, <1>20
  DEF Next, I5Step, I4Step

\* The state keeps its shape: in particular a key is only ever stored in the
\* map it belongs to, and with a delta and token of the right kind.
THEOREM TypeCorrect == Spec => []TypeOK
BY TypeOKInit, TypeOKNext, PTL DEF Spec

-----------------------------------------------------------------------------
(* What the cache holds and what the entries show *)

\* Entries of c's list that c has not dealt with yet.
Undone(c) ==
  todo[c] \cup (IF phase[c] \in {"classify", "swap"} THEN misses[c] ELSE {})

\* Phases in which every entry of the list outside Undone(c) shows an icon;
\* in "writeback" todo counts something else, and all entries do.
Rendering == {"enter", "classify", "swap", "i4", "raw"}
Rendered == {"relock", "writeback", "done", "passed"}

\* Entry e shows what RefreshShowsI4Icons asks of it.
Shows(e) ==
  \E v \in Since(item[e].form)..version[item[e].form] :
    out[e]["iconLabel"] = Icon(menu, item[e], e \in filled, v)["iconLabel"]

ShowsInv ==
  \A c \in Calls :
    /\ phase[c] \in Rendering => \A e \in seen[c] \ Undone(c) : Shows(e)
    /\ phase[c] \in Rendered => \A e \in seen[c] : Shows(e)

\* The locals of a call: what it works on is part of the list it was given,
\* and with features on, that list has its keywords.
CallInv ==
  \A c \in Calls :
    /\ todo[c] \subseteq seen[c]
    /\ misses[c] \subseteq seen[c]
    /\ phase[c] = "idle" => misses[c] = {}
    /\ phase[c] = "swap" => todo[c] = {}
    /\ phase[c] # "idle" /\ features =>
         \A e \in seen[c] : item[e].form # NoForm => e \in filled
    /\ phase[c] \in {"enter", "classify", "swap", "i4", "relock", "writeback"}
         => features

HistoryInv == \A f \in Forms : settled[f] <= version[f]

IInv == TypeOK /\ HistoryInv /\ CallInv /\ ShowsInv /\ InvalidationsTakeEffect

\* Two items share a key only under the same setter and form.
LEMMA SameKey ==
  ASSUME NEW i \in IdItems, NEW j \in IdItems, NEW s \in Setters, NEW t \in Setters,
         KeyOf(i, s) = KeyOf(j, t)
  PROVE  s = t /\ i.form = j.form
<1>1. KeyOf(i, s).form = i.form /\ KeyOf(i, s).setter = s
  BY DEF KeyOf, MakeCacheKey
<1>2. KeyOf(j, t).form = j.form /\ KeyOf(j, t).setter = t
  BY DEF KeyOf, MakeCacheKey
<1>. QED
  BY <1>1, <1>2

\* A label that is right for one item is right for every item of its key.
LEMMA LabelTransfer ==
  ASSUME TypeOK, NEW s \in Setters, NEW i \in IdItems, NEW j \in IdItems,
         KeyOf(i, s) = KeyOf(j, s),
         IsDynamicForm(i.form) => DynamicToken(i) = DynamicToken(j),
         NEW label, NEW lo \in Nat, LabelOfI4(label, s, j, TRUE, lo)
  PROVE  LabelOfI4(label, s, i, TRUE, lo)
<1>1. i.form = j.form
  BY SameKey
<1>2. version[j.form] \in 0..MaxVersion
  BY DEF TypeOK, IdItems
<1>3. PICK v \in lo..version[j.form] : label = Icon(s, j, TRUE, v)["iconLabel"]
  BY DEF LabelOfI4
<1>4. v \in 0..MaxVersion
  BY <1>2, <1>3, ConstantsOK
<1>5. Icon(s, i, TRUE, v) = Icon(s, j, TRUE, v)
  BY <1>4, KeyDeterminesIcon
<1>. QED
  BY <1>1, <1>3, <1>5 DEF LabelOfI4

\* What a hit replays has the label of one of I4's own results.
LEMMA HitLabel ==
  ASSUME TypeOK, InvalidationsTakeEffect, NEW e \in Entries,
         LookupDelta(item[e]) # Nothing
  PROVE  LabelOfI4(LookupDelta(item[e])["iconLabel"], menu, item[e], TRUE,
                   settled[item[e].form])
<1> DEFINE i == item[e]
<1>1. i \in Items /\ menu \in Setters /\ i.form # NoForm
  BY DEF TypeOK, LookupDelta
<1>2. CASE IsDynamicForm(i.form)
  <2>1. i \in DynamicItems
    BY <1>1, <1>2, ItemKinds
  <2>. QED
    BY <1>1, <1>2, <2>1 DEF LookupDelta, InvalidationsTakeEffect, CachedSince
<1>3. CASE ~IsDynamicForm(i.form)
  <2>1. i \in StaticItems
    BY <1>1, <1>3, ItemKinds
  <2>. QED
    BY <1>1, <1>3, <2>1 DEF LookupDelta, InvalidationsTakeEffect, CachedSince
<1>. QED
  BY <1>2, <1>3

\* What a write-back stores does, too.
LEMMA StoredLabel ==
  ASSUME TypeOK, NEW c \in Calls, NEW e \in Entries,
         Cacheable(c, e), Shows(e), e \in filled
  PROVE  LabelOfI4(BuildDelta(before[c][e], out[e])["iconLabel"], menu, item[e],
                   TRUE, settled[item[e].form])
<1> DEFINE delta == BuildDelta(before[c][e], out[e])
<1>1. delta \in Delta
  BY BuildDeltaType DEF TypeOK
<1>2. delta["iconLabel"] \in Value
  BY <1>1, FieldFacts DEF Cacheable, DeltaSetsIconLabel, Delta
<1>3. delta["iconLabel"] = out[e]["iconLabel"]
  BY FieldFacts DEF Cacheable, DeltaSetsIconLabel, BuildDelta
<1>4. item[e].form \in Forms
  BY ItemKinds DEF TypeOK, Cacheable
<1>5. (e \in filled) = TRUE
  OBVIOUS
<1>6. PICK v \in settled[item[e].form]..version[item[e].form] :
        out[e]["iconLabel"] = Icon(menu, item[e], e \in filled, v)["iconLabel"]
  BY <1>4 DEF Shows, Since
<1>7. out[e]["iconLabel"] = Icon(menu, item[e], TRUE, v)["iconLabel"]
  BY <1>5, <1>6
<1>. QED
  BY <1>2, <1>3, <1>6, <1>7 DEF LabelOfI4

\* An entry goes on showing its icon while its own members and its item stay
\* as they are and data versions only grow.
LEMMA ShowsStable ==
  ASSUME TypeOK, TypeOK', NEW e \in Entries, Shows(e),
         menu' = menu, item'[e] = item[e], settled' = settled,
         out'[e]["iconLabel"] = out[e]["iconLabel"],
         (e \in filled') = (e \in filled),
         \A f \in Forms \cup {NoForm} : version[f] <= version'[f]
  PROVE  Shows(e)'
<1> DEFINE f == item[e].form
<1>1. f \in Forms \cup {NoForm}
  BY ConstantsOK DEF TypeOK
<1>2. version[f] \in Nat /\ version'[f] \in Nat /\ version[f] <= version'[f]
  BY <1>1 DEF TypeOK
<1>3. Since(f) \in Nat
  BY ConstantsOK DEF TypeOK, Since
<1>4. Since(f)' = Since(f)
  BY DEF Since
<1>5. PICK v \in Since(f)..version[f] :
        out[e]["iconLabel"] = Icon(menu, item[e], e \in filled, v)["iconLabel"]
  BY DEF Shows
<1>6. v \in Since(f)..version'[f]
  BY <1>2, <1>3, <1>5
<1>7. out'[e]["iconLabel"] = Icon(menu', item'[e], e \in filled', v)["iconLabel"]
  BY <1>5
<1>. QED
  BY <1>4, <1>6, <1>7 DEF Shows

-----------------------------------------------------------------------------
(* The invariant is inductive: one lemma per conjunct *)

\* The invariant holds before the first call.
LEMMA IInvInit == Init => IInv
<1> SUFFICES ASSUME Init PROVE IInv
  OBVIOUS
<1>1. TypeOK
  BY TypeOKInit
<1>2. HistoryInv
  BY DEF Init, HistoryInv
<1>3. CallInv /\ ShowsInv
  BY DEF Init, CallInv, ShowsInv, Undone, Rendering, Rendered
<1>4. InvalidationsTakeEffect
  <2>1. \A s \in Setters, i \in StaticItems : cache[KeyOf(i, s)] = Nothing
    BY KeyOfStatic DEF Init
  <2>2. \A s \in Setters, i \in DynamicItems : dynamicCache[KeyOf(i, s)] = Nothing
    BY KeyOfDynamic DEF Init
  <2>. QED
    BY <2>1, <2>2 DEF InvalidationsTakeEffect, CachedSince
<1>. QED
  BY <1>1, <1>2, <1>3, <1>4 DEF IInv

\* Every step keeps versions in order.
LEMMA HistoryStep == TypeOK /\ HistoryInv /\ [Next]_vars => HistoryInv'
<1> SUFFICES ASSUME TypeOK, HistoryInv, [Next]_vars PROVE HistoryInv'
  OBVIOUS
<1> USE DEF historyVars, engineVars, entryVars, cacheVars, switchVars, callVars
<1>1. ASSUME NEW f \in Forms, InvalidateFormID(f) PROVE HistoryInv'
  BY <1>1 DEF InvalidateFormID, HistoryInv, TypeOK
<1>2. ASSUME NEW f \in Forms, ModChanges(f) PROVE HistoryInv'
  BY <1>2 DEF ModChanges, HistoryInv, TypeOK
<1>3. CASE UNCHANGED <<version, settled>>
  BY <1>3 DEF HistoryInv
<1>4. ASSUME NEW c \in Calls, CallOriginal(c) \/ RunPassthrough(c) \/ CallCached(c)
             \/ I5Step(c) \/ I4Step(c)
      PROVE  UNCHANGED <<version, settled>>
  BY <1>4 DEF CallOriginal, RunPassthrough, CallCached, I5Step, I4Step, LockForClassify,
     ClassifyHit, ClassifyMiss, ClassifyEnd, SwapEntries, RunUncached, LockForWriteBack,
     WriteBack, WriteBackEnd, Return, I4Renders, I4Returns, I4Fails
<1>. QED
  BY <1>1, <1>2, <1>3, <1>4
  DEF Next, vars, ClearCache, SetBypass, SetFeatures, Rebuild, UpdateInPlace

\* Every step leaves a running call with parts of its own list.
LEMMA CallStep == TypeOK /\ CallInv /\ [Next]_vars => CallInv'
<1> SUFFICES ASSUME TypeOK, CallInv, [Next]_vars PROVE CallInv'
  OBVIOUS
<1> USE DEF historyVars, engineVars, entryVars, cacheVars, switchVars, callVars
<1>1. ASSUME NEW c \in Calls, CallOriginal(c) PROVE CallInv'
  BY <1>1 DEF TypeOK, CallInv, CallOriginal, Push, CanCall
<1>2. ASSUME NEW c \in Calls, RunPassthrough(c) \/ CallCached(c) PROVE CallInv'
  <2>1. \A e \in rawList : item[e].form # NoForm => e \in filled'
    BY <1>2 DEF RunPassthrough, CallCached, FillMissingKeywords
  <2>2. filled \subseteq filled'
    BY <1>2 DEF RunPassthrough, CallCached, FillMissingKeywords
  <2>3. /\ phase[c] = "idle" /\ features /\ UNCHANGED <<item, features, misses>>
        /\ phase' = [phase EXCEPT ![c] = "raw"] \/ phase' = [phase EXCEPT ![c] = "enter"]
        /\ seen' = [seen EXCEPT ![c] = rawList]
        /\ todo' = [todo EXCEPT ![c] = rawList]
    BY <1>2 DEF RunPassthrough, CallCached, Push, CanCall
  <2>. QED
    BY <2>1, <2>2, <2>3 DEF TypeOK, CallInv
<1>3. ASSUME NEW c \in Calls, LockForClassify(c) PROVE CallInv'
  BY <1>3 DEF TypeOK, CallInv, LockForClassify
<1>4. ASSUME NEW c \in Calls, NEW e \in Entries, ClassifyHit(c, e) PROVE CallInv'
  BY <1>4 DEF TypeOK, CallInv, ClassifyHit
<1>5. ASSUME NEW c \in Calls, NEW e \in Entries, ClassifyMiss(c, e) PROVE CallInv'
  BY <1>5 DEF TypeOK, CallInv, ClassifyMiss, NextUp
<1>6. ASSUME NEW c \in Calls, ClassifyEnd(c) PROVE CallInv'
  BY <1>6 DEF TypeOK, CallInv, ClassifyEnd
<1>7. ASSUME NEW c \in Calls, SwapEntries(c) PROVE CallInv'
  BY <1>7 DEF TypeOK, CallInv, SwapEntries
<1>8. ASSUME NEW c \in Calls, RunUncached(c) PROVE CallInv'
  BY <1>8 DEF TypeOK, CallInv, RunUncached
<1>9. ASSUME NEW c \in Calls, LockForWriteBack(c) PROVE CallInv'
  BY <1>9 DEF TypeOK, CallInv, LockForWriteBack
<1>10. ASSUME NEW c \in Calls, NEW e \in Entries, WriteBack(c, e) PROVE CallInv'
  BY <1>10 DEF TypeOK, CallInv, WriteBack
<1>11. ASSUME NEW c \in Calls, WriteBackEnd(c) PROVE CallInv'
  BY <1>11 DEF TypeOK, CallInv, WriteBackEnd
<1>12. ASSUME NEW c \in Calls, Return(c) PROVE CallInv'
  BY <1>12 DEF TypeOK, CallInv, Return
<1>13. ASSUME NEW c \in Calls, NEW e \in Entries, I4Renders(c, e) PROVE CallInv'
  BY <1>13 DEF TypeOK, CallInv, I4Renders
<1>14. ASSUME NEW c \in Calls, I4Returns(c) \/ I4Fails(c) PROVE CallInv'
  BY <1>14 DEF TypeOK, CallInv, I4Returns, I4Fails, RestoreEntries
<1>15. ASSUME NEW f \in Forms, InvalidateFormID(f) \/ ModChanges(f) PROVE CallInv'
  BY <1>15 DEF CallInv, InvalidateFormID, ModChanges
<1>16. CASE ClearCache \/ \E on \in BOOLEAN : SetBypass(on) \/ SetFeatures(on)
  BY <1>16 DEF CallInv, ClearCache, SetBypass, SetFeatures, MainThreadIdle
<1>17. CASE Rebuild \/ \E e \in Entries : UpdateInPlace(e)
  BY <1>17 DEF CallInv, Rebuild, UpdateInPlace, MainThreadIdle
<1>18. CASE UNCHANGED vars
  BY <1>18 DEF CallInv, vars
<1>. QED
  BY <1>1, <1>2, <1>3, <1>4, <1>5, <1>6, <1>7, <1>8, <1>9, <1>10, <1>11,
     <1>12, <1>13, <1>14, <1>15, <1>16, <1>17, <1>18
  DEF Next, I5Step, I4Step

\* A write-back leaves both maps right.
LEMMA WriteBackLabels ==
  ASSUME IInv, NEW c \in Calls, NEW e \in Entries, WriteBack(c, e)
  PROVE  InvalidationsTakeEffect'
<1> DEFINE key == KeyOf(item[e], menu)
           delta == BuildDelta(before[c][e], out[e])
<1>1. TypeOK /\ CallInv /\ ShowsInv /\ InvalidationsTakeEffect
  BY DEF IInv
<1>2. UNCHANGED <<menu, item, version, settled>>
  BY DEF WriteBack, engineVars, historyVars
<1>3. CASE ~Cacheable(c, e)
  BY <1>1, <1>2, <1>3 DEF WriteBack, InvalidationsTakeEffect, CachedSince, LabelOfI4
<1>4. CASE Cacheable(c, e)
  <2>1. item[e] \in Items /\ menu \in Setters /\ item[e].form # NoForm
    BY <1>1, <1>4 DEF TypeOK, Cacheable
  <2>2. item[e] \in IdItems /\ item[e].form \in Forms
    BY <2>1, ItemKinds DEF IdItems
  <2>3. e \in seen[c] /\ phase[c] = "writeback"
    BY <1>1 DEF WriteBack, NextUp, CallInv
  <2>4. e \in filled /\ Shows(e)
    BY <1>1, <2>1, <2>3 DEF CallInv, ShowsInv, Rendered
  <2>5. LabelOfI4(delta["iconLabel"], menu, item[e], TRUE, settled[item[e].form])
    BY <1>1, <1>4, <2>4, StoredLabel
  <2>6. settled[item[e].form] \in Nat
    BY <1>1, <2>2 DEF TypeOK
  <2>7. ASSUME NEW s \in Setters, NEW i \in IdItems, KeyOf(i, s) = key,
               IsDynamicForm(i.form) => DynamicToken(i) = DynamicToken(item[e])
        PROVE  LabelOfI4(delta["iconLabel"], s, i, TRUE, settled[i.form])
    <3>1. s = menu /\ i.form = item[e].form
      BY <2>1, <2>2, <2>7, SameKey
    <3>. QED
      BY <1>1, <2>1, <2>2, <2>5, <2>6, <2>7, <3>1, LabelTransfer
  <2>8. CASE ~IsDynamicForm(item[e].form)
    <3>1. cache' = [cache EXCEPT ![key] = delta] /\ dynamicCache' = dynamicCache
      BY <1>4, <2>8 DEF WriteBack
    <3>2. ASSUME NEW s \in Setters, NEW i \in StaticItems, cache'[KeyOf(i, s)] # Nothing
          PROVE  LabelOfI4(cache'[KeyOf(i, s)]["iconLabel"], s, i, TRUE, settled[i.form])
      <4>1. CASE KeyOf(i, s) = key
        <5>1. cache'[KeyOf(i, s)] = delta
          BY <1>1, <3>1, <4>1, KeyOfStatic DEF TypeOK
        <5>2. i \in IdItems /\ ~IsDynamicForm(i.form)
          BY DEF StaticItems, DynamicItems
        <5>. QED
          BY <2>7, <4>1, <5>1, <5>2
      <4>2. CASE KeyOf(i, s) # key
        BY <1>1, <3>1, <3>2, <4>2, KeyOfStatic
        DEF TypeOK, InvalidationsTakeEffect, CachedSince
      <4>. QED
        BY <4>1, <4>2
    <3>. QED
      BY <1>1, <1>2, <3>1, <3>2 DEF InvalidationsTakeEffect, CachedSince, LabelOfI4
  <2>9. CASE IsDynamicForm(item[e].form)
    <3>1. /\ dynamicCache' = [dynamicCache EXCEPT ![key] =
                                [delta |-> delta, token |-> DynamicToken(item[e])]]
          /\ cache' = cache
      BY <1>4, <2>9 DEF WriteBack
    <3>2. ASSUME NEW s \in Setters, NEW i \in DynamicItems,
                 dynamicCache'[KeyOf(i, s)] # Nothing,
                 dynamicCache'[KeyOf(i, s)].token = DynamicToken(i)
          PROVE  LabelOfI4(dynamicCache'[KeyOf(i, s)].delta["iconLabel"], s, i, TRUE,
                           settled[i.form])
      <4>1. CASE KeyOf(i, s) = key
        <5>1. dynamicCache'[KeyOf(i, s)] =
                [delta |-> delta, token |-> DynamicToken(item[e])]
          BY <1>1, <3>1, <4>1, KeyOfDynamic DEF TypeOK
        <5>2. i \in IdItems
          BY DEF DynamicItems
        <5>3. DynamicToken(i) = DynamicToken(item[e])
          BY <3>2, <5>1
        <5>4. dynamicCache'[KeyOf(i, s)].delta = delta
          BY <5>1
        <5>5. LabelOfI4(delta["iconLabel"], s, i, TRUE, settled[i.form])
          BY <2>7, <4>1, <5>2, <5>3
        <5>. QED
          BY <5>4, <5>5
      <4>2. CASE KeyOf(i, s) # key
        BY <1>1, <3>1, <3>2, <4>2, KeyOfDynamic
        DEF TypeOK, InvalidationsTakeEffect, CachedSince
      <4>. QED
        BY <4>1, <4>2
    <3>. QED
      BY <1>1, <1>2, <3>1, <3>2 DEF InvalidationsTakeEffect, CachedSince, LabelOfI4
  <2>. QED
    BY <2>8, <2>9
<1>. QED
  BY <1>3, <1>4

\* So does erasing: what is left was not touched by the invalidation.
LEMMA InvalidateLabels ==
  ASSUME IInv, NEW f \in Forms, InvalidateFormID(f)
  PROVE  InvalidationsTakeEffect'
<1>1. TypeOK /\ InvalidationsTakeEffect
  BY DEF IInv
<1>2. \A i \in Items, s \in Setters : KeyOf(i, s).form = i.form
  BY DEF KeyOf, MakeCacheKey
<1>3. \A g \in Forms : g # f => settled'[g] = settled[g]
  BY <1>1 DEF InvalidateFormID, TypeOK
<1>4. UNCHANGED version
  BY DEF InvalidateFormID
<1>5. ASSUME NEW s \in Setters, NEW i \in StaticItems, cache'[KeyOf(i, s)] # Nothing
      PROVE  LabelOfI4(cache[KeyOf(i, s)]["iconLabel"], s, i, TRUE, settled[i.form])'
  <2>1. i \in Items /\ i.form \in Forms
    BY DEF StaticItems, IdItems
  <2>2. cache' = [k \in StaticKey |-> IF k.form = f THEN Nothing ELSE cache[k]]
    BY <1>1 DEF InvalidateFormID, Erased, TypeOK
  <2>3. i.form # f /\ cache'[KeyOf(i, s)] = cache[KeyOf(i, s)]
    BY <1>2, <1>5, <2>1, <2>2, KeyOfStatic
  <2>4. LabelOfI4(cache[KeyOf(i, s)]["iconLabel"], s, i, TRUE, settled[i.form])
    BY <1>1, <1>5, <2>3 DEF InvalidationsTakeEffect, CachedSince
  <2>. QED
    BY <1>3, <1>4, <2>1, <2>3, <2>4 DEF LabelOfI4
<1>6. ASSUME NEW s \in Setters, NEW i \in DynamicItems,
             dynamicCache'[KeyOf(i, s)] # Nothing,
             dynamicCache'[KeyOf(i, s)].token = DynamicToken(i)
      PROVE  LabelOfI4(dynamicCache[KeyOf(i, s)].delta["iconLabel"], s, i, TRUE,
                       settled[i.form])'
  <2>1. i \in Items /\ i.form \in Forms
    BY DEF DynamicItems, IdItems
  <2>2. dynamicCache' =
          [k \in DynamicKey |-> IF k.form = f THEN Nothing ELSE dynamicCache[k]]
    BY <1>1 DEF InvalidateFormID, Erased, TypeOK
  <2>3. i.form # f /\ dynamicCache'[KeyOf(i, s)] = dynamicCache[KeyOf(i, s)]
    BY <1>2, <1>6, <2>1, <2>2, KeyOfDynamic
  <2>4. LabelOfI4(dynamicCache[KeyOf(i, s)].delta["iconLabel"], s, i, TRUE, settled[i.form])
    BY <1>1, <1>6, <2>3 DEF InvalidationsTakeEffect, CachedSince
  <2>. QED
    BY <1>3, <1>4, <2>1, <2>3, <2>4 DEF LabelOfI4
<1>. QED
  BY <1>5, <1>6 DEF InvalidationsTakeEffect, CachedSince

\* No step leaves an icon in the caches that an invalidation should have
\* taken out.
LEMMA LabelStep == IInv /\ [Next]_vars => InvalidationsTakeEffect'
<1> SUFFICES ASSUME IInv, [Next]_vars PROVE InvalidationsTakeEffect'
  OBVIOUS
<1> USE DEF historyVars, engineVars, entryVars, cacheVars, switchVars, callVars
<1>1. TypeOK /\ InvalidationsTakeEffect
  BY DEF IInv
<1>2. CASE UNCHANGED <<cache, dynamicCache, version, settled>>
  BY <1>1, <1>2 DEF InvalidationsTakeEffect, CachedSince, LabelOfI4
<1>3. ASSUME NEW f \in Forms, ModChanges(f) PROVE InvalidationsTakeEffect'
  <2>1. UNCHANGED <<cache, dynamicCache, settled>>
    BY <1>3 DEF ModChanges
  <2>2. \A g \in Forms : /\ version[g] \in Nat /\ version'[g] \in Nat
                         /\ version[g] <= version'[g] /\ settled[g] \in Nat
    BY <1>1, <1>3 DEF ModChanges, TypeOK
  <2>3. ASSUME NEW s \in Setters, NEW i \in IdItems, NEW label,
               LabelOfI4(label, s, i, TRUE, settled[i.form])
        PROVE  LabelOfI4(label, s, i, TRUE, settled[i.form])'
    <3>1. PICK v \in settled[i.form]..version[i.form] : label = Icon(s, i, TRUE, v)["iconLabel"]
      BY <2>3 DEF LabelOfI4
    <3>2. i.form \in Forms
      BY DEF IdItems
    <3>3. v \in settled[i.form]..version'[i.form]
      BY <2>2, <3>1, <3>2
    <3>. QED
      BY <2>1, <2>3, <3>1, <3>3 DEF LabelOfI4
  <2>4. StaticItems \subseteq IdItems /\ DynamicItems \subseteq IdItems
    BY DEF StaticItems, DynamicItems
  <2>. QED
    BY <1>1, <2>1, <2>3, <2>4 DEF InvalidationsTakeEffect, CachedSince
<1>4. CASE ClearCache
  <2>1. \A s \in Setters, i \in StaticItems : cache'[KeyOf(i, s)] = Nothing
    BY <1>4, KeyOfStatic DEF ClearCache
  <2>2. \A s \in Setters, i \in DynamicItems : dynamicCache'[KeyOf(i, s)] = Nothing
    BY <1>4, KeyOfDynamic DEF ClearCache
  <2>. QED
    BY <2>1, <2>2 DEF InvalidationsTakeEffect, CachedSince
<1>5. ASSUME NEW c \in Calls, CallOriginal(c) \/ RunPassthrough(c) \/ CallCached(c)
             \/ I4Step(c)
      PROVE  UNCHANGED <<cache, dynamicCache, version, settled>>
  BY <1>5 DEF CallOriginal, RunPassthrough, CallCached, I4Step, I4Renders, I4Returns, I4Fails
<1>6. ASSUME NEW c \in Calls, I5Step(c), ~\E e \in Entries : WriteBack(c, e)
      PROVE  UNCHANGED <<cache, dynamicCache, version, settled>>
  BY <1>6 DEF I5Step, LockForClassify, ClassifyHit, ClassifyMiss, ClassifyEnd, SwapEntries,
     RunUncached, LockForWriteBack, WriteBackEnd, Return
<1>7. CASE Rebuild \/ (\E e \in Entries : UpdateInPlace(e)) \/ UNCHANGED vars
           \/ (\E on \in BOOLEAN : SetBypass(on) \/ SetFeatures(on))
  BY <1>2, <1>7 DEF Rebuild, UpdateInPlace, vars, SetBypass, SetFeatures
<1>. QED
  BY <1>2, <1>3, <1>4, <1>5, <1>6, <1>7, WriteBackLabels, InvalidateLabels DEF Next

\* A hit and a rendering each make their entry show an icon.
LEMMA HitShows ==
  ASSUME IInv, TypeOK', NEW c \in Calls, NEW e \in Entries, ClassifyHit(c, e)
  PROVE  Shows(e)'
<1> DEFINE f == item[e].form
           delta == LookupDelta(item[e])
<1>1. TypeOK /\ CallInv /\ InvalidationsTakeEffect
  BY DEF IInv
<1>2. UNCHANGED <<menu, item, filled, version, settled>>
  BY DEF ClassifyHit, engineVars, historyVars
<1>3. delta # Nothing
  BY DEF ClassifyHit
<1>4. LabelOfI4(delta["iconLabel"], menu, item[e], TRUE, settled[f])
  BY <1>1, <1>3, HitLabel
<1>5. delta["iconLabel"] # Keep
  BY <1>4, ConstantsOK DEF LabelOfI4
<1>6. out'[e]["iconLabel"] = delta["iconLabel"]
  BY <1>1, <1>5, FieldFacts DEF ClassifyHit, ApplyDelta, TypeOK
<1>7. f # NoForm /\ f \in Forms
  BY <1>1, <1>3, ItemKinds DEF LookupDelta, TypeOK
<1>8. (e \in filled) = TRUE
  BY <1>1, <1>7 DEF ClassifyHit, NextUp, CallInv
<1>9. PICK v \in settled[f]..version[f] :
        delta["iconLabel"] = Icon(menu, item[e], TRUE, v)["iconLabel"]
  BY <1>4 DEF LabelOfI4
<1>10. out'[e]["iconLabel"] = Icon(menu', item'[e], e \in filled', v)["iconLabel"]
  BY <1>2, <1>6, <1>8, <1>9
<1>11. v \in Since(f)'..version'[f]
  BY <1>2, <1>7, <1>9 DEF Since
<1>. QED
  BY <1>2, <1>10, <1>11 DEF Shows

\* The entry that I4 renders shows an icon of its item.
LEMMA RenderShows ==
  ASSUME IInv, NEW c \in Calls, NEW e \in Entries, I4Renders(c, e)
  PROVE  Shows(e)'
<1> DEFINE f == item[e].form
<1>1. TypeOK /\ HistoryInv
  BY DEF IInv
<1>2. UNCHANGED <<menu, item, filled, version, settled>>
  BY DEF I4Renders, engineVars, historyVars
<1>3. out'[e] = Icon(menu, item[e], e \in filled, version[f])
  BY <1>1 DEF I4Renders, TypeOK
<1>4. f \in Forms \cup {NoForm}
  BY <1>1, ConstantsOK DEF TypeOK
<1>5. version[f] \in Since(f)..version[f]
  BY <1>1, <1>4 DEF Since, HistoryInv, TypeOK
<1>6. out'[e]["iconLabel"] = Icon(menu', item'[e], e \in filled', version[f])["iconLabel"]
  BY <1>2, <1>3
<1>7. version[f] \in Since(f)'..version'[f]
  BY <1>2, <1>5 DEF Since
<1>. QED
  BY <1>2, <1>6, <1>7 DEF Shows

\* A step that spares the members of an entry, its item and its history
\* spares what it shows.
LEMMA FrameShows ==
  ASSUME IInv, TypeOK', NEW e \in Entries, Shows(e),
         UNCHANGED <<menu, item, version, settled>>,
         out'[e] = out[e], (e \in filled') = (e \in filled)
  PROVE  Shows(e)'
<1>1. TypeOK
  BY DEF IInv
<1>2. \A f \in Forms \cup {NoForm} : version[f] <= version'[f]
  BY <1>1 DEF TypeOK
<1>. QED
  BY <1>1, <1>2, ShowsStable

\* Steps of a call that write no entry.
LEMMA QuietShows ==
  ASSUME IInv, TypeOK', UNCHANGED <<menu, item, version, settled, out, filled>>,
         \A c \in Calls :
           /\ seen'[c] = seen[c] \/ phase'[c] \notin Rendering \cup Rendered
                                 \/ (phase'[c] \in Rendering /\ seen'[c] \subseteq todo'[c])
           /\ phase'[c] \in Rendering =>
                \/ seen'[c] \subseteq todo'[c]
                \/ phase[c] \in Rendering /\ Undone(c) \cap seen[c] \subseteq Undone(c)'
           /\ phase'[c] \in Rendered =>
                \/ phase[c] \in Rendered
                \/ phase[c] \in Rendering /\ Undone(c) = {}
  PROVE  ShowsInv'
<1>1. TypeOK /\ ShowsInv
  BY DEF IInv
<1>2. \A e \in Entries : Shows(e) => Shows(e)'
  BY FrameShows
<1>3. \A c \in Calls : seen[c] \subseteq Entries /\ todo'[c] \subseteq Undone(c)'
  BY <1>1 DEF TypeOK, Undone
<1>4. Rendering \cap Rendered = {}
  BY DEF Rendering, Rendered
<1>. QED
  BY <1>1, <1>2, <1>3, <1>4 DEF ShowsInv, Rendering, Rendered

\* Every step leaves the entries a call has looked at with icons of theirs.
LEMMA ShowsStep == IInv /\ TypeOK' /\ [Next]_vars => ShowsInv'
<1> SUFFICES ASSUME IInv, TypeOK', [Next]_vars PROVE ShowsInv'
  OBVIOUS
<1> USE DEF historyVars, engineVars, entryVars, cacheVars, switchVars, callVars
<1>0. TypeOK /\ CallInv /\ ShowsInv
  BY DEF IInv
<1>1. ASSUME NEW c \in Calls, CallOriginal(c) PROVE ShowsInv'
  BY <1>0, <1>1, QuietShows
  DEF CallOriginal, Push, CanCall, TypeOK, Rendering, Rendered, Undone
<1>2. ASSUME NEW c \in Calls, RunPassthrough(c) \/ CallCached(c) PROVE ShowsInv'
  <2>1. /\ UNCHANGED <<menu, item, version, settled, out, misses>>
        /\ features /\ phase[c] = "idle"
        /\ filled' = filled \cup {e \in rawList : item[e].form # NoForm}
        /\ \E p \in {"raw", "enter"} : phase' = [phase EXCEPT ![c] = p]
        /\ seen' = [seen EXCEPT ![c] = rawList]
        /\ todo' = [todo EXCEPT ![c] = rawList]
    BY <1>2 DEF RunPassthrough, CallCached, Push, CanCall, FillMissingKeywords
  <2>2. ASSUME NEW d \in Calls, phase[d] # "idle", NEW e \in seen[d], Shows(e)
        PROVE  Shows(e)'
    <3>1. e \in Entries /\ out'[e] = out[e]
      BY <1>0, <2>1 DEF TypeOK
    <3>2. item[e].form # NoForm => e \in filled
      BY <1>0, <2>1, <2>2 DEF CallInv
    <3>3. (e \in filled') = (e \in filled)
      BY <2>1, <3>2
    <3>. QED
      BY <2>1, <2>2, <3>1, <3>3, FrameShows
  <2>3. ASSUME NEW d \in Calls, d # c
        PROVE  /\ phase'[d] = phase[d] /\ seen'[d] = seen[d] /\ Undone(d)' = Undone(d)
    BY <1>0, <2>1, <2>3 DEF TypeOK, Undone
  <2>4. phase'[c] \in {"raw", "enter"} /\ seen'[c] \subseteq Undone(c)'
    BY <1>0, <2>1 DEF TypeOK, Undone
  <2>. QED
    BY <1>0, <2>2, <2>3, <2>4 DEF ShowsInv, Rendering, Rendered
<1>3. ASSUME NEW c \in Calls, LockForClassify(c) PROVE ShowsInv'
  BY <1>0, <1>3, QuietShows
  DEF LockForClassify, TypeOK, Rendering, Rendered, Undone
<1>4. ASSUME NEW c \in Calls, NEW e \in Entries, ClassifyHit(c, e) PROVE ShowsInv'
  <2>1. Shows(e)'
    BY <1>4, HitShows
  <2>2. ASSUME NEW d \in Entries, d # e, Shows(d) PROVE Shows(d)'
    <3>1. /\ out'[d] = out[d] /\ (d \in filled') = (d \in filled)
          /\ UNCHANGED <<menu, item, version, settled>>
      BY <1>0, <1>4, <2>2 DEF ClassifyHit, TypeOK
    <3>. QED
      BY <2>2, <3>1, FrameShows
  <2>3. \A d \in Calls : /\ phase'[d] = phase[d] /\ seen'[d] = seen[d] /\ seen[d] \subseteq Entries
                         /\ Undone(d) \subseteq Undone(d)' \cup {e}
    BY <1>0, <1>4 DEF ClassifyHit, TypeOK, Undone
  <2>. QED
    BY <1>0, <2>1, <2>2, <2>3 DEF ShowsInv
<1>5. ASSUME NEW c \in Calls, NEW e \in Entries, ClassifyMiss(c, e) PROVE ShowsInv'
  BY <1>0, <1>5, QuietShows
  DEF ClassifyMiss, TypeOK, Rendering, Rendered, Undone
<1>6. ASSUME NEW c \in Calls, ClassifyEnd(c) PROVE ShowsInv'
  BY <1>0, <1>6, QuietShows
  DEF ClassifyEnd, TypeOK, Rendering, Rendered, Undone
<1>7. ASSUME NEW c \in Calls, SwapEntries(c) PROVE ShowsInv'
  <2>1. todo[c] = {} /\ misses[c] \subseteq seen[c]
    BY <1>0, <1>7 DEF CallInv, SwapEntries
  <2>. QED
    BY <1>0, <1>7, <2>1, QuietShows
    DEF SwapEntries, TypeOK, Rendering, Rendered, Undone
<1>8. ASSUME NEW c \in Calls, RunUncached(c) PROVE ShowsInv'
  BY <1>0, <1>8, QuietShows
  DEF RunUncached, TypeOK, Rendering, Rendered, Undone
<1>9. ASSUME NEW c \in Calls, LockForWriteBack(c) PROVE ShowsInv'
  BY <1>0, <1>9, QuietShows
  DEF LockForWriteBack, TypeOK, Rendering, Rendered, Undone
<1>10. ASSUME NEW c \in Calls, NEW e \in Entries, WriteBack(c, e) PROVE ShowsInv'
  BY <1>0, <1>10, QuietShows
  DEF WriteBack, TypeOK, Rendering, Rendered, Undone
<1>11. ASSUME NEW c \in Calls, WriteBackEnd(c) PROVE ShowsInv'
  BY <1>0, <1>11, QuietShows
  DEF WriteBackEnd, TypeOK, Rendering, Rendered, Undone
<1>12. ASSUME NEW c \in Calls, Return(c) PROVE ShowsInv'
  BY <1>0, <1>12, QuietShows
  DEF Return, TypeOK, Rendering, Rendered, Undone
<1>13. ASSUME NEW c \in Calls, NEW e \in Entries, I4Renders(c, e) PROVE ShowsInv'
  <2>1. Shows(e)'
    BY <1>13, RenderShows
  <2>2. ASSUME NEW d \in Entries, d # e, Shows(d) PROVE Shows(d)'
    <3>1. /\ out'[d] = out[d] /\ (d \in filled') = (d \in filled)
          /\ UNCHANGED <<menu, item, version, settled>>
      BY <1>0, <1>13, <2>2 DEF I4Renders, TypeOK
    <3>. QED
      BY <2>2, <3>1, FrameShows
  <2>3. \A d \in Calls : /\ phase'[d] = phase[d] /\ seen'[d] = seen[d] /\ seen[d] \subseteq Entries
                         /\ Undone(d) \subseteq Undone(d)' \cup {e}
    BY <1>0, <1>13 DEF I4Renders, TypeOK, Undone
  <2>. QED
    BY <1>0, <2>1, <2>2, <2>3 DEF ShowsInv
<1>14. ASSUME NEW c \in Calls, I4Returns(c) PROVE ShowsInv'
  BY <1>0, <1>14, QuietShows
  DEF I4Returns, TypeOK, Rendering, Rendered, Undone
<1>15. ASSUME NEW c \in Calls, I4Fails(c) PROVE ShowsInv'
  BY <1>0, <1>15, QuietShows
  DEF I4Fails, TypeOK, Rendering, Rendered, Undone
<1>16. ASSUME MainThreadIdle, UNCHANGED phase PROVE ShowsInv'
  BY <1>16 DEF MainThreadIdle, ShowsInv, Rendering, Rendered
<1>17. ASSUME NEW f \in Forms, InvalidateFormID(f), ~MainThreadIdle PROVE ShowsInv'
  <2>1. settled' = settled
    BY <1>0, <1>17 DEF InvalidateFormID, TypeOK
  <2>. QED
    BY <1>0, <1>17, <2>1, QuietShows DEF InvalidateFormID, TypeOK, Undone
<1>18. ASSUME NEW f \in Forms, ModChanges(f) PROVE ShowsInv'
  <2>1. \A g \in Forms \cup {NoForm} : version[g] <= version'[g]
    BY <1>0, <1>18 DEF ModChanges, TypeOK
  <2>2. UNCHANGED <<menu, item, settled, out, filled, phase, seen, todo, misses>>
    BY <1>18 DEF ModChanges
  <2>3. \A e \in Entries : Shows(e) => Shows(e)'
    BY <1>0, <2>1, <2>2, ShowsStable
  <2>. QED
    BY <1>0, <2>2, <2>3 DEF ShowsInv, Undone, TypeOK
<1>19. CASE ClearCache \/ Rebuild \/ (\E e \in Entries : UpdateInPlace(e))
            \/ (\E on \in BOOLEAN : SetBypass(on) \/ SetFeatures(on))
  BY <1>16, <1>19 DEF ClearCache, Rebuild, UpdateInPlace, SetBypass, SetFeatures
<1>20. CASE UNCHANGED vars
  BY <1>0, <1>20, QuietShows DEF vars, TypeOK, Undone
<1>21. ASSUME NEW f \in Forms, InvalidateFormID(f) PROVE ShowsInv'
  BY <1>16, <1>17, <1>21 DEF InvalidateFormID
<1>. QED
  BY <1>1, <1>2, <1>3, <1>4, <1>5, <1>6, <1>7, <1>8, <1>9, <1>10, <1>11,
     <1>12, <1>13, <1>14, <1>15, <1>18, <1>19, <1>20, <1>21
  DEF Next, I5Step, I4Step

-----------------------------------------------------------------------------
(* Theorems *)

\* Every step keeps the invariant.
LEMMA IInvNext == IInv /\ [Next]_vars => IInv'
BY TypeOKNext, HistoryStep, CallStep, ShowsStep, LabelStep DEF IInv

\* The invariant holds in every state.
LEMMA Inductive == Spec => []IInv
BY IInvInit, IInvNext, PTL DEF Spec

\* An invalidation made between two refreshes is never undone: no label
\* rendered before it is replayed after it.
THEOREM InvalidationsHold == Spec => []InvalidationsTakeEffect
BY Inductive, PTL DEF IInv

\* Whatever the cache replays on an item is a label I4 computed for that very
\* item under that icon setter.
THEOREM CachedIconsCorrect == Spec => []CachedIconsAreI4s
<1>1. IInv => CachedIconsAreI4s
  <2> SUFFICES ASSUME IInv PROVE CachedIconsAreI4s
    OBVIOUS
  <2>1. \A f \in Forms : settled[f] \in Nat /\ version[f] \in Nat
    BY DEF IInv, TypeOK
  <2>2. ASSUME NEW s \in Setters, NEW i \in IdItems, NEW label,
               LabelOfI4(label, s, i, TRUE, settled[i.form])
        PROVE  LabelOfI4(label, s, i, TRUE, 0)
    <3>1. settled[i.form]..version[i.form] \subseteq 0..version[i.form]
      BY <2>1 DEF IdItems
    <3>. QED
      BY <2>2, <3>1 DEF LabelOfI4
  <2>3. \A i \in IdItems : [f \in Forms |-> 0][i.form] = 0
    BY DEF IdItems
  <2>4. StaticItems \subseteq IdItems /\ DynamicItems \subseteq IdItems
    BY DEF StaticItems, DynamicItems
  <2>. QED
    BY <2>2, <2>3, <2>4
    DEF IInv, InvalidationsTakeEffect, CachedIconsAreI4s, CachedSince
<1>. QED
  BY <1>1, Inductive, PTL

\* After a refresh that succeeded, every entry of the list shows a label of
\* I4's own for its present item, none older than its last invalidation.
THEOREM RefreshesCorrect == Spec => []RefreshShowsI4Icons
<1>1. IInv => RefreshShowsI4Icons
  BY DEF IInv, ShowsInv, Shows, Rendered, RefreshShowsI4Icons
<1>. QED
  BY <1>1, Inductive, PTL

-----------------------------------------------------------------------------
(* The stack of calls and the list *)

\* What the list's _entryList holds while I4 runs inside call c, and again
\* when a call nested in c has returned.
Held(c) == IF phase[c] = "i4" THEN misses[c] ELSE seen[c]

\* The stack holds exactly the running calls, each once, and all but the
\* innermost are inside I4.
StackInv ==
  /\ \A c \in Calls : phase[c] # "idle" <=> \E k \in 1..Len(stack) : stack[k] = c
  /\ \A j, k \in 1..Len(stack) : stack[j] = stack[k] => j = k
  /\ \A k \in 2..Len(stack) : phase[stack[k]] \in {"i4", "raw"}

\* Each call was given what the call around it left in the list, the outermost
\* one the whole list; the list holds what the innermost call put there.
ListInv ==
  /\ rawList = IF stack = <<>> THEN Entries ELSE Held(stack[1])
  /\ \A k \in 1..Len(stack) :
       seen[stack[k]] = IF k = Len(stack) THEN Entries ELSE Held(stack[k + 1])

\* A step of the innermost call leaves the chain alone if it leaves in the
\* list what the call stands for.
LEMMA TopStep ==
  ASSUME TypeOK, StackInv, ListInv, NEW c \in Calls, OnTop(c),
         UNCHANGED <<stack, seen>>, phase'[c] # "idle",
         \A d \in Calls \ {c} : phase'[d] = phase[d] /\ misses'[d] = misses[d],
         rawList' = Held(c)'
  PROVE  StackInv' /\ ListInv'
<1>1. stack \in Seq(Calls) /\ Len(stack) \in Nat /\ Len(stack) >= 1 /\ stack[1] = c
  BY DEF TypeOK, OnTop
<1>2. \A k \in 1..Len(stack) : stack[k] \in Calls
  BY <1>1
<1>3. \A k \in 2..Len(stack) : stack[k] \in Calls \ {c}
  BY <1>1, <1>2 DEF StackInv
<1>4. phase[c] # "idle"
  BY <1>1 DEF StackInv
<1>5. StackInv'
  <2>1. \A d \in Calls : phase'[d] # "idle" <=> phase[d] # "idle"
    BY <1>4
  <2>2. \A k \in 2..Len(stack) : phase'[stack[k]] \in {"i4", "raw"}
    BY <1>3 DEF StackInv
  <2>. QED
    BY <2>1, <2>2 DEF StackInv
<1>6. \A k \in 2..Len(stack) : Held(stack[k])' = Held(stack[k])
  BY <1>3 DEF Held
<1>7. stack # <<>>
  BY DEF OnTop
<1>8. \A k \in 1..Len(stack) : k # Len(stack) => k + 1 \in 2..Len(stack)
  BY <1>1
<1>9. ASSUME NEW k \in 1..Len(stack)
      PROVE  seen'[stack[k]] = IF k = Len(stack) THEN Entries ELSE Held(stack[k + 1])'
  BY <1>6, <1>8 DEF ListInv
<1>10. rawList' = Held(stack[1])'
  BY <1>1
<1>. QED
  BY <1>5, <1>7, <1>9, <1>10 DEF ListInv

\* A new innermost call gets what the one below it holds.
LEMMA PushStep ==
  ASSUME TypeOK, StackInv, ListInv, NEW c \in Calls, CanCall(c),
         NEW p \in Phase \ {"idle", "i4"}, Push(c, p), UNCHANGED <<rawList, misses>>
  PROVE  StackInv' /\ ListInv'
<1>1. stack \in Seq(Calls) /\ Len(stack) \in Nat /\ phase[c] = "idle"
  BY DEF TypeOK, CanCall
<1>2. stack' = <<c>> \o stack
  BY DEF Push
<1>3. /\ Len(stack') = Len(stack) + 1 /\ stack'[1] = c /\ stack' # <<>>
      /\ \A k \in 2..Len(stack') : stack'[k] = stack[k - 1] /\ k - 1 \in 1..Len(stack)
  BY <1>1, <1>2
<1>4. \A k \in 1..Len(stack) : stack[k] \in Calls /\ stack[k] # c /\ stack'[k + 1] = stack[k]
  BY <1>1, <1>3 DEF StackInv
<1>5. /\ phase'[c] = p /\ seen'[c] = rawList
      /\ \A d \in Calls \ {c} : phase'[d] = phase[d] /\ seen'[d] = seen[d]
  BY DEF Push, TypeOK
<1>7. StackInv'
  <2>1. ASSUME NEW d \in Calls
        PROVE  phase'[d] # "idle" <=> \E k \in 1..Len(stack') : stack'[k] = d
    <3>1. CASE d = c
      BY <1>1, <1>3, <1>5, <3>1
    <3>2. CASE d # c
      <4>1. phase'[d] # "idle" <=> \E k \in 1..Len(stack) : stack[k] = d
        BY <1>5, <3>2 DEF StackInv
      <4>2. (\E k \in 1..Len(stack) : stack[k] = d) => \E k \in 1..Len(stack') : stack'[k] = d
        <5> SUFFICES ASSUME NEW k \in 1..Len(stack), stack[k] = d
                     PROVE  \E j \in 1..Len(stack') : stack'[j] = d
          OBVIOUS
        <5>1. k + 1 \in 1..Len(stack') /\ stack'[k + 1] = d
          BY <1>1, <1>3, <1>4
        <5>. QED
          BY <5>1
      <4>3. (\E k \in 1..Len(stack') : stack'[k] = d) => \E k \in 1..Len(stack) : stack[k] = d
        <5> SUFFICES ASSUME NEW k \in 1..Len(stack'), stack'[k] = d
                     PROVE  \E j \in 1..Len(stack) : stack[j] = d
          OBVIOUS
        <5>1. k \in 2..Len(stack')
          BY <1>1, <1>3, <3>2
        <5>. QED
          BY <1>3, <5>1
      <4>. QED
        BY <4>1, <4>2, <4>3
    <3>. QED
      BY <3>1, <3>2
  <2>2. ASSUME NEW j \in 1..Len(stack'), NEW k \in 1..Len(stack'), stack'[j] = stack'[k]
        PROVE  j = k
    <3>0. \A l \in 2..Len(stack') : stack'[l] # c
      BY <1>3, <1>4
    <3>1. CASE j = 1 \/ k = 1
      <4>1. stack'[j] = c /\ stack'[k] = c
        BY <1>3, <2>2, <3>1
      <4>. QED
        BY <1>1, <1>3, <3>0, <4>1
    <3>2. CASE j # 1 /\ k # 1
      <4>1. j \in 2..Len(stack') /\ k \in 2..Len(stack')
        BY <1>1, <1>3, <3>2
      <4>2. stack[j - 1] = stack[k - 1] /\ j - 1 \in 1..Len(stack) /\ k - 1 \in 1..Len(stack)
        BY <1>3, <2>2, <4>1
      <4>3. j - 1 = k - 1
        BY <4>2 DEF StackInv
      <4>. QED
        BY <4>1, <4>3
    <3>. QED
      BY <3>1, <3>2
  <2>3. ASSUME NEW k \in 2..Len(stack') PROVE phase'[stack'[k]] \in {"i4", "raw"}
    <3>1. stack'[k] = stack[k - 1] /\ k - 1 \in 1..Len(stack)
      BY <1>3
    <3>2. phase[stack[k - 1]] \in {"i4", "raw"}
      <4>1. CASE k = 2
        <5>1. stack # <<>> /\ stack[1] = Head(stack)
          BY <1>1, <3>1, <4>1
        <5>. QED
          BY <4>1, <5>1 DEF CanCall, OnTop
      <4>2. CASE k # 2
        <5>1. k - 1 \in 2..Len(stack)
          BY <3>1, <4>2
        <5>. QED
          BY <5>1 DEF StackInv
      <4>. QED
        BY <4>1, <4>2
    <3>. QED
      BY <1>4, <1>5, <3>1, <3>2
  <2>. QED
    BY <2>1, <2>2, <2>3 DEF StackInv
<1>8. rawList' = Held(stack[1])'
  BY <1>3, <1>5 DEF Held
<1>9. ASSUME NEW k \in 1..Len(stack')
      PROVE  seen'[stack'[k]] = IF k = Len(stack') THEN Entries ELSE Held(stack[k + 1])'
  <2>1. CASE k = 1
    <3>1. seen'[stack'[1]] = rawList
      BY <1>3, <1>5
    <3>2. CASE stack = <<>>
      <4>1. Len(stack') = 1
        BY <1>1, <1>3, <3>2
      <4>. QED
        BY <2>1, <3>1, <3>2, <4>1 DEF ListInv
    <3>3. CASE stack # <<>>
      <4>1. 1 \in 1..Len(stack) /\ Len(stack') # 1 /\ stack'[2] = stack[1]
        BY <1>1, <1>3, <1>4, <3>3
      <4>2. rawList = Held(stack[1])
        BY <3>3 DEF ListInv
      <4>3. Held(stack[2])' = Held(stack[1])
        BY <1>4, <1>5, <4>1 DEF Held
      <4>. QED
        BY <2>1, <3>1, <4>1, <4>2, <4>3
    <3>. QED
      BY <3>2, <3>3
  <2>2. CASE k # 1
    <3>1. k \in 2..Len(stack')
      BY <1>1, <1>3, <2>2
    <3>2. stack'[k] = stack[k - 1] /\ k - 1 \in 1..Len(stack) /\ (k - 1) + 1 = k
      BY <1>3, <3>1
    <3>3. seen'[stack'[k]] = seen[stack[k - 1]]
      BY <1>4, <1>5, <3>2
    <3>4. seen[stack[k - 1]] = IF k - 1 = Len(stack) THEN Entries ELSE Held(stack[k])
      BY <3>2 DEF ListInv
    <3>5. k - 1 = Len(stack) <=> k = Len(stack')
      BY <1>1, <1>3, <3>1
    <3>6. k # Len(stack') => Held(stack[k + 1])' = Held(stack[k])
      <4> SUFFICES ASSUME k # Len(stack') PROVE Held(stack[k + 1])' = Held(stack[k])
        OBVIOUS
      <4>1. k \in 1..Len(stack)
        BY <1>1, <1>3, <3>1
      <4>. QED
        BY <1>4, <1>5, <4>1 DEF Held
    <3>. QED
      BY <3>3, <3>4, <3>5, <3>6
  <2>. QED
    BY <2>1, <2>2
<1>. QED
  BY <1>3, <1>7, <1>8, <1>9 DEF ListInv

\* A call that returns leaves the list as the call below it left it.
LEMMA PopStep ==
  ASSUME TypeOK, StackInv, ListInv, NEW c \in Calls, Return(c)
  PROVE  StackInv' /\ ListInv'
<1>1. /\ stack \in Seq(Calls) /\ Len(stack) \in Nat /\ Len(stack) >= 1
      /\ stack[1] = c /\ stack # <<>>
  BY DEF TypeOK, OnTop, Return
<1>2. stack' = Tail(stack)
  BY DEF Return
<1>3. /\ Len(stack') = Len(stack) - 1
      /\ \A k \in 1..Len(stack') : stack'[k] = stack[k + 1] /\ k + 1 \in 2..Len(stack)
  BY <1>1, <1>2
<1>4. \A k \in 2..Len(stack) : stack[k] \in Calls /\ stack[k] # c
  BY <1>1 DEF StackInv
<1>5. /\ phase'[c] = "idle" /\ rawList' = rawList /\ Held(c) = seen[c]
      /\ \A d \in Calls \ {c} : phase'[d] = phase[d] /\ seen'[d] = seen[d] /\ misses'[d] = misses[d]
  BY DEF Return, TypeOK, Held, entryVars
<1>7. StackInv'
  <2>1. ASSUME NEW d \in Calls
        PROVE  phase'[d] # "idle" <=> \E k \in 1..Len(stack') : stack'[k] = d
    <3>1. CASE d = c
      BY <1>1, <1>3, <1>4, <1>5, <3>1
    <3>2. CASE d # c
      <4>1. phase'[d] # "idle" <=> \E k \in 1..Len(stack) : stack[k] = d
        BY <1>5, <3>2 DEF StackInv
      <4>2. ASSUME NEW k \in 1..Len(stack), stack[k] = d
            PROVE  \E j \in 1..Len(stack') : stack'[j] = d
        <5>1. k - 1 \in 1..Len(stack')
          BY <1>1, <1>3, <3>2, <4>2
        <5>2. stack'[k - 1] = stack[k]
          BY <1>3, <5>1
        <5>. QED
          BY <4>2, <5>1, <5>2
      <4>3. ASSUME NEW k \in 1..Len(stack'), stack'[k] = d
            PROVE  \E j \in 1..Len(stack) : stack[j] = d
        <5>1. k + 1 \in 1..Len(stack) /\ stack[k + 1] = d
          BY <1>1, <1>3, <4>3
        <5>. QED
          BY <5>1
      <4>. QED
        BY <4>1, <4>2, <4>3
    <3>. QED
      BY <3>1, <3>2
  <2>2. ASSUME NEW j \in 1..Len(stack'), NEW k \in 1..Len(stack'), stack'[j] = stack'[k]
        PROVE  j = k
    <3>1. stack[j + 1] = stack[k + 1] /\ j + 1 \in 1..Len(stack) /\ k + 1 \in 1..Len(stack)
      BY <1>1, <1>3, <2>2
    <3>2. j + 1 = k + 1
      BY <3>1 DEF StackInv
    <3>. QED
      BY <3>2
  <2>3. ASSUME NEW k \in 2..Len(stack') PROVE phase'[stack'[k]] \in {"i4", "raw"}
    <3>1. k \in 1..Len(stack')
      BY <1>1, <1>3
    <3>. QED
      BY <1>3, <1>4, <1>5, <3>1 DEF StackInv
  <2>. QED
    BY <2>1, <2>2, <2>3 DEF StackInv
<1>8. rawList' = IF stack' = <<>> THEN Entries ELSE Held(stack[1])'
  <2>1. rawList' = seen[c]
    BY <1>1, <1>5 DEF ListInv
  <2>2. CASE Len(stack) = 1
    <3>1. stack' = <<>>
      BY <1>1, <1>2, <2>2
    <3>2. seen[c] = Entries
      BY <1>1, <2>2 DEF ListInv
    <3>. QED
      BY <2>1, <3>1, <3>2
  <2>3. CASE Len(stack) # 1
    <3>1. 1 \in 1..Len(stack') /\ stack' # <<>> /\ stack'[1] = stack[2] /\ 2 \in 2..Len(stack)
      BY <1>1, <1>3, <2>3
    <3>2. seen[c] = Held(stack[2])
      <4>1. 1 \in 1..Len(stack) /\ 1 + 1 = 2
        BY <1>1
      <4>2. seen[stack[1]] = IF 1 = Len(stack) THEN Entries ELSE Held(stack[1 + 1])
        BY <4>1, Zenon DEF ListInv
      <4>. QED
        BY <1>1, <2>3, <4>1, <4>2
    <3>3. Held(stack[1])' = Held(stack[2])
      BY <1>4, <1>5, <3>1 DEF Held
    <3>. QED
      BY <2>1, <3>1, <3>2, <3>3
  <2>. QED
    BY <2>2, <2>3
<1>9. ASSUME NEW k \in 1..Len(stack')
      PROVE  seen'[stack'[k]] = IF k = Len(stack') THEN Entries ELSE Held(stack[k + 1])'
  <2>1. stack'[k] = stack[k + 1] /\ k + 1 \in 2..Len(stack) /\ k + 1 \in 1..Len(stack)
    BY <1>1, <1>3
  <2>2. seen'[stack'[k]] = seen[stack[k + 1]]
    BY <1>4, <1>5, <2>1
  <2>3. seen[stack[k + 1]] = IF k + 1 = Len(stack) THEN Entries ELSE Held(stack[(k + 1) + 1])
    BY <2>1 DEF ListInv
  <2>4. k + 1 = Len(stack) <=> k = Len(stack')
    BY <1>1, <1>3, <2>1
  <2>5. k # Len(stack') => Held(stack[k + 1])' = Held(stack[(k + 1) + 1])
    <3> SUFFICES ASSUME k # Len(stack') PROVE Held(stack[k + 1])' = Held(stack[(k + 1) + 1])
      OBVIOUS
    <3>1. k + 1 \in 1..Len(stack') /\ (k + 1) + 1 \in 2..Len(stack)
      BY <1>1, <1>3, <2>1
    <3>2. stack'[k + 1] = stack[(k + 1) + 1]
      BY <1>3, <3>1
    <3>. QED
      BY <1>4, <1>5, <3>1, <3>2 DEF Held
  <2>. QED
    BY <2>2, <2>3, <2>4, <2>5
<1>. QED
  BY <1>7, <1>8, <1>9 DEF ListInv

\* Every step leaves each enclosing call the list it swapped in, and that of the
\* call it encloses.
LEMMA StackStep == TypeOK /\ StackInv /\ ListInv /\ [Next]_vars => StackInv' /\ ListInv'
<1> SUFFICES ASSUME TypeOK, StackInv, ListInv, [Next]_vars PROVE StackInv' /\ ListInv'
  OBVIOUS
<1> USE DEF historyVars, engineVars, entryVars, cacheVars, switchVars, callVars
<1>0. MainThreadIdle => stack = <<>>
  <2>1. stack # <<>> => 1 \in 1..Len(stack) /\ stack[1] \in Calls
    BY DEF TypeOK
  <2>. QED
    BY <2>1 DEF MainThreadIdle, StackInv
<1>a. \A c \in Calls : OnTop(c) => rawList = Held(c)
  BY DEF OnTop, TypeOK, ListInv
<1>1. ASSUME NEW c \in Calls, CallOriginal(c) \/ RunPassthrough(c) \/ CallCached(c)
      PROVE  StackInv' /\ ListInv'
  <2>1. \E p \in Phase \ {"idle", "i4"} : Push(c, p)
    BY <1>1 DEF CallOriginal, RunPassthrough, CallCached, Phase
  <2>2. UNCHANGED <<rawList, misses>> /\ CanCall(c)
    BY <1>1 DEF CallOriginal, RunPassthrough, CallCached
  <2>. QED
    BY <2>1, <2>2, PushStep
<1>2. ASSUME NEW c \in Calls, LockForClassify(c) PROVE StackInv' /\ ListInv'
  BY <1>2, <1>a, TopStep DEF LockForClassify, TypeOK, Held
<1>3. ASSUME NEW c \in Calls, NEW e \in Entries, ClassifyHit(c, e) PROVE StackInv' /\ ListInv'
  BY <1>3, <1>a, TopStep DEF ClassifyHit, TypeOK, Held
<1>4. ASSUME NEW c \in Calls, NEW e \in Entries, ClassifyMiss(c, e) PROVE StackInv' /\ ListInv'
  BY <1>4, <1>a, TopStep DEF ClassifyMiss, TypeOK, Held
<1>5. ASSUME NEW c \in Calls, ClassifyEnd(c) PROVE StackInv' /\ ListInv'
  BY <1>5, <1>a, TopStep DEF ClassifyEnd, TypeOK, Held
<1>6. ASSUME NEW c \in Calls, SwapEntries(c) PROVE StackInv' /\ ListInv'
  BY <1>6, <1>a, TopStep DEF SwapEntries, TypeOK, Held
<1>7. ASSUME NEW c \in Calls, RunUncached(c) PROVE StackInv' /\ ListInv'
  BY <1>7, <1>a, TopStep DEF RunUncached, TypeOK, Held
<1>8. ASSUME NEW c \in Calls, LockForWriteBack(c) PROVE StackInv' /\ ListInv'
  BY <1>8, <1>a, TopStep DEF LockForWriteBack, TypeOK, Held
<1>9. ASSUME NEW c \in Calls, NEW e \in Entries, WriteBack(c, e) PROVE StackInv' /\ ListInv'
  BY <1>9, <1>a, TopStep DEF WriteBack, TypeOK, Held
<1>10. ASSUME NEW c \in Calls, WriteBackEnd(c) PROVE StackInv' /\ ListInv'
  BY <1>10, <1>a, TopStep DEF WriteBackEnd, TypeOK, Held
<1>11. ASSUME NEW c \in Calls, Return(c) PROVE StackInv' /\ ListInv'
  BY <1>11, PopStep
<1>12. ASSUME NEW c \in Calls, NEW e \in Entries, I4Renders(c, e) PROVE StackInv' /\ ListInv'
  BY <1>12, <1>a, TopStep DEF I4Renders, TypeOK, Held
<1>13. ASSUME NEW c \in Calls, I4Returns(c) \/ I4Fails(c) PROVE StackInv' /\ ListInv'
  BY <1>13, <1>a, TopStep DEF I4Returns, I4Fails, RestoreEntries, TypeOK, Held
<1>14. CASE UNCHANGED <<stack, phase, seen, misses, rawList>>
  BY <1>14 DEF StackInv, ListInv, Held
<1>15. CASE Rebuild
  <2>1. stack = <<>> /\ UNCHANGED <<stack, phase, seen, misses>> /\ rawList' = Entries
    BY <1>0, <1>15 DEF Rebuild
  <2>. QED
    BY <2>1 DEF StackInv, ListInv
<1>16. CASE (\E f \in Forms : InvalidateFormID(f) \/ ModChanges(f)) \/ ClearCache
            \/ (\E on \in BOOLEAN : SetBypass(on) \/ SetFeatures(on))
            \/ (\E e \in Entries : UpdateInPlace(e)) \/ UNCHANGED vars
  BY <1>14, <1>16 DEF InvalidateFormID, ModChanges, ClearCache, SetBypass, SetFeatures,
     UpdateInPlace, vars
<1>. QED
  BY <1>1, <1>2, <1>3, <1>4, <1>5, <1>6, <1>7, <1>8, <1>9, <1>10, <1>11,
     <1>12, <1>13, <1>15, <1>16
  DEF Next, I5Step, I4Step

\* How the lists of nested calls fit into one another.
LEMMA StackInvariant == Spec => [](StackInv /\ ListInv)
<1>1. Init => StackInv /\ ListInv
  BY DEF Init, StackInv, ListInv
<1>. QED
  BY <1>1, StackStep, TypeCorrect, PTL DEF Spec

\* When no processList call is running the list holds all its entries.
THEOREM ListsRestored == Spec => []ListRestored
<1>1. TypeOK /\ StackInv /\ ListInv => ListRestored
  <2> SUFFICES ASSUME TypeOK, StackInv, ListInv, MainThreadIdle PROVE rawList = Entries
    BY DEF ListRestored
  <2>1. stack # <<>> => 1 \in 1..Len(stack) /\ stack[1] \in Calls
    BY DEF TypeOK
  <2>. QED
    BY <2>1 DEF MainThreadIdle, StackInv, ListInv
<1>. QED
  BY <1>1, StackInvariant, TypeCorrect, PTL

-----------------------------------------------------------------------------
(* What a write-back is good for *)

\* MissesGetCached expects a hit on e once c is done with it.
Deserving(c, e) ==
  /\ item[e].form # NoForm
  /\ before[c][e]["iconLabel"] = Absent /\ out[e]["iconLabel"] # Absent
  /\ \A d \in seen[c] : item[d].form = item[e].form => item[d].name = item[e].name

\* The misses that the write-back loop of c has dealt with.
WrittenBack(c) ==
  CASE phase[c] = "writeback" -> misses[c] \ todo[c]
    [] phase[c] = "done" -> misses[c]
    [] OTHER -> {}

MissInv ==
  "async" \notin Env =>
    \A c \in Calls : \A e \in WrittenBack(c) :
      Deserving(c, e) => LookupDelta(item[e]) # Nothing

\* A call that is not inside I4 is the innermost one.
LEMMA OutsideI4OnTop ==
  ASSUME TypeOK, StackInv, NEW c \in Calls, phase[c] \notin {"idle", "i4", "raw"}
  PROVE  OnTop(c)
<1>1. stack \in Seq(Calls) /\ Len(stack) \in Nat
  BY DEF TypeOK
<1>2. PICK k \in 1..Len(stack) : stack[k] = c
  BY DEF StackInv
<1>3. k \notin 2..Len(stack)
  BY <1>2 DEF StackInv
<1>4. k = 1 /\ stack # <<>>
  BY <1>1, <1>2, <1>3
<1>. QED
  BY <1>1, <1>2, <1>4 DEF OnTop

\* One turn of the loop stores a deserving miss, and takes no other from the
\* cache: what it overwrites has the same form, hence the same token.
LEMMA WriteBackMisses ==
  ASSUME TypeOK, CallInv, MissInv, "async" \notin Env,
         NEW c \in Calls, NEW e \in Entries, WriteBack(c, e),
         NEW d \in misses[c] \ (todo[c] \ {e}), Deserving(c, d)
  PROVE  LookupDelta(item[d])' # Nothing
<1> DEFINE key == KeyOf(item[e], menu)
           delta == BuildDelta(before[c][e], out[e])
           entry == [delta |-> delta, token |-> DynamicToken(item[e])]
<1>1. phase[c] = "writeback" /\ e \in seen[c] /\ d \in Entries
  BY DEF WriteBack, NextUp, CallInv, TypeOK
<1>2. item[e] \in Items /\ item[d] \in Items /\ menu \in Setters /\ delta \in Delta
  BY <1>1, BuildDeltaType DEF TypeOK
<1>3. item[d].form # NoForm
  BY DEF Deserving
<1>4. UNCHANGED <<menu, item>>
  BY DEF WriteBack, engineVars
<1>5. delta # Nothing
  BY <1>2, ConstantsOK
<1>6. d = e => Cacheable(c, e)
  <2> SUFFICES ASSUME d = e PROVE DeltaSetsIconLabel(delta)
    BY <1>3 DEF Cacheable
  <2>1. before[c][e]["iconLabel"] = Absent /\ out[e]["iconLabel"] # Absent
    BY DEF Deserving
  <2>2. out[e]["iconLabel"] \in Value
    BY <2>1, FieldFacts DEF TypeOK, Output
  <2>3. delta["iconLabel"] = out[e]["iconLabel"]
    BY <2>1, FieldFacts DEF BuildDelta
  <2>. QED
    BY <2>1, <2>2, <2>3, ConstantsOK DEF DeltaSetsIconLabel
<1>7. d # e => LookupDelta(item[d]) # Nothing
  BY <1>1 DEF MissInv, WrittenBack
<1>8. CASE ~IsDynamicForm(item[d].form)
  <2>1. KeyOf(item[d], menu) \in StaticKey
    BY <1>2, <1>3, <1>8, ItemKinds, KeyOfStatic
  <2>2. cache' = cache \/ cache' = [cache EXCEPT ![key] = delta]
    BY DEF WriteBack
  <2>3. CASE d = e
    <3>1. cache' = [cache EXCEPT ![key] = delta]
      BY <1>6, <1>8, <2>3 DEF WriteBack
    <3>2. cache'[KeyOf(item[d], menu)] # Nothing
      BY <1>5, <2>1, <2>3, <3>1 DEF TypeOK
    <3>. QED
      BY <1>3, <1>4, <1>8, <3>2 DEF LookupDelta
  <2>4. CASE d # e
    <3>1. cache[KeyOf(item[d], menu)] # Nothing
      BY <1>3, <1>7, <1>8, <2>4 DEF LookupDelta
    <3>2. cache'[KeyOf(item[d], menu)] # Nothing
      BY <1>5, <2>1, <2>2, <3>1 DEF TypeOK
    <3>. QED
      BY <1>3, <1>4, <1>8, <3>2 DEF LookupDelta
  <2>. QED
    BY <2>3, <2>4
<1>9. CASE IsDynamicForm(item[d].form)
  <2>1. KeyOf(item[d], menu) \in DynamicKey
    BY <1>2, <1>3, <1>9, ItemKinds, KeyOfDynamic
  <2>2. \/ dynamicCache' = dynamicCache
        \/ dynamicCache' = [dynamicCache EXCEPT ![key] = entry] /\ Cacheable(c, e)
    BY DEF WriteBack
  <2>3. CASE dynamicCache'[KeyOf(item[d], menu)] = entry
             /\ DynamicToken(item[e]) = DynamicToken(item[d])
    <3>1. entry \in DynamicEntry
      <4>1. entry.token \in {DynamicToken(i) : i \in DynamicItems}
        BY <1>2, <1>3, <1>9, <2>3, ItemKinds
      <4>. QED
        BY <1>2, <4>1 DEF DynamicEntry
    <3>2. entry # Nothing
      BY <3>1, ConstantsOK
    <3>. QED
      BY <1>3, <1>4, <1>5, <1>9, <2>3, <3>2 DEF LookupDelta
  <2>4. CASE d = e
    <3>1. dynamicCache' = [dynamicCache EXCEPT ![key] = entry]
      BY <1>6, <1>9, <2>4 DEF WriteBack
    <3>2. dynamicCache'[KeyOf(item[d], menu)] = entry
      BY <2>1, <2>4, <3>1 DEF TypeOK
    <3>. QED
      BY <2>3, <2>4, <3>2
  <2>5. CASE d # e /\ dynamicCache'[KeyOf(item[d], menu)] = dynamicCache[KeyOf(item[d], menu)]
    BY <1>3, <1>4, <1>7, <1>9, <2>5 DEF LookupDelta
  <2>6. CASE Cacheable(c, e) /\ key = KeyOf(item[d], menu)
             /\ dynamicCache' = [dynamicCache EXCEPT ![key] = entry]
    <3>1. item[e] \in IdItems /\ item[d] \in IdItems
      BY <1>2, <1>3, <2>6, ItemKinds DEF IdItems, Cacheable
    <3>2. item[e].form = item[d].form
      BY <1>2, <2>6, <3>1, SameKey
    <3>3. DynamicToken(item[e]) = DynamicToken(item[d])
      BY <1>1, <3>2 DEF Deserving, DynamicToken
    <3>4. dynamicCache'[KeyOf(item[d], menu)] = entry
      BY <2>1, <2>6 DEF TypeOK
    <3>. QED
      BY <2>3, <3>3, <3>4
  <2>7. \/ dynamicCache'[KeyOf(item[d], menu)] = dynamicCache[KeyOf(item[d], menu)]
        \/ Cacheable(c, e) /\ key = KeyOf(item[d], menu)
             /\ dynamicCache' = [dynamicCache EXCEPT ![key] = entry]
    BY <2>1, <2>2 DEF TypeOK
  <2>. QED
    BY <2>4, <2>5, <2>6, <2>7
<1>. QED
  BY <1>8, <1>9

\* What a call has written back stays a hit until the call is done.
LEMMA MissStep == TypeOK /\ CallInv /\ StackInv /\ MissInv /\ [Next]_vars => MissInv'
<1> SUFFICES ASSUME TypeOK, CallInv, StackInv, MissInv, [Next]_vars, "async" \notin Env,
                    NEW c \in Calls, NEW e \in WrittenBack(c)', Deserving(c, e)'
             PROVE  LookupDelta(item[e])' # Nothing
  BY DEF MissInv
<1> USE DEF historyVars, engineVars, entryVars, cacheVars, switchVars, callVars
<1>1. phase'[c] \in {"writeback", "done"}
  BY DEF WrittenBack
<1>2. ~MainThreadIdle'
  BY <1>1 DEF MainThreadIdle
<1>3. CASE UNCHANGED vars
  BY <1>3 DEF vars, WrittenBack, Deserving, LookupDelta, MissInv
<1>4. ASSUME MainThreadIdle, UNCHANGED phase PROVE FALSE
  BY <1>1, <1>4 DEF MainThreadIdle
<1>5. ASSUME NEW d \in Calls, OnTop(d) \/ CanCall(d), d # c, phase'[c] = phase[c]
      PROVE  FALSE
  <2>1. OnTop(c)
    BY <1>1, <1>5, OutsideI4OnTop
  <2>. QED
    BY <1>1, <1>5, <2>1 DEF OnTop, CanCall
<1>6. ASSUME NEW d \in Calls, CallOriginal(d) \/ RunPassthrough(d) \/ CallCached(d)
      PROVE  FALSE
  <2>1. /\ phase'[d] \in {"raw", "enter"} /\ CanCall(d)
        /\ \A b \in Calls \ {d} : phase'[b] = phase[b]
    BY <1>6 DEF CallOriginal, RunPassthrough, CallCached, Push, TypeOK, CanCall
  <2>. QED
    BY <1>1, <1>5, <2>1
<1>7. ASSUME NEW d \in Calls, I5Step(d) \/ I4Step(d)
      PROVE  d = c /\ OnTop(c)
  <2>1. OnTop(d) /\ \A b \in Calls \ {d} : phase'[b] = phase[b]
    BY <1>7 DEF I5Step, I4Step, LockForClassify, ClassifyHit, ClassifyMiss, ClassifyEnd,
       SwapEntries, RunUncached, LockForWriteBack, WriteBack, WriteBackEnd, Return,
       I4Renders, I4Returns, I4Fails, TypeOK
  <2>. QED
    BY <1>5, <2>1
<1>8. ASSUME LockForClassify(c) \/ SwapEntries(c) \/ RunUncached(c) \/ Return(c) \/ I4Step(c)
             \/ (\E d \in Entries : ClassifyHit(c, d) \/ ClassifyMiss(c, d))
      PROVE  FALSE
  BY <1>1, <1>8 DEF I4Step, LockForClassify, SwapEntries, RunUncached, Return, I4Renders,
     I4Returns, I4Fails, ClassifyHit, ClassifyMiss, TypeOK
<1>9. ASSUME ClassifyEnd(c) \/ LockForWriteBack(c) PROVE FALSE
  <2>1. WrittenBack(c)' = {}
    BY <1>1, <1>9 DEF ClassifyEnd, LockForWriteBack, WrittenBack, TypeOK
  <2>. QED
    BY <2>1
<1>10. CASE WriteBackEnd(c)
  <2>1. e \in WrittenBack(c)
    BY <1>1, <1>10 DEF WriteBackEnd, WrittenBack, TypeOK
  <2>. QED
    BY <1>10, <2>1 DEF WriteBackEnd, Deserving, LookupDelta, MissInv
<1>11. ASSUME NEW d \in Entries, WriteBack(c, d) PROVE LookupDelta(item[e])' # Nothing
  <2>1. e \in misses[c] \ (todo[c] \ {d})
    BY <1>1, <1>11 DEF WriteBack, WrittenBack, TypeOK
  <2>2. Deserving(c, e)
    BY <1>11 DEF WriteBack, Deserving
  <2>. QED
    BY <1>11, <2>1, <2>2, WriteBackMisses
<1>12. CASE (\E f \in Forms : InvalidateFormID(f) \/ ModChanges(f)) \/ ClearCache
            \/ (\E on \in BOOLEAN : SetBypass(on) \/ SetFeatures(on))
            \/ Rebuild \/ \E d \in Entries : UpdateInPlace(d)
  BY <1>4, <1>12 DEF InvalidateFormID, ModChanges, ForeignTurn, ClearCache, SetBypass,
     SetFeatures, Rebuild, UpdateInPlace
<1>. QED
  BY <1>3, <1>6, <1>7, <1>8, <1>9, <1>10, <1>11, <1>12 DEF Next, I5Step

\* The cache is worth its name: what I4 gave a label to is a hit next time.
THEOREM MissesCached == Spec => []MissesGetCached
<1>1. Init => MissInv
  BY DEF Init, MissInv, WrittenBack
<1>2. MissInv => MissesGetCached
  BY DEF MissInv, MissesGetCached, WrittenBack, Deserving
<1>3. IInv => CallInv
  BY DEF IInv
<1>. QED
  BY <1>1, <1>2, <1>3, MissStep, StackInvariant, TypeCorrect, Inductive, PTL DEF Spec

-----------------------------------------------------------------------------
(* Replaying is as good as running I4, while the data stands still *)

\* The environment of the runs of SameIconsAsI4: no mod changes what a form
\* shows, the engine does not update entry objects in place, and features are
\* not switched.  Invalidations from other threads are allowed.
StandsStill == MaxVersion = 0 /\ "inplace" \notin Env /\ "toggle" \notin Env

\* What I4 makes of entry e.
Own(e) == Icon(menu, item[e], item[e].form # NoForm, 0)

OwnDelta(i, s) == BuildDelta(Fresh, Icon(s, i, TRUE, 0))

\* Entries, and the snapshots taken of them, are fresh or rendered whole.
WholeInv ==
  /\ features
  /\ \A e \in filled : item[e].form # NoForm
  /\ \A e \in Entries : out[e] \in {Fresh, Own(e)}
  /\ \A c \in Calls, e \in Entries : before[c][e] \in {Fresh, Own(e)}
  /\ \A c \in Calls : phase[c] = "idle" => before[c] = NoSnapshot

\* Deltas hold all that I4 writes on a fresh entry.
DeltaInv ==
  /\ \A s \in Setters, i \in StaticItems :
       cache[KeyOf(i, s)] \in {Nothing, OwnDelta(i, s)}
  /\ \A s \in Setters, i \in DynamicItems :
       LET entry == dynamicCache[KeyOf(i, s)] IN
       entry # Nothing /\ entry.token = DynamicToken(i) => entry.delta = OwnDelta(i, s)

\* As ShowsInv, of all members.
ExactInv ==
  \A c \in Calls :
    /\ phase[c] \in Rendering => \A e \in seen[c] \ Undone(c) : out[e] = Own(e)
    /\ phase[c] \in Rendered => \A e \in seen[c] : out[e] = Own(e)

ReplayInv == WholeInv /\ DeltaInv /\ ExactInv

\* What I4 makes of an entry has the type of what entries hold.
LEMMA OwnType ==
  ASSUME TypeOK, NEW e \in Entries PROVE Own(e) \in Output
<1>1. item[e] \in Items /\ menu \in Setters /\ 0 \in 0..MaxVersion
  BY ConstantsOK DEF TypeOK
<1>2. (item[e].form # NoForm) \in BOOLEAN
  OBVIOUS
<1>. QED
  BY <1>1, <1>2, IconOK DEF Own

\* Replaying the whole of what I4 writes gives what I4 writes, on a fresh
\* entry and on a rendered one.
LEMMA ReplayWhole ==
  ASSUME NEW a \in Output, NEW o \in {Fresh, a}
  PROVE  ApplyDelta(o, BuildDelta(Fresh, a)) = a
<1>1. \A f \in Field : a[f] # Keep /\ Fresh[f] = Absent
  BY ConstantsOK DEF Output, Fresh
<1>2. a = [f \in Field |-> a[f]]
  BY DEF Output
<1>3. \A f \in Field : ApplyDelta(o, BuildDelta(Fresh, a))[f] = a[f]
  BY <1>1 DEF ApplyDelta, BuildDelta, Fresh
<1>. QED
  BY <1>2, <1>3 DEF ApplyDelta

\* Only a fresh entry that I4 rendered gives a delta worth keeping.
LEMMA WholeDelta ==
  ASSUME TypeOK, WholeInv, NEW c \in Calls, NEW e \in Entries, Cacheable(c, e)
  PROVE  /\ item[e] \in IdItems
         /\ BuildDelta(before[c][e], out[e]) = OwnDelta(item[e], menu)
<1>1. out[e] \in {Fresh, Own(e)} /\ before[c][e] \in {Fresh, Own(e)}
  BY DEF WholeInv
<1>2. item[e].form # NoForm /\ item[e] \in Items
  BY DEF Cacheable, TypeOK
<1>3. /\ before[c][e]["iconLabel"] # out[e]["iconLabel"]
      /\ out[e]["iconLabel"] # Absent
  BY FieldFacts DEF Cacheable, DeltaSetsIconLabel, BuildDelta
<1>4. out[e] # Fresh
  BY <1>3, FieldFacts DEF Fresh
<1>5. out[e] = Own(e) /\ before[c][e] = Fresh
  BY <1>1, <1>3, <1>4
<1>6. (item[e].form # NoForm) = TRUE
  BY <1>2
<1>7. Own(e) = Icon(menu, item[e], TRUE, 0)
  BY <1>6 DEF Own
<1>8. item[e] \in IdItems
  BY <1>2, ItemKinds DEF IdItems
<1>. QED
  BY <1>5, <1>7, <1>8 DEF OwnDelta

\* Items of one key, and one token, share their delta.
LEMMA SameOwnDelta ==
  ASSUME NEW s \in Setters, NEW t \in Setters, NEW i \in IdItems, NEW j \in IdItems,
         KeyOf(i, s) = KeyOf(j, t),
         IsDynamicForm(i.form) => DynamicToken(i) = DynamicToken(j)
  PROVE  OwnDelta(i, s) = OwnDelta(j, t)
<1>1. s = t
  BY SameKey
<1>2. 0 \in 0..MaxVersion
  BY ConstantsOK
<1>3. Icon(s, i, TRUE, 0) = Icon(s, j, TRUE, 0)
  BY <1>1, <1>2, KeyDeterminesIcon
<1>. QED
  BY <1>1, <1>3 DEF OwnDelta

\* A hit makes its entry look as I4 would.
LEMMA HitExact ==
  ASSUME TypeOK, WholeInv, DeltaInv, NEW e \in Entries, LookupDelta(item[e]) # Nothing
  PROVE  ApplyDelta(out[e], LookupDelta(item[e])) = Own(e)
<1> DEFINE i == item[e]
<1>1. i \in Items /\ menu \in Setters /\ i.form # NoForm
  BY DEF TypeOK, LookupDelta
<1>2. (i.form # NoForm) = TRUE
  BY <1>1
<1>3. Own(e) = Icon(menu, i, TRUE, 0)
  BY <1>2 DEF Own
<1>4. LookupDelta(i) = OwnDelta(i, menu)
  <2>1. CASE IsDynamicForm(i.form)
    <3>1. i \in DynamicItems
      BY <1>1, <2>1, ItemKinds
    <3>. QED
      BY <1>1, <2>1, <3>1 DEF LookupDelta, DeltaInv
  <2>2. CASE ~IsDynamicForm(i.form)
    <3>1. i \in StaticItems
      BY <1>1, <2>2, ItemKinds
    <3>2. LookupDelta(i) = cache[KeyOf(i, menu)]
      BY <1>1, <2>2 DEF LookupDelta
    <3>. QED
      BY <1>1, <3>1, <3>2 DEF DeltaInv
  <2>. QED
    BY <2>1, <2>2
<1>5. out[e] \in {Fresh, Own(e)} /\ Own(e) \in Output
  BY OwnType DEF WholeInv
<1>. QED
  BY <1>3, <1>4, <1>5, ReplayWhole DEF OwnDelta

\* Only whole deltas of what I4 makes of an item are written back.
LEMMA DeltaStep ==
  ASSUME TypeOK, WholeInv, DeltaInv, [Next]_vars PROVE DeltaInv'
<1> USE DEF historyVars, engineVars, entryVars, cacheVars, switchVars, callVars
<1>1. CASE UNCHANGED <<cache, dynamicCache>>
  BY <1>1 DEF DeltaInv
<1>2. CASE \/ \E f \in Forms : InvalidateFormID(f)
           \/ ClearCache
  <2>1. /\ \A k \in StaticKey : cache'[k] \in {Nothing, cache[k]}
        /\ \A k \in DynamicKey : dynamicCache'[k] \in {Nothing, dynamicCache[k]}
    BY <1>2 DEF InvalidateFormID, Erased, ClearCache, TypeOK
  <2>. QED
    BY <2>1, KeyOfStatic, KeyOfDynamic DEF DeltaInv
<1>3. ASSUME NEW c \in Calls, NEW e \in Entries, WriteBack(c, e) PROVE DeltaInv'
  <2> DEFINE key == KeyOf(item[e], menu)
             delta == BuildDelta(before[c][e], out[e])
  <2>1. CASE ~Cacheable(c, e)
    BY <1>1, <1>3, <2>1 DEF WriteBack
  <2>2. CASE Cacheable(c, e)
    <3>1. item[e] \in IdItems /\ delta = OwnDelta(item[e], menu) /\ menu \in Setters
      BY <2>2, WholeDelta DEF TypeOK
    <3>2. CASE ~IsDynamicForm(item[e].form)
      <4>1. cache' = [cache EXCEPT ![key] = delta] /\ dynamicCache' = dynamicCache
        BY <1>3, <2>2, <3>2 DEF WriteBack
      <4>2. ASSUME NEW s \in Setters, NEW i \in StaticItems
            PROVE  cache'[KeyOf(i, s)] \in {Nothing, OwnDelta(i, s)}
        <5>1. i \in IdItems /\ ~IsDynamicForm(i.form) /\ KeyOf(i, s) \in StaticKey
          BY KeyOfStatic DEF StaticItems, DynamicItems
        <5>2. CASE KeyOf(i, s) = key
          <6>1. OwnDelta(i, s) = delta
            BY <3>1, <5>1, <5>2, SameOwnDelta
          <6>. QED
            BY <4>1, <5>1, <5>2, <6>1 DEF TypeOK
        <5>3. CASE KeyOf(i, s) # key
          BY <4>1, <5>1, <5>3 DEF TypeOK, DeltaInv
        <5>. QED
          BY <5>2, <5>3
      <4>. QED
        BY <4>1, <4>2 DEF DeltaInv
    <3>3. CASE IsDynamicForm(item[e].form)
      <4>1. /\ dynamicCache' = [dynamicCache EXCEPT ![key] =
                                  [delta |-> delta, token |-> DynamicToken(item[e])]]
            /\ cache' = cache
        BY <1>3, <2>2, <3>3 DEF WriteBack
      <4>2. ASSUME NEW s \in Setters, NEW i \in DynamicItems,
                   dynamicCache'[KeyOf(i, s)] # Nothing,
                   dynamicCache'[KeyOf(i, s)].token = DynamicToken(i)
            PROVE  dynamicCache'[KeyOf(i, s)].delta = OwnDelta(i, s)
        <5>1. i \in IdItems /\ KeyOf(i, s) \in DynamicKey
          BY KeyOfDynamic DEF DynamicItems
        <5>2. CASE KeyOf(i, s) = key
          <6>1. dynamicCache'[KeyOf(i, s)] = [delta |-> delta, token |-> DynamicToken(item[e])]
            BY <4>1, <5>1, <5>2 DEF TypeOK
          <6>2. DynamicToken(i) = DynamicToken(item[e])
            BY <4>2, <6>1
          <6>3. OwnDelta(i, s) = delta
            BY <3>1, <5>1, <5>2, <6>2, SameOwnDelta
          <6>. QED
            BY <6>1, <6>3
        <5>3. CASE KeyOf(i, s) # key
          BY <4>1, <4>2, <5>1, <5>3 DEF TypeOK, DeltaInv
        <5>. QED
          BY <5>2, <5>3
      <4>. QED
        BY <4>1, <4>2 DEF DeltaInv
    <3>. QED
      BY <3>2, <3>3
  <2>. QED
    BY <2>1, <2>2
<1>4. ASSUME NEW c \in Calls, CallOriginal(c) \/ RunPassthrough(c) \/ CallCached(c)
             \/ I4Step(c) \/ I5Step(c), ~\E e \in Entries : WriteBack(c, e)
      PROVE  UNCHANGED <<cache, dynamicCache>>
  BY <1>4 DEF CallOriginal, RunPassthrough, CallCached, I4Step, I4Renders, I4Returns, I4Fails,
     I5Step, LockForClassify, ClassifyHit, ClassifyMiss, ClassifyEnd, SwapEntries,
     RunUncached, LockForWriteBack, WriteBackEnd, Return
<1>5. CASE Rebuild \/ (\E e \in Entries : UpdateInPlace(e)) \/ UNCHANGED vars
           \/ (\E on \in BOOLEAN : SetBypass(on) \/ SetFeatures(on))
           \/ (\E f \in Forms : ModChanges(f))
  BY <1>1, <1>5 DEF Rebuild, UpdateInPlace, vars, SetBypass, SetFeatures, ModChanges
<1>. QED
  BY <1>1, <1>2, <1>3, <1>4, <1>5 DEF Next

\* What I4 renders is the entry's own icon.
LEMMA RenderExact ==
  ASSUME TypeOK, CallInv, WholeInv, MaxVersion = 0,
         NEW c \in Calls, NEW e \in Entries, I4Renders(c, e)
  PROVE  out' = [out EXCEPT ![e] = Own(e)]
<1>1. e \in seen[c] /\ phase[c] # "idle"
  BY DEF I4Renders, NextUp, CallInv
<1>2. item[e].form # NoForm => e \in filled
  BY <1>1 DEF CallInv, WholeInv
<1>3. (e \in filled) = (item[e].form # NoForm)
  BY <1>2 DEF WholeInv
<1>4. version[item[e].form] = 0
  <2>1. item[e].form \in Forms \cup {NoForm}
    BY ConstantsOK DEF TypeOK
  <2>. QED
    BY <2>1 DEF TypeOK
<1>. QED
  BY <1>3, <1>4 DEF I4Renders, Own

\* A step that writes one entry, and that as I4 would, or none.
LEMMA WholeFrame ==
  ASSUME TypeOK, WholeInv, UNCHANGED <<features, menu, item>>,
         \A e \in filled' : item[e].form # NoForm,
         \A e \in Entries : out'[e] \in {out[e], Own(e)},
         \A c \in Calls, e \in Entries : before'[c][e] \in {Fresh, before[c][e], out[e]},
         \A c \in Calls : phase'[c] = "idle" =>
            before'[c] = NoSnapshot \/ (phase[c] = "idle" /\ before'[c] = before[c])
  PROVE  WholeInv'
<1>1. \A e \in Entries : Own(e)' = Own(e)
  BY DEF Own
<1>. QED
  BY <1>1 DEF WholeInv

\* An entry is as the engine made it, or as I4 leaves it, at every step.
LEMMA WholeStep ==
  ASSUME TypeOK, CallInv, WholeInv, DeltaInv, StandsStill, [Next]_vars
  PROVE  WholeInv'
<1> USE DEF historyVars, engineVars, entryVars, cacheVars, switchVars, callVars
<1>1. ASSUME NEW c \in Calls, CallOriginal(c) \/ RunPassthrough(c) \/ CallCached(c)
      PROVE  WholeInv'
  <2>1. /\ UNCHANGED <<features, menu, item, out, before>>
        /\ filled' \subseteq filled \cup {e \in rawList : item[e].form # NoForm}
        /\ \E p \in {"raw", "enter"} : phase' = [phase EXCEPT ![c] = p]
    BY <1>1 DEF CallOriginal, RunPassthrough, CallCached, FillMissingKeywords, Push
  <2>2. \A e \in filled' : item[e].form # NoForm
    BY <2>1 DEF WholeInv
  <2>3. \A d \in Calls : phase'[d] = "idle" => phase[d] = "idle"
    BY <2>1 DEF TypeOK
  <2>. QED
    BY <2>1, <2>2, <2>3, WholeFrame
<1>2. ASSUME NEW c \in Calls, NEW e \in Entries, ClassifyHit(c, e) PROVE WholeInv'
  <2>1. /\ UNCHANGED <<features, menu, item, filled, phase, before>>
        /\ LookupDelta(item[e]) # Nothing
        /\ out' = [out EXCEPT ![e] = ApplyDelta(out[e], LookupDelta(item[e]))]
    BY <1>2 DEF ClassifyHit
  <2>2. out' = [out EXCEPT ![e] = Own(e)]
    BY <2>1, HitExact
  <2>3. \A d \in Entries : out'[d] \in {out[d], Own(d)}
    BY <2>2 DEF TypeOK
  <2>4. \A d \in filled' : item[d].form # NoForm
    BY <2>1 DEF WholeInv
  <2>. QED
    BY <2>1, <2>3, <2>4, WholeFrame
<1>3. ASSUME NEW c \in Calls, NEW e \in Entries, ClassifyMiss(c, e) PROVE WholeInv'
  <2>1. /\ UNCHANGED <<features, menu, item, filled, phase, out>>
        /\ phase[c] = "classify"
        /\ before' = [before EXCEPT ![c] = [@ EXCEPT ![e] = out[e]]]
    BY <1>3 DEF ClassifyMiss
  <2>2. \A d \in Calls, g \in Entries : before'[d][g] \in {before[d][g], out[g]}
    BY <2>1 DEF TypeOK
  <2>3. \A d \in Calls : phase'[d] = "idle" => phase[d] = "idle" /\ before'[d] = before[d]
    BY <2>1 DEF TypeOK
  <2>4. \A d \in filled' : item[d].form # NoForm
    BY <2>1 DEF WholeInv
  <2>. QED
    BY <2>1, <2>2, <2>3, <2>4, WholeFrame
<1>4. ASSUME NEW c \in Calls, NEW e \in Entries, I4Renders(c, e) PROVE WholeInv'
  <2>1. UNCHANGED <<features, menu, item, filled, phase, before>>
    BY <1>4 DEF I4Renders
  <2>2. \A d \in Entries : out'[d] \in {out[d], Own(d)}
    BY <1>4, RenderExact DEF TypeOK, StandsStill
  <2>3. \A d \in filled' : item[d].form # NoForm
    BY <2>1 DEF WholeInv
  <2>. QED
    BY <2>1, <2>2, <2>3, WholeFrame
<1>5. ASSUME NEW c \in Calls, Return(c) PROVE WholeInv'
  <2>1. /\ UNCHANGED <<features, menu, item, filled, out>>
        /\ phase' = [phase EXCEPT ![c] = "idle"]
        /\ before' = [before EXCEPT ![c] = NoSnapshot]
    BY <1>5 DEF Return
  <2>2. \A d \in Calls, g \in Entries : before'[d][g] \in {Fresh, before[d][g]}
    BY <2>1 DEF TypeOK, NoSnapshot
  <2>3. \A d \in Calls : phase'[d] = "idle" =>
          before'[d] = NoSnapshot \/ (phase[d] = "idle" /\ before'[d] = before[d])
    BY <2>1 DEF TypeOK
  <2>4. \A d \in filled' : item[d].form # NoForm
    BY <2>1 DEF WholeInv
  <2>. QED
    BY <2>1, <2>2, <2>3, <2>4, WholeFrame
<1>6. ASSUME UNCHANGED <<features, menu, item, filled, out, before>>,
             \A c \in Calls : phase'[c] = "idle" => phase[c] = "idle"
      PROVE  WholeInv'
  <2>1. \A d \in filled' : item[d].form # NoForm
    BY <1>6 DEF WholeInv
  <2>. QED
    BY <1>6, <2>1, WholeFrame
<1>7. ASSUME NEW c \in Calls,
             \/ LockForClassify(c) \/ ClassifyEnd(c) \/ SwapEntries(c) \/ RunUncached(c)
             \/ LockForWriteBack(c) \/ (\E e \in Entries : WriteBack(c, e)) \/ WriteBackEnd(c)
             \/ I4Returns(c) \/ I4Fails(c)
      PROVE  WholeInv'
  <2>1. UNCHANGED <<features, menu, item, filled, out, before>>
    BY <1>7 DEF LockForClassify, ClassifyEnd, SwapEntries, RunUncached, LockForWriteBack,
       WriteBack, WriteBackEnd, I4Returns, I4Fails
  <2>2. \A d \in Calls : phase'[d] = "idle" => phase[d] = "idle"
    BY <1>7 DEF LockForClassify, ClassifyEnd, SwapEntries, RunUncached, LockForWriteBack,
       WriteBack, WriteBackEnd, I4Returns, I4Fails, TypeOK
  <2>. QED
    BY <1>6, <2>1, <2>2
<1>8. CASE (\E f \in Forms : InvalidateFormID(f)) \/ ClearCache
           \/ (\E on \in BOOLEAN : SetBypass(on)) \/ UNCHANGED vars
  <2>1. UNCHANGED <<features, menu, item, filled, out, before, phase>>
    BY <1>8 DEF InvalidateFormID, ClearCache, SetBypass, vars
  <2>. QED
    BY <1>6, <2>1
<1>9. CASE Rebuild
  <2>1. /\ MainThreadIdle /\ UNCHANGED <<features, phase, before>>
        /\ filled' = {} /\ out' = [e \in Entries |-> Fresh]
    BY <1>9 DEF Rebuild
  <2>2. \A c \in Calls : before[c] = NoSnapshot
    BY <2>1 DEF MainThreadIdle, WholeInv
  <2>. QED
    BY <2>1, <2>2 DEF WholeInv, NoSnapshot
<1>10. ASSUME NEW f \in Forms, ModChanges(f) PROVE FALSE
  BY <1>10 DEF ModChanges, StandsStill, TypeOK
<1>11. ASSUME NEW on \in BOOLEAN, SetFeatures(on) PROVE FALSE
  BY <1>11 DEF SetFeatures, StandsStill
<1>12. ASSUME NEW e \in Entries, UpdateInPlace(e) PROVE FALSE
  BY <1>12 DEF UpdateInPlace, StandsStill
<1>. QED
  BY <1>1, <1>2, <1>3, <1>4, <1>5, <1>7, <1>8, <1>9, <1>10, <1>11, <1>12
  DEF Next, I5Step, I4Step

\* A step that writes entries as I4 would, or none, and drops no other entry
\* from the undone ones.
LEMMA ExactFrame ==
  ASSUME TypeOK, ExactInv, UNCHANGED <<menu, item>>,
         \A e \in Entries : out'[e] \in {out[e], Own(e)},
         \A c \in Calls :
           /\ phase'[c] \in Rendering =>
                \/ seen'[c] \subseteq todo'[c]
                \/ /\ phase[c] \in Rendering /\ seen'[c] = seen[c]
                   /\ \A e \in Undone(c) \cap seen[c] : e \in Undone(c)' \/ out'[e] = Own(e)
           /\ phase'[c] \in Rendered =>
                /\ seen'[c] = seen[c]
                /\ phase[c] \in Rendered \/ (phase[c] \in Rendering /\ Undone(c) = {})
  PROVE  ExactInv'
<1>1. \A e \in Entries : Own(e)' = Own(e)
  BY DEF Own
<1>2. \A c \in Calls : seen[c] \subseteq Entries /\ todo'[c] \subseteq Undone(c)'
  BY DEF TypeOK, Undone
<1>3. ASSUME NEW c \in Calls, phase'[c] \in Rendering, NEW e \in seen'[c] \ Undone(c)'
      PROVE  out'[e] = Own(e)'
  <2>1. ~(seen'[c] \subseteq todo'[c])
    BY <1>2, <1>3
  <2>2. phase[c] \in Rendering /\ e \in seen[c] /\ e \in Entries
    BY <1>2, <1>3, <2>1
  <2>3. e \in Undone(c) => out'[e] = Own(e)
    BY <1>3, <2>1, <2>2
  <2>4. e \notin Undone(c) => out[e] = Own(e)
    BY <2>2 DEF ExactInv
  <2>5. out'[e] \in {out[e], Own(e)}
    BY <2>2
  <2>. QED
    BY <1>1, <2>2, <2>3, <2>4, <2>5
<1>4. ASSUME NEW c \in Calls, phase'[c] \in Rendered, NEW e \in seen'[c]
      PROVE  out'[e] = Own(e)'
  <2>1. e \in seen[c] /\ e \in Entries
    BY <1>2, <1>4
  <2>2. out[e] = Own(e)
    BY <1>4, <2>1 DEF ExactInv
  <2>3. out'[e] \in {out[e], Own(e)}
    BY <2>1
  <2>. QED
    BY <1>1, <2>1, <2>2, <2>3
<1>. QED
  BY <1>3, <1>4 DEF ExactInv

\* Every step leaves the entries that a call is done with as I4 leaves them.
LEMMA ExactStep ==
  ASSUME TypeOK, CallInv, ReplayInv, StandsStill, [Next]_vars
  PROVE  ExactInv'
<1> USE DEF historyVars, engineVars, entryVars, cacheVars, switchVars, callVars
<1>0. WholeInv /\ DeltaInv /\ ExactInv
  BY DEF ReplayInv
<1>1. ASSUME NEW c \in Calls, CallOriginal(c) \/ RunPassthrough(c) \/ CallCached(c)
      PROVE  ExactInv'
  <2>1. /\ UNCHANGED <<menu, item, out, misses>> /\ phase[c] = "idle"
        /\ \E p \in {"raw", "enter"} : phase' = [phase EXCEPT ![c] = p]
        /\ seen' = [seen EXCEPT ![c] = rawList]
        /\ todo' = [todo EXCEPT ![c] = rawList]
    BY <1>1 DEF CallOriginal, RunPassthrough, CallCached, Push, CanCall
  <2>2. phase'[c] \in {"raw", "enter"} /\ seen'[c] \subseteq todo'[c]
    BY <2>1 DEF TypeOK
  <2>3. \A d \in Calls \ {c} : /\ phase'[d] = phase[d] /\ seen'[d] = seen[d]
                               /\ Undone(d)' = Undone(d)
    BY <2>1 DEF TypeOK, Undone
  <2>4. Rendered \cap {"raw", "enter"} = {}
    BY DEF Rendered
  <2>. QED
    BY <1>0, <2>1, <2>2, <2>3, <2>4, ExactFrame
<1>2. ASSUME NEW c \in Calls, LockForClassify(c) PROVE ExactInv'
  BY <1>0, <1>2, ExactFrame DEF LockForClassify, TypeOK, Rendering, Rendered, Undone
<1>3. ASSUME NEW c \in Calls, NEW e \in Entries, ClassifyHit(c, e) PROVE ExactInv'
  <2>1. out' = [out EXCEPT ![e] = Own(e)]
    BY <1>0, <1>3, HitExact DEF ClassifyHit
  <2>2. /\ UNCHANGED <<menu, item, phase, seen, misses>>
        /\ todo' = [todo EXCEPT ![c] = @ \ {e}]
    BY <1>3 DEF ClassifyHit
  <2>3. \A d \in Calls : Undone(d) \subseteq Undone(d)' \cup {e}
    BY <2>2 DEF TypeOK, Undone
  <2>4. out'[e] = Own(e) /\ \A d \in Entries : out'[d] \in {out[d], Own(d)}
    BY <2>1 DEF TypeOK
  <2>5. \A d \in Calls : phase'[d] = phase[d] /\ seen'[d] = seen[d]
          /\ \A g \in Undone(d) : g \in Undone(d)' \/ out'[g] = Own(g)
    BY <2>2, <2>3, <2>4
  <2>. QED
    BY <1>0, <2>2, <2>4, <2>5, ExactFrame
<1>4. ASSUME NEW c \in Calls, NEW e \in Entries, ClassifyMiss(c, e) PROVE ExactInv'
  BY <1>0, <1>4, ExactFrame DEF ClassifyMiss, TypeOK, Rendering, Rendered, Undone
<1>5. ASSUME NEW c \in Calls, ClassifyEnd(c) PROVE ExactInv'
  BY <1>0, <1>5, ExactFrame DEF ClassifyEnd, TypeOK, Rendering, Rendered, Undone
<1>6. ASSUME NEW c \in Calls, SwapEntries(c) PROVE ExactInv'
  <2>1. todo[c] = {} /\ misses[c] \subseteq seen[c]
    BY <1>6 DEF CallInv, SwapEntries
  <2>. QED
    BY <1>0, <1>6, <2>1, ExactFrame DEF SwapEntries, TypeOK, Rendering, Rendered, Undone
<1>7. ASSUME NEW c \in Calls, RunUncached(c) PROVE ExactInv'
  BY <1>0, <1>7, ExactFrame DEF RunUncached, TypeOK, Rendering, Rendered, Undone
<1>8. ASSUME NEW c \in Calls, LockForWriteBack(c) PROVE ExactInv'
  BY <1>0, <1>8, ExactFrame DEF LockForWriteBack, TypeOK, Rendering, Rendered, Undone
<1>9. ASSUME NEW c \in Calls, NEW e \in Entries, WriteBack(c, e) PROVE ExactInv'
  BY <1>0, <1>9, ExactFrame DEF WriteBack, TypeOK, Rendering, Rendered, Undone
<1>10. ASSUME NEW c \in Calls, WriteBackEnd(c) PROVE ExactInv'
  BY <1>0, <1>10, ExactFrame DEF WriteBackEnd, TypeOK, Rendering, Rendered, Undone
<1>11. ASSUME NEW c \in Calls, Return(c) PROVE ExactInv'
  BY <1>0, <1>11, ExactFrame DEF Return, TypeOK, Rendering, Rendered, Undone
<1>12. ASSUME NEW c \in Calls, NEW e \in Entries, I4Renders(c, e) PROVE ExactInv'
  <2>1. out' = [out EXCEPT ![e] = Own(e)]
    BY <1>0, <1>12, RenderExact DEF StandsStill
  <2>2. /\ UNCHANGED <<menu, item, phase, seen, misses>>
        /\ todo' = [todo EXCEPT ![c] = @ \ {e}]
    BY <1>12 DEF I4Renders
  <2>3. \A d \in Calls : Undone(d) \subseteq Undone(d)' \cup {e}
    BY <2>2 DEF TypeOK, Undone
  <2>4. out'[e] = Own(e) /\ \A d \in Entries : out'[d] \in {out[d], Own(d)}
    BY <2>1 DEF TypeOK
  <2>5. \A d \in Calls : phase'[d] = phase[d] /\ seen'[d] = seen[d]
          /\ \A g \in Undone(d) : g \in Undone(d)' \/ out'[g] = Own(g)
    BY <2>2, <2>3, <2>4
  <2>. QED
    BY <1>0, <2>2, <2>4, <2>5, ExactFrame
<1>13. ASSUME NEW c \in Calls, I4Returns(c) \/ I4Fails(c) PROVE ExactInv'
  BY <1>0, <1>13, ExactFrame DEF I4Returns, I4Fails, TypeOK, Rendering, Rendered, Undone
<1>14. CASE UNCHANGED <<menu, item, out, phase, seen, todo, misses>>
  BY <1>0, <1>14 DEF ExactInv, Own, Undone
<1>15. CASE Rebuild
  BY <1>15 DEF Rebuild, MainThreadIdle, ExactInv, Rendering, Rendered
<1>16. CASE (\E f \in Forms : InvalidateFormID(f)) \/ ClearCache
            \/ (\E on \in BOOLEAN : SetBypass(on) \/ SetFeatures(on)) \/ UNCHANGED vars
            \/ (\E f \in Forms : ModChanges(f))
  BY <1>14, <1>16 DEF InvalidateFormID, ClearCache, SetBypass, SetFeatures, vars, ModChanges
<1>17. ASSUME NEW e \in Entries, UpdateInPlace(e) PROVE FALSE
  BY <1>17 DEF UpdateInPlace, StandsStill
<1>. QED
  BY <1>1, <1>2, <1>3, <1>4, <1>5, <1>6, <1>7, <1>8, <1>9, <1>10, <1>11, <1>12, <1>13,
     <1>15, <1>16, <1>17
  DEF Next, I5Step, I4Step

\* Empty caches and fresh entries are as the invariant has them.
LEMMA ReplayInit == Init => ReplayInv
<1> SUFFICES ASSUME Init PROVE ReplayInv
  OBVIOUS
<1>1. \A s \in Setters, i \in StaticItems : cache[KeyOf(i, s)] = Nothing
  BY KeyOfStatic DEF Init
<1>2. \A s \in Setters, i \in DynamicItems : dynamicCache[KeyOf(i, s)] = Nothing
  BY KeyOfDynamic DEF Init
<1>3. DeltaInv
  BY <1>1, <1>2 DEF DeltaInv
<1>4. WholeInv
  BY DEF Init, WholeInv, NoSnapshot
<1>5. ExactInv
  BY DEF Init, ExactInv, Rendering, Rendered
<1>. QED
  BY <1>3, <1>4, <1>5 DEF ReplayInv

\* While the data stands still, an entry of a refreshed list looks in every
\* member as I4 leaves it, whether it was replayed or rendered.
THEOREM ReplaysExact == StandsStill => (Spec => []SameIconsAsI4)
<1> SUFFICES ASSUME StandsStill PROVE Spec => []SameIconsAsI4
  OBVIOUS
<1>1. IInv => TypeOK /\ CallInv
  BY DEF IInv
<1>2. TypeOK /\ CallInv /\ ReplayInv /\ [Next]_vars => ReplayInv'
  BY WholeStep, DeltaStep, ExactStep DEF ReplayInv
<1>3. TypeOK /\ ReplayInv => SameIconsAsI4
  <2> SUFFICES ASSUME TypeOK, ExactInv, NEW c \in Calls, phase[c] \in {"done", "passed"},
                      NEW e \in seen[c]
               PROVE  \E v \in 0..version[item[e].form], kw \in BOOLEAN :
                        out[e] = Icon(menu, item[e], kw, v)
    BY DEF SameIconsAsI4, ReplayInv
  <2>1. out[e] = Own(e) /\ e \in Entries
    BY DEF ExactInv, Rendered, TypeOK
  <2>2. item[e].form \in Forms \cup {NoForm}
    BY <2>1, ConstantsOK DEF TypeOK
  <2>3. version[item[e].form] \in Nat
    BY <2>2 DEF TypeOK
  <2>4. 0 \in 0..version[item[e].form] /\ (item[e].form # NoForm) \in BOOLEAN
    BY <2>3
  <2>. QED
    BY <2>1, <2>4 DEF Own
<1>. QED
  BY <1>1, <1>2, <1>3, ReplayInit, Inductive, PTL DEF Spec
=============================================================================
