------------------------- MODULE ListRefreshProofs -------------------------
(***************************************************************************)
(* Theorems about ListRefresh: the icon cache and the memo, run together.  *)
(***************************************************************************)
EXTENDS ListRefresh, TLAPS

-----------------------------------------------------------------------------
(* The steps of the memo *)

\* The variables of the memo, as its module lists them.
LEMMA MemoVars ==
  ASSUME UNCHANGED memoVars, UNCHANGED features
  PROVE UNCHANGED Memo!vars
BY DEF memoVars, Memo!vars

\* Telling the memo of an erasure is ForceReprocess, or nothing.
LEMMA TellMemoStep ==
  ASSUME NEW some, TellMemo(some), UNCHANGED features
  PROVE Memo!Next \/ UNCHANGED Memo!vars
<1>1. CASE some
  BY <1>1 DEF TellMemo, Memo!Next
<1>2. CASE ~some
  BY <1>2, MemoVars DEF TellMemo
<1> QED
  BY <1>1, <1>2

\* processList never touches the switches.
LEMMA ProcessListKeepsFeatures ==
  ASSUME NEW c \in Calls,
         \/ Icons!CallOriginal(c) \/ Icons!RunPassthrough(c) \/ Icons!CallCached(c)
         \/ Icons!I5Step(c) \/ Icons!I4Step(c)
  PROVE UNCHANGED features
<1>1. UNCHANGED Icons!switchVars
  BY DEF Icons!CallOriginal, Icons!RunPassthrough, Icons!CallCached, Icons!I5Step,
         Icons!I4Step, Icons!LockForClassify, Icons!ClassifyHit, Icons!ClassifyMiss,
         Icons!ClassifyEnd, Icons!SwapEntries, Icons!RunUncached,
         Icons!LockForWriteBack, Icons!WriteBack, Icons!WriteBackEnd, Icons!Return,
         Icons!I4Renders, Icons!I4Returns, Icons!I4Fails
<1> QED
  BY <1>1 DEF Icons!switchVars

\* A step of the composition is a step of the memo, or leaves it alone.
LEMMA MemoSteps == [Next]_vars => [Memo!Next]_(Memo!vars)
<1> SUFFICES ASSUME [Next]_vars PROVE [Memo!Next]_(Memo!vars)
  OBVIOUS
<1>1. CASE InvalidateData \/ Draw \/ Finish \/ Install \/ EditList \/ OpenMenu \/ Rebuild
           \/ \E on \in BOOLEAN : SetFeatures(on) \/ SetMemo(on)
  BY <1>1 DEF InvalidateData, Draw, Finish, Install, EditList, OpenMenu, Rebuild,
     SetFeatures, SetMemo, Memo!Next
<1>2. ASSUME NEW c \in Calls, ProcessList(c) \/ Proceed(c)
      PROVE UNCHANGED Memo!vars
  <2>1. UNCHANGED features
    BY <1>2, ProcessListKeepsFeatures DEF ProcessList, Proceed
  <2> QED
    BY <1>2, <2>1, MemoVars DEF ProcessList, Proceed
<1>3. CASE \E c \in Calls : Processed(c)
  BY <1>3 DEF Processed, Memo!Next
<1>4. ASSUME \/ \E f \in Forms : InvalidateFormID(f)
             \/ ClearCache
      PROVE [Memo!Next]_(Memo!vars)
  BY <1>4, TellMemoStep DEF InvalidateFormID, ClearCache
<1>5. ASSUME \/ \E f \in Forms : ModChanges(f)
             \/ \E on \in BOOLEAN : SetBypass(on)
             \/ UNCHANGED vars
      PROVE UNCHANGED Memo!vars
  <2>1. UNCHANGED memoVars /\ UNCHANGED features
    BY <1>5 DEF ModChanges, SetBypass, vars
  <2> QED
    BY <2>1, MemoVars
<1> QED
  BY <1>1, <1>2, <1>3, <1>4, <1>5 DEF Next

-----------------------------------------------------------------------------
(* The components' proofs, for the components of a refresh.  The icon cache *)
(* remembers in settled when an item was last invalidated; here cleared,    *)
(* when its icons were last erased, takes its place.                        *)

MP == INSTANCE InvalidateMemoProofs
IC == INSTANCE IconCacheProofs WITH settled <- cleared

\* The components' assumptions, as their proofs name them.
LEMMA ProofConstants ==
  /\ IC!ConstantsOK /\ IC!IconOK /\ IC!KeyDeterminesIcon
  /\ MP!MemoConstants
<1>1. IC!ConstantsOK
  BY RefreshConstants
     DEF Icons!ConstantsOK, Icons!Delta, Icons!DynamicEntry, Icons!DynamicItems,
         Icons!IdItems, Icons!Field, Icons!DynamicToken, Icons!IsDynamicForm,
         IC!ConstantsOK, IC!Delta, IC!DynamicEntry, IC!DynamicItems, IC!IdItems,
         IC!Field, IC!DynamicToken, IC!IsDynamicForm
<1>2. IC!IconOK
  BY RefreshConstants
     DEF Icons!IconOK, Icons!Output, Icons!Field, IC!IconOK, IC!Output, IC!Field
<1>3. IC!KeyDeterminesIcon
  BY RefreshConstants
     DEF Icons!KeyDeterminesIcon, Icons!IdItems, Icons!KeyOf, Icons!MakeCacheKey,
         Icons!IsDynamicForm, Icons!IsSoulGem, Icons!DynamicToken,
         IC!KeyDeterminesIcon, IC!IdItems, IC!KeyOf, IC!MakeCacheKey,
         IC!IsDynamicForm, IC!IsSoulGem, IC!DynamicToken
<1>4. MP!MemoConstants
  BY RefreshConstants
     DEF Memo!MemoConstants, Memo!Display, Memo!Fingerprint, MP!MemoConstants,
         MP!Display, MP!Fingerprint
<1> QED
  BY <1>1, <1>2, <1>3, <1>4

-----------------------------------------------------------------------------
(* The memo's invariant *)

\* The memo's proofs are about the very same actions.
LEMMA SameMemoSteps ==
  /\ MP!CallUnhooked = Memo!CallUnhooked /\ MP!CallOff = Memo!CallOff
  /\ MP!CallSkip = Memo!CallSkip /\ MP!CallProcess = Memo!CallProcess
  /\ MP!RunProcessors = Memo!RunProcessors /\ MP!Draw = Memo!Draw
  /\ MP!FireCallback = Memo!FireCallback /\ MP!PickFilter = Memo!PickFilter
  /\ MP!Return = Memo!Return /\ MP!ReturnFailed = Memo!ReturnFailed
  /\ MP!Install = Memo!Install /\ MP!ForceReprocess = Memo!ForceReprocess
  /\ MP!OpenMenu = Memo!OpenMenu /\ MP!Rebuild = Memo!Rebuild
  /\ MP!EditList = Memo!EditList
  /\ \A on : MP!SetFeatures(on) = Memo!SetFeatures(on)
  /\ \A on : MP!SetEnabled(on) = Memo!SetEnabled(on)
<1> USE DEF Memo!listVars, Memo!switchVars, Memo!memoVars, Memo!Idle, Memo!Top,
            Memo!InPhase, Memo!WithPhase, Memo!Goto, Memo!Pop, Memo!Fp,
            Memo!ListAlreadyRendered, Memo!WouldSkip, Memo!MayCall, Memo!CanCall,
            Memo!Answered, Memo!Start, Memo!Note,
            MP!listVars, MP!switchVars, MP!memoVars, MP!Idle, MP!Top,
            MP!InPhase, MP!WithPhase, MP!Goto, MP!Pop, MP!Fp,
            MP!ListAlreadyRendered, MP!WouldSkip, MP!MayCall, MP!CanCall,
            MP!Answered, MP!Start, MP!Note
<1>1. /\ MP!CallUnhooked = Memo!CallUnhooked /\ MP!CallOff = Memo!CallOff
      /\ MP!CallSkip = Memo!CallSkip /\ MP!CallProcess = Memo!CallProcess
  BY DEF MP!CallUnhooked, Memo!CallUnhooked, MP!CallOff, Memo!CallOff,
         MP!CallSkip, Memo!CallSkip, MP!CallProcess, Memo!CallProcess
<1>2. /\ MP!RunProcessors = Memo!RunProcessors /\ MP!Draw = Memo!Draw
      /\ MP!FireCallback = Memo!FireCallback /\ MP!PickFilter = Memo!PickFilter
      /\ MP!Return = Memo!Return /\ MP!ReturnFailed = Memo!ReturnFailed
  BY DEF MP!RunProcessors, Memo!RunProcessors, MP!Draw, Memo!Draw,
         MP!FireCallback, Memo!FireCallback, MP!PickFilter, Memo!PickFilter,
         MP!Return, Memo!Return, MP!ReturnFailed, Memo!ReturnFailed
<1>3. /\ MP!Install = Memo!Install /\ MP!ForceReprocess = Memo!ForceReprocess
      /\ MP!OpenMenu = Memo!OpenMenu /\ MP!Rebuild = Memo!Rebuild
      /\ MP!EditList = Memo!EditList
      /\ \A on : MP!SetFeatures(on) = Memo!SetFeatures(on)
      /\ \A on : MP!SetEnabled(on) = Memo!SetEnabled(on)
  BY DEF MP!Install, Memo!Install, MP!ForceReprocess, Memo!ForceReprocess,
         MP!OpenMenu, Memo!OpenMenu, MP!Rebuild, Memo!Rebuild,
         MP!EditList, Memo!EditList, MP!SetFeatures, Memo!SetFeatures,
         MP!SetEnabled, Memo!SetEnabled
<1> QED
  BY <1>1, <1>2, <1>3

\* The memo in the composition is the one its theorems are about.
LEMMA SameMemo ==
  /\ MP!Init = Memo!Init /\ MP!Next = Memo!Next
  /\ UNCHANGED Memo!vars => UNCHANGED MP!vars
<1>1. MP!Init = Memo!Init /\ (UNCHANGED Memo!vars => UNCHANGED MP!vars)
  BY DEF MP!Init, Memo!Init, MP!vars, Memo!vars
<1> QED
  BY <1>1, SameMemoSteps DEF MP!Next, Memo!Next

\* The memo's own invariant.
LEMMA MemoHolds == Spec => []MP!MemoInv
<1>1. Init => MP!Init
  BY SameMemo DEF Init
<1>2. [Next]_vars => [MP!Next]_(MP!vars)
  BY SameMemo, MemoSteps
<1>3. MP!Init => MP!MemoInv
  BY ProofConstants, MP!MemoInit
<1>4. MP!MemoInv /\ [MP!Next]_(MP!vars) => MP!MemoInv'
  BY ProofConstants, MP!MemoStep, MP!TypeStep DEF MP!MemoInv
<1> QED
  BY <1>1, <1>2, <1>3, <1>4, PTL DEF Spec

-----------------------------------------------------------------------------
(* The cache's invariant *)

\* A step that leaves cleared alone is, but for invalidations, one that
\* leaves settled alone.
LEMMA SameProcessList ==
  ASSUME NEW c \in Calls, UNCHANGED cleared,
         \/ Icons!CallOriginal(c) \/ Icons!RunPassthrough(c) \/ Icons!CallCached(c)
         \/ Icons!I5Step(c) \/ Icons!I4Step(c)
  PROVE IC!Next
<1> USE DEF Icons!historyVars, Icons!engineVars, Icons!entryVars, Icons!cacheVars,
            Icons!switchVars, Icons!callVars, Icons!OnTop, Icons!CacheLocked, Icons!NextUp,
            IC!historyVars, IC!engineVars, IC!entryVars, IC!cacheVars,
            IC!switchVars, IC!callVars, IC!OnTop, IC!CacheLocked, IC!NextUp
<1>1. CASE Icons!CallOriginal(c) \/ Icons!RunPassthrough(c) \/ Icons!CallCached(c)
  <2>1. IC!CallOriginal(c) \/ IC!RunPassthrough(c) \/ IC!CallCached(c)
    BY <1>1 DEF Icons!CallOriginal, Icons!RunPassthrough, Icons!CallCached,
       Icons!CanCall, Icons!Push, Icons!FillMissingKeywords,
       IC!CallOriginal, IC!RunPassthrough, IC!CallCached,
       IC!CanCall, IC!Push, IC!FillMissingKeywords
  <2> QED
    BY <2>1 DEF IC!Next
<1>2. \A i : IC!KeyOf(i, menu) = Icons!KeyOf(i, menu) /\ IC!LookupDelta(i) = Icons!LookupDelta(i)
  BY DEF Icons!KeyOf, Icons!MakeCacheKey, Icons!IsDynamicForm, Icons!IsSoulGem,
         Icons!DynamicToken, Icons!LookupDelta,
         IC!KeyOf, IC!MakeCacheKey, IC!IsDynamicForm, IC!IsSoulGem,
         IC!DynamicToken, IC!LookupDelta
<1>3. \A a, b : IC!ApplyDelta(a, b) = Icons!ApplyDelta(a, b)
             /\ IC!BuildDelta(a, b) = Icons!BuildDelta(a, b)
  BY DEF Icons!ApplyDelta, Icons!BuildDelta, Icons!Field,
         IC!ApplyDelta, IC!BuildDelta, IC!Field
<1>4. CASE Icons!I5Step(c)
  <2>1. Icons!LockForClassify(c) \/ Icons!ClassifyEnd(c) \/ Icons!SwapEntries(c)
          \/ Icons!RunUncached(c) \/ Icons!LockForWriteBack(c) \/ Icons!WriteBackEnd(c)
        => IC!I5Step(c)
    BY DEF Icons!LockForClassify, Icons!ClassifyEnd, Icons!SwapEntries,
       Icons!RunUncached, Icons!LockForWriteBack, Icons!WriteBackEnd,
       IC!LockForClassify, IC!ClassifyEnd, IC!SwapEntries,
       IC!RunUncached, IC!LockForWriteBack, IC!WriteBackEnd, IC!I5Step
  <2>2. Icons!Return(c) => IC!I5Step(c)
    BY DEF Icons!Return, Icons!NoSnapshot, Icons!Fresh, Icons!Field,
           IC!Return, IC!NoSnapshot, IC!Fresh, IC!Field, IC!I5Step
  <2>3. ASSUME NEW e \in Entries
        PROVE Icons!ClassifyHit(c, e) \/ Icons!ClassifyMiss(c, e) => IC!I5Step(c)
    BY <1>2, <1>3 DEF Icons!ClassifyHit, Icons!ClassifyMiss, IC!ClassifyHit,
       IC!ClassifyMiss, IC!I5Step
  <2>4. ASSUME NEW e \in Entries
        PROVE Icons!WriteBack(c, e) => IC!I5Step(c)
    <3>1. IC!Cacheable(c, e) = Icons!Cacheable(c, e)
      BY <1>3 DEF Icons!Cacheable, Icons!DeltaSetsIconLabel, IC!Cacheable,
         IC!DeltaSetsIconLabel
    <3>2. Icons!WriteBack(c, e) => IC!WriteBack(c, e)
      BY <1>2, <1>3, <3>1 DEF Icons!WriteBack, Icons!IsDynamicForm, Icons!DynamicToken,
         IC!WriteBack, IC!IsDynamicForm, IC!DynamicToken
    <3> QED
      BY <3>2 DEF IC!I5Step
  <2>5. IC!I5Step(c)
    BY <1>4, <2>1, <2>2, <2>3, <2>4 DEF Icons!I5Step
  <2> QED
    BY <2>5 DEF IC!Next
<1>5. CASE Icons!I4Step(c)
  <2>1. IC!I4Step(c)
    BY <1>5 DEF Icons!I4Step, Icons!I4Renders, Icons!I4Returns, Icons!I4Fails,
       Icons!RestoreEntries,
       IC!I4Step, IC!I4Renders, IC!I4Returns, IC!I4Fails, IC!RestoreEntries
  <2> QED
    BY <2>1 DEF IC!Next
<1> QED
  BY <1>1, <1>4, <1>5

\* What happens around the icon cache is the same with the other history
\* variable in the place of its own.
LEMMA SameEnvironment ==
  ASSUME UNCHANGED cleared
  PROVE /\ Icons!Rebuild => IC!Next
        /\ \A f \in Forms : Icons!ModChanges(f) => IC!Next
        /\ \A on \in BOOLEAN : Icons!SetBypass(on) \/ Icons!SetFeatures(on) => IC!Next
        /\ UNCHANGED iconVars /\ UNCHANGED features => UNCHANGED IC!vars
<1> USE DEF Icons!historyVars, Icons!engineVars, Icons!entryVars, Icons!cacheVars,
            Icons!switchVars, Icons!callVars, Icons!MainThreadIdle,
            IC!historyVars, IC!engineVars, IC!entryVars, IC!cacheVars,
            IC!switchVars, IC!callVars, IC!MainThreadIdle
<1>1. Icons!Rebuild => IC!Rebuild
  BY DEF Icons!Rebuild, Icons!Fresh, Icons!Field, IC!Rebuild, IC!Fresh, IC!Field
<1>2. \A f \in Forms : Icons!ModChanges(f) => IC!ModChanges(f)
  BY DEF Icons!ModChanges, Icons!ForeignTurn, IC!ModChanges, IC!ForeignTurn
<1>3. \A on \in BOOLEAN : /\ Icons!SetBypass(on) => IC!SetBypass(on)
                          /\ Icons!SetFeatures(on) => IC!SetFeatures(on)
  BY DEF Icons!SetBypass, Icons!SetFeatures, IC!SetBypass, IC!SetFeatures
<1>4. UNCHANGED iconVars /\ UNCHANGED features => UNCHANGED IC!vars
  BY DEF iconVars, IC!vars
<1> QED
  BY <1>1, <1>2, <1>3, <1>4 DEF IC!Next

\* What is erased, is forgotten of the whole cache or of one form, and
\* cleared is moved with it; or nothing was there to erase.
LEMMA ErasedStep ==
  ASSUME IC!TypeOK, NEW f \in Forms, InvalidateFormID(f)
  PROVE \/ IC!InvalidateFormID(f)
        \/ /\ UNCHANGED <<menu, item, out, filled, rawList, cache, dynamicCache,
                          features, bypass, stack, phase, seen, todo, misses,
                          before, version, cleared>>
<1> USE DEF Icons!historyVars, Icons!engineVars, Icons!entryVars, Icons!cacheVars,
            Icons!switchVars, Icons!callVars, Icons!MainThreadIdle,
            IC!historyVars, IC!engineVars, IC!entryVars, IC!cacheVars,
            IC!switchVars, IC!callVars, IC!MainThreadIdle
<1>1. /\ cleared \in [Forms -> 0..MaxVersion]
      /\ cache = [k \in DOMAIN cache |-> cache[k]]
      /\ dynamicCache = [k \in DOMAIN dynamicCache |-> dynamicCache[k]]
  BY DEF IC!TypeOK
<1>2. Icons!InvalidateFormID(f) /\ UNCHANGED features
  BY DEF InvalidateFormID
<1>3. CASE Holds(cache, f) \/ Holds(dynamicCache, f)
  <2>1. cleared' = [cleared EXCEPT ![f] = IF Icons!MainThreadIdle THEN version[f] ELSE @]
    BY <1>1, <1>3 DEF InvalidateFormID
  <2> QED
    BY <1>2, <2>1 DEF Icons!InvalidateFormID, Icons!ForeignTurn, Icons!CacheLocked,
       Icons!Erased, IC!InvalidateFormID, IC!ForeignTurn, IC!CacheLocked, IC!Erased
<1>4. CASE ~(Holds(cache, f) \/ Holds(dynamicCache, f))
  <2>1. \A k \in DOMAIN cache : k.form = f => cache[k] = Nothing
    BY <1>4 DEF Holds
  <2>2. \A k \in DOMAIN dynamicCache : k.form = f => dynamicCache[k] = Nothing
    BY <1>4 DEF Holds
  <2>3. cache' = cache
    BY <1>1, <1>2, <2>1 DEF Icons!InvalidateFormID, Icons!Erased
  <2>4. dynamicCache' = dynamicCache
    BY <1>1, <1>2, <2>2 DEF Icons!InvalidateFormID, Icons!Erased
  <2>5. cleared' = cleared
    BY <1>4 DEF InvalidateFormID
  <2> QED
    BY <1>2, <2>3, <2>4, <2>5 DEF Icons!InvalidateFormID
<1> QED
  BY <1>3, <1>4

\* The invariant of the cache does not depend on when an item was last
\* invalidated, other than by what is erased.
LEMMA NothingErased ==
  ASSUME IC!IInv, IC!StackInv, IC!ListInv,
         invalidated' \in [Forms -> 0..MaxVersion],
         UNCHANGED <<menu, item, out, filled, rawList, cache, dynamicCache,
                     features, bypass, stack, phase, seen, todo, misses,
                     before, version, cleared>>
  PROVE IC!IInv' /\ IC!StackInv' /\ IC!ListInv'
<1>1. IC!TypeOK'
  BY DEF IC!IInv, IC!TypeOK
<1>2. IC!HistoryInv' /\ IC!CallInv'
  BY DEF IC!IInv, IC!HistoryInv, IC!CallInv
<1>3. IC!ShowsInv'
  BY DEF IC!IInv, IC!ShowsInv, IC!Shows, IC!Since, IC!Undone
<1>4. IC!InvalidationsTakeEffect'
  BY DEF IC!IInv, IC!InvalidationsTakeEffect, IC!CachedSince, IC!LabelOfI4
<1>5. IC!StackInv' /\ IC!ListInv'
  BY DEF IC!StackInv, IC!ListInv, IC!Held
<1> QED
  BY <1>1, <1>2, <1>3, <1>4, <1>5 DEF IC!IInv

\* With no call running and nothing cached, nothing can show too old an icon.
LEMMA AllErased ==
  ASSUME IC!IInv, IC!StackInv, IC!ListInv, ClearCache
  PROVE IC!IInv' /\ IC!StackInv' /\ IC!ListInv'
<1>1. IC!StaticKey = Icons!StaticKey /\ IC!DynamicKey = Icons!DynamicKey
  BY DEF Icons!StaticKey, Icons!StaticItems, Icons!DynamicKey, Icons!DynamicItems,
         Icons!IdItems, Icons!KeyOf, Icons!MakeCacheKey, Icons!IsDynamicForm,
         Icons!IsSoulGem,
         IC!StaticKey, IC!StaticItems, IC!DynamicKey, IC!DynamicItems, IC!IdItems,
         IC!KeyOf, IC!MakeCacheKey, IC!IsDynamicForm, IC!IsSoulGem
<1>2. /\ \A c \in Calls : phase[c] = "idle"
      /\ cache' = [k \in IC!StaticKey |-> Nothing]
      /\ dynamicCache' = [k \in IC!DynamicKey |-> Nothing]
      /\ UNCHANGED <<menu, item, out, filled, rawList, features, bypass, stack,
                     phase, seen, todo, misses, before, version, invalidated>>
  BY <1>1 DEF ClearCache, Icons!ClearCache, Icons!MainThreadIdle, Icons!historyVars,
     Icons!engineVars, Icons!entryVars, Icons!switchVars, Icons!callVars
<1>3. /\ version \in [Forms \cup {NoForm} -> 0..MaxVersion]
      /\ cleared \in [Forms -> 0..MaxVersion]
  BY DEF IC!IInv, IC!TypeOK
<1>4. cleared' = cleared \/ cleared' = [f \in Forms |-> version[f]]
  BY Zenon DEF ClearCache
<1>5. /\ cleared' \in [Forms -> 0..MaxVersion]
      /\ \A f \in Forms : cleared'[f] <= version[f]
  <2>1. \A f \in Forms : cleared[f] <= version[f] /\ version[f] \in 0..MaxVersion
    BY <1>3 DEF IC!IInv, IC!HistoryInv
  <2>2. CASE cleared' = cleared
    BY <1>3, <2>1, <2>2
  <2>3. CASE cleared' = [f \in Forms |-> version[f]]
    BY <2>1, <2>3, ProofConstants DEF IC!ConstantsOK
  <2> QED
    BY <1>4, <2>2, <2>3
<1>6. IC!TypeOK'
  BY <1>2, <1>5 DEF IC!IInv, IC!TypeOK
<1>7. IC!HistoryInv'
  BY <1>2, <1>5 DEF IC!HistoryInv
<1>8. IC!CallInv'
  BY <1>2 DEF IC!IInv, IC!CallInv
<1>9. IC!ShowsInv'
  BY <1>2 DEF IC!ShowsInv, IC!Rendering, IC!Rendered
<1>10. IC!InvalidationsTakeEffect'
  <2>1. ASSUME NEW s \in Setters, NEW i \in IC!StaticItems
        PROVE  cache'[IC!KeyOf(i, s)] = Nothing
    BY <1>2 DEF IC!StaticKey
  <2>2. ASSUME NEW s \in Setters, NEW i \in IC!DynamicItems
        PROVE  dynamicCache'[IC!KeyOf(i, s)] = Nothing
    BY <1>2 DEF IC!DynamicKey
  <2> QED
    BY <2>1, <2>2 DEF IC!InvalidationsTakeEffect, IC!CachedSince
<1>11. IC!StackInv' /\ IC!ListInv'
  BY <1>2 DEF IC!StackInv, IC!ListInv, IC!Held
<1> QED
  BY <1>6, <1>7, <1>8, <1>9, <1>10, <1>11 DEF IC!IInv

\* The icon cache keeps its invariants in every step of the composition.
LEMMA CacheStep ==
  ASSUME IC!IInv, IC!StackInv, IC!ListInv, [Next]_vars
  PROVE IC!IInv' /\ IC!StackInv' /\ IC!ListInv'
<1>1. CASE [IC!Next]_(IC!vars)
  BY <1>1, ProofConstants, IC!IInvNext, IC!StackStep DEF IC!IInv
<1>2. ASSUME NEW f \in Forms, InvalidateFormID(f)
      PROVE IC!IInv' /\ IC!StackInv' /\ IC!ListInv'
  <2>1. IC!InvalidateFormID(f) => IC!Next
    BY DEF IC!Next
  <2>2. invalidated' \in [Forms -> 0..MaxVersion]
    <3>1. invalidated \in [Forms -> 0..MaxVersion] /\ version[f] \in 0..MaxVersion
      BY DEF IC!IInv, IC!TypeOK
    <3>2. invalidated' = [invalidated EXCEPT ![f] = version[f]]
      BY <1>2 DEF InvalidateFormID, Icons!InvalidateFormID
    <3> QED
      BY <3>1, <3>2
  <2> QED
    BY <1>1, <1>2, <2>1, <2>2, ErasedStep, NothingErased DEF IC!IInv
<1>3. CASE ClearCache
  BY <1>3, AllErased
<1>4. CASE InvalidateData \/ Draw \/ Finish \/ Install \/ EditList
           \/ (\E on \in BOOLEAN : SetMemo(on)) \/ UNCHANGED vars
  <2>1. UNCHANGED iconVars /\ UNCHANGED features /\ UNCHANGED cleared
    BY <1>4 DEF InvalidateData, Draw, Finish, Install, EditList, SetMemo, vars, ownVars
  <2> QED
    BY <1>1, <2>1, SameEnvironment
<1>5. CASE \E c \in Calls : ProcessList(c) \/ Proceed(c) \/ Processed(c)
  <2> PICK c \in Calls : ProcessList(c) \/ Proceed(c) \/ Processed(c)
    BY <1>5
  <2>1. /\ UNCHANGED cleared
        /\ \/ Icons!CallOriginal(c) \/ Icons!RunPassthrough(c) \/ Icons!CallCached(c)
           \/ Icons!I5Step(c) \/ Icons!I4Step(c)
    BY DEF ProcessList, Proceed, Processed, ownVars, Icons!I5Step
  <2> QED
    BY <1>1, <2>1, SameProcessList
<1>6. CASE \/ \E f \in Forms : ModChanges(f)
           \/ OpenMenu \/ Rebuild
           \/ \E on \in BOOLEAN : SetFeatures(on) \/ SetBypass(on)
  BY <1>1, <1>6, SameEnvironment
     DEF ModChanges, OpenMenu, Rebuild, SetFeatures, SetBypass, ownVars
<1> QED
  BY <1>2, <1>3, <1>4, <1>5, <1>6 DEF Next

\* The invariants of the icon cache, with cleared for settled.
LEMMA CacheHolds == Spec => [](IC!IInv /\ IC!StackInv /\ IC!ListInv)
<1>1. Init => IC!Init
  <2>1. Init => Icons!Init /\ cleared = [f \in Forms |-> 0]
    BY DEF Init
  <2>2. Icons!Init /\ cleared = [f \in Forms |-> 0] => IC!Init
    BY DEF Icons!Init, Icons!Fresh, Icons!Field, Icons!NoSnapshot, Icons!StaticKey,
       Icons!StaticItems, Icons!DynamicKey, Icons!DynamicItems, Icons!IdItems,
       Icons!KeyOf, Icons!MakeCacheKey, Icons!IsDynamicForm, Icons!IsSoulGem,
       IC!Init, IC!Fresh, IC!Field, IC!NoSnapshot, IC!StaticKey,
       IC!StaticItems, IC!DynamicKey, IC!DynamicItems, IC!IdItems,
       IC!KeyOf, IC!MakeCacheKey, IC!IsDynamicForm, IC!IsSoulGem
  <2> QED
    BY <2>1, <2>2
<1>2. IC!Init => IC!IInv /\ IC!StackInv /\ IC!ListInv
  <2>1. IC!Init => IC!IInv
    BY ProofConstants, IC!IInvInit
  <2>2. IC!Init => IC!StackInv /\ IC!ListInv
    BY DEF IC!Init, IC!StackInv, IC!ListInv
  <2> QED
    BY <2>1, <2>2
<1>3. IC!IInv /\ IC!StackInv /\ IC!ListInv /\ [Next]_vars
        => (IC!IInv /\ IC!StackInv /\ IC!ListInv)'
  BY CacheStep
<1> QED
  BY <1>1, <1>2, <1>3, PTL DEF Spec

-----------------------------------------------------------------------------
(* What is on display when a refresh is skipped *)

\* The icon is one I4 gave the present item of entry e since its cached icons
\* were last erased.
ShowsSince(icon, e) ==
  /\ icon # Nothing
  /\ \E v \in (IF item[e].form \in Forms THEN cleared[item[e].form] ELSE 0)..version[item[e].form] :
       icon["iconLabel"] = Icon(menu, item[e], e \in filled, v)["iconLabel"]

ListCurrent == \A e \in Entries : ShowsSince(out[e], e)
DisplayCurrent == \A e \in Entries : ShowsSince(drawn[e], e)

\* processList only runs inside the data processors of a pass.  From there to
\* the end of the pass the list, and once it is drawn the display, show what
\* they should, or the memo has been told otherwise; and between passes, as
\* long as the fingerprint of a processed list is remembered.
RefreshInv ==
  /\ stack # <<>> => MP!InPhase("process")
  /\ MP!InPhase("draw") /\ ~flawed => ListCurrent \/ forced
  /\ /\ MP!MayCall /\ (MP!Idle => hooked /\ lastFp # Nothing)
     /\ unprocessed # Entries /\ ~disturbed /\ ~flawed
     => DisplayCurrent \/ forced

AllInv ==
  /\ MP!MemoInv
  /\ IC!IInv /\ IC!StackInv /\ IC!ListInv
  /\ RefreshInv

\* A mod's change only adds versions.
LEMMA StillCurrent ==
  ASSUME IC!TypeOK, IC!TypeOK', UNCHANGED <<menu, item, filled, cleared, out, drawn>>,
         \A g \in Forms \cup {NoForm} : version[g] <= version'[g]
  PROVE  (ListCurrent => ListCurrent') /\ (DisplayCurrent => DisplayCurrent')
<1>1. ASSUME NEW e \in Entries, NEW icon, ShowsSince(icon, e)
      PROVE  /\ icon # Nothing
             /\ \E v \in (IF item'[e].form \in Forms THEN cleared'[item'[e].form] ELSE 0)..version'[item'[e].form] :
                  icon["iconLabel"] = Icon(menu', item'[e], e \in filled', v)["iconLabel"]
  <2> DEFINE f == item[e].form
             lo == IF f \in Forms THEN cleared[f] ELSE 0
  <2>1. f \in Forms \cup {NoForm}
    BY ProofConstants DEF IC!TypeOK, IC!ConstantsOK
  <2>2. lo \in Nat /\ version[f] \in Nat /\ version'[f] \in Nat /\ version[f] <= version'[f]
    BY <2>1, ProofConstants DEF IC!TypeOK, IC!ConstantsOK
  <2>3. PICK v \in lo..version[f] :
          icon["iconLabel"] = Icon(menu, item[e], e \in filled, v)["iconLabel"]
    BY <1>1 DEF ShowsSince
  <2>4. v \in lo..version'[f]
    BY <2>2, <2>3
  <2> QED
    BY <1>1, <2>3, <2>4 DEF ShowsSince
<1> QED
  BY <1>1 DEF ListCurrent, DisplayCurrent, ShowsSince

\* With the main thread idle no processList call is left on the stack.
LEMMA MainThreadFree ==
  ASSUME IC!TypeOK, IC!StackInv, Icons!MainThreadIdle
  PROVE  stack = <<>>
<1>1. stack # <<>> => 1 \in 1..Len(stack) /\ stack[1] \in Calls
  BY DEF IC!TypeOK
<1> QED
  BY <1>1 DEF Icons!MainThreadIdle, IC!StackInv

\* The processList of a pass worked on the whole list; unless it failed, all
\* of it shows what it should.
LEMMA ProcessedCurrent ==
  ASSUME AllInv, NEW c \in Calls, Processed(c), phase[c] # "failed"
  PROVE  ListCurrent
<1>1. stack = <<c>> /\ phase[c] \in {"done", "passed"}
  BY DEF Processed, Icons!Return
<1>2. seen[c] = Entries
  <2>1. Len(stack) = 1 /\ stack[1] = c
    BY <1>1
  <2> QED
    BY <2>1 DEF AllInv, IC!ListInv
<1>3. \A e \in Entries : IC!Shows(e)
  BY <1>1, <1>2 DEF AllInv, IC!IInv, IC!ShowsInv, IC!Rendered
<1>4. \A e \in Entries : out[e] # Nothing
  <2>1. Nothing \notin IC!Output
    BY ProofConstants DEF IC!ConstantsOK, IC!Delta, IC!Output
  <2>2. \A e \in Entries : out[e] \in IC!Output
    BY DEF AllInv, IC!IInv, IC!TypeOK
  <2> QED
    BY <2>1, <2>2
<1> QED
  BY <1>3, <1>4 DEF ListCurrent, ShowsSince, IC!Shows, IC!Since

\* The steps of the memo between passes and at their ends.
LEMMA CallRefresh ==
  ASSUME AllInv, InvalidateData, MP!MemoInv'
  PROVE  RefreshInv'
<1>1. /\ stack = <<>> /\ stack' = <<>>
      /\ UNCHANGED <<menu, item, filled, version, cleared, out, drawn, flawed>>
  BY MainThreadFree DEF AllInv, IC!IInv, InvalidateData, iconVars, ownVars
<1>2. (ListCurrent' <=> ListCurrent) /\ (DisplayCurrent' <=> DisplayCurrent)
  BY <1>1 DEF ListCurrent, DisplayCurrent, ShowsSince
<1>3. MP!CallUnhooked \/ MP!CallOff \/ MP!CallSkip \/ MP!CallProcess
  BY SameMemoSteps DEF InvalidateData
<1> USE DEF MP!listVars, MP!switchVars, MP!memoVars
<1>4. ASSUME NEW memo \in BOOLEAN, MP!Start(memo) PROVE RefreshInv'
  <2>1. /\ calls' # <<>> /\ calls'[Len(calls')].phase = "process"
    <3>1. calls \in Seq(MP!Call)
      BY DEF AllInv, MP!MemoInv, MP!TypeOK
    <3>2. /\ calls' \in Seq(MP!Call) /\ Len(calls') = Len(calls) + 1
          /\ calls'[Len(calls')] = [phase |-> "process", memo |-> memo]
      BY <1>4, <3>1, ProofConstants, MP!StartFacts
    <3> QED
      BY <3>1, <3>2
  <2>2. ~MP!MayCall' /\ ~MP!InPhase("draw")'
    BY <2>1 DEF MP!MayCall, MP!InPhase, MP!Idle, MP!Top
  <2> QED
    BY <1>1, <2>2 DEF RefreshInv
<1>5. ASSUME calls' = MP!Answered, MP!MayCall,
             lastFp' \in {lastFp, Nothing},
             UNCHANGED <<unprocessed, hooked, features, enabled, forced, disturbed>>
      PROVE RefreshInv'
  <2>1. (MP!Idle' <=> MP!Idle) /\ (MP!InPhase("draw")' => MP!InPhase("draw"))
    BY <1>5, ProofConstants, MP!StackAnswered DEF AllInv
  <2> QED
    BY <1>1, <1>2, <1>5, <2>1 DEF AllInv, RefreshInv
<1>6. MP!MayCall
  BY <1>3 DEF MP!CallUnhooked, MP!CallOff, MP!CallSkip, MP!CallProcess, MP!CanCall
<1>7. CASE MP!CallUnhooked
  BY <1>4, <1>7 DEF MP!CallUnhooked
<1>8. CASE MP!CallOff
  <2>1. CASE suspended
    BY <1>5, <1>6, <1>8, <2>1 DEF MP!CallOff, MP!Note
  <2>2. CASE ~suspended
    BY <1>4, <1>8, <2>2 DEF MP!CallOff
  <2> QED
    BY <2>1, <2>2
<1>9. CASE MP!CallSkip
  BY <1>5, <1>6, <1>9 DEF MP!CallSkip
<1>10. CASE MP!CallProcess
  BY <1>4, <1>10 DEF MP!CallProcess
<1> QED
  BY <1>3, <1>7, <1>8, <1>9, <1>10

\* A pass that returns leaves a display as its record says.
LEMMA FinishRefresh ==
  ASSUME AllInv, Finish, MP!MemoInv'
  PROVE  RefreshInv'
<1>1. /\ stack = <<>> /\ stack' = <<>>
      /\ UNCHANGED <<menu, item, filled, version, cleared, out, drawn, flawed>>
  BY MainThreadFree DEF AllInv, IC!IInv, Finish, iconVars, ownVars
<1>2. (ListCurrent' <=> ListCurrent) /\ (DisplayCurrent' <=> DisplayCurrent)
  BY <1>1 DEF ListCurrent, DisplayCurrent, ShowsSince
<1>3. MP!FireCallback \/ MP!PickFilter \/ MP!Return \/ MP!ReturnFailed
  BY SameMemoSteps DEF Finish
<1>4. calls \in Seq(MP!Call) /\ Len(calls) \in Nat
  BY DEF AllInv, MP!MemoInv, MP!TypeOK
<1> USE DEF MP!listVars, MP!switchVars, MP!memoVars
<1>5. CASE MP!FireCallback
  BY <1>1, <1>2, <1>5 DEF MP!FireCallback, AllInv, RefreshInv, MP!MayCall, MP!InPhase,
     MP!Idle, MP!Top
<1>6. CASE MP!PickFilter
  <2>1. disturbed' /\ calls # <<>> /\ MP!Goto("picked")
    BY <1>6 DEF MP!PickFilter, MP!InPhase, MP!Idle
  <2>2. calls'[Len(calls)].phase = "picked" /\ Len(calls') = Len(calls)
    BY <1>4, <2>1, ProofConstants, MP!GotoFacts DEF MP!Phase
  <2>3. ~MP!InPhase("draw")'
    BY <2>2 DEF MP!InPhase, MP!Top
  <2> QED
    BY <1>1, <2>1, <2>3 DEF RefreshInv
<1>7. ASSUME MP!Return \/ MP!ReturnFailed PROVE ~MP!InPhase("draw")'
  <2>1. calls # <<>> /\ MP!Pop
    BY <1>7 DEF MP!Return, MP!ReturnFailed, MP!InPhase, MP!Idle
  <2>2. /\ Len(calls') = Len(calls) - 1 /\ calls' \in Seq(MP!Call)
        /\ \A k \in 1..Len(calls') : calls'[k] = calls[k]
    BY <1>4, <2>1, ProofConstants, MP!PopFacts
  <2>3. calls' # <<>> => calls'[Len(calls')].phase = "notify"
    <3>1. calls' # <<>> => Len(calls') \in 1..(Len(calls) - 1)
      BY <1>4, <2>2
    <3> QED
      BY <2>2, <3>1 DEF AllInv, MP!MemoInv, MP!StackInv
  <2> QED
    BY <2>3 DEF MP!InPhase, MP!Idle, MP!Top
<1>8. CASE MP!Return
  <2>1. MP!MayCall /\ ~MP!Idle
    BY <1>8 DEF MP!Return, MP!MayCall, MP!InPhase
  <2>2. UNCHANGED <<unprocessed, disturbed, forced>>
    BY <1>8 DEF MP!Return
  <2> QED
    BY <1>1, <1>2, <1>7, <1>8, <2>1, <2>2 DEF AllInv, RefreshInv
<1>9. CASE MP!ReturnFailed
  <2>1. CASE Len(calls) > 1
    <3>1. disturbed'
      BY <1>9, <2>1 DEF MP!ReturnFailed
    <3> QED
      BY <1>1, <1>7, <1>9, <3>1 DEF RefreshInv
  <2>2. CASE ~(Len(calls) > 1)
    <3>0. calls # <<>>
      BY <1>9 DEF MP!ReturnFailed, MP!Idle
    <3>1. Len(calls) = 1 /\ calls # <<>>
      BY <1>4, <2>2, <3>0
    <3>2. MP!Idle'
      <4>1. calls' \in Seq(MP!Call) /\ Len(calls') = 0
        BY <1>4, <1>9, <3>1, ProofConstants, MP!PopFacts DEF MP!ReturnFailed
      <4> QED
        BY <4>1 DEF MP!Idle
    <3>3. ~(hooked' /\ lastFp' # Nothing)
      <4>1. CASE MP!Top.memo
        BY <1>9, <4>1 DEF MP!ReturnFailed
      <4>2. CASE ~MP!Top.memo
        <5>1. UNCHANGED <<hooked, lastFp>>
          BY <1>9, <4>2 DEF MP!ReturnFailed
        <5>2. MP!Top.memo = (hooked /\ features /\ enabled)
          BY <3>1 DEF AllInv, MP!MemoInv, MP!StackInv, MP!Top
        <5>3. hooked /\ ~(features /\ enabled) => lastFp = Nothing
          BY <3>1 DEF AllInv, MP!MemoInv, MP!StackInv, MP!Idle
        <5> QED
          BY <4>2, <5>1, <5>2, <5>3
      <4> QED
        BY <4>1, <4>2
    <3> QED
      BY <1>1, <1>7, <1>9, <3>2, <3>3 DEF RefreshInv
  <2> QED
    BY <2>1, <2>2
<1> QED
  BY <1>3, <1>5, <1>6, <1>8, <1>9

\* The processList of a pass, and the drawing of its list.
LEMMA ProcessRefresh ==
  ASSUME AllInv, NEW c \in Calls, ProcessList(c) \/ Proceed(c)
  PROVE  RefreshInv'
<1>1. calls' = calls
  BY DEF ProcessList, Proceed, memoVars
<1>2. MP!InPhase("process")
  <2>1. CASE stack = <<>>
    <3>1. ProcessList(c)
      BY <2>1 DEF Proceed, Icons!I5Step, Icons!I4Step, Icons!LockForClassify,
         Icons!ClassifyHit, Icons!ClassifyMiss, Icons!ClassifyEnd, Icons!SwapEntries,
         Icons!RunUncached, Icons!LockForWriteBack, Icons!WriteBack,
         Icons!WriteBackEnd, Icons!Return, Icons!I4Renders, Icons!I4Returns,
         Icons!I4Fails, Icons!OnTop
    <3> QED
      BY <2>1, <3>1 DEF ProcessList, Memo!InPhase, Memo!Idle, Memo!Top,
         MP!InPhase, MP!Idle, MP!Top
  <2>2. CASE stack # <<>>
    BY <2>2 DEF AllInv, RefreshInv
  <2> QED
    BY <2>1, <2>2
<1>3. MP!InPhase("process")' /\ ~MP!InPhase("draw")' /\ ~MP!MayCall'
  BY <1>1, <1>2 DEF MP!InPhase, MP!Idle, MP!Top, MP!MayCall
<1> QED
  BY <1>3 DEF RefreshInv

\* The end of processList leaves every entry it was given with an icon made
\* since the last erasure.
LEMMA ProcessedRefresh ==
  ASSUME AllInv, NEW c \in Calls, Processed(c)
  PROVE  RefreshInv'
<1>1. stack' = <<>>
  BY DEF Processed, Icons!Return
<1>2. calls \in Seq(MP!Call)
  BY DEF AllInv, MP!MemoInv, MP!TypeOK
<1>3. calls # <<>> /\ MP!Goto("draw")
  BY DEF Processed, Memo!RunProcessors, Memo!InPhase, Memo!Idle, Memo!Goto,
     Memo!WithPhase, Memo!Top, MP!Goto, MP!WithPhase, MP!Top
<1>4. calls'[Len(calls)].phase = "draw" /\ Len(calls') = Len(calls) /\ calls' \in Seq(MP!Call)
  BY <1>2, <1>3, ProofConstants, MP!GotoFacts DEF MP!Phase
<1>5. ~MP!MayCall'
  <2>1. calls' # <<>>
    BY <1>2, <1>3, <1>4
  <2> QED
    BY <1>4, <2>1 DEF MP!MayCall, MP!InPhase, MP!Idle, MP!Top
<1>6. ~flawed' => ListCurrent'
  <2>1. UNCHANGED <<menu, item, filled, version, out, cleared>>
    BY DEF Processed, Icons!Return, Icons!engineVars, Icons!entryVars
  <2>2. ListCurrent => ListCurrent'
    BY <2>1 DEF ListCurrent, ShowsSince
  <2>3. ~flawed' => phase[c] # "failed"
    BY DEF Processed
  <2> QED
    BY <2>2, <2>3, ProcessedCurrent
<1> QED
  BY <1>1, <1>5, <1>6 DEF RefreshInv

\* Drawing puts the icons of the entries on display.
LEMMA DrawRefresh ==
  ASSUME AllInv, Draw
  PROVE  RefreshInv'
<1>1. calls \in Seq(MP!Call)
  BY DEF AllInv, MP!MemoInv, MP!TypeOK
<1>2. MP!InPhase("draw") /\ calls # <<>> /\ MP!Goto("notify") /\ UNCHANGED forced
  BY DEF Draw, Memo!Draw, Memo!InPhase, Memo!Idle, Memo!Goto, Memo!WithPhase,
     Memo!Top, Memo!memoVars, MP!InPhase, MP!Idle, MP!Goto, MP!WithPhase, MP!Top
<1>3. stack = <<>> /\ stack' = stack
  <2>1. ~MP!InPhase("process")
    BY <1>2 DEF MP!InPhase
  <2> QED
    BY <2>1 DEF AllInv, RefreshInv, Draw, iconVars
<1>4. calls'[Len(calls)].phase = "notify" /\ Len(calls') = Len(calls)
  BY <1>1, <1>2, ProofConstants, MP!GotoFacts DEF MP!Phase
<1>5. ~MP!InPhase("draw")'
  BY <1>4 DEF MP!InPhase, MP!Top
<1>6. ~flawed' => DisplayCurrent' \/ forced'
  <2>1. UNCHANGED <<menu, item, filled, version, out, cleared, flawed>>
    BY DEF Draw, iconVars
  <2>2. \A e \in Entries : drawn'[e] = out[e]
    BY DEF Draw
  <2>3. ListCurrent => DisplayCurrent'
    BY <2>1, <2>2 DEF ListCurrent, DisplayCurrent, ShowsSince
  <2> QED
    BY <1>2, <2>1, <2>3 DEF AllInv, RefreshInv
<1> QED
  BY <1>3, <1>5, <1>6 DEF RefreshInv

\* Everything else: what other mods, other threads, the engine and the console
\* do between the steps of a refresh.
LEMMA OutsideRefresh ==
  ASSUME AllInv, IC!TypeOK',
         \/ \E f \in Forms : InvalidateFormID(f) \/ ModChanges(f)
         \/ ClearCache \/ OpenMenu \/ Install \/ Rebuild \/ EditList
         \/ \E on \in BOOLEAN : SetFeatures(on) \/ SetBypass(on) \/ SetMemo(on)
         \/ UNCHANGED vars
  PROVE  RefreshInv'
<1> USE DEF MP!InPhase, MP!Idle, MP!Top, MP!MayCall
<1>1. /\ UNCHANGED calls
      /\ IC!TypeOK /\ RefreshInv
  BY DEF AllInv, IC!IInv, InvalidateFormID, ModChanges, ClearCache, TellMemo, OpenMenu,
     Install, Rebuild, EditList, SetFeatures, SetBypass, SetMemo, vars, memoVars,
     Memo!ForceReprocess, Memo!OpenMenu, Memo!Install, Memo!Rebuild, Memo!EditList,
     Memo!SetFeatures, Memo!SetEnabled
<1>2. UNCHANGED stack
  BY DEF InvalidateFormID, ModChanges, ClearCache, OpenMenu,
     Install, Rebuild, EditList, SetFeatures, SetBypass, SetMemo, vars, iconVars,
     Icons!InvalidateFormID, Icons!ModChanges, Icons!ClearCache, Icons!Rebuild,
     Icons!SetFeatures, Icons!SetBypass, Icons!callVars
\* The memo is told, or the list is new, or nothing is remembered.
<1>3. ASSUME forced' PROVE RefreshInv'
  BY <1>1, <1>2, <1>3 DEF RefreshInv
<1>4. ASSUME calls = <<>>, unprocessed' = Entries PROVE RefreshInv'
  BY <1>1, <1>2, <1>4 DEF RefreshInv
\* Otherwise what is shown stays as current as it was.
<1>5. ASSUME UNCHANGED <<menu, item, filled, cleared, out, drawn, flawed,
                         unprocessed, disturbed, hooked, forced>>,
             lastFp' = lastFp \/ (calls = <<>> /\ lastFp' = Nothing),
             \A g \in Forms \cup {NoForm} : version[g] <= version'[g]
      PROVE  RefreshInv'
  <2>1. (ListCurrent => ListCurrent') /\ (DisplayCurrent => DisplayCurrent')
    BY <1>1, <1>5, StillCurrent
  <2> QED
    BY <1>1, <1>2, <1>5, <2>1 DEF RefreshInv
<1>6. \A g \in Forms \cup {NoForm} : version[g] \in Nat
  BY <1>1, ProofConstants DEF IC!TypeOK, IC!ConstantsOK
<1>7. ASSUME UNCHANGED version
      PROVE  \A g \in Forms \cup {NoForm} : version[g] <= version'[g]
  BY <1>6, <1>7
<1>8. ASSUME NEW f \in Forms, InvalidateFormID(f) PROVE RefreshInv'
  <2>1. CASE Holds(cache, f) \/ Holds(dynamicCache, f)
    <3>1. forced'
      BY <1>8, <2>1 DEF InvalidateFormID, TellMemo, Memo!ForceReprocess
    <3> QED
      BY <1>3, <3>1
  <2>2. CASE ~(Holds(cache, f) \/ Holds(dynamicCache, f))
    <3>1. UNCHANGED memoVars /\ UNCHANGED <<drawn, flawed, cleared>>
      BY <1>8, <2>2 DEF InvalidateFormID, TellMemo
    <3>2. UNCHANGED <<menu, item, version, out, filled>>
      BY <1>8 DEF InvalidateFormID, Icons!InvalidateFormID, Icons!entryVars
    <3> QED
      BY <1>5, <1>7, <3>1, <3>2 DEF memoVars
  <2> QED
    BY <2>1, <2>2
<1>9. ASSUME NEW f \in Forms, ModChanges(f) PROVE RefreshInv'
  <2>1. UNCHANGED <<menu, item, out, filled>> /\ UNCHANGED memoVars /\ UNCHANGED ownVars
    BY <1>9 DEF ModChanges, Icons!ModChanges, Icons!entryVars
  <2>2. version' = [version EXCEPT ![f] = @ + 1]
    BY <1>9 DEF ModChanges, Icons!ModChanges
  <2>3. \A g \in Forms \cup {NoForm} : version[g] <= version'[g]
    BY <1>1, <1>6, <2>2 DEF IC!TypeOK
  <2> QED
    BY <1>5, <2>1, <2>3 DEF memoVars, ownVars
<1>10. CASE ClearCache
  <2> DEFINE some == \E f \in Forms : Holds(cache, f) \/ Holds(dynamicCache, f)
  <2>1. CASE some
    <3>1. forced'
      BY <1>10, <2>1 DEF ClearCache, TellMemo, Memo!ForceReprocess
    <3> QED
      BY <1>3, <3>1
  <2>2. CASE ~some
    <3>1. UNCHANGED memoVars /\ UNCHANGED <<drawn, flawed, cleared>>
      BY <1>10, <2>2 DEF ClearCache, TellMemo
    <3>2. UNCHANGED <<menu, item, version, out, filled>>
      BY <1>10 DEF ClearCache, Icons!ClearCache, Icons!engineVars, Icons!entryVars
    <3> QED
      BY <1>5, <1>7, <3>1, <3>2 DEF memoVars
  <2> QED
    BY <2>1, <2>2
<1>11. CASE OpenMenu \/ Rebuild
  <2>1. calls = <<>> /\ unprocessed' = Entries
    BY <1>11 DEF OpenMenu, Rebuild, Memo!OpenMenu, Memo!Rebuild, Memo!Idle
  <2> QED
    BY <1>4, <2>1
<1>12. CASE Install
  <2>1. calls = <<>> /\ lastFp' = Nothing
    BY <1>12 DEF Install, Memo!Install, Memo!Idle
  <2> QED
    BY <1>1, <1>2, <2>1 DEF RefreshInv
<1>13. CASE \/ EditList
            \/ \E on \in BOOLEAN : SetFeatures(on) \/ SetBypass(on) \/ SetMemo(on)
            \/ UNCHANGED vars
  <2>1. UNCHANGED <<menu, item, filled, out, version>> /\ UNCHANGED ownVars
    BY <1>13 DEF EditList, SetFeatures, SetBypass, SetMemo, vars, iconVars,
       Icons!SetFeatures, Icons!SetBypass, Icons!engineVars, Icons!entryVars
  <2>2. UNCHANGED <<unprocessed, disturbed, hooked, forced, lastFp>>
    BY <1>13 DEF EditList, SetFeatures, SetBypass, SetMemo, vars, memoVars,
       Memo!EditList, Memo!SetFeatures, Memo!SetEnabled, Memo!listVars, Memo!memoVars
  <2> QED
    BY <1>5, <1>7, <2>1, <2>2 DEF ownVars
<1> QED
  BY <1>8, <1>9, <1>10, <1>11, <1>12, <1>13

\* Every step of the composition keeps the invariant.
LEMMA RefreshStep ==
  ASSUME AllInv, MP!MemoInv', IC!TypeOK', [Next]_vars
  PROVE  RefreshInv'
<1>1. CASE \E c \in Calls : ProcessList(c) \/ Proceed(c) \/ Processed(c)
  BY <1>1, ProcessRefresh, ProcessedRefresh
<1> QED
  BY <1>1, CallRefresh, FinishRefresh, DrawRefresh, OutsideRefresh DEF Next

\* The components' invariants and the one that relates them hold together.
LEMMA RefreshHolds == Spec => []AllInv
<1>1. Init => RefreshInv
  <2>1. ASSUME Init PROVE stack = <<>> /\ calls = <<>> /\ unprocessed = Entries
    BY <2>1 DEF Init, Icons!Init, Memo!Init
  <2>2. ASSUME Init PROVE RefreshInv
    BY <2>1, <2>2 DEF RefreshInv, MP!InPhase, MP!Idle
  <2> QED
    BY <2>2
<1>2. /\ MP!MemoInv /\ IC!IInv /\ IC!StackInv /\ IC!ListInv /\ RefreshInv
      /\ MP!MemoInv' /\ IC!IInv'
      /\ [Next]_vars
      => RefreshInv'
  BY RefreshStep DEF AllInv, IC!IInv
<1> QED
  BY <1>1, <1>2, MemoHolds, CacheHolds, PTL DEF Spec, AllInv

\* Whatever lists, menus, mods, threads and nested calls do: a refresh is
\* only skipped when every entry on display shows an icon that I4 gave its
\* present item since its cached icons were last erased.
THEOREM SkippedRefreshesCurrent == Spec => []SkipShowsCurrentIcons
<1>1. ASSUME AllInv, Memo!MayCall, Memo!WouldSkip, ~disturbed, ~flawed,
             NEW e \in Processable(content)
      PROVE  ShowsSince(drawn[e], e)
  <2>1. content \in Contents /\ lastFp = Memo!Fp /\ hooked /\ ~forced
    BY <1>1 DEF AllInv, MP!MemoInv, MP!TypeOK, Memo!WouldSkip
  <2>2. e \in Entries
    BY <2>1, ProofConstants DEF MP!MemoConstants
  <2>3. unprocessed # Entries
    BY <1>1, <2>2 DEF Memo!WouldSkip, Memo!ListAlreadyRendered
  <2>4. lastFp # Nothing
    <3>1. Memo!Fp \in MP!Fingerprint
      BY <1>1 DEF AllInv, MP!MemoInv, MP!TypeOK, MP!Fingerprint, Memo!Fp
    <3> QED
      BY <2>1, <3>1, ProofConstants DEF MP!MemoConstants
  <2>5. MP!MayCall
    BY <1>1 DEF Memo!MayCall, Memo!InPhase, Memo!Idle, Memo!Top,
       MP!MayCall, MP!InPhase, MP!Idle, MP!Top
  <2>6. DisplayCurrent
    BY <1>1, <2>1, <2>3, <2>4, <2>5 DEF AllInv, RefreshInv
  <2> QED
    BY <2>2, <2>6 DEF DisplayCurrent
<1>2. AllInv => SkipShowsCurrentIcons
  BY <1>1 DEF SkipShowsCurrentIcons, SkipShowsIcons, ShowsSince
<1> QED
  BY <1>2, RefreshHolds, PTL

=============================================================================
