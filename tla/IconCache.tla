------------------------------ MODULE IconCache ------------------------------
(***************************************************************************)
(* The icon cache of I4Hook.cpp: ProcessListCache wraps an icon setter's   *)
(* processList, replays cached deltas on the entries it knows, lets I4     *)
(* render the rest and stores what I4 wrote.                               *)
(*                                                                         *)
(* Threads.  processList calls, the engine's list rebuilds and the console *)
(* run on the main thread.  The I4 code a call invokes is foreign and may  *)
(* re-enter processList, so calls nest: only the innermost one moves.      *)
(* API::IAPI::InvalidateItem may come from any thread ("async" \in Env).   *)
(* Every critical section of cacheMutex that looks cached icons up or      *)
(* changes them is visible here: a call owns it in the phases "classify"   *)
(* and "writeback".  Those that only count them, for the timing log and    *)
(* the status line, are left out.                                          *)
(*                                                                         *)
(* Data.  An entry carries two of the members I4 writes: the label, which  *)
(* DeltaSetsIconLabel singles out, and one other (the colour).  What I4    *)
(* writes is the constant Icon, over the setter, the item, whether the     *)
(* entry had keywords, and the version of the item's source data.          *)
(*                                                                         *)
(* Operators whose comment begins with "Faulty:" are wrong on purpose.     *)
(* They stand for bugs that the properties at the end would catch.         *)
(***************************************************************************)
EXTENDS Naturals, Sequences

CONSTANTS
  Entries,       \* the positions of the open menu's list
  Forms,         \* form IDs
  NoForm,        \* the form of an entry without a numeric formId
  DynamicForms,  \* the runtime forms: IDs with high byte 0xFF
  SoulGems,      \* the forms whose formType is SoulGem
  Items,         \* what an entry can describe: [form, status, name] records
  Setters,       \* CacheSetter: kInventory, kCrafting, kMagic
  Value,         \* values of a member I4 writes
  Absent,        \* "the entry has no such member"
  Keep,          \* "the delta does not mention this member"
  Nothing,       \* "the map has no such key"
  Calls,         \* activations of processList (bounds the nesting)
  MaxVersion,    \* bound: how often a mod changes one form's source data
  Env,           \* which of "async", "inplace", "toggle" the environment does
  Icon(_, _, _, _)  \* what I4 writes: setter, item, has keywords, version

Field == {"iconLabel", "iconColor"}
Output == [Field -> Value \cup {Absent}]
Delta == [Field -> Value \cup {Absent, Keep}]
Fresh == [f \in Field |-> Absent]

IsDynamicForm(form) == form \in DynamicForms

IsSoulGem(i) == i.form \in SoulGems

\* Faulty: the icon setter is left out of the key.
AnySetterKey(form, soulGem, status, setter) ==
  [form |-> form, soulGem |-> soulGem,
   status |-> IF soulGem THEN status % 256 ELSE 0,
   setter |-> CHOOSE s \in Setters : TRUE]

\* The packed 64-bit key, kept as the fields it packs; the fill status is
\* masked to a byte and only present for soul gems.
MakeCacheKey(form, soulGem, status, setter) ==
  [form |-> form, soulGem |-> soulGem,
   status |-> IF soulGem THEN status % 256 ELSE 0, setter |-> setter]

\* The key ClassifyOne computes for an entry that has a form ID.
KeyOf(i, s) ==
  IF IsDynamicForm(i.form) THEN MakeCacheKey(i.form, FALSE, 0, s)
  ELSE MakeCacheKey(i.form, IsSoulGem(i), i.status, s)

\* The reuse guard hashes the display name and the form type.
DynamicToken(i) == i.name

IdItems == {i \in Items : i.form \in Forms}
DynamicItems == {i \in IdItems : IsDynamicForm(i.form)}
StaticItems == IdItems \ DynamicItems
StaticKey == {KeyOf(i, s) : i \in StaticItems, s \in Setters}
DynamicKey == {KeyOf(i, s) : i \in DynamicItems, s \in Setters}

DynamicEntry == [delta : Delta, token : {DynamicToken(i) : i \in DynamicItems}]

ASSUME ConstantsOK ==
  /\ Entries \subseteq Nat
  /\ NoForm \notin Forms
  /\ \A i \in Items : i.form \in Forms \cup {NoForm} /\ i.status \in Nat
  /\ MaxVersion \in Nat
  /\ {Absent, Keep} \cap Value = {} /\ Absent # Keep
  /\ Nothing \notin Delta \cup DynamicEntry

ASSUME IconOK ==
  \A s \in Setters, i \in Items, kw \in BOOLEAN, v \in 0..MaxVersion :
    Icon(s, i, kw, v) \in Output

\* I5 relies on it: all I4 reads of an entry is determined by the cache key
\* and, for a runtime form, by the reuse token.
ASSUME KeyDeterminesIcon ==
  \A s \in Setters, i \in IdItems, j \in IdItems, kw \in BOOLEAN,
     v \in 0..MaxVersion :
    /\ KeyOf(i, s) = KeyOf(j, s)
    /\ IsDynamicForm(i.form) => DynamicToken(i) = DynamicToken(j)
    => Icon(s, i, kw, v) = Icon(s, j, kw, v)

\* Faulty: only the label is captured.
LabelDelta(before, after) ==
  [f \in Field |-> IF before[f] = after[f] \/ f # "iconLabel" THEN Keep ELSE after[f]]

BuildDelta(before, after) ==
  [f \in Field |-> IF before[f] = after[f] THEN Keep ELSE after[f]]

\* Faulty: members the delta does not mention are overwritten.
ApplyVerbatim(out, delta) == [f \in Field |-> delta[f]]

ApplyDelta(out, delta) ==
  [f \in Field |-> IF delta[f] = Keep THEN out[f] ELSE delta[f]]

DeltaSetsIconLabel(delta) == delta["iconLabel"] \notin {Keep, Absent}

-----------------------------------------------------------------------------
VARIABLES
  menu,          \* the setter of the open menu's movie
  item,          \* item[e]: what entry e describes
  out,           \* out[e]: the members of e that I4 writes
  filled,        \* entries that have a keywords member
  rawList,       \* the entries in list._entryList
  cache,         \* HookState::cache
  dynamicCache,  \* HookState::dynamicCache
  features,      \* Features::IsEnabled()
  bypass,        \* HookState::bypass
  stack,         \* active calls, innermost first
  phase,         \* phase[c]: where call c is
  seen,          \* seen[c]: the entryList call c was given
  todo,          \* todo[c]: positions the current loop of c has not reached
  misses,        \* misses[c]: ClassifyResult::misses
  before,        \* before[c][e]: Miss::before
  version,       \* version[f]: the source data of form f
  invalidated,   \* version[f] when InvalidateFormID(f) last ran (history)
  settled        \* ... and when it last ran between two calls (history)

historyVars == <<invalidated, settled>>
engineVars == <<menu, item, version, historyVars>>
entryVars == <<out, filled, rawList>>
cacheVars == <<cache, dynamicCache>>
switchVars == <<features, bypass>>
callVars == <<stack, phase, seen, todo, misses, before>>
vars == <<menu, item, out, filled, rawList, cache, dynamicCache, features,
          bypass, stack, phase, seen, todo, misses, before, version,
          invalidated, settled>>

Phase == {"idle", "enter", "classify", "swap", "i4", "raw", "relock",
          "writeback", "done", "passed", "failed"}

TypeOK ==
  /\ menu \in Setters
  /\ item \in [Entries -> Items]
  /\ out \in [Entries -> Output]
  /\ filled \in SUBSET Entries
  /\ rawList \in SUBSET Entries
  /\ cache \in [StaticKey -> Delta \cup {Nothing}]
  /\ dynamicCache \in [DynamicKey -> DynamicEntry \cup {Nothing}]
  /\ features \in BOOLEAN
  /\ bypass \in BOOLEAN
  /\ stack \in Seq(Calls)
  /\ phase \in [Calls -> Phase]
  /\ seen \in [Calls -> SUBSET Entries]
  /\ todo \in [Calls -> SUBSET Entries]
  /\ misses \in [Calls -> SUBSET Entries]
  /\ before \in [Calls -> [Entries -> Output]]
  /\ version \in [Forms \cup {NoForm} -> 0..MaxVersion]
  /\ invalidated \in [Forms -> 0..MaxVersion]
  /\ settled \in [Forms -> 0..MaxVersion]

NoSnapshot == [e \in Entries |-> Fresh]

Init ==
  /\ menu \in Setters
  /\ item \in [Entries -> Items]
  /\ out = [e \in Entries |-> Fresh]
  /\ filled = {}
  /\ rawList = Entries
  /\ cache = [k \in StaticKey |-> Nothing]
  /\ dynamicCache = [k \in DynamicKey |-> Nothing]
  /\ features = TRUE
  /\ bypass = FALSE
  /\ stack = <<>>
  /\ phase = [c \in Calls |-> "idle"]
  /\ seen = [c \in Calls |-> {}]
  /\ todo = [c \in Calls |-> {}]
  /\ misses = [c \in Calls |-> {}]
  /\ before = [c \in Calls |-> NoSnapshot]
  /\ version = [f \in Forms \cup {NoForm} |-> 0]
  /\ invalidated = [f \in Forms |-> 0]
  /\ settled = [f \in Forms |-> 0]

MainThreadIdle == \A c \in Calls : phase[c] = "idle"
OnTop(c) == stack # <<>> /\ Head(stack) = c
\* Faulty: the lock of the classify pass is kept while I4 runs.
LockedThroughI4 == \E c \in Calls : phase[c] \in {"classify", "swap", "i4", "writeback"}
\* cacheMutex is held through a classify pass and through a write-back.
CacheLocked == \E c \in Calls : phase[c] \in {"classify", "writeback"}
\* The loops run over the list in order.
NextUp(c, e) == e \in todo[c] /\ \A d \in todo[c] : e <= d

-----------------------------------------------------------------------------
(* processList *)

\* A call starts on an idle main thread or out of the I4 code of another.
CanCall(c) ==
  /\ phase[c] = "idle"
  /\ \/ stack = <<>>
     \/ \E d \in Calls : OnTop(d) /\ phase[d] \in {"i4", "raw"}

\* Push call c, which gets the current list and goes on in phase p.
Push(c, p) ==
  /\ stack' = <<c>> \o stack
  /\ phase' = [phase EXCEPT ![c] = p]
  /\ seen' = [seen EXCEPT ![c] = rawList]
  /\ todo' = [todo EXCEPT ![c] = rawList]

\* KeywordFill gives a keywords member to every entry it can look up.  The
\* entry of a form that has no keywords counts as filled too: Icon is what I4
\* writes for it then.  Writes that fail are left out here (MenuWraps has them).
FillMissingKeywords ==
  filled' = filled \cup {e \in rawList : item[e].form # NoForm}

\* Features are off: I4 alone.
CallOriginal(c) ==
  /\ CanCall(c) /\ ~features
  /\ Push(c, "raw")
  /\ UNCHANGED <<engineVars, entryVars, cacheVars, switchVars, misses, before>>

\* Keywords are filled, then I4 alone: the cache is bypassed, or the list has
\* no raw _entryList to swap (any list may be of that shape).
RunPassthrough(c) ==
  /\ CanCall(c) /\ features
  /\ FillMissingKeywords
  /\ Push(c, "raw")
  /\ UNCHANGED <<engineVars, out, rawList, cacheVars, switchVars, misses, before>>

\* The cached path; ClassifyEntries then waits for cacheMutex.
CallCached(c) ==
  /\ CanCall(c) /\ features /\ ~bypass
  /\ FillMissingKeywords
  /\ Push(c, "enter")
  /\ UNCHANGED <<engineVars, out, rawList, cacheVars, switchVars, misses, before>>

LockForClassify(c) ==
  /\ OnTop(c) /\ phase[c] = "enter" /\ ~CacheLocked
  /\ phase' = [phase EXCEPT ![c] = "classify"]
  /\ UNCHANGED <<engineVars, entryVars, cacheVars, switchVars, stack, seen,
                 todo, misses, before>>

\* Faulty: a runtime form's delta is used whoever owns the form ID now.
LookupWithoutToken(i) ==
  LET key == KeyOf(i, menu) IN
  IF i.form = NoForm THEN Nothing
  ELSE IF ~IsDynamicForm(i.form) THEN cache[key]
  ELSE IF dynamicCache[key] # Nothing THEN dynamicCache[key].delta ELSE Nothing

\* The delta LookupDelta returns for an item, Nothing on a miss.
LookupDelta(i) ==
  LET key == KeyOf(i, menu) IN
  IF i.form = NoForm THEN Nothing
  ELSE IF ~IsDynamicForm(i.form) THEN cache[key]
  ELSE IF dynamicCache[key] # Nothing /\ dynamicCache[key].token = DynamicToken(i)
       THEN dynamicCache[key].delta
       ELSE Nothing

\* A hit replays the delta; a miss is queued for I4 with its snapshot.
ClassifyHit(c, e) ==
  /\ OnTop(c) /\ phase[c] = "classify" /\ NextUp(c, e)
  /\ LookupDelta(item[e]) # Nothing
  /\ out' = [out EXCEPT ![e] = ApplyDelta(out[e], LookupDelta(item[e]))]
  /\ todo' = [todo EXCEPT ![c] = @ \ {e}]
  /\ UNCHANGED <<engineVars, filled, rawList, cacheVars, switchVars, stack,
                 phase, seen, misses, before>>

ClassifyMiss(c, e) ==
  /\ OnTop(c) /\ phase[c] = "classify" /\ NextUp(c, e)
  /\ LookupDelta(item[e]) = Nothing
  /\ misses' = [misses EXCEPT ![c] = @ \cup {e}]
  /\ before' = [before EXCEPT ![c] = [@ EXCEPT ![e] = out[e]]]
  /\ todo' = [todo EXCEPT ![c] = @ \ {e}]
  /\ UNCHANGED <<engineVars, entryVars, cacheVars, switchVars, stack, phase, seen>>

\* The pass ends and releases cacheMutex; without misses the call is over.
ClassifyEnd(c) ==
  /\ OnTop(c) /\ phase[c] = "classify" /\ todo[c] = {}
  /\ phase' = [phase EXCEPT ![c] = IF misses[c] = {} THEN "done" ELSE "swap"]
  /\ UNCHANGED <<engineVars, entryVars, cacheVars, switchVars, stack, seen,
                 todo, misses, before>>

\* ProcessMisses shows I4 a list that holds the misses only.
SwapEntries(c) ==
  /\ OnTop(c) /\ phase[c] = "swap"
  /\ rawList' = misses[c]
  /\ phase' = [phase EXCEPT ![c] = "i4"]
  /\ todo' = [todo EXCEPT ![c] = misses[c]]
  /\ UNCHANGED <<engineVars, out, filled, cacheVars, switchVars, stack, seen,
                 misses, before>>

\* Faulty: a list that cannot be swapped is left as it is.
GiveUp(c) ==
  /\ OnTop(c) /\ phase[c] = "swap"
  /\ phase' = [phase EXCEPT ![c] = "done"]
  /\ UNCHANGED <<engineVars, entryVars, cacheVars, switchVars, stack, seen,
                 todo, misses, before>>

\* The list cannot be swapped (no raw array any more, a failed push, a getter
\* that does not follow the raw field): I4 runs over every entry, uncached.
RunUncached(c) ==
  /\ OnTop(c) /\ phase[c] = "swap"
  /\ phase' = [phase EXCEPT ![c] = "raw"]
  /\ todo' = [todo EXCEPT ![c] = seen[c]]
  /\ UNCHANGED <<engineVars, entryVars, cacheVars, switchVars, stack, seen,
                 misses, before>>

\* I4's processList renders one entry of the list it was given.
I4Renders(c, e) ==
  /\ OnTop(c) /\ phase[c] \in {"i4", "raw"} /\ NextUp(c, e)
  /\ out' = [out EXCEPT ![e] =
               Icon(menu, item[e], e \in filled, version[item[e].form])]
  /\ todo' = [todo EXCEPT ![c] = @ \ {e}]
  /\ UNCHANGED <<engineVars, filled, rawList, cacheVars, switchVars, stack,
                 phase, seen, misses, before>>

\* scope_exit puts the whole list back, whether or not the invoke succeeded.  The
\* write that puts it back is assumed to succeed, as the one that swapped it did.
RestoreEntries(c) ==
  rawList' = IF phase[c] = "i4" THEN seen[c] ELSE rawList

I4Returns(c) ==
  /\ OnTop(c) /\ phase[c] \in {"i4", "raw"} /\ todo[c] = {}
  /\ RestoreEntries(c)
  /\ phase' = [phase EXCEPT ![c] = IF @ = "i4" THEN "relock" ELSE "passed"]
  /\ UNCHANGED <<engineVars, out, filled, cacheVars, switchVars, stack, seen,
                 todo, misses, before>>

\* Faulty: the list is only put back after an invoke that succeeded.
FailsUnrestored(c) ==
  /\ OnTop(c) /\ phase[c] \in {"i4", "raw"}
  /\ phase' = [phase EXCEPT ![c] = "failed"]
  /\ UNCHANGED <<engineVars, entryVars, cacheVars, switchVars, stack, seen,
                 todo, misses, before>>

\* A failed invoke may have rendered some entries; nothing is cached.
I4Fails(c) ==
  /\ OnTop(c) /\ phase[c] \in {"i4", "raw"}
  /\ RestoreEntries(c)
  /\ phase' = [phase EXCEPT ![c] = "failed"]
  /\ UNCHANGED <<engineVars, out, filled, cacheVars, switchVars, stack, seen,
                 todo, misses, before>>

LockForWriteBack(c) ==
  /\ OnTop(c) /\ phase[c] = "relock" /\ ~CacheLocked
  /\ phase' = [phase EXCEPT ![c] = "writeback"]
  /\ todo' = [todo EXCEPT ![c] = misses[c]]
  /\ UNCHANGED <<engineVars, entryVars, cacheVars, switchVars, stack, seen,
                 misses, before>>

\* Faulty: runtime forms are never stored.
CacheableStatic(c, e) ==
  /\ item[e].form # NoForm /\ ~IsDynamicForm(item[e].form)
  /\ DeltaSetsIconLabel(BuildDelta(before[c][e], out[e]))

\* Only a delta that sets the label is worth keeping; a miss without a form
\* ID has no key.
Cacheable(c, e) ==
  /\ item[e].form # NoForm
  /\ DeltaSetsIconLabel(BuildDelta(before[c][e], out[e]))

\* One turn of the write-back loop of ProcessMisses.
WriteBack(c, e) ==
  LET key == KeyOf(item[e], menu)
      delta == BuildDelta(before[c][e], out[e])
      dynamic == IsDynamicForm(item[e].form)
  IN
  /\ OnTop(c) /\ phase[c] = "writeback" /\ NextUp(c, e)
  /\ cache' = IF Cacheable(c, e) /\ ~dynamic
              THEN [cache EXCEPT ![key] = delta] ELSE cache
  /\ dynamicCache' =
       IF Cacheable(c, e) /\ dynamic
       THEN [dynamicCache EXCEPT ![key] =
               [delta |-> delta, token |-> DynamicToken(item[e])]]
       ELSE dynamicCache
  /\ todo' = [todo EXCEPT ![c] = @ \ {e}]
  /\ UNCHANGED <<engineVars, entryVars, switchVars, stack, phase, seen,
                 misses, before>>

WriteBackEnd(c) ==
  /\ OnTop(c) /\ phase[c] = "writeback" /\ todo[c] = {}
  /\ phase' = [phase EXCEPT ![c] = "done"]
  /\ UNCHANGED <<engineVars, entryVars, cacheVars, switchVars, stack, seen,
                 todo, misses, before>>

\* Call returns to ActionScript and its locals go away.
Return(c) ==
  /\ OnTop(c) /\ phase[c] \in {"done", "passed", "failed"}
  /\ stack' = Tail(stack)
  /\ phase' = [phase EXCEPT ![c] = "idle"]
  /\ seen' = [seen EXCEPT ![c] = {}]
  /\ todo' = [todo EXCEPT ![c] = {}]
  /\ misses' = [misses EXCEPT ![c] = {}]
  /\ before' = [before EXCEPT ![c] = NoSnapshot]
  /\ UNCHANGED <<engineVars, entryVars, cacheVars, switchVars>>

I4Step(c) ==
  \/ \E e \in Entries : I4Renders(c, e)
  \/ I4Returns(c)
  \/ I4Fails(c)

I5Step(c) ==
  \/ LockForClassify(c)
  \/ \E e \in Entries : ClassifyHit(c, e) \/ ClassifyMiss(c, e)
  \/ ClassifyEnd(c)
  \/ SwapEntries(c)
  \/ RunUncached(c)
  \/ LockForWriteBack(c)
  \/ \E e \in Entries : WriteBack(c, e)
  \/ WriteBackEnd(c)
  \/ Return(c)

-----------------------------------------------------------------------------
(* The other users of the cache, and the engine *)

\* Where a foreign plugin may act: any time if it has threads of its own.
ForeignTurn == "async" \in Env \/ MainThreadIdle

Erased(map, form) ==
  [k \in DOMAIN map |-> IF k.form = form THEN Nothing ELSE map[k]]

\* Faulty: the icons of runtime forms stay.
InvalidateStatic(f) ==
  /\ ForeignTurn /\ ~CacheLocked
  /\ cache' = Erased(cache, f)
  /\ invalidated' = [invalidated EXCEPT ![f] = version[f]]
  /\ settled' = [settled EXCEPT ![f] = IF MainThreadIdle THEN version[f] ELSE @]
  /\ UNCHANGED <<menu, item, version, dynamicCache, entryVars, switchVars, callVars>>

\* Faulty: only the icons of runtime forms go.
InvalidateDynamic(f) ==
  /\ ForeignTurn /\ ~CacheLocked
  /\ dynamicCache' = Erased(dynamicCache, f)
  /\ invalidated' = [invalidated EXCEPT ![f] = version[f]]
  /\ settled' = [settled EXCEPT ![f] = IF MainThreadIdle THEN version[f] ELSE @]
  /\ UNCHANGED <<menu, item, version, cache, entryVars, switchVars, callVars>>

\* IAPI::InvalidateItem and the console's "i5 invalidate" (the ForceReprocess
\* call at the end is InvalidateMemo's business).
InvalidateFormID(f) ==
  /\ ForeignTurn /\ ~CacheLocked
  /\ cache' = Erased(cache, f)
  /\ dynamicCache' = Erased(dynamicCache, f)
  /\ invalidated' = [invalidated EXCEPT ![f] = version[f]]
  /\ settled' = [settled EXCEPT ![f] = IF MainThreadIdle THEN version[f] ELSE @]
  /\ UNCHANGED <<menu, item, version, entryVars, switchVars, callVars>>

\* "i5 cache purge" and the SKSE revert callback, both on the main thread.
ClearCache ==
  /\ MainThreadIdle
  /\ cache' = [k \in StaticKey |-> Nothing]
  /\ dynamicCache' = [k \in DynamicKey |-> Nothing]
  /\ UNCHANGED <<engineVars, entryVars, switchVars, callVars>>

\* "i5 cache enable|disable".
SetBypass(on) ==
  /\ MainThreadIdle
  /\ bypass' = on
  /\ UNCHANGED <<engineVars, entryVars, cacheVars, features, callVars>>

\* "i5 enable|disable".
SetFeatures(on) ==
  /\ MainThreadIdle /\ "toggle" \in Env
  /\ features' = on
  /\ UNCHANGED <<engineVars, entryVars, cacheVars, bypass, callVars>>

\* Another mod changes what I4 would show for a form.
ModChanges(f) ==
  /\ ForeignTurn /\ version[f] < MaxVersion
  /\ version' = [version EXCEPT ![f] = @ + 1]
  /\ UNCHANGED <<menu, item, historyVars, entryVars, cacheVars, switchVars, callVars>>

\* A menu opens or the engine rebuilds the list: new entry objects.  A 0xFF
\* form may now name another item.
Rebuild ==
  /\ MainThreadIdle
  /\ menu' \in Setters
  /\ item' \in [Entries -> Items]
  /\ out' = [e \in Entries |-> Fresh]
  /\ filled' = {}
  /\ rawList' = Entries
  /\ UNCHANGED <<version, historyVars, cacheVars, switchVars, callVars>>

\* The engine updates an entry object it keeps (a soul gem's fill level, the
\* name of a runtime item): what I4 wrote on it is still there.
UpdateInPlace(e) ==
  /\ MainThreadIdle /\ "inplace" \in Env
  /\ \E i \in Items : i.form = item[e].form /\ item' = [item EXCEPT ![e] = i]
  /\ UNCHANGED <<menu, version, historyVars, entryVars, cacheVars, switchVars, callVars>>

-----------------------------------------------------------------------------
Next ==
  \/ \E c \in Calls :
       CallOriginal(c) \/ RunPassthrough(c) \/ CallCached(c) \/ I5Step(c) \/ I4Step(c)
  \/ \E f \in Forms : InvalidateFormID(f) \/ ModChanges(f)
  \/ ClearCache
  \/ \E on \in BOOLEAN : SetBypass(on) \/ SetFeatures(on)
  \/ Rebuild
  \/ \E e \in Entries : UpdateInPlace(e)

Spec == Init /\ [][Next]_vars

\* I5's own code runs on, and I4's processList is a finite script: however
\* often it re-enters I5, it goes on with its loop.
Fairness ==
  \A c \in Calls : WF_vars(I5Step(c)) /\ SF_vars(I4Step(c))

FairSpec == Spec /\ Fairness

-----------------------------------------------------------------------------
(* Properties *)

\* One of the labels I4 gave item i under setter s since version lo.
LabelOfI4(label, s, i, kw, lo) ==
  /\ label \in Value
  /\ \E v \in lo..version[i.form] : label = Icon(s, i, kw, v)["iconLabel"]

\* The deltas a hit on i under s would replay set a label that I4 computed
\* for i under s since version lo[i.form].
CachedSince(lo) ==
  /\ \A s \in Setters, i \in StaticItems :
       LET delta == cache[KeyOf(i, s)] IN
       delta # Nothing => LabelOfI4(delta["iconLabel"], s, i, TRUE, lo[i.form])
  /\ \A s \in Setters, i \in DynamicItems :
       LET entry == dynamicCache[KeyOf(i, s)] IN
       entry # Nothing /\ entry.token = DynamicToken(i) =>
         LabelOfI4(entry.delta["iconLabel"], s, i, TRUE, lo[i.form])

\* Whatever the cache would replay on an item sets a label, and it is one I4
\* itself computed for that item under that icon setter: never that of
\* another setter, another fill level or an earlier owner of a 0xFF form ID,
\* never one from a pass that failed or found no icon, and never one that
\* was rendered before I5 filled the entry's keywords.
CachedIconsAreI4s == CachedSince([f \in Forms |-> 0])

\* InvalidateItem takes effect: no label rendered before a call of it that
\* was made between two refreshes is replayed after it, whatever refreshes,
\* failures, rebuilds and other threads' invalidations come later.
InvalidationsTakeEffect == CachedSince(settled)

\* The same of every call of InvalidateItem, at whatever moment.
EveryInvalidationTakesEffect == CachedSince(invalidated)

\* The version that what form f shows may not be older than.
Since(f) == IF f \in Forms THEN settled[f] ELSE 0

\* Every entry of a list whose refresh succeeded shows a label that I4 gave
\* its present item under the present menu's setter since it was last
\* invalidated (or none, where I4 has none), whichever of replay, partial
\* list, full list or nested call put it there.
RefreshShowsI4Icons ==
  \A c \in Calls : phase[c] \in {"done", "passed"} =>
    \A e \in seen[c] : \E v \in Since(item[e].form)..version[item[e].form] :
      out[e]["iconLabel"] = Icon(menu, item[e], e \in filled, v)["iconLabel"]

\* When no call is running the list holds all its entries again: the
\* miss-only array never outlives the I4 call it was made for, even if that
\* call fails or I4 refreshes the same list from inside it.
ListRestored == MainThreadIdle => rawList = Entries

\* The cache is worth its name: after a successful cached refresh, every
\* entry with a form ID that came without a label and that I4 gave one is a
\* hit for the next refresh.  Exempt are entries of one runtime form under
\* two names, which evict each other, and racing invalidations.
MissesGetCached ==
  \A c \in Calls : phase[c] = "done" /\ "async" \notin Env =>
    \A e \in misses[c] :
      /\ item[e].form # NoForm
      /\ before[c][e]["iconLabel"] = Absent /\ out[e]["iconLabel"] # Absent
      /\ \A d \in seen[c] : item[d].form = item[e].form => item[d].name = item[e].name
      => LookupDelta(item[e]) # Nothing

\* Every entry of a list whose refresh succeeded looks as I4 left it, at
\* some version of the item's data, in every member I4 writes: replaying a
\* delta is as good as running I4.
SameIconsAsI4 ==
  \A c \in Calls : phase[c] \in {"done", "passed"} =>
    \A e \in seen[c] : \E v \in 0..version[item[e].form], kw \in BOOLEAN :
      out[e] = Icon(menu, item[e], kw, v)

\* A processList call always returns, whatever I4 does inside it, nested
\* calls included: no call waits for cacheMutex while a call below it on the
\* same thread holds it.
CallsReturn == \A c \in Calls : phase[c] # "idle" ~> phase[c] = "idle"

=============================================================================
