# Verification of Inventory Injector Improved

TLA+ models of the parts of the plugin whose correctness depends on order, on
state kept between calls, or on other people's code running in the middle;
TLC configurations that check them on small instances; and TLAPS proofs of
their main properties for all instances. Line numbers refer to the
repository's sources under `src/`.

## The system

I5 is an SKSE plugin for Skyrim. It wraps functions of the Scaleform menus so
that I4 (Inventory Interface Information Injector), which computes item icons
in ActionScript, runs less often. Everything but `IAPI::InvalidateItem` and the
loggers runs on the game's main thread.

| Component | State it keeps | Operations | Hard part |
|---|---|---|---|
| Icon cache (`I4Hook.cpp`, `CacheKey.h`, `CacheDelta.h`, `GFxArrayUtil`) | `cache`, `dynamicCache`, `bypass` behind `cacheMutex` | the `processList` wrap: classify, swap the list, run I4, write back; `InvalidateFormID`, `ClearCache`, `SetBypass` | no lock while foreign code runs; that code can call back in; other threads invalidate; entry objects and runtime form ids are reused |
| InvalidateData memo (`InvalidateMemo.cpp`, `InvalidateFingerprint.h`) | last fingerprint, enabled flag, forced flag | the `InvalidateData` wrap: skip or process; `Install`, `SetEnabled`, `ForceReprocess` | skipping is only safe if nothing at all is pending; the pass changes what is hashed; callbacks call again |
| Co-save persistence (`I4Hook.cpp` `Save`/`Load`, `CacheSerialization.h`, `ConfigHash.h`, callbacks in `Plugin.cpp`) | the co-save, the process's config hash, `restoredThisSession` | save, load, revert | crashes and short records; other builds, other configs, other games of one process |
| InvalidateListData replacement (`InvalidateListFix.cpp`, `CategoryFlags.h`) | verify flag | the `InvalidateListData` wrap: original, fast and verifying bodies | must be indistinguishable from SkyUI's, while SkyUI's own calls move the selection |
| Feature switches (`Features.h`) | one flag | `SetEnabled` | read by every wrap at every call |
| Missing-keyword fill (`KeywordFill.cpp`) | a memo of forms | fills `keywords` before I4 sees an entry | before classification, not after |
| Console (`ConsoleHook.cpp`, `ConsoleCommand.h`) | none | parses `i5 ...`, calls the others | switches that overlap, ids that must read back |
| Favorites hooks (`FavoritesHook`, `FavoritesCrashFix`, `FavoritesKeywords`, `SkyUIConfig.h`) | pre-step list, original function | wrap per movie, run pre-steps, forward | one wrap per prototype, order of steps |
| Menu wiring, API (`Plugin.cpp`, `PluginAPI.cpp`) | none | inject on menu open, broadcast the interface | decides which movie gets which wraps |
| Frame probe (`FrameProbe.cpp`, `FrameSpike.h`) | four rings, a pending dump | per-frame push, dump after a rebuild | rings stay aligned |
| Trampoline budget (`TrampolineBudget.h`) | none | constants | none |

How they meet: a list change makes SkyUI call `InvalidateListData` (list fix),
which calls `itemList.InvalidateData` (memo), which, unless skipped, runs the
data processors, among them the icon setter's `processList` (icon cache, with
the keyword fill first), which calls I4. Invalidating an icon that was cached
sets the memo's forced flag, so that the next list change is not skipped. The
co-save fills the cache before any menu opens. The console and the API reach
into all of them.

What makes each correct:

* icon cache: what it shows is what I4 would show; an invalidated icon is gone;
  a miss becomes a hit; the list is put back; calls return;
* memo: a skipped call would have done nothing; a redundant one is skipped;
* co-save: all or nothing, and never icons of another setup or another game;
* list fix: it is SkyUI's function, only faster;
* wraps: one of each kind in each movie, in place before its function first runs;
* formats: what is written is read back or refused, and keys and hashes tell
  apart what must be told apart;
* frame probe: a logged line says what happened in the frames around a refresh.

`PROJECT.json` lists, under `hazards`, each place where one of these could go
wrong with the properties that would show it.

## Modules

| Module | Models | Proofs |
|---|---|---|
| `IconCache` | the icon cache with its callers, I4 and the engine around it | `IconCacheProofs` |
| `InvalidateMemo` | the memo with SkyUI's list around it | `InvalidateMemoProofs` |
| `CoSave` | save, load, revert over several processes, builds and configs | `CoSaveProofs` |
| `SkyUILists` | SkyUI's `InvalidateListData`, the abstract specification | |
| `InvalidateListFix` | the DLL's, which implements it | `InvalidateListFixProofs` |
| `ListRefresh` | the icon cache and the memo composed: a whole refresh of an open list | `ListRefreshProofs` |
| `MenuWraps` | which movies get which wraps, and the Favorites menu | `MenuWrapsProofs` |
| `CacheKey` | packed keys, bit by bit | `CacheFormatsProofs` |
| `CacheRecord` | the bytes of an ENTR record | `CacheFormatsProofs` |
| `HashStreams` | the bytes the two hashes cover | `CacheFormatsProofs` |
| `CacheFormats` | the three formats, each with its inputs | `CacheFormatsProofs` |
| `ConsoleCommand` | console lines and what they switch | `MenuWrapsProofs` |
| `FrameProbe` | the frame probe with the game's main loop around it | `FrameProbeProofs` |
| `MC*` | the constants and inputs of the instances TLC checks | |

Operators whose comment begins with "Faulty:" are not part of any
specification. Each is a plausible bug in the operator that follows it; with the
bug in its place, TLC finds the property violated that `PROJECT.json` names
beside it under `mutants`.

### IconCache

`stack` holds the running `processList` calls and `phase[c]` says where each is:

| Phase | Code | Actions |
|---|---|---|
| enter, classify | `ClassifyEntries`, under `cacheMutex` | `LockForClassify`, `ClassifyHit`, `ClassifyMiss`, `ClassifyEnd` |
| swap | `ProcessMisses` up to the invoke | `SwapEntries`, or `RunUncached` when the list cannot be swapped |
| i4, raw | I4 runs, over the misses or over all entries | `I4Renders`, `I4Returns`, `I4Fails`, and calls of other `c` on top |
| relock, writeback | the write-back, under `cacheMutex` | `LockForWriteBack`, `WriteBack`, `WriteBackEnd` |
| done, passed, failed | back in `Call` | `Return` |

`CallOriginal`, `RunPassthrough` and `CallCached` are the three ways in. Around
them: `InvalidateFormID` and `ModChanges` (another plugin changes an item, then
may say so), at idle moments or, with `"async"`, at any moment the lock is free;
`ClearCache`, `SetBypass`, `SetFeatures`; `Rebuild` (new entry objects) and, with
`"inplace"`, `UpdateInPlace` (the same object, new data).

An entry carries two of the members I4 writes: the label, which decides whether
a delta is kept, and one other. What I4 writes is a constant function `Icon` of
the setter, the item, whether keywords were filled, and the version of the
item's source data.

Assumed, and named where it matters:

* `KeyDeterminesIcon`: what I4 looks at is determined by the key and, for
  runtime forms, the reuse token; the code relies on it.
* Tokens do not collide (FNV-1a over name and form type).
* Key and token are read from the entry at write-back. The code keeps them from
  classification; nothing changes an item while a call runs.
* Putting the list back (`I4Hook.cpp:691`, `:740`) succeeds if swapping it did,
  and so does the write of an entry's keywords (`KeywordFill.cpp:67`). A form
  without keywords leaves its entry as it was (`KeywordFill.cpp:46`), which needs
  no case here: `Icon` is what I4 writes for it. I4 renders an entry in one step. Elements that are not objects and form id 0 do not occur. Timing and
  logging are left out, with the two critical sections that only count entries
  for a printed line (`:643`, `:877`).

### InvalidateMemo

`calls` is the stack of running `InvalidateData` calls. A fingerprint is the
triple that is hashed: fields, processed flags, filter configuration.
`CallUnhooked`, `CallOff`, `CallSkip` and `CallProcess` are the branches of the
handler; `RunProcessors`, `Draw`, `FireCallback` and `PickFilter` are SkyUI's
function below it; `Return` and `ReturnFailed` the code after the invoke.
`Install`, the switches and `ForceReprocess` follow the code; `OpenMenu`,
`Rebuild` and `EditList` are what the game does to a list. A call on a
suspended list forwards to a function that only notes it; it changes nothing here
and needs no action. Wrapping is in `MenuWraps`. Hash collisions are left out.

`SkipIsSafe` claims nothing about a pass that is `disturbed`, and it would be
false there. A callback that picks a filter and then the first one again, each
with a call of `InvalidateData`, makes the handler compare with a fingerprint
older than what is drawn; and when a nested pass fails over a half-drawn list,
the enclosing one still records its own fingerprint. The callback SkyUI sets
restores scroll position and selection (`InvalidateMemo.cpp:239`), and need do
neither. The next outermost pass ends the disturbance.

### CoSave

A process starts, caches icons, saves, reverts, loads and exits; saves and
loads are split where the code opens a record. Between processes, configs and
builds change. A HEAD record can be missing, short or whole, and so can ENTR;
nothing in `Save` notices a short write. An icon is the key, config and build it
came from. `hash` is the static of `ComputeConfigHash`, filled when first asked.
A build stands for schema and plugin version; record versions and `kI4Version`
are the same in all builds, so an update of I4 itself is not seen, as
`docs/nexus-page.md:46` tells users.

### SkyUILists and InvalidateListFix

The abstract call is: refresh the items, classify all tabs, update the tabs,
dispatch. The detailed one chooses a body (`Body`), folds the item masks and
writes one tab at a time (`Fold`, `Write`, `Written`), or runs SkyUI's loop
(`Loop`) and, verifying, compares afterwards (`Check`). The refinement mapping
(`Classified`, `SkyUIPhase`) says that SkyUI has classified all tabs once the
fold is done; the writes are stuttering steps. A mask is the set of its bits. A
tab of mask 0 is excluded (`ListConstants`), since the code cannot tell it from
no tab. Writes of `filterFlag` succeed, and the list has a `_typeFilter`
(`InvalidateListFix.cpp:184`), as every list of SkyUI's has.

### ListRefresh

`InvalidateData` steps are the memo's; while a pass is in its data processors,
`ProcessList`, `Proceed` and `Processed` are the icon cache's, and the pass only
goes on when its `processList` has returned. `InvalidateFormID` and `ClearCache`
are steps of both: the cache erases, and tells the memo if it erased something
(`TellMemo`, the body of `ClearAndForceReprocess`, inside the lock, which is why
both are one step). `drawn` is what the display shows, `cleared[f]` the version of
form f when its icons were last erased between two calls. Every step is a step of
one component or of both by construction, so nothing is said about that; what is
said is about the interface, that what the cache is told reaches the memo.

`SkipShowsCurrentIcons` is about erasures that found something, which is when the
code sets the forced flag (`I4Hook.cpp:806`). `README.md:118` promises more, that
after any `InvalidateItem` the icon is "recomputed on the next menu refresh": this
is `InvalidatedItemsRecomputed`, the same statement since the last call
(`SkipShowsIcons` has the moment as a parameter), and TLC finds it violated in
`list_refresh_uncached`. Both exempt passes in which I4 fails although the pass's
own invoke succeeds (`I4Hook.cpp:756`): the memo learns nothing of it and records
the half-rendered list (`InvalidateMemo.cpp:287`), which is skipped until something
changes.

### MenuWraps

A movie has some of four functions: an item menu's `processList`,
`InvalidateListData` and `InvalidateData`, and the Favorites menu's
`processList`. `Wrap` is the common body of `Inject`, the two `Install`s and
`WrapProcessList`: not there or marked, nothing; else set the hook, then the
marker, either of which may be refused. `ProcessEvent` is the menu sink, whose
event may come again for the same movie, `ProcessMessage` the Favorites menu's,
which wraps before it lets the menu show. `lost` counts the markers that were
refused, and `WrappedOnce` the layers: each lost marker leads to one more, as the
warning at `InvalidateMemo.cpp:346` says it may, and nothing else does.

`FavoritesProcessList` runs the pre-steps in the order `Plugin.cpp:152`
registers them, and then I4. `preset` is the member the crash fix sets: the
MCM's override, else `config.txt`, read once. `owner` says which form an id
names; runtime ids change hands between games, and `FindKeywordForm` remembers
the others only (`Remembers`). That static ids keep their forms is how the engine
works. `FillStep` is given the entries that are `found` in `_entryList`, none if
the list is missing, and those that are `writable`; `unfilled` remembers the rest,
and forms outside `KeywordForms` have no keywords to give. `KeywordsReachI4` allows
an entry without keywords for these reasons only, and another form's for none.

### ConsoleCommand

A line is pieces and blanks. `Classify` follows the code, matcher by matcher;
`Documented` and `Clears` are the tables of `README.md:79` and
`CONTRIBUTING.md:151`, and `asked` is what they say of the lines typed so far. A
line is cut by numbering the pieces that are not blank (`Place`), which a proof
can count. `MCMenuWraps` puts console sessions beside the menus of `MenuWraps`: in
the `menu_wraps` run they start from initial states of their own, where no menu is
open.

### CacheKey, CacheRecord, HashStreams, CacheFormats

Pure functions; `CacheFormats` makes each input an initial state in which nothing
happens. `CacheKey` has numbers as sets of bits, so that 64 bits fit.
`CacheRecord` writes and reads sequences of bytes as the code does, each read
refusing what is not there. Readers are functions on bytes, so that `GetAll` can
be given one; it refuses more elements than there are bytes before it reads any
(the code refuses when the bytes have run out), which changes nothing since every
element takes a byte (`AllCodec`, `LoopReadsOn`), and keeps TLC from counting to
2^32. Sizes fit in the 32 bits that are written for them (`ListOf`).

`CoSave` only distinguishes readable records from others; `DamageIsRefused` is why
it may: a cut or overlong record is refused whole, and one with a damaged byte is
refused or read as entries whose own record it is, byte for byte, except that a
boolean may be any byte but 0 where the code writes 1 (`Like`).

`HashStreams` collects the bytes that go into `HashConfig` and
`FingerprintFields`; with a hash free of collisions, equal digests mean equal
streams. `ConfigsToldApart` is about configurations that were read whole: after a
short read the count of the missing bytes is hashed in their place, and the
contents of another file may end in those very bytes, as `I4Hook.cpp:203` says
itself. The stamps of files have one size (`StampSize`). The fields of an item
have names of their own (`FieldsOfEntry`), being members of one object.

`MCCacheFormats` puts these inputs beside the initial states of `CoSave`.

### FrameProbe

`Tick`, `UpdateImpl`, `NoteInvalidateListData` and `NoteRefresh` fall into a
frame in any order; `OnFrame` ends it, in one of three ways (`FrameOff`,
`FrameOn`, `FrameDump`). `log` holds the frames as they were, `rings` what the
code keeps of them. `ReportIsTrue` recomputes each number of the logged line from
`log`: the peak, the native time of that very frame, the median of the others (twice
it, to stay with integers), and the totals. `MCInvalidateListFix` puts the frames
beside the calls of `InvalidateListFix`, in initial states of their own: the probe
times those calls, and reads nothing else of them.

## Runs

| Run | Question | Instance |
|---|---|---|
| `icon_cache` | do refreshes show I4's icons, do invalidations hold, do misses become hits? | two entries, a sword and a runtime form with two owners, in-place updates, all toggles |
| `icon_cache_nested` | is the list always put back, does every call return, and do the first two hold with other threads? | two nested calls, every failure, invalidations and changes at any moment, under fairness |
| `icon_cache_replay` | is a replay as good as I4 in every member, and does any delta cross keys? | a soul gem at two fill levels, a runtime form with two owners and a note; two setters; no changes of data |
| `invalidate_memo` | are skips safe, and redundant calls skipped? | a book and gold, two filters, calls three deep, failing passes |
| `co_save` | do loads restore saves, of this setup and this game only, and do the formats allow it? | three keys, two configs, two builds, one slot, a cap of two entries; keys, records of up to two entries cut and damaged at every byte, configurations of up to two files, runtime forms of up to two fields |
| `list_fix` | is it SkyUI's function; are the frame probe's rings the last frames, and is its logged line true? | three tabs, one of them for all items, one pinned; two items, two bits; a window of three frames, dumps after two, frames of up to two units |
| `list_refresh` | does a skipped refresh show the icons made since they were last cleared? | one sword, passes two deep, invalidations and purges at any moment, all toggles |
| `menu_wraps` | how often is each function wrapped, what does I4 find in Favorites; do console lines do what is documented? | one menu of each kind, an old runtime, a static and a runtime id with three owners, one of them without keywords, two layers, entries out of reach and failing writes; every command with a piece dropped, replaced or added |

Each of these passes. Four more runs each find one statement of the
documentation violated; the counterexamples are the findings:

| Run | Statement | What happens |
|---|---|---|
| `icon_cache_partial` | "I5 reuses I4's own results, so the icons are the same" (`docs/nexus-page.md:58`) | an icon is invalidated while its entry object stays; I4 renders it again, the new label differs, the colour does not; the delta holds the label only, and a fresh entry gets a label without colour |
| `icon_cache_race` | `InvalidateItem` "clears every cached icon for that item so it's recomputed on the next menu refresh" (`README.md:118`) | another thread calls it after I4 rendered and before the write-back, which then stores the old icon |
| `co_save_edit` | the cache is "rebuilt automatically if your I4 icon configs or load order change" (`README.md:102`) | configs are edited between I4's start and the first save; the save stamps old icons with the hash of the new configs |
| `list_refresh_uncached` | `InvalidateItem` "clears every cached icon for that item so it's recomputed on the next menu refresh" (`README.md:118`) | I4 drew the icon without the cache (bypassed, or a list that cannot be swapped); the call finds nothing to erase and sets no forced flag, so that the next refresh of the open menu is skipped |

`co_save_edit` takes I4 to read its configs at start.

### Bounds

Two entries are enough for what relates entries: one hit beside one miss, two
owners of one runtime id, one entry rendered when the call fails and one not.
Two nested calls give every pair of positions of an outer and an inner call; the
stack discipline makes a third one the same as the second (the proofs cover any
number). `MaxVersion` is 1: a label is then current or stale. In the memo, the
contents are an unread book, the same book read (what processing changes), two
copies (what the player changes) and gold only (what is never processed). The
co-save needs two configs and two builds to be wrong about one, three keys for a
cap of two, and one slot, since `Load` looks at one. The list fix needs an item
for each kind of tab and one that is in two. `list_refresh` has one entry,
one content, one filter and one `processList`, with passes two deep: what relates
entries, contents and filters is checked in the components, and what is new here,
an erasure against a pass and the one inside it, needs one of each; the theorem has
them all. In `menu_wraps` a second layer is what a lost marker leads to, and a third
would be the same again; the console's lines differ from a command in one piece, and
each is typed in every state of the switches. In `list_fix` the
window of three fills, wraps and is cleared within a few frames, and has a median
of one and of two frames beside the peak. A record's second entry, and a field's
second neighbour, is what a misread length would spill into.

### Fairness

Only `icon_cache_nested` needs it. `WF` on the steps of I5's own code: it runs on
and does not wait for anything but `cacheMutex`, whose critical sections end.
`SF` on I4's steps: its `processList` is a finite loop in a script, so a call
that it is often back in goes on and ends, however often it calls I5 again.
Nothing is assumed of other threads, the engine or the player.

## Proofs

All theorems are about the specification without any bound on the constants,
except that the sets a module's assumptions name as finite are finite. Every
lemma says in a sentence what it is for.

* `IconCacheProofs`: `TypeCorrect`, and from the inductive invariant `IInv`
  three theorems, `InvalidationsHold`, `CachedIconsCorrect` and
  `RefreshesCorrect`. Type correctness and what the maps hold are not enough:
  `ShowsInv` says of each running call which entries already show an icon I4
  gave their item, `CallInv` that a call works on parts of its list with its
  keywords filled, so that what is written back was rendered by I4 for that key,
  and `HistoryInv` orders versions. The assumptions are `ConstantsOK`, `IconOK`
  and `KeyDeterminesIcon`. Three more theorems have invariants of their own:
  * `ListsRestored`, for any depth of nesting and every failure: each call but
    the innermost was given the list that the next one swapped in (`StackInv`),
    so that the list in the object is a matter of the innermost call alone
    (`ListInv`).
  * `MissesCached`: of the misses a write-back has gone through, those that
    deserve it are in the cache (`MissInv`); later turns of the loop do not take
    them out, for what overwrites them has the same form and token.
  * `ReplaysExact`, under `StandsStill`: the data have one version, no entry is
    changed in place and no switch is thrown, which is the environment of the
    `icon_cache_replay` run. Without the hypothesis it is false, and
    `icon_cache_partial` is the counterexample. Deltas in the cache and on the
    way to it hold all that I4 writes on a fresh entry (`WholeInv`, `DeltaInv`),
    hence a replay is I4's rendering, member for member (`ExactInv`).
* `InvalidateMemoProofs`: `MemoTypeCorrect` and `SkipsAreSafe`. `MemoInv`
  relates the recorded fingerprint to the display when no call runs
  (`DisplayInv`), every call of a stack but the innermost to one that has drawn
  (`StackInv`), and a stale icon to the forced flag (`StaleInv`).
  `RedundantCallsSkipped`, that a call with nothing new is skipped, needs
  `ProcessorsKeepFlags`: data processors do not change what the fingerprint
  reads of an entry, the reason `InvalidateFingerprint.h:91` gives for what it
  reads. From it `RenderedInv`: what a pass recorded is the list that it left.
* `CoSaveProofs`: `CoSaveTypeCorrect`, `RuntimeIconsStayFresh`, and under
  `NoEdits` (configs stand still while the game runs) `RestoredIconsFit` and
  `LoadsRestoreSaves`. `CoSaveInv` says what is in the files (`FileInv`: the
  entries of the cache that was saved, made by the setup that a readable header
  names) and in the hands of the callbacks (`OpInv`); `RoundTrip` is the lemma
  that decoding and re-inserting gives the same map. Without `NoEdits`
  `RestoredIconsFit` is false (`co_save_edit`).
* `InvalidateListFixProofs`: `ListTypeCorrect`, `FilterIsTabs`, `NoMismatch`,
  and `FixIsSkyUIs`, the refinement. `WriteInv` says that the tabs written so
  far are right and `FlagsInv` that all of them are afterwards; `FilterInv` that
  during a call the filter is the one of the tab it began with; `FoldHolds` is
  the reason the fold works. `FoldIsLoop` is about the two algorithms: in every
  state, SkyUI's loop over the items and the tabs sets the tabs that the mask
  folded over the items gives, whatever the order of the items. The loop is a
  recursive function, and the proof gives its value after n items in closed form
  (`LoopAfter`): a least n where it failed would have a predecessor where it
  holds, and one turn of the loop keeps it.
* `ListRefreshProofs`: `SkippedRefreshesCurrent`. The components' step lemmas are used through
  instances: the memo's as they are, those of the cache a second time with
  `cleared` in the place of its history variable, so that its invariant speaks of
  erasures. `RefreshInv` says of every stage of a pass how current the list and
  the display are, up to the forced flag: an erasure sets it, and only a pass
  that renders the list resets it. `RefreshConstants` is the only new assumption:
  the processing of a list is the one that `processList` does.
* `MenuWrapsProofs`: `WrapsTypeCorrect`, `NeverWrappedTwice`,
  `FavoritesDontCrash` and `FavoritesKeywords`, from the
  invariant `IInv`. Beside the properties it says that a shown Favorites menu is
  wrapped or a write was refused (`ShownIsWrapped`), that what the crash fix has
  set is the player's setting (`PresetIsSetting`), and that the keywords in
  entries, and the forms remembered for static ids, are those of their owners
  (`OwnKeywords`).
  About the console, `ConsoleAsDocumented` and `PrintedIdsRead`, for every line
  (`ConsoleConstants`: lines are sequences of texts, ids have eight digits).
  `TokensType` says what cutting a line gives, `CommandMeans` and `InvalidateMeans`
  that each action is asked for by its documented lines and no other (no line
  matches twice), `ParseMeans` that a text is read as a form id exactly if it is
  that id with leading zeros or without, after `0x` or not. `ConsoleInv` adds that
  what was printed is the id of a form.
* `FrameProbeProofs`: `TypeCorrect`, with `PendingCounts` (a pending dump has
  frames to wait for), and `RingsAligned`. The core is that pushing to a ring
  appends to what it shows and drops the oldest when full, by arithmetic modulo
  the window; that all four have the same `head` and `count` makes one index good
  for all. `LinesCoverTheirRefresh` says that a dump is printed while the window
  still holds the refresh it was asked for (`RefreshInv`: how far back that is).
  `LinesAreTrue` is about the printed line: its peak is a longest frame, its other
  numbers are that frame's, and its baseline is a median of the others, with at
  least half of them no longer and half no shorter (`BaselineIsMedian`, from the
  ranks of finite sets of frames). A longest frame exists since a finite set has
  no chain upwards, which the proof takes from the well-founded order of the
  naturals.
* `CacheFormatsProofs`, for entries, files and fields of any number and content:
  * `RecordsRoundTrip` and `DamageRefused`. A `Codec` is a reader and a writer that
    fit: what was written is read back whatever follows it, what is read does not
    depend on what follows, and what is understood is like what would be written
    for it. Numbers, bytes, booleans and blocks are codecs; pairs of codecs, values
    renamed, a kind with what the kind has, and lists after their size are codecs
    again, up to `EntriesCodec`. If a record without its end were understood, the
    whole one would be read with that end left over, and nothing is. The loop of
    `GetAll` is a recursive function; the proof compares it, turn by turn, with a
    function of readers that is shown to exist (`Recursion`).
  * `StreamsToldApart`. A stream is never read, so that it is enough that what is
    written of a value shows where it ends (`PrefixCode`); codecs do, files and
    fields do, and lists of what does are written alike only if they are the same
    (`WrittenAlike`). Sorting is by ranks: elements are compared byte by byte, which
    is a total order (`BeforeTransitive`, `OneIsBefore`), so each has a rank of its
    own (`InOrderInverts`), and lists are the same in some order exactly if they are
    the same once sorted (`SortedAlike`).
  * `KeysSurvive`, with `KeyDecodesBack`, `KeySurvivesCoSave` and `KeysTellApart`,
    for all 32-bit form ids and levels and 8-bit setters.

  The assumption is `FormatConstants`: the inputs are entries, files and fields.

Only model-checked: `CallsReturn`, liveness under fairness, which is out of the
prover's reach. Induction runs over sets of numbers here (`AllNumbers`), which
needs no theorem that takes a predicate.

## Not modelled

* FNV-1a, taken as free of collisions.
* The text of `config.txt` and the Papyrus objects of SkyUI's MCM
  (`SkyUIConfig.h`, `ReadMcmOverride`): a value, or none.
* Writes of a tab's `filterFlag` that fail (`InvalidateListFix.cpp:233`): SkyUI's
  own loop has no such outcome to compare with.
* What two layers of one wrap do to each other after a marker was lost. Of two
  memos the outer one consumes the forced flag, and the inner one, finding the
  fingerprint recorded, skips.
* Failing writes of the list that is put back (`I4Hook.cpp:740`) and, in item
  menus, of keywords (`KeywordFill.cpp:67`).
* Which fields of an entry SkyUI's columns show is not in this repository; the
  memo's fingerprint is taken to cover those that matter.
* The timing statistics, logging, the wording of printed lines.
* Patching of call sites and vtables, trampoline sizes, address checks, build,
  packaging and release scripts: no behaviour over time.

## Plan

Done: the icon cache, the memo, the co-save and the list fix, in the order of
what a mistake would cost the player; then their composition, the formats under
the co-save, the wraps with the Favorites menu, the console and the frame probe.
Proved: every safety property and action property of the runs that pass, and the
refinement of SkyUI's function. What is left is to model writes of `filterFlag` that fail,
against a weaker abstract specification.
