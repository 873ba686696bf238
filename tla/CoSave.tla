------------------------------- MODULE CoSave -------------------------------
(***************************************************************************)
(* The icon cache across saves, loads, restarts and changes of the setup:  *)
(* I4Hook::Save, Load and the revert callback of Plugin.cpp.               *)
(*                                                                         *)
(* A co-save holds a HEAD record that stamps the setup it was made with    *)
(* and an ENTR record with the static cache.  Either may be missing or     *)
(* short.  Runtime (0xFF) forms are cached but never saved.                *)
(*                                                                         *)
(* An icon is kept as what decided it: the key, the I4 configuration and   *)
(* the plugin build that captured it.  A build stands for schema and       *)
(* plugin version, which are constants of the DLL; kI4Version is 0 in      *)
(* every build.  Colliding configuration hashes are not modelled.          *)
(*                                                                         *)
(* Operators whose comment begins with "Faulty:" are wrong on purpose.     *)
(***************************************************************************)
EXTENDS Naturals, FiniteSets

CONSTANTS
  Keys,          \* cache keys of static forms: [form, gem, status, setter]
  RuntimeKeys,   \* cache keys of runtime forms
  Configs,       \* what the I4 configs and the load order can be on disk
  Builds,        \* builds of this plugin
  Slots,         \* save games
  MaxEntries,    \* entries that fit in kMaxEntryBufBytes
  Absent,        \* no icon, no record, no hash
  Torn,          \* a HEAD record that is too short to read
  Env            \* "edit": configs are edited while the game runs

Icon == [of : Keys, config : Configs, build : Builds]
Header == [config : Configs, build : Builds]
Entry == [form : {k.form : k \in Keys}, gem : BOOLEAN,
          status : {k.status : k \in Keys}, setter : {k.setter : k \in Keys},
          delta : Icon]
Caches == [Keys -> Icon \cup {Absent}]
File == [head : Header \cup {Absent, Torn},
         entries : SUBSET Entry,
         state : {"none", "short", "whole"}]   \* of the ENTR record

ASSUME CoSaveConstants ==
  /\ MaxEntries \in Nat /\ IsFiniteSet(Keys)
  /\ \A k \in Keys : k = [form |-> k.form, gem |-> k.gem, status |-> k.status, setter |-> k.setter]
  /\ \A k \in Keys : k.gem \in BOOLEAN /\ (~k.gem => k.status = 0)
  /\ Absent \notin Icon \cup Header \cup Configs
  /\ Torn \notin Header \cup {Absent}

VARIABLES
  config, build,   \* on disk: configs with load order, and the plugin
  running,         \* the game process runs
  i4Config,        \* the configs I4 loaded when it started
  hash,            \* ComputeConfigHash()'s static, Absent until first asked
  cache,           \* HookState::cache
  dynamicCache,    \* keys of HookState::dynamicCache
  restored,        \* HookState::restoredThisSession
  files,           \* the co-save of each slot
  op, slot,        \* where the serialization callbacks are, and the slot
  pending,         \* Save's copy of the entries; Load's decoded ones
  image,           \* the cache when the slot was last saved to (history)
  foreign          \* runtime keys cached in an earlier game (history)

diskVars == <<config, build>>
processVars == <<running, i4Config, hash>>
cacheVars == <<cache, dynamicCache, restored, foreign>>
opVars == <<op, slot, pending>>
vars == <<config, build, running, i4Config, hash, cache, dynamicCache, restored,
          files, op, slot, pending, image, foreign>>

Empty == [k \in Keys |-> Absent]
NoFile == [head |-> Absent, entries |-> {}, state |-> "none"]
Cached(c) == {k \in Keys : c[k] # Absent}

TypeOK ==
  /\ config \in Configs /\ build \in Builds
  /\ running \in BOOLEAN
  /\ i4Config \in Configs /\ hash \in Configs \cup {Absent}
  /\ cache \in Caches
  /\ dynamicCache \in SUBSET RuntimeKeys /\ foreign \in SUBSET RuntimeKeys
  /\ restored \in Nat
  /\ files \in [Slots -> File]
  /\ op \in {"none", "reverted", "head", "entries", "restore", "cold"}
  /\ slot \in Slots
  /\ pending \in SUBSET Entry
  /\ image \in [Slots -> Caches]

Init ==
  /\ config \in Configs /\ build \in Builds
  /\ running = FALSE /\ i4Config = config /\ hash = Absent
  /\ cache = Empty /\ dynamicCache = {} /\ foreign = {} /\ restored = 0
  /\ files = [s \in Slots |-> NoFile]
  /\ op = "none" /\ slot \in Slots /\ pending = {}
  /\ image = [s \in Slots |-> Empty]

-----------------------------------------------------------------------------
(* The process and its surroundings *)

\* The game starts: a new HookState, and I4 reads its configs.
Start ==
  /\ ~running
  /\ running' = TRUE
  /\ i4Config' = config /\ hash' = Absent
  /\ cache' = Empty /\ dynamicCache' = {} /\ foreign' = {} /\ restored' = 0
  /\ op' = "reverted" /\ pending' = {}
  /\ UNCHANGED <<diskVars, files, slot, image>>

\* The game exits or crashes, at any point of a save or load.
Exit ==
  /\ running
  /\ running' = FALSE
  /\ op' = "none"
  /\ UNCHANGED <<diskVars, i4Config, hash, cacheVars, files, slot, pending, image>>

\* The player edits I4 configs or the load order.
EditConfig ==
  /\ ~running \/ "edit" \in Env
  /\ config' \in Configs \ {config}
  /\ UNCHANGED <<build, processVars, cacheVars, files, opVars, image>>

\* The player updates the plugin or goes back to an older one; the DLL of a
\* running game cannot be replaced.
Upgrade ==
  /\ ~running
  /\ build' \in Builds \ {build}
  /\ UNCHANGED <<config, processVars, cacheVars, files, opVars, image>>

-----------------------------------------------------------------------------
(* The cache while the game is played *)

Playing == running /\ op = "none"

\* I4 rendered an item it had not seen, and the outcome is cached.
CacheIcon(k) ==
  /\ Playing
  /\ cache' = [cache EXCEPT ![k] = [of |-> k, config |-> i4Config, build |-> build]]
  /\ UNCHANGED <<diskVars, processVars, dynamicCache, restored, foreign, files, opVars, image>>

CacheRuntimeIcon(k) ==
  /\ Playing
  /\ dynamicCache' = dynamicCache \cup {k}
  /\ foreign' = foreign \ {k}
  /\ UNCHANGED <<diskVars, processVars, cache, restored, files, opVars, image>>

\* InvalidateItem of the API, on any thread, also while a callback runs.
InvalidateFormID(f) ==
  /\ running
  /\ cache' = [k \in Keys |-> IF k.form = f THEN Absent ELSE cache[k]]
  /\ dynamicCache' = {k \in dynamicCache : k.form # f}
  /\ UNCHANGED <<diskVars, processVars, restored, foreign, files, opVars, image>>

\* "i5 cache purge".
Purge ==
  /\ Playing
  /\ cache' = Empty /\ dynamicCache' = {}
  /\ UNCHANGED <<diskVars, processVars, restored, foreign, files, opVars, image>>

-----------------------------------------------------------------------------
(* Save *)

\* ComputeConfigHash(): the files are read at the first call of a process.
ConfigHash == IF hash = Absent THEN config ELSE hash

\* MakeCacheKey on the fields of a saved entry.
KeyOf(e) == [form |-> e.form, gem |-> e.gem,
             status |-> IF e.gem THEN e.status ELSE 0, setter |-> e.setter]

\* DecodeCacheKey gives a cached key's fields back.
EntryOf(c, k) ==
  [form |-> k.form, gem |-> k.gem, status |-> k.status, setter |-> k.setter,
   delta |-> c[k]]

\* Faulty: keys whose icon was dropped are written out as well.
EntriesOfAll(c) == {EntryOf(c, k) : k \in Keys}

Entries(c) == {EntryOf(c, k) : k \in Cached(c)}

\* The entries are copied under the lock; the co-save starts out empty.
BeginSave(s) ==
  /\ Playing
  /\ op' = "head" /\ slot' = s
  /\ hash' = ConfigHash
  /\ pending' = Entries(cache)
  /\ files' = [files EXCEPT ![s] = NoFile]
  /\ image' = [image EXCEPT ![s] = cache]
  /\ UNCHANGED <<diskVars, running, i4Config, cacheVars>>

\* The HEAD record: whole, short without anyone noticing, or not opened, which
\* ends the save.
WriteHead ==
  /\ running /\ op = "head"
  /\ \/ /\ \E h \in {[config |-> hash, build |-> build], Torn} :
             files' = [files EXCEPT ![slot].head = h]
        /\ op' = "entries"
     \/ op' = "none" /\ UNCHANGED files
  /\ UNCHANGED <<diskVars, processVars, cacheVars, slot, pending, image>>

\* The ENTR record, likewise.  Its length is not limited here.
WriteEntries ==
  /\ running /\ op = "entries"
  /\ \/ \E how \in {"short", "whole"} :
          files' = [files EXCEPT ![slot].entries = pending, ![slot].state = how]
     \/ UNCHANGED files
  /\ op' = "none"
  /\ UNCHANGED <<diskVars, processVars, cacheVars, slot, pending, image>>

-----------------------------------------------------------------------------
(* Revert and Load *)

\* Faulty: only the saved part of the cache is cleared.
RevertStatic ==
  /\ Playing
  /\ cache' = Empty /\ UNCHANGED dynamicCache
  /\ foreign' = dynamicCache'
  /\ op' = "reverted"
  /\ UNCHANGED <<diskVars, processVars, restored, files, slot, pending, image>>

\* The game is left for a new or a loaded one: ClearCache.
Revert ==
  /\ Playing
  /\ cache' = Empty /\ dynamicCache' = {}
  /\ foreign' = dynamicCache'
  /\ op' = "reverted"
  /\ UNCHANGED <<diskVars, processVars, restored, files, slot, pending, image>>

\* No save is loaded: the main menu was left for a new game.
NewGame ==
  /\ running /\ op = "reverted"
  /\ op' = "none"
  /\ UNCHANGED <<diskVars, processVars, cacheVars, files, slot, pending, image>>

\* Faulty: a header of another build is as good as one of this build.
HeaderOfAnyBuild(h) == h \notin {Absent, Torn} /\ h.config = ConfigHash

\* The four stamps of the HEAD record are those of this process.
HeaderValid(h) == h = [config |-> ConfigHash, build |-> build]

\* Faulty: an ENTR record that ends early goes unnoticed.
DecodesPrefix(f) == f.state # "none" /\ Cardinality(f.entries) <= MaxEntries

\* The ENTR record is there, no longer than the cap, and holds exactly what
\* its counts announce.
Decodes(f) == f.state = "whole" /\ Cardinality(f.entries) <= MaxEntries

\* Load resets the session metric, then reads all records of the co-save; only
\* a header of this build is worth hashing the configs for.
BeginLoad(s) ==
  /\ running /\ op = "reverted"
  /\ slot' = s
  /\ restored' = 0
  /\ hash' = IF \E c \in Configs : files[s].head = [config |-> c, build |-> build]
             THEN ConfigHash ELSE hash
  /\ IF HeaderValid(files[s].head) /\ Decodes(files[s])
     THEN op' = "restore" /\ pending' = files[s].entries
     ELSE op' = "cold" /\ pending' = {}
  /\ UNCHANGED <<diskVars, running, i4Config, cache, dynamicCache, foreign, files, image>>

\* The map that results from storing the entries one by one.
Rebuilt(es) ==
  [k \in Keys |-> IF \E e \in es : KeyOf(e) = k
                  THEN (CHOOSE e \in es : KeyOf(e) = k).delta
                  ELSE Absent]

\* A cold start leaves the caches alone; otherwise they are replaced.
FinishLoad ==
  /\ running /\ op \in {"restore", "cold"}
  /\ op' = "none"
  /\ \/ op = "cold" /\ UNCHANGED cacheVars
     \/ /\ op = "restore"
        /\ cache' = Rebuilt(pending)
        /\ dynamicCache' = {} /\ foreign' = {}
        /\ restored' = Cardinality(pending)
  /\ UNCHANGED <<diskVars, processVars, files, slot, pending, image>>

Next ==
  \/ Start \/ Exit \/ EditConfig \/ Upgrade
  \/ \E k \in Keys : CacheIcon(k)
  \/ \E k \in RuntimeKeys : CacheRuntimeIcon(k)
  \/ \E f \in {k.form : k \in Keys \cup RuntimeKeys} : InvalidateFormID(f)
  \/ Purge
  \/ \E s \in Slots : BeginSave(s) \/ BeginLoad(s)
  \/ WriteHead \/ WriteEntries
  \/ Revert \/ NewGame \/ FinishLoad

Spec == Init /\ [][Next]_vars

-----------------------------------------------------------------------------
(* Properties *)

\* Every cached icon is the one I4, with the configs it runs on, gives for
\* that key, captured by this build, wherever it came from: no co-save of
\* another setup, and no mixed-up entry, ever fills the cache.
IconsOfThisSetup ==
  running => \A k \in Cached(cache) :
               cache[k] = [of |-> k, config |-> i4Config, build |-> build]

\* An icon cached for a runtime form id belongs to the game being played: the
\* engine gives the id to another item in the next one.
RuntimeIconsAreFresh == running => dynamicCache \cap foreign = {}

\* Both records of slot s are whole, made by this setup, and within the cap.
Restorable(s) ==
  /\ files[s].head = [config |-> i4Config, build |-> build]
  /\ files[s].state = "whole"
  /\ Cardinality(files[s].entries) <= MaxEntries

\* A load is all or nothing: it brings back exactly the cache that was saved,
\* or starts cold with an empty one, and the session metric says which.
LoadRestoresSave ==
  [][FinishLoad => /\ cache' = IF Restorable(slot) THEN image[slot] ELSE Empty
                   /\ restored' = Cardinality(Cached(cache'))
                   /\ dynamicCache' = {}]_vars

=============================================================================
