---------------------------- MODULE CoSaveProofs ----------------------------
(***************************************************************************)
(* What a co-save brings back is what was saved, and only icons of this    *)
(* setup: for every set of keys, configurations, builds and slots, through *)
(* any number of restarts, upgrades, failed and torn saves, provided that  *)
(* configurations are not edited while the game runs.                      *)
(***************************************************************************)
EXTENDS CoSave, FiniteSetTheorems, TLAPS

-----------------------------------------------------------------------------
(* Entries and keys *)

\* The fields that are written for a key give that key back when read.
LEMMA EntryFacts ==
  ASSUME NEW c \in Caches, NEW k \in Keys
  PROVE  /\ KeyOf(EntryOf(c, k)) = k
         /\ EntryOf(c, k).delta = c[k]
         /\ k \in Cached(c) => EntryOf(c, k) \in Entry
<1>1. /\ k = [form |-> k.form, gem |-> k.gem, status |-> k.status, setter |-> k.setter]
      /\ k.gem \in BOOLEAN /\ (~k.gem => k.status = 0)
  BY CoSaveConstants
<1>2. KeyOf(EntryOf(c, k)) =
        [form |-> k.form, gem |-> k.gem, status |-> k.status, setter |-> k.setter]
  BY <1>1 DEF KeyOf, EntryOf
<1>3. c[k] \in Icon \cup {Absent}
  BY DEF Caches
<1>4. k \in Cached(c) => EntryOf(c, k) \in Entry
  BY <1>1, <1>3 DEF Cached, EntryOf, Entry
<1>. QED
  BY <1>1, <1>2, <1>4 DEF EntryOf

\* Storing the entries of a cache one by one makes the same cache again.
LEMMA RoundTrip ==
  ASSUME NEW c \in Caches
  PROVE  Rebuilt(Entries(c)) = c
<1>1. ASSUME NEW k \in Keys
      PROVE  Rebuilt(Entries(c))[k] = c[k]
  <2>1. \A e \in Entries(c) : KeyOf(e) = k => k \in Cached(c) /\ e.delta = c[k]
    BY EntryFacts DEF Entries, Cached
  <2>2. k \in Cached(c) => \E e \in Entries(c) : KeyOf(e) = k
    BY EntryFacts DEF Entries, Cached
  <2>3. CASE k \in Cached(c)
    <3>1. (CHOOSE e \in Entries(c) : KeyOf(e) = k).delta = c[k]
      BY <2>1, <2>2, <2>3
    <3>. QED
      BY <2>2, <2>3, <3>1 DEF Rebuilt
  <2>4. CASE k \notin Cached(c)
    <3>1. c[k] = Absent
      BY <2>4 DEF Cached
    <3>. QED
      BY <2>1, <2>4, <3>1 DEF Rebuilt
  <2>. QED
    BY <2>3, <2>4
<1>. QED
  BY <1>1 DEF Rebuilt, Caches

\* A cache has as many entries as cached keys.
LEMMA EntriesCount ==
  ASSUME NEW c \in Caches
  PROVE  /\ IsFiniteSet(Entries(c))
         /\ Cardinality(Entries(c)) \in Nat
         /\ Cardinality(Entries(c)) = Cardinality(Cached(c))
         /\ Entries(c) \in SUBSET Entry
<1> DEFINE f == [k \in Cached(c) |-> EntryOf(c, k)]
<1>1. IsFiniteSet(Cached(c))
  BY FS_Subset, CoSaveConstants DEF Cached
<1>2. f \in Surjection(Cached(c), Entries(c))
  BY DEF Surjection, Entries
<1>3. \A j, k \in Cached(c) : f[j] = f[k] => j = k
  BY EntryFacts DEF Cached
<1>4. f \in Injection(Cached(c), Entries(c))
  BY <1>2, <1>3 DEF Injection, Surjection, IsInjective
<1>5. IsFiniteSet(Entries(c)) /\ Cardinality(Entries(c)) = Cardinality(Cached(c))
  BY <1>1, <1>2, <1>4, FS_Surjection
<1>6. Entries(c) \in SUBSET Entry
  BY EntryFacts DEF Entries, Cached
<1>. QED
  BY <1>5, <1>6, FS_CardinalityType

\* The empty caches, as a new process has them, hold no icon.
LEMMA EmptyFacts ==
  Empty \in Caches /\ Cached(Empty) = {} /\ Cardinality(Cached(Empty)) = 0
BY FS_EmptySet DEF Empty, Caches, Cached

-----------------------------------------------------------------------------
(* Types *)

\* Lists of entries are finite, so the session metric is a number; a save has
\* asked for the hash before it writes one.
TypeInv ==
  /\ TypeOK
  /\ op = "head" => hash # Absent
  /\ IsFiniteSet(pending)
  /\ \A s \in Slots : IsFiniteSet(files[s].entries)

\* A process starts well typed.
LEMMA TypeInit == Init => TypeInv
<1> SUFFICES ASSUME Init PROVE TypeInv
  OBVIOUS
<1>1. NoFile \in File
  BY DEF NoFile, File
<1>2. files \in [Slots -> File] /\ \A s \in Slots : files[s].entries = {}
  BY <1>1 DEF Init, NoFile
<1>3. cache \in Caches /\ image \in [Slots -> Caches]
  BY EmptyFacts DEF Init
<1>4. IsFiniteSet(pending) /\ \A s \in Slots : IsFiniteSet(files[s].entries)
  BY <1>2, FS_EmptySet DEF Init
<1>. QED
  BY <1>2, <1>3, <1>4 DEF Init, TypeInv, TypeOK

\* Inserting the entries of a record into the empty caches gives caches.
LEMMA RebuiltType ==
  ASSUME NEW es \in SUBSET Entry
  PROVE  Rebuilt(es) \in Caches
<1>1. \A e \in es : e.delta \in Icon
  BY DEF Entry
<1>2. ASSUME NEW k \in Keys
      PROVE  (IF \E e \in es : KeyOf(e) = k
              THEN (CHOOSE e \in es : KeyOf(e) = k).delta ELSE Absent) \in Icon \cup {Absent}
  BY <1>1
<1>. QED
  BY <1>2 DEF Rebuilt, Caches

\* One record of one slot is written; the other slots are as they were.
LEMMA FileFacts ==
  ASSUME TypeInv
  PROVE  /\ \A h \in Header \cup {Absent, Torn} :
              LET g == [files EXCEPT ![slot].head = h]
              IN  /\ g \in [Slots -> File]
                  /\ \A s \in Slots : g[s].entries = files[s].entries /\ g[s].state = files[s].state
                  /\ \A s \in Slots \ {slot} : g[s] = files[s]
                  /\ g[slot].head = h
         /\ \A how \in {"short", "whole"} :
              LET g == [files EXCEPT ![slot].entries = pending, ![slot].state = how]
              IN  /\ g \in [Slots -> File]
                  /\ \A s \in Slots \ {slot} : g[s] = files[s]
                  /\ g[slot].entries = pending /\ g[slot].state = how
                  /\ g[slot].head = files[slot].head
<1>1. files \in [Slots -> File] /\ slot \in Slots /\ pending \in SUBSET Entry
  BY DEF TypeInv, TypeOK
<1>2. files[slot] = [head |-> files[slot].head, entries |-> files[slot].entries,
                     state |-> files[slot].state]
      /\ files[slot].head \in Header \cup {Absent, Torn}
      /\ files[slot].entries \in SUBSET Entry
      /\ files[slot].state \in {"none", "short", "whole"}
  BY <1>1 DEF File
<1>. QED
  BY <1>1, <1>2 DEF File

\* Every step of the processes and their co-saves keeps the types.
LEMMA TypeStep == TypeInv /\ [Next]_vars => TypeInv'
<1> SUFFICES ASSUME TypeInv, [Next]_vars PROVE TypeInv'
  OBVIOUS
<1> USE DEF diskVars, processVars, cacheVars, opVars
<1>0. TypeOK /\ (op = "head" => hash # Absent) /\ IsFiniteSet(pending) /\ \A s \in Slots : IsFiniteSet(files[s].entries)
  BY DEF TypeInv
<1>1. CASE Start
  BY <1>0, <1>1, EmptyFacts, FS_EmptySet DEF Start, TypeInv, TypeOK
<1>2. CASE Exit \/ EditConfig \/ Upgrade
  BY <1>0, <1>2 DEF Exit, EditConfig, Upgrade, TypeInv, TypeOK
<1>3. ASSUME NEW k \in Keys, CacheIcon(k) PROVE TypeInv'
  <2>1. [of |-> k, config |-> i4Config, build |-> build] \in Icon
    BY <1>0 DEF TypeOK, Icon
  <2>2. cache' \in Caches
    BY <1>0, <1>3, <2>1 DEF CacheIcon, TypeOK, Caches
  <2>. QED
    BY <1>0, <1>3, <2>2 DEF CacheIcon, TypeInv, TypeOK
<1>4. ASSUME NEW k \in RuntimeKeys, CacheRuntimeIcon(k) PROVE TypeInv'
  BY <1>0, <1>4 DEF CacheRuntimeIcon, TypeInv, TypeOK
<1>5. ASSUME NEW f, InvalidateFormID(f) PROVE TypeInv'
  <2>1. cache' \in Caches /\ dynamicCache' \in SUBSET RuntimeKeys
    BY <1>0, <1>5 DEF InvalidateFormID, TypeOK, Caches
  <2>. QED
    BY <1>0, <1>5, <2>1 DEF InvalidateFormID, TypeInv, TypeOK
<1>6. CASE Purge \/ Revert \/ NewGame
  BY <1>0, <1>6, EmptyFacts DEF Purge, Revert, NewGame, TypeInv, TypeOK
<1>7. ASSUME NEW s \in Slots, BeginSave(s) PROVE TypeInv'
  <2>1. hash' \in Configs /\ hash' # Absent
    BY <1>0, <1>7, CoSaveConstants DEF BeginSave, ConfigHash, TypeOK
  <2>2. IsFiniteSet(pending') /\ pending' \in SUBSET Entry
    BY <1>0, <1>7, EntriesCount DEF BeginSave, TypeOK
  <2>3. NoFile \in File /\ NoFile.entries = {}
    BY DEF NoFile, File
  <2>4. files' \in [Slots -> File] /\ \A t \in Slots : IsFiniteSet(files'[t].entries)
    BY <1>0, <1>7, <2>3, FS_EmptySet DEF BeginSave, TypeOK
  <2>5. image' \in [Slots -> Caches]
    BY <1>0, <1>7 DEF BeginSave, TypeOK
  <2>. QED
    BY <1>0, <1>7, <2>1, <2>2, <2>4, <2>5 DEF BeginSave, TypeInv, TypeOK
<1>8. CASE WriteHead
  <2>1. CASE UNCHANGED files
    BY <1>0, <1>8, <2>1 DEF WriteHead, TypeInv, TypeOK
  <2>2. ASSUME NEW h \in {[config |-> hash, build |-> build], Torn},
               op = "head", op' = "entries",
               files' = [files EXCEPT ![slot].head = h]
        PROVE  TypeInv'
    <3>1. h \in Header \cup {Absent, Torn}
      BY <1>0, <2>2 DEF TypeOK, Header
    <3>2. files' \in [Slots -> File] /\ \A s \in Slots : files'[s].entries = files[s].entries
      BY <2>2, <3>1, FileFacts
    <3>. QED
      BY <1>0, <1>8, <3>2 DEF WriteHead, TypeInv, TypeOK
  <2>. QED
    BY <1>8, <2>1, <2>2 DEF WriteHead
<1>9. CASE WriteEntries
  <2>1. CASE UNCHANGED files
    BY <1>0, <1>9, <2>1 DEF WriteEntries, TypeInv, TypeOK
  <2>2. ASSUME NEW how \in {"short", "whole"},
               files' = [files EXCEPT ![slot].entries = pending, ![slot].state = how]
        PROVE  TypeInv'
    <3>1. files' \in [Slots -> File] /\ \A s \in Slots : IsFiniteSet(files'[s].entries)
      BY <1>0, <2>2, FileFacts
    <3>. QED
      BY <1>0, <1>9, <3>1 DEF WriteEntries, TypeInv, TypeOK
  <2>. QED
    BY <1>9, <2>1, <2>2 DEF WriteEntries
<1>10. ASSUME NEW s \in Slots, BeginLoad(s) PROVE TypeInv'
  <2>1. hash' \in Configs \cup {Absent}
    BY <1>0, <1>10 DEF BeginLoad, ConfigHash, TypeOK
  <2>2. IsFiniteSet(pending') /\ pending' \in SUBSET Entry /\ op' \in {"restore", "cold"}
    <3>1. files[s].entries \in SUBSET Entry
      BY <1>0 DEF TypeOK, File
    <3>2. \/ op' = "restore" /\ pending' = files[s].entries
          \/ op' = "cold" /\ pending' = {}
      BY <1>10 DEF BeginLoad
    <3>. QED
      BY <1>0, <3>1, <3>2, FS_EmptySet
  <2>. QED
    BY <1>0, <1>10, <2>1, <2>2 DEF BeginLoad, TypeInv, TypeOK
<1>11. CASE FinishLoad
  <2>1. cache' \in Caches /\ restored' \in Nat
    BY <1>0, <1>11, RebuiltType, FS_CardinalityType DEF FinishLoad, TypeOK
  <2>2. dynamicCache' \in SUBSET RuntimeKeys /\ foreign' \in SUBSET RuntimeKeys
    BY <1>0, <1>11 DEF FinishLoad, TypeOK
  <2>. QED
    BY <1>0, <1>11, <2>1, <2>2 DEF FinishLoad, TypeInv, TypeOK
<1>12. CASE UNCHANGED vars
  BY <1>0, <1>12 DEF vars, TypeInv, TypeOK
<1>. QED
  BY <1>1, <1>2, <1>3, <1>4, <1>5, <1>6, <1>7, <1>8, <1>9, <1>10, <1>11, <1>12 DEF Next

\* The state keeps its shape.
THEOREM CoSaveTypeCorrect == Spec => []TypeOK
<1>1. TypeInv => TypeOK
  BY DEF TypeInv
<1>. QED
  BY <1>1, TypeInit, TypeStep, PTL DEF Spec

-----------------------------------------------------------------------------
(* Runtime forms *)

\* No step brings an icon of a runtime form into another game.
LEMMA FreshStep == RuntimeIconsAreFresh /\ [Next]_vars => RuntimeIconsAreFresh'
<1> SUFFICES ASSUME RuntimeIconsAreFresh, [Next]_vars PROVE RuntimeIconsAreFresh'
  OBVIOUS
<1> USE DEF diskVars, processVars, cacheVars, opVars, RuntimeIconsAreFresh
<1>1. CASE Start \/ Exit \/ EditConfig \/ Upgrade
  BY <1>1 DEF Start, Exit, EditConfig, Upgrade
<1>2. ASSUME NEW k \in Keys, CacheIcon(k) PROVE RuntimeIconsAreFresh'
  BY <1>2 DEF CacheIcon
<1>3. ASSUME NEW k \in RuntimeKeys, CacheRuntimeIcon(k) PROVE RuntimeIconsAreFresh'
  BY <1>3 DEF CacheRuntimeIcon, Playing
<1>4. ASSUME NEW f, InvalidateFormID(f) PROVE RuntimeIconsAreFresh'
  BY <1>4 DEF InvalidateFormID
<1>5. CASE Purge \/ Revert \/ NewGame
  BY <1>5 DEF Purge, Revert, NewGame
<1>6. ASSUME NEW s \in Slots, BeginSave(s) \/ BeginLoad(s) PROVE RuntimeIconsAreFresh'
  BY <1>6 DEF BeginSave, BeginLoad
<1>7. CASE WriteHead \/ WriteEntries
  BY <1>7 DEF WriteHead, WriteEntries
<1>8. CASE FinishLoad
  BY <1>8 DEF FinishLoad
<1>9. CASE UNCHANGED vars
  BY <1>9 DEF vars
<1>. QED
  BY <1>1, <1>2, <1>3, <1>4, <1>5, <1>6, <1>7, <1>8, <1>9 DEF Next

\* An icon cached for a runtime form id is never shown in another game, whose
\* engine may have given the id to another item.
THEOREM RuntimeIconsStayFresh == Spec => []RuntimeIconsAreFresh
<1>1. Init => RuntimeIconsAreFresh
  BY DEF Init, RuntimeIconsAreFresh
<1>. QED
  BY <1>1, FreshStep, PTL DEF Spec

-----------------------------------------------------------------------------
(* Saved and restored icons *)

\* Configurations are only edited while the game does not run.
NoEdits == "edit" \notin Env

\* All of a cache's icons come from one setup.
MadeBy(c, cfg, b) ==
  \A k \in Cached(c) : c[k] = [of |-> k, config |-> cfg, build |-> b]

\* While the game runs, what I4 loaded is what is on disk and what the hash,
\* if it was asked for, stands for.
SetupInv ==
  /\ op # "none" => running
  /\ running => i4Config = config /\ hash \in {Absent, config}
  /\ running => MadeBy(cache, config, build)

\* A co-save holds entries of the cache it was made from, and a header that
\* can be read tells their setup.
FileInv ==
  \A s \in Slots :
    /\ files[s].state # "none" => files[s].entries = Entries(image[s])
    /\ files[s].head \in Header =>
         MadeBy(image[s], files[s].head.config, files[s].head.build)

\* What the callbacks have in hand.
OpInv ==
  /\ op \in {"head", "entries"} =>
       /\ hash = config
       /\ pending = Entries(image[slot])
       /\ MadeBy(image[slot], config, build)
  /\ op \in {"reverted", "restore", "cold"} => cache = Empty /\ dynamicCache = {}
  /\ op = "restore" => Restorable(slot) /\ pending = Entries(image[slot])
  /\ op = "cold" => ~Restorable(slot) /\ restored = 0

CoSaveInv == TypeInv /\ SetupInv /\ FileInv /\ OpInv

\* The invariant holds before the first save.
LEMMA CoSaveInit == Init => CoSaveInv
<1> SUFFICES ASSUME Init PROVE CoSaveInv
  OBVIOUS
<1>1. TypeInv
  BY TypeInit
<1>2. \A s \in Slots : files[s].head = Absent /\ files[s].state = "none"
  BY DEF Init, NoFile
<1>3. Absent \notin Header
  BY CoSaveConstants
<1>. QED
  BY <1>1, <1>2, <1>3 DEF Init, CoSaveInv, SetupInv, FileInv, OpInv

\* Steps that leave the co-saves and the callbacks' data alone.
LEMMA FileSame ==
  ASSUME FileInv, UNCHANGED <<files, image>>
  PROVE  FileInv'
BY DEF FileInv

\* Caches with nothing in them are of any setup.
LEMMA EmptyMade ==
  ASSUME NEW cfg, NEW b
  PROVE  MadeBy(Empty, cfg, b)
BY EmptyFacts DEF MadeBy

\* With no edits, the header that Load accepts is that of this setup.
LEMMA HeaderMeans ==
  ASSUME SetupInv, running, NEW h
  PROVE  /\ ConfigHash = config
         /\ HeaderValid(h) <=> h = [config |-> i4Config, build |-> build]
BY DEF SetupInv, ConfigHash, HeaderValid

\* Without edits under a running game, every step keeps what is known of the
\* setup, the files and the running callback.
LEMMA CoSaveStep == NoEdits /\ CoSaveInv /\ [Next]_vars => SetupInv' /\ FileInv' /\ OpInv'
<1> SUFFICES ASSUME NoEdits, CoSaveInv, [Next]_vars
             PROVE  SetupInv' /\ FileInv' /\ OpInv'
  OBVIOUS
<1> USE DEF diskVars, processVars, cacheVars, opVars
<1>0. TypeOK /\ SetupInv /\ FileInv /\ OpInv
  BY DEF CoSaveInv, TypeInv
<1>1. CASE Start
  <2>1. SetupInv'
    BY <1>1, EmptyMade DEF Start, SetupInv
  <2>. QED
    BY <1>0, <1>1, <2>1, FileSame DEF Start, OpInv
<1>2. CASE Exit
  BY <1>0, <1>2, FileSame DEF Exit, SetupInv, OpInv
<1>3. CASE EditConfig \/ Upgrade
  <2>1. ~running /\ op = "none"
    BY <1>0, <1>3 DEF EditConfig, Upgrade, NoEdits, SetupInv
  <2>. QED
    BY <1>0, <1>3, <2>1, FileSame DEF EditConfig, Upgrade, SetupInv, OpInv
<1>4. ASSUME NEW k \in Keys, CacheIcon(k) PROVE SetupInv' /\ FileInv' /\ OpInv'
  <2>1. running /\ op = "none" /\ op' = "none"
    BY <1>4 DEF CacheIcon, Playing
  <2>2. MadeBy(cache', config', build')
    <3>1. cache \in [Keys -> Icon \cup {Absent}]
      BY <1>0 DEF TypeOK, Caches
    <3>2. cache' = [cache EXCEPT ![k] = [of |-> k, config |-> config, build |-> build]]
      BY <1>0, <1>4, <2>1 DEF CacheIcon, SetupInv
    <3>3. \A j \in Cached(cache') : j # k => j \in Cached(cache) /\ cache'[j] = cache[j]
      BY <3>1, <3>2 DEF Cached
    <3>4. cache'[k] = [of |-> k, config |-> config, build |-> build]
      BY <3>1, <3>2
    <3>. QED
      BY <1>0, <1>4, <2>1, <3>3, <3>4 DEF CacheIcon, SetupInv, MadeBy
  <2>. QED
    BY <1>0, <1>4, <2>1, <2>2, FileSame DEF CacheIcon, SetupInv, OpInv
<1>5. ASSUME NEW k \in RuntimeKeys, CacheRuntimeIcon(k) PROVE SetupInv' /\ FileInv' /\ OpInv'
  <2>1. op = "none" /\ op' = "none"
    BY <1>5 DEF CacheRuntimeIcon, Playing
  <2>. QED
    BY <1>0, <1>5, <2>1, FileSame DEF CacheRuntimeIcon, SetupInv, OpInv
<1>6. ASSUME NEW f, InvalidateFormID(f) PROVE SetupInv' /\ FileInv' /\ OpInv'
  <2>1. UNCHANGED <<config, build, running, i4Config, hash, files, op, slot, pending, image, restored>>
    BY <1>6 DEF InvalidateFormID
  <2>2. \A k \in Cached(cache') : k \in Cached(cache) /\ cache'[k] = cache[k]
    BY <1>6 DEF InvalidateFormID, Cached
  <2>3. MadeBy(cache, config, build) => MadeBy(cache', config', build')
    BY <2>1, <2>2 DEF MadeBy
  <2>4. cache = Empty => cache' = Empty
    BY <1>6 DEF InvalidateFormID, Empty
  <2>5. dynamicCache = {} => dynamicCache' = {}
    BY <1>6 DEF InvalidateFormID
  <2>. QED
    BY <1>0, <2>1, <2>3, <2>4, <2>5, FileSame DEF SetupInv, OpInv, Restorable
<1>7. CASE Purge \/ Revert
  <2>1. running /\ op = "none" /\ op' \in {"none", "reverted"}
    BY <1>7 DEF Purge, Revert, Playing
  <2>2. cache' = Empty /\ dynamicCache' = {}
    BY <1>7 DEF Purge, Revert
  <2>3. UNCHANGED <<config, build, running, i4Config, hash, files, image>>
    BY <1>7 DEF Purge, Revert
  <2>4. SetupInv'
    BY <1>0, <2>1, <2>2, <2>3, EmptyMade DEF SetupInv
  <2>. QED
    BY <1>0, <2>1, <2>2, <2>3, <2>4, FileSame DEF OpInv
<1>8. CASE NewGame
  BY <1>0, <1>8, FileSame DEF NewGame, SetupInv, OpInv
<1>9. ASSUME NEW s \in Slots, BeginSave(s) PROVE SetupInv' /\ FileInv' /\ OpInv'
  <2>1. running /\ op' = "head" /\ slot' = s /\ hash' = config
        /\ UNCHANGED <<config, build, running, i4Config, cache, dynamicCache>>
    BY <1>0, <1>9, HeaderMeans DEF BeginSave, Playing
  <2>2. SetupInv'
    BY <1>0, <2>1 DEF SetupInv
  <2>3. /\ files' = [files EXCEPT ![s] = NoFile] /\ image' = [image EXCEPT ![s] = cache]
        /\ pending' = Entries(cache)
    BY <1>9 DEF BeginSave
  <2>4. /\ files'[s] = NoFile /\ image'[s] = cache
        /\ \A t \in Slots \ {s} : files'[t] = files[t] /\ image'[t] = image[t]
    BY <1>0, <2>3 DEF TypeOK
  <2>5. NoFile.state = "none" /\ NoFile.head \notin Header
    BY CoSaveConstants DEF NoFile
  <2>6. FileInv'
    BY <1>0, <2>4, <2>5 DEF FileInv
  <2>7. OpInv'
    BY <1>0, <2>1, <2>3, <2>4 DEF OpInv, SetupInv
  <2>. QED
    BY <2>2, <2>6, <2>7
<1>10. CASE WriteHead
  <2>1. /\ running /\ op = "head" /\ op' \in {"entries", "none"}
        /\ UNCHANGED <<config, build, running, i4Config, hash, cache, dynamicCache,
                       slot, pending, image>>
    BY <1>10 DEF WriteHead
  <2>2. SetupInv'
    BY <1>0, <2>1 DEF SetupInv
  <2>3. OpInv'
    BY <1>0, <2>1 DEF OpInv
  <2>4. CASE UNCHANGED files
    BY <1>0, <2>1, <2>2, <2>3, <2>4, FileSame
  <2>5. ASSUME NEW h \in {[config |-> hash, build |-> build], Torn},
               files' = [files EXCEPT ![slot].head = h]
        PROVE  FileInv'
    <3>1. h \in Header \cup {Torn} /\ Torn \notin Header
      BY <1>0, <2>1, CoSaveConstants DEF TypeOK, OpInv, Header
    <3>2. /\ \A t \in Slots : files'[t].entries = files[t].entries /\ files'[t].state = files[t].state
          /\ \A t \in Slots \ {slot} : files'[t] = files[t]
          /\ files'[slot].head = h
      BY <2>5, <3>1, FileFacts DEF CoSaveInv
    <3>3. h \in Header => MadeBy(image[slot], h.config, h.build)
      BY <1>0, <2>1, <3>1 DEF OpInv
    <3>4. ASSUME NEW t \in Slots
          PROVE  /\ files'[t].state # "none" => files'[t].entries = Entries(image'[t])
                 /\ files'[t].head \in Header =>
                      MadeBy(image'[t], files'[t].head.config, files'[t].head.build)
      <4>1. CASE t = slot
        BY <1>0, <2>1, <3>2, <3>3, <4>1 DEF FileInv
      <4>2. CASE t # slot
        BY <1>0, <2>1, <3>2, <4>2 DEF FileInv
      <4>. QED
        BY <4>1, <4>2
    <3>. QED
      BY <3>4 DEF FileInv
  <2>. QED
    BY <1>10, <2>2, <2>3, <2>4, <2>5 DEF WriteHead
<1>11. CASE WriteEntries
  <2>1. /\ running /\ op = "entries" /\ op' = "none"
        /\ UNCHANGED <<config, build, running, i4Config, hash, cache, dynamicCache,
                       slot, pending, image>>
    BY <1>11 DEF WriteEntries
  <2>2. SetupInv'
    BY <1>0, <2>1 DEF SetupInv
  <2>3. OpInv'
    BY <2>1 DEF OpInv
  <2>4. CASE UNCHANGED files
    BY <1>0, <2>1, <2>2, <2>3, <2>4, FileSame
  <2>5. ASSUME NEW how \in {"short", "whole"},
               files' = [files EXCEPT ![slot].entries = pending, ![slot].state = how]
        PROVE  FileInv'
    <3>1. /\ \A t \in Slots \ {slot} : files'[t] = files[t]
          /\ files'[slot].entries = pending /\ files'[slot].head = files[slot].head
      BY <2>5, FileFacts DEF CoSaveInv
    <3>2. pending = Entries(image[slot])
      BY <1>0, <2>1 DEF OpInv
    <3>3. ASSUME NEW t \in Slots
          PROVE  /\ files'[t].state # "none" => files'[t].entries = Entries(image'[t])
                 /\ files'[t].head \in Header =>
                      MadeBy(image'[t], files'[t].head.config, files'[t].head.build)
      <4>1. CASE t = slot
        BY <1>0, <2>1, <3>1, <3>2, <4>1 DEF FileInv
      <4>2. CASE t # slot
        BY <1>0, <2>1, <3>1, <4>2 DEF FileInv
      <4>. QED
        BY <4>1, <4>2
    <3>. QED
      BY <3>3 DEF FileInv
  <2>. QED
    BY <1>11, <2>2, <2>3, <2>4, <2>5 DEF WriteEntries
<1>12. ASSUME NEW s \in Slots, BeginLoad(s) PROVE SetupInv' /\ FileInv' /\ OpInv'
  <2>1. /\ running /\ op = "reverted" /\ slot' = s /\ restored' = 0
        /\ UNCHANGED <<config, build, running, i4Config, cache, dynamicCache, files, image>>
        /\ hash' \in {hash, ConfigHash}
    BY <1>12 DEF BeginLoad
  <2>2. SetupInv'
    BY <1>0, <2>1, HeaderMeans DEF SetupInv
  <2>3. FileInv'
    BY <1>0, <2>1, FileSame
  <2>4. HeaderValid(files[s].head) /\ Decodes(files[s]) <=> Restorable(s)
    BY <1>0, <2>1, HeaderMeans DEF Restorable, Decodes
  <2>5. CASE Restorable(s)
    <3>1. op' = "restore" /\ pending' = files[s].entries
      BY <1>12, <2>4, <2>5 DEF BeginLoad
    <3>2. pending' = Entries(image[s])
      BY <1>0, <2>5, <3>1 DEF FileInv, Restorable
    <3>. QED
      BY <1>0, <2>1, <2>2, <2>3, <2>5, <3>1, <3>2 DEF OpInv, Restorable
  <2>6. CASE ~Restorable(s)
    <3>1. op' = "cold"
      BY <1>12, <2>4, <2>6 DEF BeginLoad
    <3>. QED
      BY <1>0, <2>1, <2>2, <2>3, <2>6, <3>1 DEF OpInv, Restorable
  <2>. QED
    BY <2>5, <2>6
<1>13. CASE FinishLoad
  <2>1. /\ running /\ op' = "none"
        /\ UNCHANGED <<config, build, running, i4Config, hash, files, image>>
    BY <1>13 DEF FinishLoad
  <2>2. OpInv' /\ FileInv'
    BY <1>0, <2>1, FileSame DEF OpInv
  <2>3. CASE op = "cold"
    BY <1>0, <1>13, <2>1, <2>2, <2>3 DEF FinishLoad, SetupInv
  <2>4. CASE op = "restore"
    <3>1. image[slot] \in Caches
      BY <1>0 DEF TypeOK
    <3>2. cache' = image[slot]
      BY <1>0, <1>13, <2>4, <3>1, RoundTrip DEF FinishLoad, OpInv
    <3>3. files[slot].head = [config |-> config, build |-> build]
      BY <1>0, <2>1, <2>4 DEF OpInv, Restorable, SetupInv
    <3>4. MadeBy(image[slot], config, build)
      BY <1>0, <3>3 DEF TypeOK, FileInv, Header
    <3>. QED
      BY <1>0, <2>1, <2>2, <3>2, <3>4 DEF SetupInv
  <2>. QED
    BY <1>13, <2>3, <2>4 DEF FinishLoad
<1>14. CASE UNCHANGED vars
  BY <1>0, <1>14, FileSame DEF vars, SetupInv, OpInv, Restorable
<1>. QED
  BY <1>1, <1>2, <1>3, <1>4, <1>5, <1>6, <1>7, <1>8, <1>9, <1>10, <1>11, <1>12,
     <1>13, <1>14 DEF Next

\* What the last step of a load does.
LEMMA LoadStep ==
  ASSUME CoSaveInv, FinishLoad
  PROVE  /\ cache' = IF Restorable(slot) THEN image[slot] ELSE Empty
         /\ restored' = Cardinality(Cached(cache'))
         /\ dynamicCache' = {}
<1>0. TypeOK /\ OpInv
  BY DEF CoSaveInv, TypeInv
<1>1. CASE op = "cold"
  BY <1>0, <1>1, EmptyFacts DEF FinishLoad, OpInv, cacheVars
<1>2. CASE op = "restore"
  <2>1. image[slot] \in Caches /\ pending = Entries(image[slot]) /\ Restorable(slot)
    BY <1>0, <1>2 DEF TypeOK, OpInv
  <2>2. cache' = image[slot] /\ restored' = Cardinality(pending) /\ dynamicCache' = {}
    BY <1>2, <2>1, RoundTrip DEF FinishLoad
  <2>. QED
    BY <2>1, <2>2, EntriesCount
<1>. QED
  BY <1>1, <1>2 DEF FinishLoad

\* What the caches and the files hold, whatever the order of saves and loads.
LEMMA CoSaveInductive == NoEdits /\ Spec => []CoSaveInv
<1>1. NoEdits /\ CoSaveInv /\ [Next]_vars => CoSaveInv'
  BY TypeStep, CoSaveStep DEF CoSaveInv
<1>2. CASE NoEdits
  <2>1. CoSaveInv /\ [Next]_vars => CoSaveInv'
    BY <1>1, <1>2
  <2>. QED
    BY <2>1, CoSaveInit, PTL DEF Spec
<1>3. CASE ~NoEdits
  BY <1>3
<1>. QED
  BY <1>2, <1>3

\* No load, restart, upgrade or change of configurations ever leaves an icon
\* in the cache that another setup made, or that belongs to another key.
THEOREM RestoredIconsFit == NoEdits /\ Spec => []IconsOfThisSetup
<1>1. CoSaveInv => IconsOfThisSetup
  BY DEF CoSaveInv, SetupInv, MadeBy, IconsOfThisSetup
<1>. QED
  BY <1>1, CoSaveInductive, PTL

\* A load brings back exactly what was saved, or nothing, whichever way the
\* save failed or the game crashed.
THEOREM LoadsRestoreSaves == NoEdits /\ Spec => LoadRestoresSave
<1>1. CoSaveInv => [FinishLoad => /\ cache' = IF Restorable(slot) THEN image[slot] ELSE Empty
                                  /\ restored' = Cardinality(Cached(cache'))
                                  /\ dynamicCache' = {}]_vars
  BY LoadStep
<1>. QED
  BY <1>1, CoSaveInductive, PTL DEF LoadRestoresSave

=============================================================================
