----------------------------- MODULE MenuWraps ------------------------------
(***************************************************************************)
(* Which movies get which wraps (Plugin.cpp, and the Install functions it  *)
(* reaches), and what the wraps of the Favorites menu do (FavoritesHook,   *)
(* FavoritesCrashFix, FavoritesKeywords, KeywordFill.cpp).                 *)
(*                                                                         *)
(* A movie has script functions.  Replacing one is two writes, the hook    *)
(* and a marker against wrapping it twice; either can fail.  Everything    *)
(* here runs on the main thread.  What the wraps of an item menu do when   *)
(* they are called is in IconCache, InvalidateMemo and InvalidateListFix.  *)
(*                                                                         *)
(* Operators whose comment begins with "Faulty:" are wrong on purpose.     *)
(***************************************************************************)
EXTENDS Naturals, FiniteSets

CONSTANTS
  ItemMenus,    \* menus with an icon setter that Plugin.cpp names
  OtherMenus,   \* the rest, FavoritesMenu apart
  FavoritesMenu,
  None,         \* no menu; no setting; no form; no member
  OldRuntime,   \* the runtime is older than 1.7.99
  FileSetting,  \* noColor in SkyUI's config.txt, None if it has none
  StaticIds, RuntimeIds, Owners,  \* form ids, and the forms they may name
  KeywordForms, \* the forms that have keywords at all
  MaxLayers     \* bound: wraps of one function

ASSUME WrapConstants ==
  /\ OldRuntime \in BOOLEAN
  /\ FileSetting \in BOOLEAN \cup {None}
  /\ None \notin BOOLEAN /\ None \notin Owners /\ KeywordForms \subseteq Owners
  /\ None \notin ItemMenus \cup OtherMenus \cup {FavoritesMenu}
  /\ FavoritesMenu \notin ItemMenus \cup OtherMenus
  /\ StaticIds \cap RuntimeIds = {}
  /\ MaxLayers \in Nat \ {0}

Menus == ItemMenus \cup OtherMenus \cup {FavoritesMenu}
Ids == StaticIds \cup RuntimeIds

ItemFunctions == {"processList", "InvalidateListData", "InvalidateData"}
Functions == ItemFunctions \cup {"favorites"}

VARIABLES
  loaded,    \* kDataLoaded has come: the menu sink is there
  features,  \* Features::IsEnabled()
  movie,     \* the open menu, None if none
  has,       \* the functions of its movie
  layers,    \* layers[k]: how many wraps are around function k
  marked,    \* marked[k]: its marker is set
  lost,      \* lost[k]: how many of its markers could not be set (history)
  shown,     \* the Favorites menu has handled kShow
  preset,    \* the icon setter's _noIconColors, None if it has no such member
  mcm,       \* the MCM's override of the setting, None if there is none
  refused,   \* a write that the Favorites fixes need has failed (history)
  crashed,   \* I4's own lookup ran on an old runtime
  seen,      \* the keywords I4 last saw with the features on, None before (history)
  owner,     \* owner[f]: the form that form id f names
  memoized,  \* FindKeywordForm's cache: the form, None if absent
  keywords,  \* keywords[f]: whose keywords entry f has, None if none
  unfilled   \* the entries that the last fill could not find or write to (history)

favoritesVars == <<shown, preset, refused, crashed, memoized, keywords, unfilled, seen>>
wrapVars == <<layers, marked, lost>>
vars == <<loaded, features, movie, has, wrapVars, favoritesVars, mcm, owner>>

TypeOK ==
  /\ loaded \in BOOLEAN /\ features \in BOOLEAN
  /\ movie \in Menus \cup {None} /\ has \subseteq Functions
  /\ layers \in [Functions -> 0..MaxLayers] /\ \A k \in Functions \ has : layers[k] = 0
  /\ marked \in [Functions -> BOOLEAN] /\ lost \in [Functions -> 0..MaxLayers]
  /\ shown \in BOOLEAN /\ preset \in BOOLEAN \cup {None}
  /\ mcm \in BOOLEAN \cup {None}
  /\ refused \in BOOLEAN /\ crashed \in BOOLEAN
  /\ owner \in [Ids -> Owners]
  /\ memoized \in [Ids -> Owners \cup {None}]
  /\ keywords \in [Ids -> Owners \cup {None}]
  /\ seen \in [Ids -> Owners \cup {None}] \cup {None}
  /\ unfilled \subseteq Ids

NoEntries == [f \in Ids |-> None]

Init ==
  /\ loaded = FALSE /\ features = TRUE
  /\ movie = None /\ has = {}
  /\ layers = [k \in Functions |-> 0] /\ lost = layers
  /\ marked = [k \in Functions |-> FALSE]
  /\ shown = FALSE /\ preset = None /\ refused = FALSE /\ crashed = FALSE
  /\ mcm \in BOOLEAN \cup {None}
  /\ owner \in [Ids -> Owners]
  /\ memoized = NoEntries /\ keywords = NoEntries
  /\ unfilled = {} /\ seen = None

-----------------------------------------------------------------------------
(* The game *)

\* SKSE's message kDataLoaded: the menu sink is added.
DataLoaded ==
  /\ ~loaded /\ loaded' = TRUE
  /\ UNCHANGED <<features, movie, has, wrapVars, favoritesVars, mcm, owner>>

FunctionsOf(m) ==
  CASE m \in ItemMenus -> ItemFunctions
    [] m = FavoritesMenu -> {"favorites"}
    [] OTHER -> {}

\* A menu is created with a new movie, which has the functions there.
OpenMenu(m, there) ==
  /\ loaded /\ movie = None
  /\ movie' = m /\ has' = there
  /\ layers' = [k \in Functions |-> 0] /\ lost' = layers'
  /\ marked' = [k \in Functions |-> FALSE]
  /\ shown' = FALSE /\ preset' = None /\ refused' = FALSE
  /\ keywords' = NoEntries /\ unfilled' = {} /\ seen' = None
  /\ UNCHANGED <<loaded, features, crashed, mcm, owner, memoized>>

CloseMenu ==
  /\ movie # None /\ movie' = None
  /\ UNCHANGED <<loaded, features, has, wrapVars, favoritesVars, mcm, owner>>

\* Another game is loaded, or a runtime form is destroyed: its id may come to
\* name another form.
ReuseId(f, form) ==
  /\ movie = None
  /\ owner' = [owner EXCEPT ![f] = form]
  /\ UNCHANGED <<loaded, features, movie, has, wrapVars, favoritesVars, mcm>>

SetMcm(v) ==
  /\ movie = None /\ mcm' = v
  /\ UNCHANGED <<loaded, features, movie, has, wrapVars, favoritesVars, owner>>

SetFeatures(on) ==
  /\ features' = on
  /\ UNCHANGED <<loaded, movie, has, wrapVars, favoritesVars, mcm, owner>>

\* Favorites refills its list with new entries.
RefillFavorites ==
  /\ movie = FavoritesMenu
  /\ keywords' = NoEntries /\ unfilled' = {} /\ seen' = None
  /\ UNCHANGED <<loaded, features, movie, has, wrapVars, shown, preset, refused,
                 crashed, memoized, mcm, owner>>

-----------------------------------------------------------------------------
(* Wrapping *)

\* Faulty: the marker is not looked at.
WrapAgain(ks, done) ==
  LET todo == {k \in ks \cap has : done[k] # "refused" /\ layers[k] < MaxLayers} IN
  /\ layers' = [k \in Functions |-> IF k \in todo THEN layers[k] + 1 ELSE layers[k]]
  /\ marked' = [k \in Functions |-> IF k \in todo THEN done[k] = "wrapped" ELSE marked[k]]
  /\ lost' = [k \in Functions |->
                IF k \in todo /\ done[k] = "unmarked" THEN lost[k] + 1 ELSE lost[k]]

\* Faulty: a function that is not there is wrapped.
WrapMissing(ks, done) ==
  LET todo == {k \in ks : ~marked[k] /\ done[k] # "refused" /\ layers[k] < MaxLayers} IN
  /\ layers' = [k \in Functions |-> IF k \in todo THEN layers[k] + 1 ELSE layers[k]]
  /\ marked' = [k \in Functions |-> IF k \in todo THEN done[k] = "wrapped" ELSE marked[k]]
  /\ lost' = [k \in Functions |->
                IF k \in todo /\ done[k] = "unmarked" THEN lost[k] + 1 ELSE lost[k]]

\* What is in layers, marked and lost after the functions ks, each of them if
\* it is there and not marked, have been replaced.  done[k] is "refused" if
\* the hook cannot be set and "unmarked" if its marker cannot.
Wrap(ks, done) ==
  LET todo == {k \in ks \cap has : ~marked[k] /\ done[k] # "refused"} IN
  /\ \A k \in todo : layers[k] < MaxLayers
  /\ layers' = [k \in Functions |-> IF k \in todo THEN layers[k] + 1 ELSE layers[k]]
  /\ marked' = [k \in Functions |-> IF k \in todo THEN done[k] = "wrapped" ELSE marked[k]]
  /\ lost' = [k \in Functions |->
                IF k \in todo /\ done[k] = "unmarked" THEN lost[k] + 1 ELSE lost[k]]

Outcomes == [Functions -> {"wrapped", "unmarked", "refused"}]

\* The menu-open event of an item menu: Inject, InvalidateListFix::Install,
\* InvalidateMemo::Install (whose reset of the memo is InvalidateMemo's).
ProcessEvent(done) ==
  /\ movie \in ItemMenus
  /\ Wrap(ItemFunctions, done)
  /\ UNCHANGED <<loaded, features, movie, has, favoritesVars, mcm, owner>>

Refuses(done) ==
  "favorites" \in has /\ ~marked["favorites"] /\ done["favorites"] = "refused"

\* Faulty: the menu is let show before its list is wrapped.
ProcessMessageLate(done) ==
  /\ movie = FavoritesMenu
  /\ IF shown
       THEN /\ Wrap({"favorites"}, done)
            /\ refused' = (refused \/ Refuses(done))
       ELSE UNCHANGED <<wrapVars, refused>>
  /\ shown' = TRUE
  /\ UNCHANGED <<loaded, features, movie, has, preset, crashed, memoized,
                 keywords, unfilled, seen, mcm, owner>>

\* FavoritesMenu is shown: ProcessMessage wraps first, then lets the menu show.
ProcessMessage(done) ==
  /\ movie = FavoritesMenu
  /\ Wrap({"favorites"}, done)
  /\ refused' = (refused \/ Refuses(done))
  /\ shown' = TRUE
  /\ UNCHANGED <<loaded, features, movie, has, preset, crashed, memoized,
                 keywords, unfilled, seen, mcm, owner>>

-----------------------------------------------------------------------------
(* FavoritesIconSetter.processList *)

\* Faulty: the file comes before the player's override.
SettingFromFile == IF FileSetting # None THEN FileSetting ELSE mcm = TRUE

ReadNoIconColors == IF mcm # None THEN mcm ELSE FileSetting = TRUE

\* Faulty: runtime ids are remembered too.
RemembersAll(f) == f \in Ids

\* FindKeywordForm remembers what it found, but not of a runtime id.
Remembers(f) == f \notin RuntimeIds

FindKeywordForm(f) == IF Remembers(f) /\ memoized[f] # None THEN memoized[f] ELSE owner[f]

\* The crash fix, which is only installed on old runtimes.
PresetStep(settable) ==
  IF OldRuntime /\ preset = None
  THEN IF settable
       THEN preset' = ReadNoIconColors /\ UNCHANGED refused
       ELSE refused' = TRUE /\ UNCHANGED preset
  ELSE UNCHANGED <<preset, refused>>

\* Of the entries in _entryList, if there is one, those without keywords get
\* them, if their form has any.  Only the entries found are there, and of them
\* only the writable ones take the write.
FillStep(found, writable) ==
  IF features
  THEN LET missing == {f \in found : keywords[f] = None}
           looked == {f \in missing : Remembers(f)}
           filled == {f \in missing \cap writable : FindKeywordForm(f) \in KeywordForms} IN
       /\ keywords' = [f \in Ids |-> IF f \in filled THEN FindKeywordForm(f) ELSE keywords[f]]
       /\ memoized' = [f \in Ids |-> IF f \in looked THEN FindKeywordForm(f) ELSE memoized[f]]
       /\ unfilled' = Ids \ (found \cap writable)
  ELSE UNCHANGED <<keywords, memoized, unfilled>>

\* Faulty: I4 runs before the pre-steps.
PreStepsLast(settable, found, writable) ==
  /\ PresetStep(settable) /\ FillStep(found, writable)
  /\ crashed' = (OldRuntime /\ preset = None)
  /\ seen' = IF features THEN keywords ELSE seen

\* The pre-steps, then I4: which looks the setting up itself, on an old runtime
\* with fatal effect, if its setter does not have it yet.
RunPreSteps(settable, found, writable) ==
  /\ PresetStep(settable) /\ FillStep(found, writable)
  /\ crashed' = (OldRuntime /\ preset' = None)
  /\ seen' = IF features THEN keywords' ELSE seen

\* The Favorites menu, once shown, processes its list.
FavoritesProcessList(settable, found, writable) ==
  /\ movie = FavoritesMenu /\ "favorites" \in has /\ shown
  /\ IF layers["favorites"] > 0 THEN RunPreSteps(settable, found, writable)
     ELSE /\ crashed' = (OldRuntime /\ preset = None)
          /\ UNCHANGED <<preset, refused, keywords, memoized, unfilled, seen>>
  /\ UNCHANGED <<loaded, features, movie, has, wrapVars, shown, mcm, owner>>

-----------------------------------------------------------------------------

Running ==
  \/ DataLoaded \/ CloseMenu
  \/ \E m \in Menus : \E there \in SUBSET FunctionsOf(m) : OpenMenu(m, there)
  \/ \E f \in RuntimeIds, form \in Owners : ReuseId(f, form)
  \/ \E v \in BOOLEAN \cup {None} : SetMcm(v)
  \/ \E on \in BOOLEAN : SetFeatures(on)
  \/ RefillFavorites
  \/ \E done \in Outcomes : ProcessEvent(done) \/ ProcessMessage(done)
  \/ \E settable \in BOOLEAN, found \in SUBSET Ids, writable \in SUBSET Ids :
       FavoritesProcessList(settable, found, writable)

\* A crash ends the game.
Next == (~crashed /\ Running) \/ (crashed /\ UNCHANGED vars)

Spec == Init /\ [][Next]_vars

-----------------------------------------------------------------------------
(* Properties *)

\* However often its menu is opened or shown, a function has one layer for the
\* marker that is set on it and one more for each marker that could not be:
\* nothing else wraps a wrap, and a refused hook leaves no marker behind.
WrappedOnce ==
  \A k \in Functions : layers[k] = lost[k] + IF marked[k] THEN 1 ELSE 0

\* On an old runtime I4 never does its own lookup in the Favorites menu, which
\* crashes the game, unless a write to the movie failed; what it finds instead
\* is the player's override, or else what the file says.
NoOwnLookup ==
  /\ crashed => refused
  /\ OldRuntime /\ movie = FavoritesMenu /\ preset # None =>
       preset = IF mcm # None THEN mcm ELSE FileSetting = TRUE

\* With the features on, I4 sees every favourite with the keywords of the form
\* that its id names now, also one whose id named another form in an earlier
\* game.  It sees none only if the form has none, the entry could not be
\* reached, or the write failed.
KeywordsReachI4 ==
  movie = FavoritesMenu /\ seen # None =>
    \A f \in Ids :
      \/ seen[f] = owner[f] /\ owner[f] \in KeywordForms
      \/ seen[f] = None /\ (owner[f] \in KeywordForms => f \in unfilled)

=============================================================================
