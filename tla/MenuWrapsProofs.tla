--------------------------- MODULE MenuWrapsProofs --------------------------
(***************************************************************************)
(* Proofs about MenuWraps, for all menus, form ids and settings; and about *)
(* ConsoleCommand, that the console does what is documented of its         *)
(* commands, for every line that can be typed and every set of items on    *)
(* display, and that the form ids it prints can be typed again.            *)
(***************************************************************************)
EXTENDS MenuWraps, ConsoleCommand, FiniteSetTheorems, WellFoundedInduction, TLAPS

\* The Favorites list of a menu that is shown is wrapped, if it could be.
ShownIsWrapped ==
  shown /\ "favorites" \in has /\ ~refused => layers["favorites"] > 0

\* What I4 saw of an entry is what it should have been, or excused.
SeenRight(f) ==
  \/ seen[f] = owner[f] /\ owner[f] \in KeywordForms
  \/ seen[f] = None /\ (owner[f] \in KeywordForms => f \in unfilled)

\* Keywords, and the forms remembered to take them from, are never another
\* form's: a static id names one form for good, and no id is reused while
\* entries are on display.
OwnKeywords ==
  /\ \A f \in Ids \ RuntimeIds : memoized[f] \in {None, owner[f]}
  /\ movie # None =>
       \A f \in Ids : keywords[f] # None => keywords[f] = owner[f] /\ owner[f] \in KeywordForms
  /\ movie # None /\ seen # None => \A f \in Ids : SeenRight(f)

\* The member is what the lookup gives, until the menu is closed.
PresetIsSetting ==
  movie # None /\ preset # None => preset = IF mcm # None THEN mcm ELSE FileSetting = TRUE

IInv ==
  /\ TypeOK
  /\ WrappedOnce
  /\ ShownIsWrapped
  /\ crashed => refused
  /\ PresetIsSetting
  /\ OwnKeywords

\* The invariant holds at the start: nothing is open, wrapped or remembered.
LEMMA InitIInv == Init => IInv
  <1> SUFFICES ASSUME Init PROVE IInv
    OBVIOUS
  <1>1. TypeOK
    <2>1. layers \in [Functions -> 0..MaxLayers] /\ \A k \in Functions \ has : layers[k] = 0
      <3>1. 0 \in 0..MaxLayers
        BY WrapConstants
      <3> QED
        BY <3>1 DEF Init
    <2>2. marked \in [Functions -> BOOLEAN] /\ lost \in [Functions -> 0..MaxLayers]
      BY <2>1 DEF Init
    <2>3. /\ memoized \in [Ids -> Owners \cup {None}]
          /\ keywords \in [Ids -> Owners \cup {None}]
          /\ seen \in [Ids -> Owners \cup {None}] \cup {None}
          /\ unfilled \subseteq Ids
      BY DEF Init, NoEntries
    <2> QED
      BY <2>1, <2>2, <2>3, Zenon DEF Init, TypeOK
  <1>2. WrappedOnce
    BY DEF Init, WrappedOnce
  <1>3. ShownIsWrapped /\ (crashed => refused) /\ PresetIsSetting
    BY DEF Init, ShownIsWrapped, PresetIsSetting
  <1>4. OwnKeywords
    BY DEF Init, OwnKeywords, NoEntries, Ids
  <1> QED
    BY <1>1, <1>2, <1>3, <1>4 DEF IInv

\* Replacing functions keeps the types and the count of layers, gives layers
\* only to functions that are there, and leaves no function unwrapped that is
\* there and could be replaced.
LEMMA WrapKeeps ==
  ASSUME TypeOK, WrappedOnce, NEW ks \in SUBSET Functions, NEW done \in Outcomes,
         Wrap(ks, done)
  PROVE /\ layers' \in [Functions -> 0..MaxLayers]
        /\ \A k \in Functions \ has : layers'[k] = 0
        /\ marked' \in [Functions -> BOOLEAN] /\ lost' \in [Functions -> 0..MaxLayers]
        /\ WrappedOnce'
        /\ \A k \in Functions \ ks : layers'[k] = layers[k]
        /\ \A k \in ks \cap has : marked[k] \/ done[k] # "refused" => layers'[k] > 0
  <1>1. PICK todo \in SUBSET Functions :
          /\ todo = {k \in ks \cap has : ~marked[k] /\ done[k] # "refused"}
          /\ \A k \in todo : layers[k] < MaxLayers
          /\ layers' = [k \in Functions |-> IF k \in todo THEN layers[k] + 1 ELSE layers[k]]
          /\ marked' = [k \in Functions |-> IF k \in todo THEN done[k] = "wrapped" ELSE marked[k]]
          /\ lost' = [k \in Functions |->
                        IF k \in todo /\ done[k] = "unmarked" THEN lost[k] + 1 ELSE lost[k]]
    BY DEF Wrap
  <1>2. ASSUME NEW k \in Functions
        PROVE /\ layers[k] \in 0..MaxLayers /\ marked[k] \in BOOLEAN /\ lost[k] \in 0..MaxLayers
              /\ layers[k] = lost[k] + IF marked[k] THEN 1 ELSE 0
    BY <1>2 DEF TypeOK, WrappedOnce
  <1>3. ASSUME NEW k \in Functions
        PROVE /\ layers'[k] = IF k \in todo THEN layers[k] + 1 ELSE layers[k]
              /\ marked'[k] = IF k \in todo THEN done[k] = "wrapped" ELSE marked[k]
              /\ lost'[k] = IF k \in todo /\ done[k] = "unmarked" THEN lost[k] + 1 ELSE lost[k]
              /\ layers'[k] \in 0..MaxLayers
    BY <1>1, <1>2, WrapConstants, SMT
  <1>4. ASSUME NEW k \in todo
        PROVE /\ layers[k] = lost[k]
              /\ \/ marked'[k] /\ lost'[k] = lost[k]
                 \/ ~marked'[k] /\ lost'[k] = lost[k] + 1
    <2>1. done[k] \in {"wrapped", "unmarked"} /\ ~marked[k]
      BY <1>1 DEF Outcomes
    <2>2. layers[k] = lost[k]
      BY <1>2, <2>1
    <2> QED
      BY <1>3, <2>1, <2>2
  <1>5. ASSUME NEW k \in Functions
        PROVE layers'[k] = lost'[k] + IF marked'[k] THEN 1 ELSE 0
    BY <1>2, <1>3, <1>4
  <1>6. ASSUME NEW k \in Functions PROVE lost'[k] \in 0..MaxLayers
    BY <1>2, <1>3, <1>4, WrapConstants
  <1>7. layers' \in [Functions -> 0..MaxLayers] /\ lost' \in [Functions -> 0..MaxLayers]
    BY <1>1, <1>3, <1>6, SMT
  <1>8. marked' \in [Functions -> BOOLEAN]
    BY <1>1, <1>2, Zenon
  <1>9. \A k \in Functions \ has : layers'[k] = 0
    BY <1>1, <1>3 DEF TypeOK
  <1>10. \A k \in Functions \ ks : layers'[k] = layers[k]
    BY <1>1, <1>3
  <1>11. ASSUME NEW k \in ks \cap has, marked[k] \/ done[k] # "refused"
         PROVE layers'[k] > 0
    <2>1. k \in Functions
      OBVIOUS
    <2>2. CASE k \in todo
      BY <1>2, <1>3, <2>1, <2>2, SMT
    <2>3. CASE k \notin todo
      <3>1. marked[k]
        BY <1>1, <1>11, <2>3
      <3> QED
        BY <1>2, <1>3, <2>1, <2>3, <3>1
    <2> QED
      BY <2>2, <2>3
  <1> QED
    BY <1>5, <1>7, <1>8, <1>9, <1>10, <1>11 DEF WrappedOnce

-----------------------------------------------------------------------------

\* What the menu-open event does to the wraps keeps the invariant.
LEMMA EventKeeps ==
  ASSUME IInv, NEW done \in Outcomes, ProcessEvent(done) PROVE IInv'
  <1> USE DEF IInv
  <1>1. Wrap(ItemFunctions, done) /\ ItemFunctions \in SUBSET Functions
    BY DEF ProcessEvent, Functions
  <1>2. /\ layers' \in [Functions -> 0..MaxLayers]
        /\ \A k \in Functions \ has : layers'[k] = 0
        /\ marked' \in [Functions -> BOOLEAN] /\ lost' \in [Functions -> 0..MaxLayers]
        /\ WrappedOnce'
        /\ \A k \in Functions \ ItemFunctions : layers'[k] = layers[k]
    BY <1>1, WrapKeeps
  <1>3. TypeOK'
    BY <1>2, Zenon DEF ProcessEvent, TypeOK, favoritesVars
  <1>4. ShownIsWrapped'
    <2>1. layers'["favorites"] = layers["favorites"]
      BY <1>2 DEF Functions, ItemFunctions
    <2> QED
      BY <2>1 DEF ProcessEvent, ShownIsWrapped, favoritesVars
  <1>5. (crashed => refused)' /\ PresetIsSetting' /\ OwnKeywords'
    BY DEF ProcessEvent, PresetIsSetting, OwnKeywords, SeenRight, favoritesVars
  <1> QED
    BY <1>2, <1>3, <1>4, <1>5

\* Showing the Favorites menu keeps it.
LEMMA MessageKeeps ==
  ASSUME IInv, NEW done \in Outcomes, ProcessMessage(done) PROVE IInv'
  <1> USE DEF IInv
  <1>1. Wrap({"favorites"}, done) /\ {"favorites"} \in SUBSET Functions
    BY DEF ProcessMessage, Functions
  <1>2. /\ layers' \in [Functions -> 0..MaxLayers]
        /\ \A k \in Functions \ has : layers'[k] = 0
        /\ marked' \in [Functions -> BOOLEAN] /\ lost' \in [Functions -> 0..MaxLayers]
        /\ WrappedOnce'
        /\ \A k \in {"favorites"} \cap has : marked[k] \/ done[k] # "refused" => layers'[k] > 0
    BY <1>1, WrapKeeps
  <1>3. TypeOK'
    <2>1. refused' \in BOOLEAN
      BY DEF ProcessMessage
    <2> QED
      BY <1>2, <2>1, Zenon DEF ProcessMessage, TypeOK
  <1>4. ShownIsWrapped'
    BY <1>2 DEF ProcessMessage, ShownIsWrapped, Refuses
  <1>5. (crashed => refused)' /\ PresetIsSetting' /\ OwnKeywords'
    BY DEF ProcessMessage, PresetIsSetting, OwnKeywords, SeenRight
  <1> QED
    BY <1>2, <1>3, <1>4, <1>5

\* Filling in keywords gives the entries those of their own forms, and I4 sees
\* them; the forms it remembers are those of the ids.
LEMMA FillKeeps ==
  ASSUME TypeOK, OwnKeywords, movie # None, owner' = owner, features,
         NEW found \in SUBSET Ids, NEW writable \in SUBSET Ids,
         FillStep(found, writable), seen' = keywords'
  PROVE /\ keywords' \in [Ids -> Owners \cup {None}] /\ memoized' \in [Ids -> Owners \cup {None}]
        /\ unfilled' \subseteq Ids
        /\ \A f \in Ids : keywords'[f] # None => keywords'[f] = owner[f] /\ owner[f] \in KeywordForms
        /\ \A f \in Ids \ RuntimeIds : memoized'[f] \in {None, owner[f]}
        /\ \A f \in Ids : SeenRight(f)'
  <1> DEFINE missing == {f \in found : keywords[f] = None}
             looked == {f \in missing : Remembers(f)}
             filled == {f \in missing \cap writable : FindKeywordForm(f) \in KeywordForms}
  <1>1. /\ keywords' = [f \in Ids |-> IF f \in filled THEN FindKeywordForm(f) ELSE keywords[f]]
        /\ memoized' = [f \in Ids |-> IF f \in looked THEN FindKeywordForm(f) ELSE memoized[f]]
        /\ unfilled' = Ids \ (found \cap writable)
    BY DEF FillStep
  <1>2. ASSUME NEW f \in Ids
        PROVE /\ FindKeywordForm(f) = owner[f] /\ owner[f] \in Owners /\ owner[f] # None
              /\ keywords[f] \in Owners \cup {None} /\ memoized[f] \in Owners \cup {None}
    BY WrapConstants DEF FindKeywordForm, Remembers, OwnKeywords, TypeOK
  <1>3. /\ keywords' \in [Ids -> Owners \cup {None}]
        /\ memoized' \in [Ids -> Owners \cup {None}] /\ unfilled' \subseteq Ids
    BY <1>1, <1>2
  <1>4. ASSUME NEW f \in Ids, keywords'[f] # None
        PROVE  keywords'[f] = owner[f] /\ owner[f] \in KeywordForms
    BY <1>1, <1>2, <1>4 DEF OwnKeywords
  <1>5. ASSUME NEW f \in Ids \ RuntimeIds PROVE memoized'[f] \in {None, owner[f]}
    BY <1>1, <1>2 DEF OwnKeywords
  <1>6. ASSUME NEW f \in Ids PROVE SeenRight(f)'
    <2>1. CASE keywords'[f] # None
      BY <1>4, <2>1 DEF SeenRight
    <2>2. ASSUME keywords'[f] = None, owner[f] \in KeywordForms PROVE f \in unfilled'
      <3>1. f \notin filled
        BY <1>1, <1>2, <2>2
      <3>2. keywords[f] = None
        BY <1>1, <2>2, <3>1
      <3> QED
        BY <1>1, <1>2, <2>2, <3>1, <3>2
    <2> QED
      BY <2>1, <2>2 DEF SeenRight
  <1> QED
    BY <1>3, <1>4, <1>5, <1>6

\* The Favorites list runs: the wrap has given I4 the setting and keywords.
LEMMA FavoritesKeeps ==
  ASSUME IInv, ~crashed, NEW settable \in BOOLEAN,
         NEW found \in SUBSET Ids, NEW writable \in SUBSET Ids,
         FavoritesProcessList(settable, found, writable)
  PROVE IInv'
  <1> USE DEF IInv
  <1>1. /\ movie = FavoritesMenu /\ "favorites" \in has /\ shown /\ movie # None
        /\ UNCHANGED <<loaded, features, movie, has, layers, marked, lost, shown, mcm, owner>>
    BY WrapConstants DEF FavoritesProcessList, wrapVars
  <1>2. CASE layers["favorites"] > 0
    <2>1. /\ PresetStep(settable) /\ FillStep(found, writable)
          /\ crashed' = (OldRuntime /\ preset' = None)
          /\ seen' = IF features THEN keywords' ELSE seen
      BY <1>2 DEF FavoritesProcessList, RunPreSteps
    <2>2. /\ preset' \in BOOLEAN \cup {None} /\ refused' \in BOOLEAN
          /\ (OldRuntime /\ preset' = None => refused')
          /\ (refused => refused')
          /\ (preset' # preset => preset' = ReadNoIconColors)
      <3>1. ReadNoIconColors \in BOOLEAN /\ ReadNoIconColors # None
        BY WrapConstants DEF ReadNoIconColors, TypeOK
      <3> QED
        BY <2>1, <3>1 DEF PresetStep, TypeOK
    <2>3. /\ keywords' \in [Ids -> Owners \cup {None}] /\ memoized' \in [Ids -> Owners \cup {None}]
          /\ seen' \in [Ids -> Owners \cup {None}] \cup {None} /\ unfilled' \subseteq Ids
          /\ OwnKeywords'
      <3>1. CASE features
        <4>1. seen' = keywords'
          BY <2>1, <3>1
        <4>2. /\ keywords' \in [Ids -> Owners \cup {None}]
              /\ memoized' \in [Ids -> Owners \cup {None}] /\ unfilled' \subseteq Ids
              /\ \A f \in Ids : keywords'[f] # None => keywords'[f] = owner[f] /\ owner[f] \in KeywordForms
              /\ \A f \in Ids \ RuntimeIds : memoized'[f] \in {None, owner[f]}
              /\ \A f \in Ids : SeenRight(f)'
          BY <1>1, <2>1, <3>1, <4>1, FillKeeps
        <4> QED
          BY <1>1, <4>1, <4>2 DEF OwnKeywords
      <3>2. CASE ~features
        <4>1. UNCHANGED <<keywords, memoized, unfilled, seen>>
          BY <2>1, <3>2 DEF FillStep
        <4> QED
          BY <1>1, <4>1 DEF TypeOK, OwnKeywords, SeenRight
      <3> QED
        BY <3>1, <3>2, <1>1 DEF TypeOK
    <2>4. crashed' \in BOOLEAN /\ (crashed' => refused')
      BY <2>1, <2>2
    <2>5. TypeOK'
      BY <1>1, <2>2, <2>3, <2>4, Zenon DEF TypeOK
    <2>6. PresetIsSetting'
      BY <1>1, <2>2 DEF PresetIsSetting, ReadNoIconColors
    <2>7. WrappedOnce' /\ ShownIsWrapped'
      BY <1>1, <1>2 DEF WrappedOnce, ShownIsWrapped
    <2> QED
      BY <2>3, <2>4, <2>5, <2>6, <2>7
  <1>3. CASE ~(layers["favorites"] > 0)
    <2>1. /\ crashed' = (OldRuntime /\ preset = None) /\ refused
          /\ UNCHANGED <<preset, refused, keywords, memoized, unfilled, seen>>
      BY <1>1, <1>3 DEF FavoritesProcessList, ShownIsWrapped
    <2>2. TypeOK'
      <3>1. crashed' \in BOOLEAN
        BY <2>1
      <3> QED
        BY <1>1, <2>1, <3>1, Zenon DEF TypeOK
    <2>3. PresetIsSetting' /\ OwnKeywords' /\ (crashed => refused)'
      BY <1>1, <2>1 DEF PresetIsSetting, OwnKeywords, SeenRight
    <2>4. WrappedOnce' /\ ShownIsWrapped'
      BY <1>1, <2>1 DEF WrappedOnce, ShownIsWrapped
    <2> QED
      BY <2>2, <2>3, <2>4
  <1> QED
    BY <1>2, <1>3

\* A new movie has no wraps, and nothing is preset or filled in it.
LEMMA OpenKeeps ==
  ASSUME IInv, ~crashed, NEW m \in Menus,
         NEW there \in SUBSET FunctionsOf(m), OpenMenu(m, there)
  PROVE IInv'
  <1> USE DEF IInv
  <1>1. there \subseteq Functions
    BY DEF FunctionsOf, Functions, Menus
  <1>2. TypeOK'
    <2>1. /\ layers' \in [Functions -> 0..MaxLayers] /\ lost' \in [Functions -> 0..MaxLayers]
          /\ \A k \in Functions \ has' : layers'[k] = 0
      BY WrapConstants DEF OpenMenu
    <2>2. marked' \in [Functions -> BOOLEAN]
      BY DEF OpenMenu
    <2>3. keywords' \in [Ids -> Owners \cup {None}]
      BY DEF OpenMenu, NoEntries
    <2>4. /\ movie' \in Menus \cup {None} /\ has' \subseteq Functions
          /\ shown' \in BOOLEAN /\ refused' \in BOOLEAN
          /\ preset' \in BOOLEAN \cup {None} /\ unfilled' \subseteq Ids
          /\ seen' \in [Ids -> Owners \cup {None}] \cup {None}
      BY <1>1 DEF OpenMenu
    <2> QED
      BY <2>1, <2>2, <2>3, <2>4, Zenon DEF OpenMenu, TypeOK
  <1>3. WrappedOnce'
    BY DEF OpenMenu, WrappedOnce
  <1>4. ShownIsWrapped' /\ (crashed => refused)' /\ PresetIsSetting'
    BY DEF OpenMenu, ShownIsWrapped, PresetIsSetting
  <1>5. OwnKeywords'
    BY DEF OpenMenu, OwnKeywords, NoEntries
  <1> QED
    BY <1>2, <1>3, <1>4, <1>5

\* Every step of the game keeps the invariant.
LEMMA StepKeeps == ASSUME IInv, [Next]_vars PROVE IInv'
  <1> USE DEF IInv
  <1>1. CASE UNCHANGED vars
    BY <1>1 DEF vars, wrapVars, favoritesVars, TypeOK, WrappedOnce, ShownIsWrapped,
                PresetIsSetting, OwnKeywords, SeenRight
  <1>2. ASSUME UNCHANGED <<has, wrapVars, favoritesVars>>,
               DataLoaded \/ CloseMenu \/ (\E on \in BOOLEAN : SetFeatures(on))
        PROVE IInv'
    <2>1. /\ loaded' \in BOOLEAN /\ features' \in BOOLEAN
          /\ movie' \in {movie, None} /\ UNCHANGED <<mcm, owner>>
      BY <1>2 DEF DataLoaded, CloseMenu, SetFeatures, TypeOK
    <2>2. TypeOK'
      <3>1. movie' \in Menus \cup {None}
        BY <2>1 DEF TypeOK
      <3> QED
        BY <1>2, <2>1, <3>1, Zenon DEF TypeOK, wrapVars, favoritesVars
    <2>3. WrappedOnce' /\ ShownIsWrapped' /\ (crashed => refused)'
      BY <1>2 DEF WrappedOnce, ShownIsWrapped, wrapVars, favoritesVars
    <2>4. PresetIsSetting' /\ OwnKeywords'
      BY <1>2, <2>1 DEF PresetIsSetting, OwnKeywords, SeenRight, favoritesVars
    <2> QED
      BY <2>2, <2>3, <2>4
  <1>3. ASSUME ~crashed, Running PROVE IInv'
    <2>1. CASE DataLoaded \/ CloseMenu \/ (\E on \in BOOLEAN : SetFeatures(on))
      BY <1>2, <2>1 DEF DataLoaded, CloseMenu, SetFeatures
    <2>2. ASSUME NEW m \in Menus, NEW there \in SUBSET FunctionsOf(m), OpenMenu(m, there)
          PROVE IInv'
      BY <1>3, <2>2, OpenKeeps
    <2>3. ASSUME NEW f \in RuntimeIds, NEW form \in Owners, ReuseId(f, form) PROVE IInv'
      <3>1. /\ movie = None /\ owner' = [owner EXCEPT ![f] = form]
            /\ UNCHANGED <<loaded, features, movie, has, wrapVars, favoritesVars, mcm>>
        BY <2>3 DEF ReuseId
      <3>2. owner' \in [Ids -> Owners]
        BY <3>1 DEF TypeOK
      <3>3. TypeOK'
        <4>1. /\ loaded' = loaded /\ features' = features /\ movie' = movie /\ has' = has
              /\ layers' = layers /\ marked' = marked /\ lost' = lost
              /\ shown' = shown /\ preset' = preset /\ refused' = refused
              /\ crashed' = crashed /\ memoized' = memoized /\ keywords' = keywords
              /\ unfilled' = unfilled /\ seen' = seen /\ mcm' = mcm
          BY <3>1 DEF wrapVars, favoritesVars
        <4> QED
          BY <3>2, <4>1, SMT DEF TypeOK
      <3>4. OwnKeywords'
        BY <3>1 DEF OwnKeywords, favoritesVars, TypeOK
      <3>5. WrappedOnce' /\ ShownIsWrapped' /\ (crashed => refused)' /\ PresetIsSetting'
        BY <3>1 DEF WrappedOnce, ShownIsWrapped, PresetIsSetting, wrapVars, favoritesVars
      <3> QED
        BY <3>3, <3>4, <3>5
    <2>4. ASSUME NEW v \in BOOLEAN \cup {None}, SetMcm(v) PROVE IInv'
      <3>1. /\ movie = None /\ mcm' \in BOOLEAN \cup {None}
            /\ UNCHANGED <<loaded, features, movie, has, wrapVars, favoritesVars, owner>>
        BY <2>4 DEF SetMcm
      <3>2. TypeOK'
        BY <3>1, Zenon DEF TypeOK, wrapVars, favoritesVars
      <3>3. /\ WrappedOnce' /\ ShownIsWrapped' /\ (crashed => refused)'
            /\ PresetIsSetting' /\ OwnKeywords'
        BY <3>1 DEF WrappedOnce, ShownIsWrapped, PresetIsSetting, OwnKeywords, SeenRight,
                    wrapVars, favoritesVars
      <3> QED
        BY <3>2, <3>3
    <2>5. CASE RefillFavorites
      <3>1. /\ keywords' \in [Ids -> Owners \cup {None}] /\ seen' = None
            /\ unfilled' \subseteq Ids /\ \A f \in Ids : keywords'[f] = None
        BY <2>5 DEF RefillFavorites, NoEntries
      <3>2. TypeOK'
        <4>1. seen' \in [Ids -> Owners \cup {None}] \cup {None}
          BY <3>1
        <4>2. /\ loaded' = loaded /\ features' = features /\ movie' = movie /\ has' = has
              /\ layers' = layers /\ marked' = marked /\ lost' = lost
              /\ shown' = shown /\ preset' = preset /\ refused' = refused
              /\ crashed' = crashed /\ memoized' = memoized /\ mcm' = mcm /\ owner' = owner
          BY <2>5 DEF RefillFavorites, wrapVars
        <4> QED
          BY <3>1, <4>1, <4>2, SMT DEF TypeOK
      <3>3. /\ WrappedOnce' /\ ShownIsWrapped' /\ (crashed => refused)'
            /\ PresetIsSetting' /\ OwnKeywords'
        BY <2>5, <3>1 DEF RefillFavorites, WrappedOnce, ShownIsWrapped, PresetIsSetting,
                          OwnKeywords, wrapVars
      <3> QED
        BY <3>2, <3>3
    <2>6. ASSUME NEW done \in Outcomes, ProcessEvent(done) \/ ProcessMessage(done) PROVE IInv'
      BY <2>6, EventKeeps, MessageKeeps
    <2>7. ASSUME NEW settable \in BOOLEAN, NEW found \in SUBSET Ids, NEW writable \in SUBSET Ids,
                 FavoritesProcessList(settable, found, writable)
          PROVE IInv'
      BY <1>3, <2>7, FavoritesKeeps
    <2> QED
      BY <1>3, <2>1, <2>2, <2>3, <2>4, <2>5, <2>6, <2>7, Zenon DEF Running
  <1> QED
    BY <1>1, <1>3 DEF Next

\* The invariant holds throughout.
THEOREM Invariance == Spec => []IInv
  BY InitIInv, StepKeeps, PTL DEF Spec

\* Every variable keeps its type, and only functions a movie has are wrapped.
THEOREM WrapsTypeCorrect == Spec => []TypeOK
  BY Invariance, PTL DEF IInv

\* Whatever menus open and however often they are shown, a function is wrapped
\* once in a movie, and once more for each marker that could not be set.
THEOREM NeverWrappedTwice == Spec => []WrappedOnce
  BY Invariance, PTL DEF IInv

\* On an old runtime I4's fatal lookup never runs in the Favorites menu.
THEOREM FavoritesDontCrash == Spec => []NoOwnLookup
  <1>1. IInv => NoOwnLookup
    BY WrapConstants DEF IInv, NoOwnLookup, PresetIsSetting
  <1> QED
    BY <1>1, Invariance, PTL

\* I4 sees every favourite with its own form's keywords, or with none when that
\* form has none or they could not be written.
THEOREM FavoritesKeywords == Spec => []KeywordsReachI4
  <1>1. IInv => KeywordsReachI4
    BY WrapConstants DEF IInv, KeywordsReachI4, OwnKeywords, SeenRight
  <1> QED
    BY <1>1, Invariance, PTL

-----------------------------------------------------------------------------
(* The console *)

\* The characters of words.  The others are strings as well, but the provers do
\* not take a literal for a member of STRING.
Characters ==
  UNION {STRING, {p[1] : p \in LowerCase}, {p[2] : p \in LowerCase}, Digits, {"invalidate"}}
Texts == Seq(Characters)
Sentences == Seq(Texts)

-----------------------------------------------------------------------------
(* Words of a line *)

\* How many of the positions are not behind i.
UpTo(positions, i) == Cardinality({j \in positions : j <= i})

\* Positions are finitely many.
LEMMA CountType ==
  ASSUME NEW size \in Nat, NEW positions \in SUBSET (1..size)
  PROVE  IsFiniteSet(positions) /\ Cardinality(positions) \in Nat
<1>1. IsFiniteSet(1..size)
  BY FS_Interval
<1>2. IsFiniteSet(positions)
  BY <1>1, FS_Subset
<1>. QED
  BY <1>2, FS_CardinalityType

\* Counting goes up by one at each of the positions, from none before the
\* first.
LEMMA UpToStep ==
  ASSUME NEW size \in Nat, NEW positions \in SUBSET (1..size)
  PROVE  /\ UpTo(positions, 0) = 0 /\ UpTo(positions, size) = Cardinality(positions)
         /\ \A i \in 1..size :
              UpTo(positions, i) = UpTo(positions, i - 1) + (IF i \in positions THEN 1 ELSE 0)
         /\ \A i \in 0..size : UpTo(positions, i) \in Nat
<1>1. IsFiniteSet(positions)
  BY CountType
<1>2. \A i \in 0..size : IsFiniteSet({j \in positions : j <= i})
  BY <1>1, FS_Subset
<1>3. \A i \in 0..size : UpTo(positions, i) \in Nat
  BY <1>2, FS_CardinalityType DEF UpTo
<1>0. \A j \in positions : j \in Nat /\ 1 <= j /\ j <= size
  OBVIOUS
<1>4. {j \in positions : j <= 0} = {} /\ {j \in positions : j <= size} = positions
  <2>1. {j \in positions : j <= 0} = {}
    <3>1. \A j \in positions : ~(j <= 0)
      BY <1>0
    <3>. QED
      BY <3>1
  <2>2. {j \in positions : j <= size} = positions
    BY <1>0
  <2>. QED
    BY <2>1, <2>2
<1>5. UpTo(positions, 0) = 0 /\ UpTo(positions, size) = Cardinality(positions)
  BY <1>4, FS_EmptySet DEF UpTo
<1>6. ASSUME NEW i \in 1..size
      PROVE  UpTo(positions, i) = UpTo(positions, i - 1) + (IF i \in positions THEN 1 ELSE 0)
  <2>1. i - 1 \in 0..size /\ i \notin {j \in positions : j <= i - 1}
    OBVIOUS
  <2>2. \A j \in positions : j <= i <=> j <= i - 1 \/ j = i
    BY <1>0
  <2>3. CASE i \in positions
    <3>1. {j \in positions : j <= i} = {j \in positions : j <= i - 1} \cup {i}
      BY <2>2, <2>3
    <3>. QED
      BY <1>2, <2>1, <2>3, <3>1, FS_AddElement DEF UpTo
  <2>4. CASE i \notin positions
    <3>1. {j \in positions : j <= i} = {j \in positions : j <= i - 1}
      BY <2>2, <2>4
    <3>. QED
      BY <1>3, <2>1, <2>4, <3>1 DEF UpTo
  <2>. QED
    BY <2>3, <2>4
<1>. QED
  BY <1>3, <1>5, <1>6

\* A set of numbers has a least one.
LEMMA LeastNumber ==
  ASSUME NEW S \in SUBSET Nat, S # {}
  PROVE  \E n \in S : \A m \in S : n <= m
<1>1. IsWellFoundedOn(OpToRel(<, Nat), Nat)
  BY NatLessThanWellFounded, Zenon
<1>2. PICK n \in S : \A m \in S : <<m, n>> \notin OpToRel(<, Nat)
  BY <1>1, WFMin, Zenon
<1>3. \A m \in S : ~(m < n)
  BY <1>2 DEF OpToRel
<1>. QED
  BY <1>3

\* As many positions have a number as there are positions.
LEMMA PlaceExists ==
  ASSUME NEW size \in Nat, NEW positions \in SUBSET (1..size),
         NEW n \in 1..Cardinality(positions)
  PROVE  /\ Place(positions, n) \in positions
         /\ UpTo(positions, Place(positions, n)) = n
<1>. DEFINE S == {i \in 0..size : n <= UpTo(positions, i)}
<1>0. /\ UpTo(positions, 0) = 0 /\ UpTo(positions, size) = Cardinality(positions)
      /\ \A i \in 1..size :
           UpTo(positions, i) = UpTo(positions, i - 1) + (IF i \in positions THEN 1 ELSE 0)
      /\ \A i \in 0..size : UpTo(positions, i) \in Nat
  BY UpToStep
<1>1. Cardinality(positions) \in Nat
  BY <1>0
<1>2. size \in S
  BY <1>0, <1>1
<1>3. PICK i \in S : \A m \in S : i <= m
  <2>1. S \in SUBSET Nat /\ S # {}
    BY <1>2
  <2>. HIDE DEF S
  <2>. QED
    BY <2>1, LeastNumber
<1>4. i # 0
  BY <1>3, <1>0
<1>5. i \in 1..size /\ i - 1 \in 0..size /\ i - 1 \notin S
  BY <1>3, <1>4
<1>6. UpTo(positions, i - 1) < n
  BY <1>1, <1>5, <1>0
<1>7. UpTo(positions, i) = UpTo(positions, i - 1) + (IF i \in positions THEN 1 ELSE 0)
  BY <1>5, <1>0
<1>8. i \in positions /\ UpTo(positions, i) = n
  BY <1>1, <1>3, <1>5, <1>6, <1>7, <1>0
<1>. QED
  BY <1>8 DEF Place, UpTo

\* Every character that the console tells apart is one.
LEMMA CharacterFacts ==
  /\ Digits \subseteq Characters /\ {"0", "x", "X", "I5", "i5", "invalidate"} \subseteq Characters
  /\ \A p \in LowerCase : p[1] \in Characters /\ p[2] \in Characters
<1>1. Digits \subseteq Characters
  BY DEF Characters
<1>6. "invalidate" \in Characters
  BY DEF Characters
<1>2. \A p \in LowerCase : p[1] \in Characters /\ p[2] \in Characters
  BY DEF Characters
<1>3. <<"I5", "i5">> \in LowerCase /\ <<"X", "x">> \in LowerCase
  BY DEF LowerCase
<1>4. "I5" \in Characters /\ "i5" \in Characters /\ "X" \in Characters /\ "x" \in Characters
  BY <1>2, <1>3
<1>5. "0" \in Digits
  BY DEF Digits
<1>. QED
  BY <1>1, <1>2, <1>4, <1>5, <1>6

\* Lower case of a character is a character.
LEMMA LowerType == \A c \in Characters : Lower(c) \in Characters
BY CharacterFacts DEF Lower

\* A word in lower case is a word.
LEMMA LowerWordType ==
  ASSUME NEW word \in Texts
  PROVE  LowerWord(word) \in Texts /\ Len(LowerWord(word)) = Len(word)
<1>1. DOMAIN word = 1..Len(word) /\ Len(word) \in Nat
  BY DEF Texts
<1>2. \A i \in 1..Len(word) : word[i] \in Characters
  BY DEF Texts
<1>3. LowerWord(word) = [j \in 1..Len(word) |-> Lower(word[j])]
  BY <1>1 DEF LowerWord
<1>4. LowerWord(word) \in [1..Len(word) -> Characters]
  BY <1>2, <1>3, LowerType
<1>5. LowerWord(word) \in Texts
  BY <1>1, <1>4 DEF Texts
<1>. QED
  BY <1>1, <1>3, <1>5

\* A line is read as a sequence of words.
LEMMA TokensType ==
  ASSUME NEW line \in Sentences
  PROVE  Tokenize(line) \in Sentences
<1>. DEFINE words == {i \in DOMAIN line : line[i] # Blank}
<1>1. DOMAIN line = 1..Len(line) /\ Len(line) \in Nat
  BY DEF Sentences
<1>2. words \in SUBSET (1..Len(line))
  BY <1>1
<1>. HIDE DEF words
<1>3. Cardinality(words) \in Nat
  BY <1>1, <1>2, CountType
<1>4. \A n \in 1..Cardinality(words) : Place(words, n) \in 1..Len(line)
  BY <1>1, <1>2, PlaceExists
<1>5. \A i \in 1..Len(line) : line[i] \in Texts
  BY DEF Sentences
<1>6. \A n \in 1..Cardinality(words) : LowerWord(line[Place(words, n)]) \in Texts
  BY <1>4, <1>5, LowerWordType
<1>7. [n \in 1..Cardinality(words) |-> LowerWord(line[Place(words, n)])]
        \in [1..Cardinality(words) -> Texts]
  BY <1>6
<1>8. Tokenize(line) = [n \in 1..Cardinality(words) |-> LowerWord(line[Place(words, n)])]
  BY DEF Tokenize, words
<1>9. Tokenize(line) \in [1..Cardinality(words) -> Texts]
  BY <1>7, <1>8
<1>. QED
  BY <1>3, <1>9 DEF Sentences

\* A line without blanks is read word by word.
LEMMA WholeLine ==
  ASSUME NEW line \in Sentences, \A i \in DOMAIN line : line[i] # Blank
  PROVE  Tokenize(line) = [n \in 1..Len(line) |-> LowerWord(line[n])]
<1>1. DOMAIN line = 1..Len(line) /\ Len(line) \in Nat
  BY DEF Sentences
<1>2. {i \in DOMAIN line : line[i] # Blank} = 1..Len(line)
  BY <1>1
<1>3. Cardinality(1..Len(line)) = Len(line)
  BY <1>1, FS_Interval
<1>4. ASSUME NEW n \in 1..Len(line)
      PROVE  Place(1..Len(line), n) = n
  <2>1. Place(1..Len(line), n) \in 1..Len(line) /\ UpTo(1..Len(line), Place(1..Len(line), n)) = n
    BY <1>1, <1>3, PlaceExists
  <2>2. ASSUME NEW i \in 1..Len(line)
        PROVE  UpTo(1..Len(line), i) = i
    <3>1. {j \in 1..Len(line) : j <= i} = 1..i
      BY <1>1
    <3>2. Cardinality(1..i) = i
      <4>1. i \in Int /\ 1 \in Int /\ 1 <= i
        BY <1>1
      <4>. QED
        BY <4>1, FS_Interval
    <3>. QED
      BY <3>1, <3>2 DEF UpTo
  <2>. QED
    BY <2>1, <2>2
<1>. QED
  BY <1>2, <1>3, <1>4 DEF Tokenize

-----------------------------------------------------------------------------
(* Form ids *)

FormIds == [1..8 -> Digits]

\* Upper case is undone by lower case, for hexadecimal digits.
LEMMA DigitCase == \A c \in Digits : Lower(Upper(c)) = c /\ Lower(c) = c
<1>1. \A p, q \in LowerCase : (p[1] = q[1] <=> p = q) /\ (p[2] = q[2] <=> p = q)
  BY DEF LowerCase
<1>2. \A p \in LowerCase : p[1] \notin Digits
  BY DEF LowerCase, Digits
<1>3. ASSUME NEW p \in LowerCase
      PROVE  Lower(p[1]) = p[2] /\ Upper(p[2]) = p[1]
  <2>1. (CHOOSE q \in LowerCase : q[1] = p[1]) = p
    BY <1>1
  <2>2. (CHOOSE q \in LowerCase : q[2] = p[2]) = p
    BY <1>1
  <2>. QED
    BY <2>1, <2>2 DEF Lower, Upper
<1>4. ASSUME NEW c \in Digits
      PROVE  Lower(c) = c
  BY <1>2 DEF Lower
<1>5. ASSUME NEW c \in Digits
      PROVE  Lower(Upper(c)) = c
  <2>1. CASE \E p \in LowerCase : p[2] = c
    BY <1>3, <2>1
  <2>2. CASE ~ \E p \in LowerCase : p[2] = c
    BY <1>4, <2>2 DEF Upper
  <2>. QED
    BY <2>1, <2>2
<1>. QED
  BY <1>4, <1>5

\* A form id is a text.
LEMMA FormText ==
  ASSUME NEW form \in FormIds
  PROVE  /\ form \in Texts /\ Len(form) = 8
         /\ FormatHex(form) \in Texts /\ Len(FormatHex(form)) = 8
         /\ LowerWord(FormatHex(form)) = form
<1>1. Digits \subseteq Characters /\ \A c \in Digits : Upper(c) \in Characters
  BY CharacterFacts DEF Upper
<1>2. form = [i \in 1..8 |-> form[i]] /\ \A i \in 1..8 : form[i] \in Digits
  BY DEF FormIds
<1>3. FormatHex(form) = [i \in 1..8 |-> Upper(form[i])]
  BY <1>2 DEF FormatHex
<1>4. form \in [1..8 -> Characters] /\ FormatHex(form) \in [1..8 -> Characters]
  BY <1>1, <1>2, <1>3
<1>5. LowerWord(FormatHex(form)) = [i \in 1..8 |-> Lower(Upper(form[i]))]
  BY <1>3 DEF LowerWord
<1>6. LowerWord(FormatHex(form)) = form
  BY <1>2, <1>5, DigitCase
<1>7. form \in Texts /\ Len(form) = 8
  BY <1>2, <1>4 DEF Texts
<1>8. FormatHex(form) \in Texts /\ Len(FormatHex(form)) = 8
  BY <1>3, <1>4 DEF Texts
<1>. QED
  BY <1>6, <1>7, <1>8

\* The end of a sequence.
LEMMA TailOf ==
  ASSUME NEW S, NEW s \in Seq(S), NEW m \in 1..Len(s)
  PROVE  /\ SubSeq(s, m, Len(s)) \in Seq(S)
         /\ Len(SubSeq(s, m, Len(s))) = Len(s) + 1 - m
         /\ \A i \in 1..Len(s) + 1 - m : SubSeq(s, m, Len(s))[i] = s[i + m - 1]
<1>1. Len(s) \in Nat
  OBVIOUS
<1>2. SubSeq(s, m, Len(s)) = [i \in 1..Len(s) + 1 - m |-> s[i + m - 1]]
  BY <1>1
<1>3. \A i \in 1..Len(s) + 1 - m : s[i + m - 1] \in S
  BY <1>1
<1>4. Len(s) + 1 - m \in Nat
  BY <1>1
<1>5. SubSeq(s, m, Len(s)) \in [1..Len(s) + 1 - m -> S]
  BY <1>2, <1>3
<1>. QED
  BY <1>2, <1>4, <1>5

\* The digits of a form id after the n-th.
LEMMA FormTail ==
  ASSUME NEW form \in FormIds, NEW n \in 0..7
  PROVE  /\ SubSeq(form, n + 1, 8) \in Texts /\ Len(SubSeq(form, n + 1, 8)) = 8 - n
         /\ \A i \in 1..8 - n : SubSeq(form, n + 1, 8)[i] = form[i + n]
<1>1. form \in Seq(Characters) /\ Len(form) = 8
  BY FormText DEF Texts
<1>2. n + 1 \in 1..Len(form)
  BY <1>1
<1>3. /\ SubSeq(form, n + 1, Len(form)) \in Seq(Characters)
      /\ Len(SubSeq(form, n + 1, Len(form))) = Len(form) + 1 - (n + 1)
      /\ \A i \in 1..Len(form) + 1 - (n + 1) :
           SubSeq(form, n + 1, Len(form))[i] = form[i + (n + 1) - 1]
  BY <1>1, <1>2, TailOf
<1>4. 8 + 1 - (n + 1) = 8 - n /\ \A i \in 1..8 - n : i + (n + 1) - 1 = i + n
  OBVIOUS
<1>. QED
  BY <1>1, <1>3, <1>4 DEF Texts

\* Sequences with the same elements are the same.
LEMMA SameSequence ==
  ASSUME NEW S, NEW s \in Seq(S), NEW t \in Seq(S), Len(s) = Len(t),
         \A i \in 1..Len(s) : s[i] = t[i]
  PROVE  s = t
OBVIOUS

\* With its prefix, a text is two characters longer.
LEMMA Prefixed ==
  ASSUME NEW text \in Texts, NEW x \in Characters
  PROVE  LET token == <<"0", x>> \o text IN
         /\ token \in Texts /\ Len(token) = Len(text) + 2
         /\ token[1] = "0" /\ token[2] = x
         /\ \A i \in 1..Len(text) : token[i + 2] = text[i]
<1>1. <<"0", x>> \in Texts /\ Len(<<"0", x>>) = 2
  BY CharacterFacts DEF Texts
<1>. DEFINE token == <<"0", x>> \o text
<1>2. token \in Texts /\ Len(token) = Len(text) + 2
  BY <1>1 DEF Texts
<1>3. token[1] = "0" /\ token[2] = x
  BY <1>1 DEF Texts
<1>4. \A i \in 1..Len(text) : token[i + 2] = text[i]
  BY <1>1 DEF Texts
<1>. QED
  BY <1>2, <1>3, <1>4

\* Taking off the prefix, if there is one, and nothing else.
LEMMA UnprefixedFacts ==
  ASSUME NEW token \in Texts
  PROVE  /\ Unprefixed(token) \in Texts
         /\ token \in {Unprefixed(token), <<"0", "x">> \o Unprefixed(token)}
         /\ Len(Unprefixed(token)) <= Len(token)
<1>1. CASE ~(Len(token) > 2 /\ token[1] = "0" /\ token[2] = "x")
  <2>1. Unprefixed(token) = token
    BY <1>1 DEF Unprefixed
  <2>. QED
    BY <2>1 DEF Texts
<1>2. CASE Len(token) > 2 /\ token[1] = "0" /\ token[2] = "x"
  <2>. DEFINE digits == SubSeq(token, 3, Len(token))
  <2>1. Len(token) \in Nat /\ 3 \in 1..Len(token)
    BY <1>2 DEF Texts
  <2>2. /\ digits \in Texts /\ Len(digits) = Len(token) - 2
        /\ \A i \in 1..Len(token) - 2 : digits[i] = token[i + 2]
    <3>1. /\ digits \in Seq(Characters) /\ Len(digits) = Len(token) + 1 - 3
          /\ \A i \in 1..Len(token) + 1 - 3 : digits[i] = token[i + 3 - 1]
      BY <2>1, TailOf DEF Texts
    <3>2. Len(token) + 1 - 3 = Len(token) - 2 /\ \A i \in Int : i + 3 - 1 = i + 2
      BY <2>1
    <3>. QED
      BY <3>1, <3>2 DEF Texts
  <2>3. Unprefixed(token) = digits
    BY <1>2 DEF Unprefixed
  <2>. HIDE DEF digits
  <2>4. <<"0", "x">> \o digits = token
    <3>. DEFINE whole == <<"0", "x">> \o digits
    <3>1. /\ whole \in Texts /\ Len(whole) = Len(token)
          /\ whole[1] = "0" /\ whole[2] = "x"
          /\ \A i \in 1..Len(token) - 2 : whole[i + 2] = token[i + 2]
      BY <2>1, <2>2, CharacterFacts, Prefixed
    <3>. HIDE DEF whole
    <3>2. ASSUME NEW i \in 1..Len(token)
          PROVE  whole[i] = token[i]
      <4>1. CASE i > 2
        <5>1. i - 2 \in 1..Len(token) - 2 /\ (i - 2) + 2 = i
          BY <2>1, <4>1
        <5>. QED
          BY <3>1, <5>1
      <4>2. CASE i <= 2
        <5>1. i = 1 \/ i = 2
          BY <4>2
        <5>. QED
          BY <1>2, <3>1, <5>1
      <4>. QED
        BY <4>1, <4>2
    <3>3. whole = token
      BY <3>1, <3>2, SameSequence DEF Texts
    <3>. QED
      BY <3>3 DEF whole
  <2>. QED
    BY <2>1, <2>2, <2>3, <2>4
<1>. QED
  BY <1>1, <1>2

\* A text has a length.
LEMMA LengthType == \A text \in Texts : Len(text) \in Nat
BY DEF Texts

\* What the number that is read from digits looks like.
LEMMA ReadHexFacts ==
  ASSUME NEW token \in Texts, NEW digits \in Texts, Len(digits) <= Len(token)
  PROVE  \/ /\ ReadHex(token, digits) = NoForm
            /\ ~(Len(digits) \in 1..8 /\ Len(token) <= 8 /\ \A i \in 1..Len(digits) : digits[i] \in Digits)
         \/ /\ ReadHex(token, digits) \in FormIds
            /\ Len(digits) \in 1..8 /\ Len(token) <= 8
            /\ \A i \in 1..Len(digits) : digits[i] \in Digits
            /\ \A i \in 1..8 : ReadHex(token, digits)[i] =
                 IF i <= 8 - Len(digits) THEN "0" ELSE digits[i - (8 - Len(digits))]
<1>1. Len(digits) \in Nat /\ Len(token) \in Nat /\ DOMAIN digits = 1..Len(digits)
  BY DEF Texts
<1>2. digits = <<>> <=> Len(digits) = 0
  BY DEF Texts
<1>. DEFINE zeros == 8 - Len(digits)
            form == [i \in 1..8 |-> IF i <= zeros THEN "0" ELSE digits[i - zeros]]
            readable == Len(digits) \in 1..8 /\ Len(token) <= 8 /\ \A i \in 1..Len(digits) : digits[i] \in Digits
<1>3. CASE ~readable
  <2>1. digits = <<>> \/ Len(token) > 8 \/ ~(\A i \in DOMAIN digits : digits[i] \in Digits)
    <3>1. CASE Len(digits) \notin 1..8
      <4>1. Len(digits) = 0 \/ Len(token) > 8
        <5>1. PICK m \in Nat, n \in Nat : m = Len(digits) /\ n = Len(token)
          BY <1>1
        <5>2. m <= n /\ m \notin 1..8
          BY <3>1, <5>1
        <5>3. m = 0 \/ n > 8
          BY <5>2
        <5>. QED
          BY <5>1, <5>3
      <4>. QED
        BY <1>2, <4>1
    <3>2. CASE ~(Len(token) <= 8)
      BY <1>1, <3>2
    <3>3. CASE ~ \A i \in 1..Len(digits) : digits[i] \in Digits
      BY <1>1, <3>3
    <3>. QED
      BY <1>3, <3>1, <3>2, <3>3
  <2>2. ReadHex(token, digits) = NoForm
    BY <2>1 DEF ReadHex
  <2>. QED
    BY <1>3, <2>2
<1>4. CASE readable
  <2>1. ReadHex(token, digits) = form
    BY <1>1, <1>2, <1>4 DEF ReadHex
  <2>2. ASSUME NEW i \in 1..8
        PROVE  form[i] \in Digits
    <3>1. "0" \in Digits
      BY DEF Digits
    <3>2. CASE i <= zeros
      BY <3>1, <3>2
    <3>3. CASE ~(i <= zeros)
      <4>1. i - zeros \in 1..Len(digits)
        BY <1>1, <3>3
      <4>. QED
        BY <1>4, <3>3, <4>1
    <3>. QED
      BY <3>2, <3>3
  <2>3. form \in FormIds
    <3>. HIDE DEF zeros
    <3>1. form \in [1..8 -> {form[i] : i \in 1..8}]
      OBVIOUS
    <3>. HIDE DEF form
    <3>. QED
      BY <2>2, <3>1 DEF FormIds
  <2>. QED
    BY <1>4, <2>1, <2>3
<1>. QED
  BY <1>3, <1>4

\* A text is read as a form id exactly if it names it; another text is read as
\* no form, or as another.
LEMMA ParseMeans ==
  ASSUME NEW token \in Texts, NEW form \in FormIds
  PROVE  /\ TryParseHexFormID(token) \in FormIds \cup {NoForm}
         /\ TryParseHexFormID(token) = form <=> Names(token, form)
         /\ form # NoForm
<1>. DEFINE digits == Unprefixed(token)
            parsed == ReadHex(digits, digits)
<1>1. TryParseHexFormID(token) = parsed
  BY DEF TryParseHexFormID
<1>2. digits \in Texts
  BY UnprefixedFacts
<1>8. token \in {digits, <<"0", "x">> \o digits}
  BY UnprefixedFacts
<1>9. Len(digits) \in Nat
  BY <1>2, LengthType
<1>. HIDE DEF digits
<1>3. form \in Texts /\ Len(form) = 8 /\ form # NoForm
  <2>1. form \in Texts /\ Len(form) = 8
    BY FormText
  <2>2. Len(NoForm) = 0
    BY DEF NoForm
  <2>. QED
    BY <2>1, <2>2
<1>4. \/ /\ parsed = NoForm
         /\ ~(Len(digits) \in 1..8 /\ \A i \in 1..Len(digits) : digits[i] \in Digits)
      \/ /\ parsed \in FormIds
         /\ Len(digits) \in 1..8
         /\ \A i \in 1..Len(digits) : digits[i] \in Digits
         /\ \A i \in 1..8 : parsed[i] =
              IF i <= 8 - Len(digits) THEN "0" ELSE digits[i - (8 - Len(digits))]
  <2>1. Len(digits) <= Len(digits) /\ (Len(digits) \in 1..8 => Len(digits) <= 8)
    <3>1. PICK m \in Nat : m = Len(digits)
      BY <1>9
    <3>2. m <= m /\ (m \in 1..8 => m <= 8)
      OBVIOUS
    <3>. QED
      BY <3>1, <3>2
  <2>. QED
    BY <1>2, <2>1, ReadHexFacts
<1>. HIDE DEF parsed
<1>5. ASSUME parsed = form
      PROVE  Names(token, form)
  <2>. DEFINE n == 8 - Len(digits)
  <2>1. /\ Len(digits) \in 1..8
        /\ \A i \in 1..8 : form[i] = IF i <= n THEN "0" ELSE digits[i - n]
    BY <1>3, <1>4, <1>5
  <2>2. n \in 0..7 /\ 8 - n = Len(digits)
    <3>1. PICK m \in 1..8 : m = Len(digits)
      BY <2>1
    <3>2. 8 - m \in 0..7 /\ 8 - (8 - m) = m
      OBVIOUS
    <3>. QED
      BY <3>1, <3>2
  <2>. HIDE DEF n
  <2>3. /\ SubSeq(form, n + 1, 8) \in Texts /\ Len(SubSeq(form, n + 1, 8)) = Len(digits)
        /\ \A i \in 1..Len(digits) : SubSeq(form, n + 1, 8)[i] = form[i + n]
    BY <2>2, FormTail
  <2>4. \A i \in 1..Len(digits) : form[i + n] = digits[i]
    <3>1. ASSUME NEW i \in 1..Len(digits)
          PROVE  form[i + n] = digits[i]
      <4>1. i + n \in 1..8 /\ ~(i + n <= n) /\ (i + n) - n = i
        BY <1>9, <2>2
      <4>. QED
        BY <2>1, <4>1
    <3>. QED
      BY <3>1
  <2>5. SubSeq(form, n + 1, 8) = digits
    BY <1>2, <1>9, <2>3, <2>4, SameSequence DEF Texts
  <2>6. \A i \in 1..n : form[i] = "0"
    BY <2>1, <2>2
  <2>. QED
    BY <1>8, <2>2, <2>5, <2>6 DEF Names
<1>6. ASSUME Names(token, form)
      PROVE  parsed = form
  <2>1. PICK n \in 0..7 : /\ \A i \in 1..n : form[i] = "0"
                          /\ token \in {SubSeq(form, n + 1, 8), <<"0", "x">> \o SubSeq(form, n + 1, 8)}
    BY <1>6 DEF Names
  <2>. DEFINE rest == SubSeq(form, n + 1, 8)
  <2>2. /\ rest \in Texts /\ Len(rest) = 8 - n
        /\ \A i \in 1..8 - n : rest[i] = form[i + n]
    BY FormTail
  <2>. HIDE DEF rest
  <2>3. \A i \in 1..8 - n : rest[i] \in Digits
    <3>1. \A i \in 1..8 : form[i] \in Digits
      BY DEF FormIds
    <3>2. \A i \in 1..8 - n : i + n \in 1..8
      OBVIOUS
    <3>. QED
      BY <2>2, <3>1, <3>2
  <2>4. digits = rest
    <3>1. CASE token = rest
      <4>1. ~(Len(token) > 2 /\ token[1] = "0" /\ token[2] = "x")
        <5>1. "x" \notin Digits
          BY DEF Digits
        <5>. QED
          BY <2>2, <2>3, <3>1, <5>1
      <4>. QED
        BY <3>1, <4>1 DEF Unprefixed, digits
    <3>2. CASE token = <<"0", "x">> \o rest
      <4>1. /\ Len(token) = Len(rest) + 2 /\ token[1] = "0" /\ token[2] = "x"
            /\ \A i \in 1..Len(rest) : token[i + 2] = rest[i]
        BY <2>2, <3>2, CharacterFacts, Prefixed
      <4>2. digits = SubSeq(token, 3, Len(token))
        BY <2>2, <4>1 DEF Unprefixed, digits
      <4>3. 3 \in 1..Len(token) /\ Len(token) + 1 - 3 = Len(rest)
        BY <2>2, <4>1
      <4>4. /\ digits \in Seq(Characters) /\ Len(digits) = Len(rest)
            /\ \A i \in 1..Len(rest) : digits[i] = token[i + 3 - 1]
        BY <4>2, <4>3, TailOf DEF Texts
      <4>5. \A i \in 1..Len(rest) : i + 3 - 1 = i + 2
        BY <2>2
      <4>6. \A i \in 1..Len(digits) : digits[i] = rest[i]
        BY <4>1, <4>4, <4>5
      <4>. QED
        BY <2>2, <4>4, <4>6, SameSequence DEF Texts
    <3>. QED
      BY <2>1, <3>1, <3>2 DEF rest
  <2>5. /\ parsed \in FormIds
        /\ \A i \in 1..8 : parsed[i] =
             IF i <= 8 - Len(digits) THEN "0" ELSE digits[i - (8 - Len(digits))]
    <3>1. Len(digits) \in 1..8 /\ \A i \in 1..Len(digits) : digits[i] \in Digits
      <4>1. 8 - n \in 1..8
        OBVIOUS
      <4>. QED
        BY <2>2, <2>3, <2>4, <4>1
    <3>. QED
      BY <1>4, <3>1
  <2>6. ASSUME NEW i \in 1..8
        PROVE  parsed[i] = form[i]
    <3>1. 8 - Len(digits) = n
      BY <2>2, <2>4
    <3>2. CASE i <= n
      BY <2>1, <2>5, <3>1, <3>2
    <3>3. CASE ~(i <= n)
      <4>1. i - n \in 1..8 - n /\ (i - n) + n = i
        BY <3>3
      <4>. QED
        BY <2>2, <2>4, <2>5, <3>1, <3>3, <4>1
    <3>. QED
      BY <3>2, <3>3
  <2>. QED
    BY <2>5, <2>6 DEF FormIds
<1>7. parsed \in FormIds \cup {NoForm}
  BY <1>4
<1>. QED
  BY <1>1, <1>3, <1>5, <1>6, <1>7

-----------------------------------------------------------------------------
(* Commands *)

\* The actions that each of the matches gives.
Actions ==
  <<{"disableAll", "enableAll", "status"}, {"debugOn", "debugOff"}, {"verifyOn", "verifyOff"},
    {"disableCache", "enableCache", "purge"}, {"invalidate"}, {"memoOn", "memoOff"}>>

IsI5(tokens) == tokens # <<>> /\ tokens[1] = Word("i5")

\* No action belongs to two matches, or to what is no match.
LEMMA ActionsDisjoint ==
  /\ \A i, j \in 1..6 : Actions[i] \cap Actions[j] # {} => i = j
  /\ \A i \in 1..6 : Actions[i] \cap {"unmatched", "none", "usage"} = {}
<1>1. \A i \in 1..6 : i = 1 \/ i = 2 \/ i = 3 \/ i = 4 \/ i = 5 \/ i = 6
  OBVIOUS
<1>2. /\ Actions[1] = {"disableAll", "enableAll", "status"}
      /\ Actions[2] = {"debugOn", "debugOff"}
      /\ Actions[3] = {"verifyOn", "verifyOff"}
      /\ Actions[4] = {"disableCache", "enableCache", "purge"}
      /\ Actions[5] = {"invalidate"}
      /\ Actions[6] = {"memoOn", "memoOff"}
  BY DEF Actions
<1>3. \A i \in 1..6 : Actions[i] \cap {"unmatched", "none", "usage"} = {}
  BY <1>1, <1>2
<1>4. \A i, j \in 1..6 : Actions[i] \cap Actions[j] # {} => i = j
  <2>1. ASSUME NEW i \in 1..6, NEW j \in 1..6, NEW a \in Actions[i], a \in Actions[j]
        PROVE  i = j
    <3>1. CASE i = 1
      BY <1>1, <1>2, <2>1, <3>1
    <3>2. CASE i = 2
      BY <1>1, <1>2, <2>1, <3>2
    <3>3. CASE i = 3
      BY <1>1, <1>2, <2>1, <3>3
    <3>4. CASE i = 4
      BY <1>1, <1>2, <2>1, <3>4
    <3>5. CASE i = 5
      BY <1>1, <1>2, <2>1, <3>5
    <3>6. CASE i = 6
      BY <1>1, <1>2, <2>1, <3>6
    <3>. QED
      BY <1>1, <3>1, <3>2, <3>3, <3>4, <3>5, <3>6
  <2>. QED
    BY <2>1
<1>. QED
  BY <1>3, <1>4

\* What each match takes the words for.
LEMMA MatchMeans ==
  ASSUME NEW t \in Sentences
  PROVE
    /\ LET m == MatchAll(t) IN
         /\ m = Unmatched \/ (m.action \in Actions[1] /\ Len(t) = 2)
         /\ m.action = "disableAll" <=> Len(t) = 2 /\ t[2] = Word("disable")
         /\ m.action = "enableAll" <=> Len(t) = 2 /\ t[2] = Word("enable")
    /\ LET m == MatchToggle(t, "debug", "debugOn", "debugOff") IN
         /\ m = Unmatched \/ (m.action \in Actions[2] /\ Len(t) = 3 /\ t[2] = Word("debug"))
         /\ m.action = "debugOn" <=> Len(t) = 3 /\ t[2] = Word("debug") /\ t[3] = Word("on")
         /\ m.action = "debugOff" <=> Len(t) = 3 /\ t[2] = Word("debug") /\ t[3] = Word("off")
    /\ LET m == MatchToggle(t, "verify", "verifyOn", "verifyOff") IN
         /\ m = Unmatched \/ (m.action \in Actions[3] /\ Len(t) = 3 /\ t[2] = Word("verify"))
         /\ m.action = "verifyOn" <=> Len(t) = 3 /\ t[2] = Word("verify") /\ t[3] = Word("on")
         /\ m.action = "verifyOff" <=> Len(t) = 3 /\ t[2] = Word("verify") /\ t[3] = Word("off")
    /\ LET m == MatchCacheCommand(t) IN
         /\ m = Unmatched \/ (m.action \in Actions[4] /\ Len(t) = 3 /\ t[2] = Word("cache"))
         /\ m.action = "disableCache" <=> Len(t) = 3 /\ t[2] = Word("cache") /\ t[3] = Word("disable")
         /\ m.action = "enableCache" <=> Len(t) = 3 /\ t[2] = Word("cache") /\ t[3] = Word("enable")
         /\ m.action = "purge" <=> Len(t) = 3 /\ t[2] = Word("cache") /\ t[3] = Word("purge")
    /\ LET m == MatchInvalidate(t) IN
         /\ m = Unmatched \/ (m.action \in Actions[5] /\ Len(t) = 3 /\ t[2] = Word("invalidate"))
         /\ m.action = "invalidate" <=>
              Len(t) = 3 /\ t[2] = Word("invalidate") /\ TryParseHexFormID(t[3]) # NoForm
         /\ m.action = "invalidate" => m.form = TryParseHexFormID(t[3])
    /\ LET m == MatchMemoToggle(t) IN
         /\ m = Unmatched \/ (m.action \in Actions[6] /\ Len(t) = 4)
         /\ m.action = "memoOn" <=>
              Len(t) = 4 /\ t[2] = Word("skyui") /\ t[3] = Word("inventory-dedupe") /\ t[4] = Word("enable")
         /\ m.action = "memoOff" <=>
              Len(t) = 4 /\ t[2] = Word("skyui") /\ t[3] = Word("inventory-dedupe") /\ t[4] = Word("disable")
<1>. USE DEF Unmatched, Act, Actions
<1>1. \A a, b : Word(a) = Word(b) => a = b
  BY DEF Word
<1>2. LET m == MatchAll(t) IN
         /\ m = Unmatched \/ (m.action \in Actions[1] /\ Len(t) = 2)
         /\ m.action = "disableAll" <=> Len(t) = 2 /\ t[2] = Word("disable")
         /\ m.action = "enableAll" <=> Len(t) = 2 /\ t[2] = Word("enable")
  BY <1>1 DEF MatchAll
<1>3. LET m == MatchToggle(t, "debug", "debugOn", "debugOff") IN
         /\ m = Unmatched \/ (m.action \in Actions[2] /\ Len(t) = 3 /\ t[2] = Word("debug"))
         /\ m.action = "debugOn" <=> Len(t) = 3 /\ t[2] = Word("debug") /\ t[3] = Word("on")
         /\ m.action = "debugOff" <=> Len(t) = 3 /\ t[2] = Word("debug") /\ t[3] = Word("off")
  BY <1>1 DEF MatchToggle
<1>4. LET m == MatchToggle(t, "verify", "verifyOn", "verifyOff") IN
         /\ m = Unmatched \/ (m.action \in Actions[3] /\ Len(t) = 3 /\ t[2] = Word("verify"))
         /\ m.action = "verifyOn" <=> Len(t) = 3 /\ t[2] = Word("verify") /\ t[3] = Word("on")
         /\ m.action = "verifyOff" <=> Len(t) = 3 /\ t[2] = Word("verify") /\ t[3] = Word("off")
  BY <1>1 DEF MatchToggle
<1>5. LET m == MatchCacheCommand(t) IN
         /\ m = Unmatched \/ (m.action \in Actions[4] /\ Len(t) = 3 /\ t[2] = Word("cache"))
         /\ m.action = "disableCache" <=> Len(t) = 3 /\ t[2] = Word("cache") /\ t[3] = Word("disable")
         /\ m.action = "enableCache" <=> Len(t) = 3 /\ t[2] = Word("cache") /\ t[3] = Word("enable")
         /\ m.action = "purge" <=> Len(t) = 3 /\ t[2] = Word("cache") /\ t[3] = Word("purge")
  BY <1>1 DEF MatchCacheCommand
<1>6. LET m == MatchInvalidate(t) IN
         /\ m = Unmatched \/ (m.action \in Actions[5] /\ Len(t) = 3 /\ t[2] = Word("invalidate"))
         /\ m.action = "invalidate" <=>
              Len(t) = 3 /\ t[2] = Word("invalidate") /\ TryParseHexFormID(t[3]) # NoForm
         /\ m.action = "invalidate" => m.form = TryParseHexFormID(t[3])
  BY DEF MatchInvalidate
<1>7. LET m == MatchMemoToggle(t) IN
         /\ m = Unmatched \/ (m.action \in Actions[6] /\ Len(t) = 4)
         /\ m.action = "memoOn" <=>
              Len(t) = 4 /\ t[2] = Word("skyui") /\ t[3] = Word("inventory-dedupe") /\ t[4] = Word("enable")
         /\ m.action = "memoOff" <=>
              Len(t) = 4 /\ t[2] = Word("skyui") /\ t[3] = Word("inventory-dedupe") /\ t[4] = Word("disable")
  BY <1>1 DEF MatchMemoToggle
<1>. QED
  BY <1>2, <1>3, <1>4, <1>5, <1>6, <1>7

\* The six matches, one by one.
LEMMA MatchesAre ==
  ASSUME NEW t
  PROVE  /\ Matches(t)[1] = MatchAll(t)
         /\ Matches(t)[2] = MatchToggle(t, "debug", "debugOn", "debugOff")
         /\ Matches(t)[3] = MatchToggle(t, "verify", "verifyOn", "verifyOff")
         /\ Matches(t)[4] = MatchCacheCommand(t)
         /\ Matches(t)[5] = MatchInvalidate(t)
         /\ Matches(t)[6] = MatchMemoToggle(t)
BY DEF Matches

\* Words are told apart by what they say.
LEMMA WordsApart == \A a, b : Word(a) = Word(b) => a = b
BY DEF Word

\* No line matches twice.
LEMMA OneMatch ==
  ASSUME NEW t \in Sentences, NEW i \in 1..6, NEW j \in 1..6,
         Matches(t)[i] # Unmatched, Matches(t)[j] # Unmatched
  PROVE  i = j
<1>1. \A k \in 1..6 : k = 1 \/ k = 2 \/ k = 3 \/ k = 4 \/ k = 5 \/ k = 6
  OBVIOUS
<1>2. /\ Matches(t)[1] # Unmatched => Len(t) = 2
      /\ Matches(t)[2] # Unmatched => Len(t) = 3 /\ t[2] = Word("debug")
      /\ Matches(t)[3] # Unmatched => Len(t) = 3 /\ t[2] = Word("verify")
      /\ Matches(t)[4] # Unmatched => Len(t) = 3 /\ t[2] = Word("cache")
      /\ Matches(t)[5] # Unmatched => Len(t) = 3 /\ t[2] = Word("invalidate")
      /\ Matches(t)[6] # Unmatched => Len(t) = 4
  BY MatchMeans, MatchesAre
<1>3. /\ Word("debug") # Word("verify") /\ Word("debug") # Word("cache")
      /\ Word("debug") # Word("invalidate") /\ Word("verify") # Word("cache")
      /\ Word("verify") # Word("invalidate") /\ Word("cache") # Word("invalidate")
  BY WordsApart
<1>. QED
  BY <1>1, <1>2, <1>3

\* What the matches give.
LEMMA MatchActions ==
  ASSUME NEW t \in Sentences, NEW i \in 1..6
  PROVE  Matches(t)[i] = Unmatched \/ Matches(t)[i].action \in Actions[i]
<1>1. i = 1 \/ i = 2 \/ i = 3 \/ i = 4 \/ i = 5 \/ i = 6
  OBVIOUS
<1>. QED
  BY <1>1, MatchMeans, MatchesAre

\* The line means what the match says that its words match.
LEMMA ClassifyMatch ==
  ASSUME NEW line, Tokenize(line) \in Sentences, IsI5(Tokenize(line)),
         NEW i \in 1..6, Matches(Tokenize(line))[i] # Unmatched
  PROVE  Classify(line) = Matches(Tokenize(line))[i]
<1>. DEFINE t == Tokenize(line)
            found == {k \in 1..6 : Matches(t)[k] # Unmatched}
<1>1. found = {i}
  BY OneMatch
<1>2. ~(t = <<>> \/ Head(t) # Word("i5"))
  BY DEF IsI5, Sentences
<1>. HIDE DEF found
<1>3. (CHOOSE k \in found : \A j \in found : k <= j) = i
  BY <1>1
<1>4. Classify(line) = Matches(t)[CHOOSE k \in found : \A j \in found : k <= j]
  <2>. HIDE DEF t
  <2>. QED
    BY <1>1, <1>2 DEF Classify, found, t
<1>. QED
  BY <1>3, <1>4

\* What a line means that no match knows.
LEMMA ClassifyOther ==
  ASSUME NEW line, Tokenize(line) \in Sentences
  PROVE  /\ ~IsI5(Tokenize(line)) => Classify(line) = Act("none")
         /\ (IsI5(Tokenize(line)) /\ \A i \in 1..6 : Matches(Tokenize(line))[i] = Unmatched) =>
              Classify(line) = Act("usage")
<1>. DEFINE t == Tokenize(line)
<1>1. IsI5(t) <=> ~(t = <<>> \/ Head(t) # Word("i5"))
  BY DEF IsI5, Sentences
<1>. HIDE DEF t
<1>2. CASE ~IsI5(t)
  BY <1>1, <1>2 DEF Classify, t
<1>3. CASE IsI5(t) /\ \A i \in 1..6 : Matches(t)[i] = Unmatched
  <2>1. {i \in 1..6 : Matches(t)[i] # Unmatched} = {}
    BY <1>3
  <2>. QED
    BY <1>1, <1>3, <2>1 DEF Classify, t
<1>. QED
  BY <1>2, <1>3 DEF t

\* A line asks for an action exactly if it is i5's and the action's match says so.
LEMMA ActionMeans ==
  ASSUME NEW line, Tokenize(line) \in Sentences, NEW i \in 1..6, NEW a \in Actions[i]
  PROVE  Classify(line).action = a <=>
           IsI5(Tokenize(line)) /\ Matches(Tokenize(line))[i].action = a
<1>. DEFINE t == Tokenize(line)
<1>1. a \notin {"unmatched", "none", "usage"}
  BY ActionsDisjoint
<1>2. Unmatched.action = "unmatched" /\ Act("none").action = "none" /\ Act("usage").action = "usage"
  BY DEF Unmatched, Act
<1>3. CASE ~IsI5(t)
  BY <1>1, <1>2, <1>3, ClassifyOther
<1>4. CASE IsI5(t) /\ \A k \in 1..6 : Matches(t)[k] = Unmatched
  BY <1>1, <1>2, <1>4, ClassifyOther
<1>5. CASE IsI5(t) /\ ~ \A k \in 1..6 : Matches(t)[k] = Unmatched
  <2>1. PICK k \in 1..6 : Matches(t)[k] # Unmatched
    BY <1>5
  <2>2. Classify(line) = Matches(t)[k]
    BY <1>5, <2>1, ClassifyMatch
  <2>3. Matches(t)[k].action \in Actions[k]
    BY <2>1, MatchActions
  <2>4. ASSUME Classify(line).action = a
        PROVE  Matches(t)[i].action = a
    <3>1. k = i
      BY <2>2, <2>3, <2>4, ActionsDisjoint
    <3>. QED
      BY <2>2, <2>4, <3>1
  <2>5. ASSUME Matches(t)[i].action = a
        PROVE  Classify(line).action = a
    <3>1. Matches(t)[i] # Unmatched
      BY <1>1, <1>2, <2>5
    <3>2. Classify(line) = Matches(t)[i]
      BY <1>5, <3>1, ClassifyMatch
    <3>. QED
      BY <2>5, <3>2
  <2>. QED
    BY <1>5, <2>4, <2>5
<1>. QED
  BY <1>3, <1>4, <1>5

\* A line reads as a command if it has its words, and as many.
LEMMA ReadsTwo ==
  ASSUME NEW line, Tokenize(line) \in Sentences, NEW a, NEW b
  PROVE  Reads(line, <<a, b>>) <=>
           /\ Len(Tokenize(line)) = 2
           /\ Tokenize(line)[1] = Word(a)
           /\ Tokenize(line)[2] = Word(b)
<1>. DEFINE t == Tokenize(line)
<1>1. t = [i \in 1..Len(t) |-> t[i]] /\ Len(t) \in Nat
  BY DEF Sentences
<1>2. Reads(line, <<a, b>>) <=> t = [i \in 1..2 |-> Word(<<a, b>>[i])]
  <2>1. DOMAIN <<a, b>> = 1..2
    OBVIOUS
  <2>. QED
    BY <2>1 DEF Reads
<1>. HIDE DEF t
<1>3. ASSUME t = [i \in 1..2 |-> Word(<<a, b>>[i])]
      PROVE  Len(t) = 2 /\ t[1] = Word(a) /\ t[2] = Word(b)
  BY <1>3
<1>4. ASSUME Len(t) = 2, t[1] = Word(a), t[2] = Word(b)
      PROVE  t = [i \in 1..2 |-> Word(<<a, b>>[i])]
  BY <1>1, <1>4
<1>. QED
  BY <1>2, <1>3, <1>4 DEF t

\* The same of three words.
LEMMA ReadsThree ==
  ASSUME NEW line, Tokenize(line) \in Sentences, NEW a, NEW b, NEW c
  PROVE  Reads(line, <<a, b, c>>) <=>
           /\ Len(Tokenize(line)) = 3
           /\ Tokenize(line)[1] = Word(a)
           /\ Tokenize(line)[2] = Word(b)
           /\ Tokenize(line)[3] = Word(c)
<1>. DEFINE t == Tokenize(line)
<1>1. t = [i \in 1..Len(t) |-> t[i]] /\ Len(t) \in Nat
  BY DEF Sentences
<1>2. Reads(line, <<a, b, c>>) <=> t = [i \in 1..3 |-> Word(<<a, b, c>>[i])]
  <2>1. DOMAIN <<a, b, c>> = 1..3
    OBVIOUS
  <2>. QED
    BY <2>1 DEF Reads
<1>. HIDE DEF t
<1>3. ASSUME t = [i \in 1..3 |-> Word(<<a, b, c>>[i])]
      PROVE  Len(t) = 3 /\ t[1] = Word(a) /\ t[2] = Word(b) /\ t[3] = Word(c)
  BY <1>3
<1>4. ASSUME Len(t) = 3, t[1] = Word(a), t[2] = Word(b), t[3] = Word(c)
      PROVE  t = [i \in 1..3 |-> Word(<<a, b, c>>[i])]
  BY <1>1, <1>4
<1>. QED
  BY <1>2, <1>3, <1>4 DEF t

\* The same of four.
LEMMA ReadsFour ==
  ASSUME NEW line, Tokenize(line) \in Sentences, NEW a, NEW b, NEW c, NEW d
  PROVE  Reads(line, <<a, b, c, d>>) <=>
           /\ Len(Tokenize(line)) = 4
           /\ Tokenize(line)[1] = Word(a)
           /\ Tokenize(line)[2] = Word(b)
           /\ Tokenize(line)[3] = Word(c)
           /\ Tokenize(line)[4] = Word(d)
<1>. DEFINE t == Tokenize(line)
<1>1. t = [i \in 1..Len(t) |-> t[i]] /\ Len(t) \in Nat
  BY DEF Sentences
<1>2. Reads(line, <<a, b, c, d>>) <=> t = [i \in 1..4 |-> Word(<<a, b, c, d>>[i])]
  <2>1. DOMAIN <<a, b, c, d>> = 1..4
    OBVIOUS
  <2>. QED
    BY <2>1 DEF Reads
<1>. HIDE DEF t
<1>3. ASSUME t = [i \in 1..4 |-> Word(<<a, b, c, d>>[i])]
      PROVE  Len(t) = 4 /\ t[1] = Word(a) /\ t[2] = Word(b) /\ t[3] = Word(c) /\ t[4] = Word(d)
  BY <1>3
<1>4. ASSUME Len(t) = 4, t[1] = Word(a), t[2] = Word(b), t[3] = Word(c), t[4] = Word(d)
      PROVE  t = [i \in 1..4 |-> Word(<<a, b, c, d>>[i])]
  BY <1>1, <1>4
<1>. QED
  BY <1>2, <1>3, <1>4 DEF t

\* Each action is asked for by the lines that read as its command.
LEMMA CommandMeans ==
  ASSUME NEW line, Tokenize(line) \in Sentences
  PROVE  LET action == Classify(line).action IN
         /\ action = "disableAll" <=> Reads(line, <<"i5", "disable">>)
         /\ action = "enableAll" <=> Reads(line, <<"i5", "enable">>)
         /\ action = "debugOn" <=> Reads(line, <<"i5", "debug", "on">>)
         /\ action = "debugOff" <=> Reads(line, <<"i5", "debug", "off">>)
         /\ action = "verifyOn" <=> Reads(line, <<"i5", "verify", "on">>)
         /\ action = "verifyOff" <=> Reads(line, <<"i5", "verify", "off">>)
         /\ action = "disableCache" <=> Reads(line, <<"i5", "cache", "disable">>)
         /\ action = "enableCache" <=> Reads(line, <<"i5", "cache", "enable">>)
         /\ action = "purge" <=> Reads(line, <<"i5", "cache", "purge">>)
         /\ action = "memoOn" <=> Reads(line, <<"i5", "skyui", "inventory-dedupe", "enable">>)
         /\ action = "memoOff" <=> Reads(line, <<"i5", "skyui", "inventory-dedupe", "disable">>)
         /\ action = "none" <=> ~IsI5(Tokenize(line))
<1>. DEFINE t == Tokenize(line)
            action == Classify(line).action
<1>1. Len(t) # 0 => (IsI5(t) <=> t[1] = Word("i5"))
  BY DEF IsI5, Sentences
<1>2. \A i \in 1..6 : \A a \in Actions[i] :
        action = a <=> IsI5(t) /\ Matches(t)[i].action = a
  BY ActionMeans
<1>3. action = "disableAll" <=> Reads(line, <<"i5", "disable">>)
  <2>1. action = "disableAll" <=> IsI5(t) /\ MatchAll(t).action = "disableAll"
    BY <1>2, MatchesAre DEF Actions
  <2>2. MatchAll(t).action = "disableAll" <=> Len(t) = 2 /\ t[2] = Word("disable")
    BY MatchMeans
  <2>3. Reads(line, <<"i5", "disable">>) <=> Len(t) = 2 /\ t[1] = Word("i5") /\ t[2] = Word("disable")
    BY ReadsTwo
  <2>. QED
    BY <1>1, <2>1, <2>2, <2>3
<1>4. action = "enableAll" <=> Reads(line, <<"i5", "enable">>)
  <2>1. action = "enableAll" <=> IsI5(t) /\ MatchAll(t).action = "enableAll"
    BY <1>2, MatchesAre DEF Actions
  <2>2. MatchAll(t).action = "enableAll" <=> Len(t) = 2 /\ t[2] = Word("enable")
    BY MatchMeans
  <2>3. Reads(line, <<"i5", "enable">>) <=> Len(t) = 2 /\ t[1] = Word("i5") /\ t[2] = Word("enable")
    BY ReadsTwo
  <2>. QED
    BY <1>1, <2>1, <2>2, <2>3
<1>5. action = "debugOn" <=> Reads(line, <<"i5", "debug", "on">>)
  <2>1. action = "debugOn" <=> IsI5(t) /\ MatchToggle(t, "debug", "debugOn", "debugOff").action = "debugOn"
    BY <1>2, MatchesAre DEF Actions
  <2>2. MatchToggle(t, "debug", "debugOn", "debugOff").action = "debugOn" <=> Len(t) = 3 /\ t[2] = Word("debug") /\ t[3] = Word("on")
    BY MatchMeans
  <2>3. Reads(line, <<"i5", "debug", "on">>) <=> Len(t) = 3 /\ t[1] = Word("i5") /\ t[2] = Word("debug") /\ t[3] = Word("on")
    BY ReadsThree
  <2>. QED
    BY <1>1, <2>1, <2>2, <2>3
<1>6. action = "debugOff" <=> Reads(line, <<"i5", "debug", "off">>)
  <2>1. action = "debugOff" <=> IsI5(t) /\ MatchToggle(t, "debug", "debugOn", "debugOff").action = "debugOff"
    BY <1>2, MatchesAre DEF Actions
  <2>2. MatchToggle(t, "debug", "debugOn", "debugOff").action = "debugOff" <=> Len(t) = 3 /\ t[2] = Word("debug") /\ t[3] = Word("off")
    BY MatchMeans
  <2>3. Reads(line, <<"i5", "debug", "off">>) <=> Len(t) = 3 /\ t[1] = Word("i5") /\ t[2] = Word("debug") /\ t[3] = Word("off")
    BY ReadsThree
  <2>. QED
    BY <1>1, <2>1, <2>2, <2>3
<1>7. action = "verifyOn" <=> Reads(line, <<"i5", "verify", "on">>)
  <2>1. action = "verifyOn" <=> IsI5(t) /\ MatchToggle(t, "verify", "verifyOn", "verifyOff").action = "verifyOn"
    BY <1>2, MatchesAre DEF Actions
  <2>2. MatchToggle(t, "verify", "verifyOn", "verifyOff").action = "verifyOn" <=> Len(t) = 3 /\ t[2] = Word("verify") /\ t[3] = Word("on")
    BY MatchMeans
  <2>3. Reads(line, <<"i5", "verify", "on">>) <=> Len(t) = 3 /\ t[1] = Word("i5") /\ t[2] = Word("verify") /\ t[3] = Word("on")
    BY ReadsThree
  <2>. QED
    BY <1>1, <2>1, <2>2, <2>3
<1>8. action = "verifyOff" <=> Reads(line, <<"i5", "verify", "off">>)
  <2>1. action = "verifyOff" <=> IsI5(t) /\ MatchToggle(t, "verify", "verifyOn", "verifyOff").action = "verifyOff"
    BY <1>2, MatchesAre DEF Actions
  <2>2. MatchToggle(t, "verify", "verifyOn", "verifyOff").action = "verifyOff" <=> Len(t) = 3 /\ t[2] = Word("verify") /\ t[3] = Word("off")
    BY MatchMeans
  <2>3. Reads(line, <<"i5", "verify", "off">>) <=> Len(t) = 3 /\ t[1] = Word("i5") /\ t[2] = Word("verify") /\ t[3] = Word("off")
    BY ReadsThree
  <2>. QED
    BY <1>1, <2>1, <2>2, <2>3
<1>9. action = "disableCache" <=> Reads(line, <<"i5", "cache", "disable">>)
  <2>1. action = "disableCache" <=> IsI5(t) /\ MatchCacheCommand(t).action = "disableCache"
    BY <1>2, MatchesAre DEF Actions
  <2>2. MatchCacheCommand(t).action = "disableCache" <=> Len(t) = 3 /\ t[2] = Word("cache") /\ t[3] = Word("disable")
    BY MatchMeans
  <2>3. Reads(line, <<"i5", "cache", "disable">>) <=> Len(t) = 3 /\ t[1] = Word("i5") /\ t[2] = Word("cache") /\ t[3] = Word("disable")
    BY ReadsThree
  <2>. QED
    BY <1>1, <2>1, <2>2, <2>3
<1>10. action = "enableCache" <=> Reads(line, <<"i5", "cache", "enable">>)
  <2>1. action = "enableCache" <=> IsI5(t) /\ MatchCacheCommand(t).action = "enableCache"
    BY <1>2, MatchesAre DEF Actions
  <2>2. MatchCacheCommand(t).action = "enableCache" <=> Len(t) = 3 /\ t[2] = Word("cache") /\ t[3] = Word("enable")
    BY MatchMeans
  <2>3. Reads(line, <<"i5", "cache", "enable">>) <=> Len(t) = 3 /\ t[1] = Word("i5") /\ t[2] = Word("cache") /\ t[3] = Word("enable")
    BY ReadsThree
  <2>. QED
    BY <1>1, <2>1, <2>2, <2>3
<1>11. action = "purge" <=> Reads(line, <<"i5", "cache", "purge">>)
  <2>1. action = "purge" <=> IsI5(t) /\ MatchCacheCommand(t).action = "purge"
    BY <1>2, MatchesAre DEF Actions
  <2>2. MatchCacheCommand(t).action = "purge" <=> Len(t) = 3 /\ t[2] = Word("cache") /\ t[3] = Word("purge")
    BY MatchMeans
  <2>3. Reads(line, <<"i5", "cache", "purge">>) <=> Len(t) = 3 /\ t[1] = Word("i5") /\ t[2] = Word("cache") /\ t[3] = Word("purge")
    BY ReadsThree
  <2>. QED
    BY <1>1, <2>1, <2>2, <2>3
<1>12. action = "memoOn" <=> Reads(line, <<"i5", "skyui", "inventory-dedupe", "enable">>)
  <2>1. action = "memoOn" <=> IsI5(t) /\ MatchMemoToggle(t).action = "memoOn"
    BY <1>2, MatchesAre DEF Actions
  <2>2. MatchMemoToggle(t).action = "memoOn" <=> Len(t) = 4 /\ t[2] = Word("skyui") /\ t[3] = Word("inventory-dedupe") /\ t[4] = Word("enable")
    BY MatchMeans
  <2>3. Reads(line, <<"i5", "skyui", "inventory-dedupe", "enable">>) <=> Len(t) = 4 /\ t[1] = Word("i5") /\ t[2] = Word("skyui") /\ t[3] = Word("inventory-dedupe") /\ t[4] = Word("enable")
    BY ReadsFour
  <2>. QED
    BY <1>1, <2>1, <2>2, <2>3
<1>13. action = "memoOff" <=> Reads(line, <<"i5", "skyui", "inventory-dedupe", "disable">>)
  <2>1. action = "memoOff" <=> IsI5(t) /\ MatchMemoToggle(t).action = "memoOff"
    BY <1>2, MatchesAre DEF Actions
  <2>2. MatchMemoToggle(t).action = "memoOff" <=> Len(t) = 4 /\ t[2] = Word("skyui") /\ t[3] = Word("inventory-dedupe") /\ t[4] = Word("disable")
    BY MatchMeans
  <2>3. Reads(line, <<"i5", "skyui", "inventory-dedupe", "disable">>) <=> Len(t) = 4 /\ t[1] = Word("i5") /\ t[2] = Word("skyui") /\ t[3] = Word("inventory-dedupe") /\ t[4] = Word("disable")
    BY ReadsFour
  <2>. QED
    BY <1>1, <2>1, <2>2, <2>3
<1>14. action = "none" <=> ~IsI5(t)
  <2>1. ~IsI5(t) => action = "none"
    BY ClassifyOther DEF Act
  <2>2. IsI5(t) => action # "none"
    <3>1. CASE \A k \in 1..6 : Matches(t)[k] = Unmatched
      BY <3>1, ClassifyOther DEF Act
    <3>2. ASSUME IsI5(t), NEW k \in 1..6, Matches(t)[k] # Unmatched
          PROVE  action # "none"
      BY <3>2, ClassifyMatch, MatchActions, ActionsDisjoint
    <3>. QED
      BY <3>1, <3>2
  <2>. QED
    BY <2>1, <2>2
<1>. QED
  BY <1>3, <1>4, <1>5, <1>6, <1>7, <1>8, <1>9, <1>10, <1>11, <1>12, <1>13, <1>14

\* Invalidating is asked for by a form id after the command's words.
LEMMA InvalidateMeans ==
  ASSUME NEW line, Tokenize(line) \in Sentences
  PROVE  LET t == Tokenize(line) IN
         /\ Classify(line).action = "invalidate" <=>
              /\ Len(t) = 3 /\ t[1] = Word("i5") /\ t[2] = Word("invalidate")
              /\ TryParseHexFormID(t[3]) # NoForm
         /\ Classify(line).action = "invalidate" => Classify(line).form = TryParseHexFormID(t[3])
<1>. DEFINE t == Tokenize(line)
<1>1. Len(t) # 0 => (IsI5(t) <=> t[1] = Word("i5"))
  BY DEF IsI5, Sentences
<1>2. "invalidate" \in Actions[5]
  BY DEF Actions
<1>3. Classify(line).action = "invalidate" <=> IsI5(t) /\ MatchInvalidate(t).action = "invalidate"
  BY <1>2, ActionMeans, MatchesAre
<1>4. MatchInvalidate(t).action = "invalidate" <=>
        Len(t) = 3 /\ t[2] = Word("invalidate") /\ TryParseHexFormID(t[3]) # NoForm
  BY MatchMeans
<1>5. MatchInvalidate(t).action = "invalidate" => MatchInvalidate(t).form = TryParseHexFormID(t[3])
  BY MatchMeans
<1>6. ASSUME Classify(line).action = "invalidate"
      PROVE  Classify(line) = MatchInvalidate(t)
  <2>1. IsI5(t) /\ MatchInvalidate(t) # Unmatched
    BY <1>3, <1>6 DEF Unmatched
  <2>. QED
    BY <2>1, ClassifyMatch, MatchesAre
<1>. QED
  BY <1>1, <1>3, <1>4, <1>5, <1>6

-----------------------------------------------------------------------------
(* The invariant *)

\* The switches are on or off, and icons are cached of items.
SwitchType ==
  /\ featuresOn \in BOOLEAN /\ bypass \in BOOLEAN /\ enabled \in BOOLEAN
  /\ debug \in BOOLEAN /\ verify \in BOOLEAN
  /\ cached \subseteq Forms

\* What was printed last is a form id.
PrintedInv == printed # NoForm => \E form \in FormIds : printed = FormatHex(form)

ConsoleInv == SwitchType /\ ConsoleIsDocumented /\ PrintedInv

\* The lines that are typed, and the items' ids, are texts.
LEMMA TypedLines == Lines \subseteq Sentences /\ Forms \subseteq FormIds
<1>1. Seq(STRING) \subseteq Texts
  BY DEF Texts, Characters
<1>2. Seq(Seq(STRING)) \subseteq Sentences
  BY <1>1 DEF Sentences
<1>. QED
  BY <1>2, ConsoleConstants DEF FormIds

\* A line sets each switch as the documentation of the line has it.
LEMMA SwitchesAsked ==
  ASSUME NEW line, Tokenize(line) \in Sentences, NEW old
  PROVE  LET action == Classify(line).action
             Asked(s) == Reads(line, Documented[s].on) \/ (old /\ ~Reads(line, Documented[s].off))
         IN
         /\ Toggled(action, "enableAll", "disableAll", old) <=> Asked("features")
         /\ Toggled(action, "debugOn", "debugOff", old) <=> Asked("debug")
         /\ Toggled(action, "verifyOn", "verifyOff", old) <=> Asked("verify")
         /\ Toggled(action, "disableCache", "enableCache", old) <=> Asked("bypass")
         /\ Toggled(action, "memoOn", "memoOff", old) <=> Asked("enabled")
BY CommandMeans DEF Toggled, Documented

\* Each word of a line is a text.
LEMMA WordType ==
  ASSUME NEW t \in Sentences, NEW i \in Nat, 1 <= i, i <= Len(t)
  PROVE  t[i] \in Texts
<1>1. i \in DOMAIN t
  BY DEF Sentences
<1>. QED
  BY <1>1 DEF Sentences

\* A line clears the icons that it is documented to clear.
LEMMA ClearedAsked ==
  ASSUME NEW line, Tokenize(line) \in Sentences, Forms \subseteq FormIds, cached \subseteq Forms
  PROVE  CachedAfter(Classify(line)) = cached \ Clears(line)
<1>. DEFINE t == Tokenize(line)
            action == Classify(line).action
<1>1. action = "purge" <=> Reads(line, <<"i5", "cache", "purge">>)
  BY CommandMeans
<1>2. CASE action = "purge"
  BY <1>1, <1>2 DEF CachedAfter, Clears
<1>3. CASE action = "invalidate"
  <2>1. /\ Len(t) = 3 /\ t[1] = Word("i5") /\ t[2] = Word("invalidate")
        /\ Classify(line).form = TryParseHexFormID(t[3])
    BY <1>3, InvalidateMeans
  <2>2. t[3] \in Texts
    BY <2>1, WordType
  <2>3. \A f \in Forms : f = TryParseHexFormID(t[3]) <=> Names(t[3], f)
    BY <2>2, ParseMeans
  <2>4. ~Reads(line, <<"i5", "cache", "purge">>)
    BY <1>1, <1>3
  <2>5. Clears(line) = {f \in Forms : Names(t[3], f)}
    BY <2>1, <2>4 DEF Clears
  <2>6. CachedAfter(Classify(line)) = cached \ {TryParseHexFormID(t[3])}
    BY <1>3, <2>1 DEF CachedAfter
  <2>. QED
    BY <2>3, <2>5, <2>6
<1>4. CASE action # "purge" /\ action # "invalidate"
  <2>1. ~Reads(line, <<"i5", "cache", "purge">>)
    BY <1>1, <1>4
  <2>2. ASSUME NEW f \in Forms, Len(t) = 3, t[1] = Word("i5"), t[2] = Word("invalidate"), Names(t[3], f)
        PROVE  FALSE
    <3>1. t[3] \in Texts
      BY <2>2, WordType
    <3>2. TryParseHexFormID(t[3]) # NoForm
      BY <2>2, <3>1, ParseMeans
    <3>. QED
      BY <1>4, <2>2, <3>2, InvalidateMeans
  <2>3. Clears(line) = {}
    BY <2>1, <2>2 DEF Clears
  <2>4. CachedAfter(Classify(line)) = cached
    BY <1>4 DEF CachedAfter
  <2>. QED
    BY <2>3, <2>4
<1>. QED
  BY <1>2, <1>3, <1>4

\* The form id of a line that invalidates is one.
LEMMA InvalidatedForm ==
  ASSUME NEW line, Tokenize(line) \in Sentences, Classify(line).action = "invalidate"
  PROVE  Classify(line).form \in FormIds
<1>1. /\ Len(Tokenize(line)) = 3 /\ TryParseHexFormID(Tokenize(line)[3]) # NoForm
      /\ Classify(line).form = TryParseHexFormID(Tokenize(line)[3])
  BY InvalidateMeans
<1>2. Tokenize(line)[3] \in Texts
  <2>1. 3 \in Nat /\ 1 <= 3 /\ 3 <= Len(Tokenize(line))
    BY <1>1
  <2>. QED
    BY <2>1, WordType
<1>3. [i \in 1..8 |-> "0"] \in FormIds
  <2>1. "0" \in Digits
    BY DEF Digits
  <2>. QED
    BY <2>1 DEF FormIds
<1>. QED
  BY <1>1, <1>2, <1>3, ParseMeans

\* The invariant holds when the game starts.
LEMMA ConsoleStarts == ConsoleInit => ConsoleInv
BY DEF ConsoleInit, ConsoleInv, SwitchType, ConsoleIsDocumented, PrintedInv

\* Caching icons keeps the invariant.
LEMMA CacheStep ==
  ASSUME ConsoleInv, NEW f \in Forms, CacheIcons(f)
  PROVE  ConsoleInv'
BY DEF CacheIcons, ConsoleInv, SwitchType, ConsoleIsDocumented, PrintedInv, switches

\* Typing a line keeps the invariant.
LEMMA TypedStep ==
  ASSUME ConsoleInv, NEW line \in Lines, CompileAndRun(line)
  PROVE  ConsoleInv'
<1>. DEFINE t == Tokenize(line)
            command == Classify(line)
<1>1. Forms \subseteq FormIds /\ t \in Sentences
  BY TypedLines, TokensType
<1>2. SwitchType'
  BY DEF CompileAndRun, Dispatch, ConsoleInv, SwitchType, Toggled, CachedAfter, BypassAfter
<1>3. PrintedInv'
  <2>1. printed' = IF command.action = "invalidate" THEN FormatHex(command.form) ELSE NoForm
    BY DEF CompileAndRun, Dispatch
  <2>. QED
    BY <1>1, <2>1, InvalidatedForm DEF PrintedInv
<1>4. asked = [features |-> featuresOn, bypass |-> bypass, enabled |-> enabled,
               debug |-> debug, verify |-> verify, cached |-> cached, original |-> original]
  BY DEF ConsoleInv, ConsoleIsDocumented
<1>5. /\ featuresOn' = (Reads(line, Documented["features"].on) \/ (featuresOn /\ ~Reads(line, Documented["features"].off)))
      /\ debug' = (Reads(line, Documented["debug"].on) \/ (debug /\ ~Reads(line, Documented["debug"].off)))
      /\ verify' = (Reads(line, Documented["verify"].on) \/ (verify /\ ~Reads(line, Documented["verify"].off)))
      /\ bypass' = (Reads(line, Documented["bypass"].on) \/ (bypass /\ ~Reads(line, Documented["bypass"].off)))
      /\ enabled' = (Reads(line, Documented["enabled"].on) \/ (enabled /\ ~Reads(line, Documented["enabled"].off)))
  BY <1>1, SwitchesAsked DEF CompileAndRun, Dispatch, BypassAfter, Toggled
<1>6. cached' = cached \ Clears(line)
  BY <1>1, ClearedAsked DEF CompileAndRun, Dispatch, ConsoleInv, SwitchType
<1>7. original' = (t = <<>> \/ t[1] # Word("i5"))
  <2>1. original' = (command.action = "none")
    BY DEF CompileAndRun, Dispatch
  <2>2. command.action = "none" <=> ~IsI5(t)
    BY <1>1, CommandMeans
  <2>. QED
    BY <2>1, <2>2 DEF IsI5
<1>8. asked' = [s \in DOMAIN asked |->
        CASE s = "cached" -> asked.cached \ Clears(line)
          [] s = "original" -> t = <<>> \/ t[1] # Word("i5")
          [] OTHER -> Reads(line, Documented[s].on) \/ (asked[s] /\ ~Reads(line, Documented[s].off))]
  BY DEF CompileAndRun
<1>9. asked' = [features |-> featuresOn', bypass |-> bypass', enabled |-> enabled',
                debug |-> debug', verify |-> verify', cached |-> cached', original |-> original']
  BY <1>4, <1>5, <1>6, <1>7, <1>8
<1>. QED
  BY <1>2, <1>3, <1>9 DEF ConsoleInv, ConsoleIsDocumented

\* Every step keeps the invariant.
LEMMA ConsoleStep == ConsoleInv /\ [ConsoleNext]_consoleVars => ConsoleInv'
<1>. SUFFICES ASSUME ConsoleInv, [ConsoleNext]_consoleVars
     PROVE  ConsoleInv'
  OBVIOUS
<1>1. ASSUME NEW f \in Forms, CacheIcons(f)
      PROVE  ConsoleInv'
  BY <1>1, CacheStep
<1>2. ASSUME NEW line \in Lines, CompileAndRun(line)
      PROVE  ConsoleInv'
  BY <1>2, TypedStep
<1>3. CASE UNCHANGED consoleVars
  BY <1>3 DEF ConsoleInv, SwitchType, ConsoleIsDocumented, PrintedInv, consoleVars, switches
<1>. QED
  BY <1>1, <1>2, <1>3 DEF ConsoleNext

-----------------------------------------------------------------------------
(* The theorems *)

\* Whatever lines are typed, every switch and every cached icon is as the
\* documented lines among them have it, and the lines that are not i5's go to
\* the game: no mistyped line sets anything, and no line sets what another is for.
THEOREM ConsoleAsDocumented == ConsoleSpec => []ConsoleIsDocumented
<1>1. ConsoleInv => ConsoleIsDocumented
  BY DEF ConsoleInv
<1>2. ConsoleInv /\ [ConsoleNext]_consoleVars => ConsoleInv'
  BY ConsoleStep
<1>. QED
  BY <1>1, <1>2, ConsoleStarts, PTL DEF ConsoleSpec

\* The lower case of a text with a prefix.
LEMMA LowerPrefixed ==
  ASSUME NEW text \in Texts, NEW low \in Texts, LowerWord(text) = low, NEW x \in {"x", "X"}
  PROVE  /\ <<"0", x>> \o text \in Texts /\ Len(<<"0", x>> \o text) = Len(text) + 2
         /\ LowerWord(<<"0", x>> \o text) = <<"0", "x">> \o low
<1>. DEFINE token == <<"0", x>> \o text
            lowToken == <<"0", "x">> \o low
<1>1. x \in Characters /\ "x" \in Characters
  BY CharacterFacts
<1>2. /\ token \in Texts /\ Len(token) = Len(text) + 2
      /\ token[1] = "0" /\ token[2] = x
      /\ \A i \in 1..Len(text) : token[i + 2] = text[i]
  BY <1>1, Prefixed
<1>3. /\ lowToken \in Texts /\ Len(lowToken) = Len(low) + 2
      /\ lowToken[1] = "0" /\ lowToken[2] = "x"
      /\ \A i \in 1..Len(low) : lowToken[i + 2] = low[i]
  BY <1>1, Prefixed
<1>. HIDE DEF token, lowToken
<1>4. Len(low) = Len(text)
  BY LowerWordType
<1>5. Lower("0") = "0" /\ Lower(x) = "x"
  <2>1. "0" \in Digits
    BY DEF Digits
  <2>2. Lower("0") = "0"
    BY <2>1, DigitCase
  <2>3. Lower("x") = "x"
    <3>1. \A p \in LowerCase : p[1] # "x"
      BY DEF LowerCase
    <3>. QED
      BY <3>1 DEF Lower
  <2>4. Lower("X") = "x"
    <3>1. <<"X", "x">> \in LowerCase /\ \A p \in LowerCase : p[1] = "X" => p = <<"X", "x">>
      BY DEF LowerCase
    <3>2. (CHOOSE p \in LowerCase : p[1] = "X") = <<"X", "x">>
      BY <3>1
    <3>. QED
      BY <3>1, <3>2 DEF Lower
  <2>. QED
    BY <2>2, <2>3, <2>4
<1>6. LowerWord(token) \in Texts /\ Len(LowerWord(token)) = Len(token)
  BY <1>2, LowerWordType
<1>7. PICK size \in Nat : size = Len(text)
  BY LengthType
<1>8. ASSUME NEW i \in 1..size + 2
      PROVE  LowerWord(token)[i] = lowToken[i]
  <2>1. LowerWord(token)[i] = Lower(token[i])
    <3>1. i \in DOMAIN token
      BY <1>2, <1>7 DEF Texts
    <3>. QED
      BY <3>1 DEF LowerWord
  <2>2. CASE i = 1
    BY <1>2, <1>3, <1>5, <2>1, <2>2
  <2>3. CASE i = 2
    BY <1>2, <1>3, <1>5, <2>1, <2>3
  <2>4. CASE i > 2
    <3>1. i - 2 \in 1..size /\ (i - 2) + 2 = i
      BY <2>4
    <3>2. token[i] = text[i - 2] /\ lowToken[i] = low[i - 2]
      BY <1>2, <1>3, <1>4, <1>7, <3>1
    <3>3. i - 2 \in DOMAIN text
      BY <1>7, <3>1 DEF Texts
    <3>4. low[i - 2] = Lower(text[i - 2])
      BY <3>3 DEF LowerWord
    <3>. QED
      BY <2>1, <3>2, <3>4
  <2>. QED
    BY <2>2, <2>3, <2>4
<1>9. LowerWord(token) = lowToken
  <2>1. Len(LowerWord(token)) = size + 2 /\ Len(lowToken) = size + 2
    BY <1>2, <1>3, <1>4, <1>6, <1>7
  <2>. QED
    BY <1>3, <1>6, <1>8, <2>1, SameSequence DEF Texts
<1>. QED
  BY <1>2, <1>9 DEF token, lowToken

\* A printed form id, typed in one of three ways, is read as that form id.
LEMMA PrintedIsRead ==
  ASSUME NEW form \in FormIds,
         NEW text \in {FormatHex(form), <<"0", "x">> \o FormatHex(form), <<"0", "X">> \o FormatHex(form)}
  PROVE  LET command == Classify(<<Word("I5"), Word("invalidate"), text>>)
         IN command.action = "invalidate" /\ command.form = form
<1>. DEFINE line == <<Word("I5"), Word("invalidate"), text>>
            t == Tokenize(line)
<1>1. /\ form \in Texts /\ Len(form) = 8
      /\ FormatHex(form) \in Texts /\ Len(FormatHex(form)) = 8
      /\ LowerWord(FormatHex(form)) = form
  BY FormText
<1>2. text \in Texts /\ Len(text) \in {8, 10} /\ LowerWord(text) \in {form, <<"0", "x">> \o form}
  <2>1. CASE text = FormatHex(form)
    BY <1>1, <2>1
  <2>2. ASSUME NEW x \in {"x", "X"}, text = <<"0", x>> \o FormatHex(form)
        PROVE  text \in Texts /\ Len(text) = 10 /\ LowerWord(text) = <<"0", "x">> \o form
    <3>1. /\ <<"0", x>> \o FormatHex(form) \in Texts
          /\ Len(<<"0", x>> \o FormatHex(form)) = Len(FormatHex(form)) + 2
          /\ LowerWord(<<"0", x>> \o FormatHex(form)) = <<"0", "x">> \o form
      BY <1>1, LowerPrefixed
    <3>2. Len(FormatHex(form)) + 2 = 10
      BY <1>1
    <3>. QED
      BY <2>2, <3>1, <3>2
  <2>. QED
    BY <2>1, <2>2
<1>3. text # Blank
  <2>1. Len(Blank) = 0
    BY DEF Blank
  <2>2. Len(text) = 8 \/ Len(text) = 10
    BY <1>2, Zenon
  <2>. QED
    BY <2>1, <2>2
<1>4. Word("I5") \in Texts /\ Word("invalidate") \in Texts
  BY CharacterFacts DEF Texts, Word
<1>5. Word("I5") # Blank /\ Word("invalidate") # Blank
  BY DEF Word, Blank
<1>6. /\ line \in Sentences /\ Len(line) = 3
      /\ line[1] = Word("I5") /\ line[2] = Word("invalidate") /\ line[3] = text
  BY <1>2, <1>4 DEF Sentences
<1>7. \A i \in DOMAIN line : line[i] # Blank
  BY <1>3, <1>5
<1>. HIDE DEF line
<1>8. t \in Sentences /\ t = [n \in 1..3 |-> LowerWord(line[n])]
  BY <1>6, <1>7, TokensType, WholeLine
<1>9. LowerWord(Word("I5")) = Word("i5") /\ LowerWord(Word("invalidate")) = Word("invalidate")
  <2>1. \A c : LowerWord(Word(c)) = Word(Lower(c))
    BY DEF LowerWord, Word
  <2>2. <<"I5", "i5">> \in LowerCase /\ \A p \in LowerCase : p[1] = "I5" => p = <<"I5", "i5">>
    BY DEF LowerCase
  <2>3. (CHOOSE p \in LowerCase : p[1] = "I5") = <<"I5", "i5">>
    BY <2>2
  <2>4. Lower("I5") = "i5"
    BY <2>2, <2>3 DEF Lower
  <2>5. \A p \in LowerCase : p[1] # "invalidate"
    BY DEF LowerCase
  <2>6. Lower("invalidate") = "invalidate"
    BY <2>5 DEF Lower
  <2>. QED
    BY <2>1, <2>4, <2>6
<1>10. Len(t) = 3 /\ t[1] = Word("i5") /\ t[2] = Word("invalidate") /\ t[3] = LowerWord(text)
  BY <1>6, <1>8, <1>9
<1>11. Names(LowerWord(text), form)
  <2>1. /\ SubSeq(form, 0 + 1, 8) \in Texts /\ Len(SubSeq(form, 0 + 1, 8)) = 8 - 0
        /\ \A i \in 1..8 - 0 : SubSeq(form, 0 + 1, 8)[i] = form[i + 0]
    BY FormTail
  <2>2. \A i \in 1..8 : SubSeq(form, 0 + 1, 8)[i] = form[i]
    BY <2>1
  <2>3. SubSeq(form, 0 + 1, 8) = form
    BY <1>1, <2>1, <2>2, SameSequence DEF Texts
  <2>4. \A i \in 1..0 : form[i] = "0"
    OBVIOUS
  <2>5. LowerWord(text) \in {SubSeq(form, 0 + 1, 8), <<"0", "x">> \o SubSeq(form, 0 + 1, 8)}
    BY <1>2, <2>3, Zenon
  <2>6. 0 \in 0..7
    OBVIOUS
  <2>. QED
    BY <2>4, <2>5, <2>6, Zenon DEF Names
<1>12. TryParseHexFormID(t[3]) = form /\ form # NoForm
  <2>1. LowerWord(text) \in Texts
    BY <1>2, LowerWordType
  <2>. QED
    BY <1>10, <1>11, <2>1, ParseMeans
<1>13. Classify(line).action = "invalidate" /\ Classify(line).form = form
  BY <1>8, <1>10, <1>12, InvalidateMeans
<1>. QED
  BY <1>13 DEF line

\* Every form id that the console prints can be typed again, in capitals as it
\* is printed, with 0x or 0X or without, and means the same form.
THEOREM PrintedIdsRead == ConsoleSpec => []PrintedIdsReadBack
<1>1. ConsoleInv => PrintedIdsReadBack
  BY PrintedIsRead DEF ConsoleInv, PrintedInv, PrintedIdsReadBack
<1>2. ConsoleInv /\ [ConsoleNext]_consoleVars => ConsoleInv'
  BY ConsoleStep
<1>. QED
  BY <1>1, <1>2, ConsoleStarts, PTL DEF ConsoleSpec

=============================================================================
