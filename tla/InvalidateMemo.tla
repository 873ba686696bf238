--------------------------- MODULE InvalidateMemo ---------------------------
(***************************************************************************)
(* The memo of InvalidateMemo.cpp around itemList.InvalidateData: a call   *)
(* is skipped when the list's fingerprint is the one of the last processed *)
(* pass and nothing is pending; any other call runs the original.          *)
(*                                                                         *)
(* A fingerprint is kept as what it hashes: the hashed fields of all       *)
(* entries (content), which entries are processed, and the filter chain's  *)
(* configuration.  Colliding hashes are not modelled.                      *)
(*                                                                         *)
(* The original is SkyUI's: it runs the data processors (among them the    *)
(* icon setter, hence I4 and the icon cache), draws, and fires the pending *)
(* onInvalidate callback, which may call InvalidateData again.  On a       *)
(* suspended list it only notes that it was called, so such a call changes *)
(* nothing here.                                                           *)
(*                                                                         *)
(* Operators whose comment begins with "Faulty:" are wrong on purpose.     *)
(***************************************************************************)
EXTENDS Naturals, Sequences

CONSTANTS
  Entries,        \* the entry slots of the list
  Contents,       \* what formId, count, flags, equipState of all entries can be
  Configs,        \* what the filter chain's fields can be
  Nothing,        \* no fingerprint; a display that shows no list
  MaxDepth,       \* bound: nesting of InvalidateData
  Settle(_),      \* the content after the data processors ran on it
  Processable(_)  \* the entries of a content whose filterFlag is not 0

Display == [content : Contents, config : Configs]
Fingerprint == [content : Contents, unprocessed : SUBSET Entries, config : Configs]

ASSUME MemoConstants ==
  /\ MaxDepth \in Nat \ {0}
  /\ \A l \in Contents : Settle(l) \in Contents /\ Processable(l) \subseteq Entries
  /\ Nothing \notin Display \cup Fingerprint

VARIABLES
  content,      \* the hashed fields of the entries
  unprocessed,  \* entries without skyui_itemDataProcessed
  config,       \* FpConfig
  callback,     \* itemList.onInvalidate is set
  suspended,    \* itemList._bSuspended
  hooked,       \* the open movie's InvalidateData is wrapped
  shown,        \* what the display was last drawn from
  stale,        \* a cached icon on display was invalidated since I4 last ran
  features,     \* Features::IsEnabled()
  enabled,      \* EnabledFlag()
  forced,       \* ForceReprocessFlag()
  lastFp,       \* State::lastProcessedFp
  tally,        \* which of State::skipped, State::processed moved last
  calls,        \* running InvalidateData calls, innermost last
  fresh,        \* nothing happened since a whole pass completed (history)
  disturbed     \* a callback of the last pass picked a filter, or a pass it
                \* started failed (history)

listVars == <<content, unprocessed, config, callback, suspended>>
switchVars == <<features, enabled>>
memoVars == <<forced, lastFp, tally>>
vars == <<content, unprocessed, config, callback, suspended, hooked, shown,
          stale, features, enabled, forced, lastFp, tally, calls, fresh, disturbed>>

Phase == {"process", "draw", "notify", "picked"}
Call == [phase : Phase, memo : BOOLEAN]

TypeOK ==
  /\ content \in Contents
  /\ unprocessed \in SUBSET Entries
  /\ config \in Configs
  /\ callback \in BOOLEAN /\ suspended \in BOOLEAN /\ hooked \in BOOLEAN
  /\ stale \in BOOLEAN /\ features \in BOOLEAN /\ enabled \in BOOLEAN
  /\ forced \in BOOLEAN /\ fresh \in BOOLEAN /\ disturbed \in BOOLEAN
  /\ shown \in Display \cup {Nothing}
  /\ lastFp \in Fingerprint \cup {Nothing}
  /\ tally \in {"none", "skipped", "processed"}
  /\ calls \in Seq(Call) /\ Len(calls) <= MaxDepth

Init ==
  /\ content \in Contents /\ config \in Configs
  /\ unprocessed = Entries
  /\ callback = FALSE /\ suspended = FALSE
  /\ hooked = FALSE
  /\ shown = Nothing /\ stale = FALSE
  /\ features = TRUE /\ enabled = TRUE
  /\ forced = FALSE /\ lastFp = Nothing /\ tally = "none"
  /\ calls = <<>>
  /\ fresh = FALSE /\ disturbed = FALSE

Idle == calls = <<>>
Top == calls[Len(calls)]
InPhase(p) == ~Idle /\ Top.phase = p
WithPhase(p) == [calls EXCEPT ![Len(calls)] = [phase |-> p, memo |-> Top.memo]]
Goto(p) == calls' = WithPhase(p)
Pop == calls' = SubSeq(calls, 1, Len(calls) - 1)

-----------------------------------------------------------------------------
(* Handler::Call *)

\* Faulty: the filter configuration is not part of the fingerprint.
ContentOnly == [content |-> content, unprocessed |-> unprocessed]

\* The fingerprint of the list as it is: a multiset of entries, so it does
\* not depend on their order, mixed with the configuration.
Fp == [content |-> content, unprocessed |-> unprocessed, config |-> config]

\* Faulty: entries that SkyUI never processes count as pending.
AllProcessed == unprocessed = {}

\* Nothing that SkyUI would process is left unprocessed.
ListAlreadyRendered == unprocessed \cap Processable(content) = {}

\* Faulty: a forced reprocess is not looked at.
SkipUnforced ==
  /\ hooked /\ features /\ enabled /\ ~suspended
  /\ lastFp = Fp /\ ListAlreadyRendered /\ ~callback

\* What the handler decides on.
WouldSkip ==
  /\ hooked /\ features /\ enabled /\ ~suspended
  /\ lastFp = Fp /\ ListAlreadyRendered /\ ~forced /\ ~callback

\* InvalidateData may be called by the engine, or from the callback.
MayCall == Idle \/ InPhase("notify") \/ InPhase("picked")
CanCall == MayCall /\ Len(calls) < MaxDepth

\* The callback of the innermost call has made the call it owed.
Answered == IF InPhase("picked") THEN WithPhase("notify") ELSE calls

\* The original starts; memo tells whether its outcome will be recorded.
Start(memo) ==
  /\ calls' = Append(Answered, [phase |-> "process", memo |-> memo])
  /\ disturbed' = (disturbed /\ ~Idle)

\* The original returns at once: it only notes that it was called.
Note == calls' = Answered /\ UNCHANGED disturbed

\* The movie is not wrapped: SkyUI's own InvalidateData.
CallUnhooked ==
  /\ CanCall /\ ~hooked /\ ~suspended
  /\ Start(FALSE)
  /\ fresh' = FALSE
  /\ UNCHANGED <<listVars, hooked, shown, stale, switchVars, memoVars>>

\* Faulty: the fingerprint survives passes the memo does not see.
CallOffKeepingFp ==
  /\ CanCall /\ hooked /\ ~(features /\ enabled)
  /\ IF suspended THEN Note ELSE Start(FALSE)
  /\ fresh' = FALSE
  /\ UNCHANGED <<listVars, hooked, shown, stale, switchVars, memoVars>>

\* The memo or the whole plugin is off: forget the fingerprint, pass through.
CallOff ==
  /\ CanCall /\ hooked /\ ~(features /\ enabled)
  /\ lastFp' = Nothing
  /\ IF suspended THEN Note ELSE Start(FALSE)
  /\ fresh' = FALSE
  /\ UNCHANGED <<listVars, hooked, shown, stale, switchVars, forced, tally>>

\* Skip: only the tally moves.
CallSkip ==
  /\ CanCall /\ WouldSkip
  /\ tally' = "skipped"
  /\ calls' = Answered
  /\ UNCHANGED <<listVars, hooked, shown, stale, switchVars, forced, lastFp, fresh, disturbed>>

\* Process: the forced flag is used up, and the original runs.
CallProcess ==
  /\ CanCall /\ hooked /\ features /\ enabled /\ ~suspended
  /\ ~WouldSkip
  /\ forced' = FALSE
  /\ Start(TRUE)
  /\ fresh' = FALSE
  /\ UNCHANGED <<listVars, hooked, shown, stale, switchVars, lastFp, tally>>

-----------------------------------------------------------------------------
(* The original InvalidateData *)

\* Every data processor runs over the list: entries become processed, hashed
\* fields settle (book flags), and the icon setter renders anew what the
\* cache no longer holds.
RunProcessors ==
  /\ InPhase("process")
  /\ content' = Settle(content)
  /\ unprocessed' = unprocessed \ Processable(content)
  /\ stale' = FALSE
  /\ Goto("draw")
  /\ UNCHANGED <<config, callback, suspended, hooked, shown, switchVars, memoVars, fresh, disturbed>>

Draw ==
  /\ InPhase("draw")
  /\ shown' = [content |-> content, config |-> config]
  /\ Goto("notify")
  /\ UNCHANGED <<listVars, hooked, stale, switchVars, memoVars, fresh, disturbed>>

\* The one-shot callback that restores scroll position and selection.
FireCallback ==
  /\ InPhase("notify") /\ callback
  /\ callback' = FALSE
  /\ UNCHANGED <<content, unprocessed, config, suspended, hooked, shown, stale,
                 switchVars, memoVars, calls, fresh, disturbed>>

\* A callback picks another filter; SkyUI's list answers with InvalidateData.
PickFilter ==
  /\ InPhase("notify") /\ Len(calls) < MaxDepth
  /\ config' \in Configs \ {config}
  /\ disturbed' = TRUE
  /\ Goto("picked")
  /\ UNCHANGED <<content, unprocessed, callback, suspended, hooked, shown, stale,
                 switchVars, memoVars, fresh>>

\* The invoke succeeded: record the fingerprint as it is after the pass.
Return ==
  /\ InPhase("notify") /\ ~callback
  /\ Pop
  /\ IF Top.memo THEN lastFp' = Fp /\ tally' = "processed" ELSE UNCHANGED <<lastFp, tally>>
  /\ fresh' = (Top.memo /\ Len(calls) = 1 /\ ~forced)
  /\ UNCHANGED <<listVars, hooked, shown, stale, switchVars, forced, disturbed>>

\* Faulty: a failed invoke is treated like no invoke at all.
ReturnFailedKeepingFp ==
  /\ ~Idle
  /\ Pop
  /\ disturbed' = (disturbed \/ Len(calls) > 1)
  /\ shown' \in {shown, Nothing}
  /\ fresh' = FALSE
  /\ UNCHANGED <<listVars, hooked, stale, switchVars, memoVars>>

\* The invoke failed at some point and may have left a half-drawn list:
\* forget the fingerprint.
ReturnFailed ==
  /\ ~Idle
  /\ Pop
  /\ disturbed' = (disturbed \/ Len(calls) > 1)
  /\ shown' \in {shown, Nothing}
  /\ IF Top.memo THEN lastFp' = Nothing /\ tally' = "processed" ELSE UNCHANGED <<lastFp, tally>>
  /\ fresh' = FALSE
  /\ UNCHANGED <<listVars, hooked, stale, switchVars, forced>>

-----------------------------------------------------------------------------
(* Installation, switches, and what the game does *)

\* Faulty: the state of the last menu survives when the menu is reopened.
InstallKeepingState ==
  /\ Idle
  /\ hooked' \in {hooked, TRUE}
  /\ fresh' = FALSE
  /\ UNCHANGED <<listVars, shown, stale, switchVars, memoVars, calls, disturbed>>

\* The menu-open event: the state is reset first; the function is wrapped
\* once per movie, if it is there and can be replaced.
Install ==
  /\ Idle
  /\ lastFp' = Nothing /\ tally' = "none"
  /\ hooked' \in {hooked, TRUE}
  /\ fresh' = FALSE
  /\ UNCHANGED <<listVars, shown, stale, switchVars, forced, calls, disturbed>>

\* "i5 enable|disable" and "i5 skyui inventory-dedupe enable|disable".
SetFeatures(on) ==
  /\ Idle
  /\ features' = on
  /\ fresh' = FALSE
  /\ UNCHANGED <<listVars, hooked, shown, stale, enabled, memoVars, calls, disturbed>>

SetEnabled(on) ==
  /\ Idle
  /\ enabled' = on
  /\ fresh' = FALSE
  /\ UNCHANGED <<listVars, hooked, shown, stale, features, memoVars, calls, disturbed>>

\* I4Hook erased at least one cached icon, on any thread, at any time.
ForceReprocess ==
  /\ forced' = TRUE
  /\ stale' = TRUE
  /\ fresh' = FALSE
  /\ UNCHANGED <<listVars, hooked, shown, switchVars, lastFp, tally, calls, disturbed>>

\* A new movie: nothing drawn, nothing wrapped, all entries fresh.
OpenMenu ==
  /\ Idle
  /\ content' \in Contents /\ config' \in Configs
  /\ unprocessed' = Entries
  /\ callback' = FALSE /\ suspended' = FALSE
  /\ hooked' = FALSE
  /\ shown' = Nothing /\ stale' = FALSE
  /\ fresh' = FALSE
  /\ UNCHANGED <<switchVars, memoVars, calls, disturbed>>

\* The engine refills the list with fresh entry objects.
Rebuild ==
  /\ Idle
  /\ content' \in Contents
  /\ unprocessed' = Entries
  /\ fresh' = FALSE
  /\ UNCHANGED <<config, callback, suspended, hooked, shown, stale, switchVars, memoVars, calls, disturbed>>

\* Counts, flags, equip states of present entries and the filter change, the
\* list is suspended or resumed, a callback is set.
EditList ==
  /\ Idle
  /\ content' \in Contents /\ config' \in Configs
  /\ suspended' \in BOOLEAN
  /\ callback' \in {callback, TRUE}
  /\ fresh' = FALSE
  /\ UNCHANGED <<unprocessed, hooked, shown, stale, switchVars, memoVars, calls, disturbed>>

Next ==
  \/ CallUnhooked \/ CallOff \/ CallSkip \/ CallProcess
  \/ RunProcessors \/ Draw \/ FireCallback \/ PickFilter \/ Return \/ ReturnFailed
  \/ Install
  \/ \E on \in BOOLEAN : SetFeatures(on) \/ SetEnabled(on)
  \/ ForceReprocess
  \/ OpenMenu \/ Rebuild \/ EditList

Spec == Init /\ [][Next]_vars

-----------------------------------------------------------------------------
(* Properties *)

\* Running the original would change nothing the player sees: the display is
\* drawn from the list and filter as they are, shows no invalidated icon, and
\* no callback waits.
Current ==
  /\ shown = [content |-> content, config |-> config]
  /\ ~stale /\ ~callback

\* A call is only ever skipped when running it would change nothing: not after
\* a failed pass, a pass while the memo was off, an invalidated icon, a
\* reopened menu, or from inside another pass.  What a callback that picks a
\* filter, or starts a pass that fails, does to the pass it belongs to is
\* outside the claim.
SkipIsSafe == MayCall /\ WouldSkip /\ ~disturbed => Current

\* The memo does its job: right after a pass that completed, with nothing
\* changed since, the next call is skipped, even though that pass itself
\* changed hashed fields and though some entries are never processed.
RedundantIsSkipped == fresh => WouldSkip

=============================================================================
