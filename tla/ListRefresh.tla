---------------------------- MODULE ListRefresh -----------------------------
(***************************************************************************)
(* The icon cache and the InvalidateData memo together: a refresh of the   *)
(* open list calls InvalidateData (InvalidateMemo), whose data processors  *)
(* call processList (IconCache), and the list is drawn from what both      *)
(* left.  Whoever erases a cached icon tells the memo so, inside the       *)
(* cache's lock (ClearAndForceReprocess, I4Hook.cpp), so that the next     *)
(* InvalidateData is not skipped.                                          *)
(*                                                                         *)
(* Each component keeps its own module; a step here is a step of one of    *)
(* them, or of both.  They share Features::IsEnabled().  Console lines are *)
(* ConsoleCommand's.                                                       *)
(*                                                                         *)
(* Operators whose comment begins with "Faulty:" are wrong on purpose.     *)
(***************************************************************************)
EXTENDS Naturals, Sequences

CONSTANTS
  Entries, Forms, NoForm, DynamicForms, SoulGems, Items, Setters, Value,
  Absent, Keep, Nothing, Calls, MaxVersion, Env, Icon(_, _, _, _),  \* IconCache
  Contents, Configs, MaxDepth, Settle(_), Processable(_)            \* InvalidateMemo

VARIABLES
  menu, item, out, filled, rawList, cache, dynamicCache, bypass, stack, phase,
  seen, todo, misses, before, version, invalidated, settled,
  features,
  content, unprocessed, config, callback, suspended, hooked, shown, stale,
  enabled, forced, lastFp, tally, calls, fresh, disturbed,
  drawn,    \* drawn[e]: the icon of entry e on display, Nothing if none is drawn
  cleared,  \* version[f] when f's cached icons were last erased between two
            \* processList calls (history)
  flawed    \* in the last pass, I4's processList failed (history)

Icons == INSTANCE IconCache
Memo == INSTANCE InvalidateMemo

\* Each component's assumptions about its constants.
ASSUME RefreshConstants ==
  /\ Icons!ConstantsOK /\ Icons!IconOK /\ Icons!KeyDeterminesIcon
  /\ Memo!MemoConstants

\* The variables of one component only.
iconVars == <<menu, item, out, filled, rawList, cache, dynamicCache, bypass,
              stack, phase, seen, todo, misses, before, version, invalidated,
              settled>>
memoVars == <<content, unprocessed, config, callback, suspended, hooked, shown,
              stale, enabled, forced, lastFp, tally, calls, fresh, disturbed>>
ownVars == <<drawn, cleared, flawed>>
vars == <<iconVars, features, memoVars, ownVars>>

NothingDrawn == [e \in Entries |-> Nothing]

Init ==
  /\ Icons!Init
  /\ Memo!Init
  /\ drawn = NothingDrawn
  /\ cleared = [f \in Forms |-> 0]
  /\ flawed = FALSE

-----------------------------------------------------------------------------
(* A refresh: InvalidateData around processList *)

\* itemList.InvalidateData is called; no processList runs then.
InvalidateData ==
  /\ Icons!MainThreadIdle
  /\ Memo!CallUnhooked \/ Memo!CallOff \/ Memo!CallSkip \/ Memo!CallProcess
  /\ UNCHANGED <<iconVars, features, ownVars>>

\* The icon setter is one of the data processors of a pass.
ProcessList(c) ==
  /\ stack = <<>> => Memo!InPhase("process")
  /\ Icons!CallOriginal(c) \/ Icons!RunPassthrough(c) \/ Icons!CallCached(c)
  /\ UNCHANGED <<memoVars, ownVars>>

\* A running processList goes on, or a nested one returns.
Proceed(c) ==
  /\ Icons!I5Step(c) \/ Icons!I4Step(c)
  /\ stack' # <<>>
  /\ UNCHANGED <<memoVars, ownVars>>

\* The processList of a pass returns, and with it the data processors.
Processed(c) ==
  /\ stack = <<c>>
  /\ Icons!Return(c)
  /\ Memo!RunProcessors
  /\ flawed' = (phase[c] = "failed")
  /\ UNCHANGED <<drawn, cleared>>

Draw ==
  /\ Memo!Draw
  /\ drawn' = [e \in Entries |-> out[e]]
  /\ UNCHANGED <<iconVars, features, cleared, flawed>>

\* The rest of the pass, or its failure, outside processList.
Finish ==
  /\ Icons!MainThreadIdle
  /\ Memo!FireCallback \/ Memo!PickFilter \/ Memo!Return \/ Memo!ReturnFailed
  /\ UNCHANGED <<iconVars, features, ownVars>>

-----------------------------------------------------------------------------
(* ClearAndForceReprocess *)

\* Faulty: the memo is never told.
NotTold(some) == UNCHANGED memoVars

\* Faulty: an erasure of nothing takes an earlier one back.
Overwritten(some) ==
  /\ forced' = some
  /\ UNCHANGED <<content, unprocessed, config, callback, suspended, hooked,
                 shown, stale, enabled, lastFp, tally, calls, fresh, disturbed>>

\* The memo is told if something was erased.
TellMemo(some) == IF some THEN Memo!ForceReprocess ELSE UNCHANGED memoVars

Holds(map, form) == \E k \in DOMAIN map : k.form = form /\ map[k] # Nothing

\* The erasure and the flag are one step, being one critical section; the memo,
\* which does not take the lock, may see the flag a moment later, and then skips
\* a call that might as well have come before.
InvalidateFormID(f) ==
  LET some == Holds(cache, f) \/ Holds(dynamicCache, f) IN
  /\ Icons!InvalidateFormID(f)
  /\ TellMemo(some)
  /\ cleared' = IF some /\ Icons!MainThreadIdle
                THEN [cleared EXCEPT ![f] = version[f]] ELSE cleared
  /\ UNCHANGED <<features, drawn, flawed>>

\* "i5 cache purge", or the revert callback before a load.
ClearCache ==
  LET some == \E f \in Forms : Holds(cache, f) \/ Holds(dynamicCache, f) IN
  /\ Memo!Idle
  /\ Icons!ClearCache
  /\ TellMemo(some)
  /\ cleared' = IF some THEN [f \in Forms |-> version[f]] ELSE cleared
  /\ UNCHANGED <<features, drawn, flawed>>

-----------------------------------------------------------------------------
(* Menus, the engine, other mods, the console *)

\* A menu opens with a new movie and list.
OpenMenu ==
  /\ Icons!Rebuild /\ Memo!OpenMenu
  /\ drawn' = NothingDrawn
  /\ UNCHANGED <<cleared, flawed>>

\* The menu-open event: the memo wraps (the icon setter is wrapped anew in
\* every movie, before its first processList).
Install ==
  /\ Memo!Install
  /\ UNCHANGED <<iconVars, features, ownVars>>

\* The engine refills the open menu's list.
Rebuild ==
  /\ Icons!Rebuild /\ menu' = menu
  /\ Memo!Rebuild
  /\ UNCHANGED ownVars

EditList ==
  /\ Memo!EditList
  /\ UNCHANGED <<iconVars, features, ownVars>>

ModChanges(f) ==
  /\ Icons!ModChanges(f)
  /\ UNCHANGED <<memoVars, features, ownVars>>

SetFeatures(on) ==
  /\ Icons!SetFeatures(on) /\ Memo!SetFeatures(on)
  /\ UNCHANGED ownVars

SetBypass(on) ==
  /\ Memo!Idle /\ Icons!SetBypass(on)
  /\ UNCHANGED <<memoVars, features, ownVars>>

SetMemo(on) ==
  /\ Memo!SetEnabled(on)
  /\ UNCHANGED <<iconVars, features, ownVars>>

Next ==
  \/ InvalidateData
  \/ \E c \in Calls : ProcessList(c) \/ Proceed(c) \/ Processed(c)
  \/ Draw \/ Finish
  \/ \E f \in Forms : InvalidateFormID(f) \/ ModChanges(f)
  \/ ClearCache
  \/ OpenMenu \/ Install \/ Rebuild \/ EditList
  \/ \E on \in BOOLEAN : SetFeatures(on) \/ SetBypass(on) \/ SetMemo(on)

Spec == Init /\ [][Next]_vars

-----------------------------------------------------------------------------
(* Properties *)

\* If a refresh would be skipped, the display shows, for every entry that is not
\* hidden, an icon that I4 gave its present item under the present menu's setter
\* at version since[form] of the form's data or later.  Exempt are passes in
\* which I4's processList failed, and what a callback did to its own pass.
SkipShowsIcons(since) ==
  Memo!MayCall /\ Memo!WouldSkip /\ ~disturbed /\ ~flawed =>
    \A e \in Processable(content) :
      LET i == item[e]
          oldest == IF i.form \in Forms THEN since[i.form] ELSE 0
      IN /\ drawn[e] # Nothing
         /\ \E v \in oldest..version[i.form] :
              drawn[e]["iconLabel"] = Icon(menu, i, e \in filled, v)["iconLabel"]

\* A refresh is only skipped when what is on display was made since the cached
\* icons of its form were last erased: neither the memo nor the cache ever holds
\* on to an icon that InvalidateItem or a purge took out of the other.
SkipShowsCurrentIcons == SkipShowsIcons(cleared)

\* "InvalidateItem(formID) ... clears every cached icon for that item so it's
\* recomputed on the next menu refresh" (README.md:118): a refresh is only
\* skipped when what is on display was made since InvalidateItem was last called
\* for its form between two refreshes, whether or not the call found an icon to
\* erase.
InvalidatedItemsRecomputed == SkipShowsIcons(settled)

=============================================================================
