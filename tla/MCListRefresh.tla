--------------------------- MODULE MCListRefresh ----------------------------
(***************************************************************************)
(* A list of one sword, which I4 recognises by its keywords, for TLC.  The *)
(* list has one content and one filter: a fingerprint only tells whether   *)
(* the sword has been processed, as what else it tells apart is            *)
(* MCInvalidateMemo's.  Passes nest two deep, and an icon shows the        *)
(* version of the sword's data.                                            *)
(***************************************************************************)
EXTENDS ListRefresh

CONSTANTS sword, inv

Sword == [form |-> sword, status |-> 0, name |-> "Sword"]
SwordOnly == {Sword}

MCIcon(s, i, kw, v) ==
  [f \in {"iconLabel", "iconColor"} |->
     IF f = "iconColor" THEN <<i.form>>
     ELSE IF ~kw THEN Absent
     ELSE <<s, i.form, v>>]

MCValue == {<<sword>>} \cup {<<s, sword, v>> : s \in Setters, v \in 0..MaxVersion}

MCSettle(l) == l
MCProcessable(l) == Entries

\* Histories and tallies that no step reads.
relevant == <<menu, item, out, filled, rawList, cache, dynamicCache, bypass,
              stack, phase, seen, todo, misses, before, version, features,
              content, unprocessed, config, callback, suspended, hooked, shown,
              stale, enabled, forced, lastFp, calls, disturbed, ownVars>>
=============================================================================
