------------------------- MODULE MCInvalidateListFix -------------------------
(***************************************************************************)
(* An instance of InvalidateListFix for TLC: three tabs, one of them for   *)
(* everything and one pinned, and two items.  From initial states of their *)
(* own, frames that FrameProbe counts, in which no such call runs.         *)
(***************************************************************************)
EXTENDS InvalidateListFix, FrameProbe, TLC

CONSTANTS all, weapons, misc

VARIABLE probing

MCFlagOf == all :> {1, 2} @@ weapons :> {1} @@ misc :> {2}

MCInit ==
  /\ Init /\ ProbeInit
  /\ probing \in BOOLEAN
  /\ probing => items = [s \in Slots |-> {}] /\ nonEmpty = {} /\ itemFilter = {} /\ ready

MCNext ==
  \/ ~probing /\ Next /\ UNCHANGED <<probeVars, probing>>
  \/ probing /\ ProbeNext /\ UNCHANGED <<vars, probing>>

MCSpec == MCInit /\ [][MCNext]_<<vars, probeVars, probing>>
=============================================================================
