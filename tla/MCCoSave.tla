------------------------------ MODULE MCCoSave ------------------------------
(***************************************************************************)
(* Instances of CoSave for TLC: a sword that two icon setters render, a    *)
(* soul gem at two fill levels, and an item created at runtime.            *)
(***************************************************************************)
EXTENDS CoSave

CONSTANTS sword, gem, brew, inv, craft

SwordIn(setter) == [form |-> sword, gem |-> FALSE, status |-> 0, setter |-> setter]
GemAt(status) == [form |-> gem, gem |-> TRUE, status |-> status, setter |-> inv]

MCKeys == {SwordIn(inv), SwordIn(craft), GemAt(1)}
MCGems == {GemAt(1), GemAt(2), SwordIn(inv)}
MCRuntimeKeys == {[form |-> brew, gem |-> FALSE, status |-> 0, setter |-> inv]}
=============================================================================
