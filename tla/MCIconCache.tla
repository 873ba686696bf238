----------------------------- MODULE MCIconCache -----------------------------
(***************************************************************************)
(* Small instances of IconCache for TLC: one static item, one soul gem at  *)
(* two fill levels, one runtime form with two successive owners, and one   *)
(* entry without a form ID.                                                *)
(***************************************************************************)
EXTENDS IconCache, TLC

CONSTANTS sword, gem, brew, inv, craft

Sword == [form |-> sword, status |-> 0, name |-> "Sword"]
EmptyGem == [form |-> gem, status |-> 0, name |-> "Gem"]
FullGem == [form |-> gem, status |-> 5, name |-> "Gem"]
OldBrew == [form |-> brew, status |-> 0, name |-> "Old"]
NewBrew == [form |-> brew, status |-> 0, name |-> "New"]
Note == [form |-> NoForm, status |-> 0, name |-> "Note"]

SwordOnly == {Sword}
SwordAndNote == {Sword, Note}
Gems == {EmptyGem, FullGem}
Brews == {OldBrew, NewBrew}
SwordAndBrews == {Sword} \cup Brews
NoSword == Gems \cup Brews \cup {Note}

\* Labels differ in everything I4 looks at; the colour only in the form, so
\* that I4 can run again and change one member and not the other.  The sword
\* is recognised by its keywords, and there is no icon for a note.
MCIcon(s, i, kw, v) ==
  [f \in Field |->
     IF f = "iconColor" THEN <<i.form>>
     ELSE IF i = Note \/ (i = Sword /\ ~kw) THEN Absent
     ELSE <<s, i.form, i.status, i.name, kw, v>>]

MCValue == {<<i.form>> : i \in Items} \cup
  {<<s, i.form, i.status, i.name, kw, v>> :
     s \in Setters, i \in Items, kw \in BOOLEAN, v \in 0..MaxVersion}
=============================================================================
