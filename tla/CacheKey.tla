------------------------------ MODULE CacheKey ------------------------------
(***************************************************************************)
(* The packing of CacheKey.h: form id, fill level of a soul gem and icon   *)
(* setter in one 64-bit key.  A number of w bits is the set of the bits    *)
(* that are set in it, so that | is union and & is intersection.           *)
(*                                                                         *)
(* Operators whose comment begins with "Faulty:" are wrong on purpose.     *)
(***************************************************************************)
EXTENDS Integers

Word(w) == SUBSET (0..w - 1)

\* In 64 bits; what is shifted out is lost.
Left(x, k) == {b \in 0..63 : b - k \in x}
Right(x, k) == {b \in 0..63 : b + k \in x}

\* Faulty: the fill level is not cut to eight bits.
MakeCacheKeyUncut(form, gem, status, setter) ==
  form \cup (IF gem THEN {40} \cup Left(status, 32) ELSE {}) \cup Left(setter, 48)

MakeCacheKey(form, gem, status, setter) ==
  form \cup (IF gem THEN {40} \cup Left(status \cap 0..7, 32) ELSE {}) \cup Left(setter, 48)

DecodeCacheKey(key) ==
  [formID |-> key \cap 0..31,
   soulGem |-> Right(key, 40) \cap {0} # {},
   status |-> Right(key, 32) \cap 0..7,
   setter |-> Right(key, 48) \cap 0..7]

\* How Load makes a key of what Save decoded.
Remade(d) ==
  MakeCacheKey(d.formID, d.soulGem, IF d.soulGem THEN d.status ELSE {}, d.setter)

-----------------------------------------------------------------------------
(* Properties *)

\* A key gives back what it was made of: the form id whole, so that
\* EraseByFormID finds every key of a form and none of another; the fill level
\* of gems in eight bits; the setter.
DecodesBack(form, gem, status, setter) ==
  DecodeCacheKey(MakeCacheKey(form, gem, status, setter)) =
    [formID |-> form, soulGem |-> gem,
     status |-> IF gem THEN status \cap 0..7 ELSE {}, setter |-> setter]

\* A key that goes through a co-save comes out the same.
SurvivesCoSave(form, gem, status, setter) ==
  LET key == MakeCacheKey(form, gem, status, setter)
  IN Remade(DecodeCacheKey(key)) = key

=============================================================================
