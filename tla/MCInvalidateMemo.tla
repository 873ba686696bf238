-------------------------- MODULE MCInvalidateMemo --------------------------
(***************************************************************************)
(* An instance of InvalidateMemo for TLC: a list with a book whose flags   *)
(* the data processors rewrite, and gold, which they never process.        *)
(***************************************************************************)
EXTENDS InvalidateMemo

CONSTANTS book, gold

\* A book that was not looked at, the same book after its flags were read,
\* two copies of it, and a list that holds gold only.
MCContents == {"unread", "read", "copies", "gold"}

MCSettle(l) == IF l = "unread" THEN "read" ELSE l

MCProcessable(l) == IF l = "gold" THEN {} ELSE {book}
=============================================================================
