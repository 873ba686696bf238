---------------------------- MODULE MCMenuWraps -----------------------------
(***************************************************************************)
(* The menus of MenuWraps; and, from initial states of their own, sessions *)
(* at the console, which run no menu.                                      *)
(***************************************************************************)
EXTENDS MenuWraps, ConsoleCommand, SequencesExt

VARIABLE typing

\* Two items, one of them of a runtime form.
MCForms == {<<"0", "0", "0", "0", "0", "0", "1", "4">>, <<"f", "f", "0", "0", "a", "0", "0", "1">>}

\* Pieces of a line.
W(w) == <<w>>
Commands ==
  {<<W("i5"), W("disable")>>, <<W("i5"), W("enable")>>, <<W("i5"), W("status")>>,
   <<W("i5"), W("debug"), W("on")>>, <<W("i5"), W("verify"), W("off")>>,
   <<W("i5"), W("debug"), W("off")>>, <<W("i5"), W("verify"), W("on")>>,
   <<W("i5"), W("cache"), W("disable")>>, <<W("i5"), W("cache"), W("enable")>>,
   <<W("i5"), W("cache"), W("purge")>>,
   <<W("i5"), W("skyui"), W("inventory-dedupe"), W("enable")>>,
   <<W("i5"), W("skyui"), W("inventory-dedupe"), W("disable")>>}
  \cup {<<W("i5"), W("invalidate"), id>> : id \in
          {<<"1", "4">>, <<"0", "x", "1", "4">>, <<"0", "X", "0", "0", "1", "4">>,
           <<"F", "F", "0", "0", "a", "0", "0", "1">>,
           <<"0", "x", "f", "f", "0", "0", "A", "0", "0", "1">>,
           <<"0", "0", "0", "0", "0", "0", "0", "1", "4">>, <<"0", "x">>, <<"x", "1", "4">>,
           <<"1", "4", "x">>}}
Pieces == {<<>>, W("I5"), W("on"), W("DISABLE"), <<"1", "4">>}

\* Every command, with a piece dropped, replaced, or added at an end.
MCLines ==
  Commands \cup {<<>>}
  \cup UNION {{RemoveAt(c, i) : i \in DOMAIN c} : c \in Commands}
  \cup UNION {{ReplaceAt(c, i, p) : i \in DOMAIN c, p \in Pieces} : c \in Commands}
  \cup UNION {{<<p>> \o c, Append(c, p)} : c \in Commands, p \in Pieces}
  \cup {InsertAt(c, 2, <<>>) : c \in Commands}

MCInit ==
  /\ Init /\ ConsoleInit
  /\ typing \in BOOLEAN
  /\ typing => mcm = None /\ owner = [f \in Ids |-> CHOOSE form \in Owners : TRUE]

MCNext ==
  \/ ~typing /\ Next /\ UNCHANGED <<consoleVars, typing>>
  \/ typing /\ ConsoleNext /\ UNCHANGED <<vars, typing>>

MCSpec == MCInit /\ [][MCNext]_<<vars, consoleVars, typing>>
=============================================================================
