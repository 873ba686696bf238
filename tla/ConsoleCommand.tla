--------------------------- MODULE ConsoleCommand ---------------------------
(***************************************************************************)
(* The console commands: how a typed line is read (ConsoleCommand.h) and   *)
(* what it switches (ConsoleHook.cpp).                                     *)
(*                                                                         *)
(* A line is a sequence of pieces, blank or not; what is not blank is a    *)
(* sequence of characters.  The words of the commands count as one         *)
(* character each: only form ids are read digit by digit.  A form id is    *)
(* its eight hexadecimal digits.                                           *)
(*                                                                         *)
(* Operators whose comment begins with "Faulty:" are wrong on purpose.     *)
(***************************************************************************)
EXTENDS Naturals, Sequences, FiniteSets

Digits == {"0", "1", "2", "3", "4", "5", "6", "7", "8", "9", "a", "b", "c", "d", "e", "f"}

CONSTANTS
  Lines,  \* the lines that are typed
  Forms   \* the form ids of the items on display

ASSUME ConsoleConstants == Lines \subseteq Seq(Seq(STRING)) /\ Forms \subseteq [1..8 -> Digits]

VARIABLES
  featuresOn,  \* Features::IsEnabled()
  bypass,    \* I4Hook: the icon cache is disabled
  enabled,   \* InvalidateMemo::IsEnabled()
  debug,     \* I4Hook::SetDebugLogging
  verify,    \* InvalidateListFix::SetVerify
  cached,    \* the forms with icons in the cache
  printed,   \* the form id in what was printed last, <<>> if none
  original,  \* the last line went to the original CompileAndRun
  asked      \* what the documented lines that were typed have asked for (history)

switches == <<featuresOn, bypass, enabled, debug, verify>>
consoleVars == <<switches, cached, printed, original, asked>>

-----------------------------------------------------------------------------
(* Reading a line *)

Blank == << >>

\* Each character that has a lower case, and that one.
LowerCase ==
  {<<"I5", "i5">>, <<"DISABLE", "disable">>, <<"X", "x">>, <<"A", "a">>, <<"B", "b">>,
   <<"C", "c">>, <<"D", "d">>, <<"E", "e">>, <<"F", "f">>}

Lower(c) ==
  IF \E p \in LowerCase : p[1] = c THEN (CHOOSE p \in LowerCase : p[1] = c)[2] ELSE c
Upper(c) ==
  IF \E p \in LowerCase : p[2] = c THEN (CHOOSE p \in LowerCase : p[2] = c)[1] ELSE c

LowerWord(word) == [j \in DOMAIN word |-> Lower(word[j])]

\* The n-th of some positions.
Place(positions, n) ==
  CHOOSE i \in positions : Cardinality({j \in positions : j <= i}) = n

\* The pieces that are not blank, in lower case.
Tokenize(line) ==
  LET words == {i \in DOMAIN line : line[i] # Blank}
  IN [n \in 1..Cardinality(words) |-> LowerWord(line[Place(words, n)])]

NoForm == <<>>

\* Without the 0x that it may begin with.
Unprefixed(token) ==
  IF Len(token) > 2 /\ token[1] = "0" /\ token[2] = "x"
  THEN SubSeq(token, 3, Len(token)) ELSE token

\* Eight digits at most.
ReadHex(token, digits) ==
  LET zeros == 8 - Len(digits)
  IN IF digits = <<>> \/ Len(token) > 8 \/ ~(\A i \in DOMAIN digits : digits[i] \in Digits)
     THEN NoForm
     ELSE [i \in 1..8 |-> IF i <= zeros THEN "0" ELSE digits[i - zeros]]

\* Faulty: the 0x counts as digits.
TryParseWithPrefix(token) == ReadHex(token, Unprefixed(token))

TryParseHexFormID(token) == ReadHex(Unprefixed(token), Unprefixed(token))

FormatHex(form) == [i \in DOMAIN form |-> Upper(form[i])]

Word(w) == <<w>>

\* What a line asks for; "none" is not an i5 line.
Unmatched == [action |-> "unmatched", form |-> NoForm]
Act(action) == [action |-> action, form |-> NoForm]

\* Faulty: tokens that follow are not looked at.
MatchLongToggle(tokens, name, on, off) ==
  IF Len(tokens) < 3 \/ tokens[2] # Word(name) THEN Unmatched
  ELSE CASE tokens[3] = Word("on") -> Act(on)
         [] tokens[3] = Word("off") -> Act(off)
         [] OTHER -> Unmatched

MatchToggle(tokens, name, on, off) ==
  IF Len(tokens) # 3 \/ tokens[2] # Word(name) THEN Unmatched
  ELSE CASE tokens[3] = Word("on") -> Act(on)
         [] tokens[3] = Word("off") -> Act(off)
         [] OTHER -> Unmatched

MatchCacheCommand(tokens) ==
  IF Len(tokens) # 3 \/ tokens[2] # Word("cache") THEN Unmatched
  ELSE CASE tokens[3] = Word("disable") -> Act("disableCache")
         [] tokens[3] = Word("enable") -> Act("enableCache")
         [] tokens[3] = Word("purge") -> Act("purge")
         [] OTHER -> Unmatched

MatchMemoToggle(tokens) ==
  IF Len(tokens) # 4 \/ tokens[2] # Word("skyui") \/ tokens[3] # Word("inventory-dedupe")
  THEN Unmatched
  ELSE CASE tokens[4] = Word("enable") -> Act("memoOn")
         [] tokens[4] = Word("disable") -> Act("memoOff")
         [] OTHER -> Unmatched

MatchInvalidate(tokens) ==
  IF Len(tokens) # 3 \/ tokens[2] # Word("invalidate") THEN Unmatched
  ELSE LET form == TryParseHexFormID(tokens[3])
       IN IF form = NoForm THEN Unmatched ELSE [action |-> "invalidate", form |-> form]

\* Features as a whole, and status.
MatchAll(tokens) ==
  IF Len(tokens) # 2 THEN Unmatched
  ELSE CASE tokens[2] = Word("disable") -> Act("disableAll")
         [] tokens[2] = Word("enable") -> Act("enableAll")
         [] tokens[2] = Word("status") -> Act("status")
         [] OTHER -> Unmatched

\* The matches are tried one after the other.
Matches(tokens) ==
  <<MatchAll(tokens), MatchToggle(tokens, "debug", "debugOn", "debugOff"),
    MatchToggle(tokens, "verify", "verifyOn", "verifyOff"),
    MatchCacheCommand(tokens), MatchInvalidate(tokens), MatchMemoToggle(tokens)>>

\* The first command that the line matches, or else how to use them.
Classify(line) ==
  LET tokens == Tokenize(line)
      found == {i \in 1..6 : Matches(tokens)[i] # Unmatched}
  IN CASE tokens = <<>> \/ Head(tokens) # Word("i5") -> Act("none")
       [] OTHER -> IF found = {} THEN Act("usage")
                   ELSE Matches(tokens)[CHOOSE i \in found : \A j \in found : i <= j]

-----------------------------------------------------------------------------
(* The documented commands (README.md, CONTRIBUTING.md): those that set a  *)
(* switch, and those that clear icons                                      *)

Documented ==
  [features |-> [on |-> <<"i5", "enable">>, off |-> <<"i5", "disable">>],
   debug |-> [on |-> <<"i5", "debug", "on">>, off |-> <<"i5", "debug", "off">>],
   verify |-> [on |-> <<"i5", "verify", "on">>, off |-> <<"i5", "verify", "off">>],
   bypass |-> [on |-> <<"i5", "cache", "disable">>, off |-> <<"i5", "cache", "enable">>],
   enabled |-> [on |-> <<"i5", "skyui", "inventory-dedupe", "enable">>,
                off |-> <<"i5", "skyui", "inventory-dedupe", "disable">>]]

\* The line in capitals or not, with blanks anywhere, is this command.
Reads(line, words) == Tokenize(line) = [i \in DOMAIN words |-> Word(words[i])]

\* The token is the form id, from its n-th digit on if those before it are 0.
Names(token, form) ==
  \E n \in 0..7 : LET digits == SubSeq(form, n + 1, 8)
                  IN /\ \A i \in 1..n : form[i] = "0"
                     /\ token \in {digits, <<"0", "x">> \o digits}

\* The forms whose icons the line is documented to clear.
Clears(line) ==
  LET tokens == Tokenize(line)
  IN {f \in Forms :
        \/ Reads(line, <<"i5", "cache", "purge">>)
        \/ /\ Len(tokens) = 3 /\ tokens[1] = Word("i5") /\ tokens[2] = Word("invalidate")
           /\ Names(tokens[3], f)}

-----------------------------------------------------------------------------
(* Steps *)

ConsoleInit ==
  /\ featuresOn = TRUE /\ bypass = FALSE /\ enabled = TRUE
  /\ debug = FALSE /\ verify = FALSE
  /\ cached = {} /\ printed = NoForm /\ original = FALSE
  /\ asked = [features |-> TRUE, bypass |-> FALSE, enabled |-> TRUE,
              debug |-> FALSE, verify |-> FALSE, cached |-> {}, original |-> FALSE]

\* processList caches the icons of a form, if it is wrapped at all.
CacheIcons(f) ==
  /\ featuresOn /\ ~bypass
  /\ cached' = cached \cup {f}
  /\ asked' = [asked EXCEPT !.cached = @ \cup {f}]
  /\ UNCHANGED <<switches, printed, original>>

Toggled(action, on, off, switch) == action = on \/ (action # off /\ switch)

\* Faulty: enabling the features enables the cache too.
BypassUntilEnabled(action) ==
  action # "enableAll" /\ Toggled(action, "disableCache", "enableCache", bypass)

BypassAfter(action) == Toggled(action, "disableCache", "enableCache", bypass)

CachedAfter(command) ==
  CASE command.action = "purge" -> {}
    [] command.action = "invalidate" -> cached \ {command.form}
    [] OTHER -> cached

\* What each action calls; "status" and "usage" only print.
Dispatch(command) ==
  LET action == command.action IN
  /\ featuresOn' = Toggled(action, "enableAll", "disableAll", featuresOn)
  /\ debug' = Toggled(action, "debugOn", "debugOff", debug)
  /\ verify' = Toggled(action, "verifyOn", "verifyOff", verify)
  /\ bypass' = BypassAfter(action)
  /\ enabled' = Toggled(action, "memoOn", "memoOff", enabled)
  /\ cached' = CachedAfter(command)
  /\ printed' = IF action = "invalidate" THEN FormatHex(command.form) ELSE NoForm
  /\ original' = (action = "none")

\* A line is typed.  What it asks for is noted as it is documented.
CompileAndRun(line) ==
  /\ Dispatch(Classify(line))
  /\ asked' = [s \in DOMAIN asked |->
       CASE s = "cached" -> asked.cached \ Clears(line)
         [] s = "original" -> Tokenize(line) = <<>> \/ Tokenize(line)[1] # Word("i5")
         [] OTHER -> \/ Reads(line, Documented[s].on)
                     \/ asked[s] /\ ~Reads(line, Documented[s].off)]

ConsoleNext ==
  \/ \E f \in Forms : CacheIcons(f)
  \/ \E line \in Lines : CompileAndRun(line)

ConsoleSpec == ConsoleInit /\ [][ConsoleNext]_consoleVars

-----------------------------------------------------------------------------
(* Properties *)

\* However lines follow one another, mistyped ones among them, every switch is
\* as the last line documented to set it said: enabling all features leaves a
\* disabled cache disabled.  Icons are cached unless a line cleared them; and
\* exactly the lines that are not i5's go to the game.
ConsoleIsDocumented ==
  asked = [features |-> featuresOn, bypass |-> bypass, enabled |-> enabled,
           debug |-> debug, verify |-> verify, cached |-> cached, original |-> original]

\* A form id as the console prints it, typed again, with 0x or without, is
\* that form.
PrintedIdsReadBack ==
  printed # NoForm =>
    \A text \in {printed, <<"0", "x">> \o printed, <<"0", "X">> \o printed} :
      LET command == Classify(<<Word("I5"), Word("invalidate"), text>>)
      IN command.action = "invalidate" /\ FormatHex(command.form) = printed

=============================================================================
