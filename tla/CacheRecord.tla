---------------------------- MODULE CacheRecord -----------------------------
(***************************************************************************)
(* The bytes of an ENTR record: SerializeEntries and DeserializeEntries of *)
(* CacheSerialization.h.  CoSave takes from them that a whole record gives *)
(* back its entries and any other is refused.                              *)
(*                                                                         *)
(* A string is a sequence of bytes; a double is its eight bytes.  Reader   *)
(* is a value: what was read and the bytes that are left, or Refused.      *)
(*                                                                         *)
(* Operators whose comment begins with "Faulty:" are wrong on purpose.     *)
(***************************************************************************)
EXTENDS Integers, SequencesExt

Byte == 0..255
Bytes == Seq(Byte)
U32 == {n \in Nat : n \div 65536 < 65536}
MaxSetter == 2  \* CacheSetter::kMagic

\* What a vector may hold, so that its size fits in the count before it.
ListOf(S) == {s \in Seq(S) : Len(s) \in U32}
Str == ListOf(Byte)

-----------------------------------------------------------------------------
(* Writing *)

PutU32(n) ==
  <<n % 256, (n \div 256) % 256, (n \div 65536) % 256, (n \div 16777216) % 256>>
PutBool(b) == IF b THEN <<1>> ELSE <<0>>
PutStr(s) == PutU32(Len(s)) \o s

\* The elements of s, each written by Put.
PutAll(Put(_), s) == FlattenSeq([i \in DOMAIN s |-> Put(s[i])])
Counted(Put(_), s) == PutU32(Len(s)) \o PutAll(Put, s)

\* CachedField::Kind
Delete == 0
Number == 1
String == 2
Bool == 3
Null == 4
KeywordObj == 5

CachedField ==
  [name : Str, kind : {Delete, Null}, value : {<<>>}]
  \cup [name : Str, kind : {Number}, value : [1..8 -> Byte]]
  \cup [name : Str, kind : {String}, value : Str]
  \cup [name : Str, kind : {Bool}, value : BOOLEAN]
  \cup [name : Str, kind : {KeywordObj}, value : ListOf(Str)]

CacheEntry ==
  [formID : U32, soulGem : BOOLEAN, status : U32, setter : 0..MaxSetter,
   delta : ListOf(CachedField)]

PutValue(f) ==
  CASE f.kind = Number -> f.value
    [] f.kind = Bool -> PutBool(f.value)
    [] f.kind = String -> PutStr(f.value)
    [] f.kind = KeywordObj -> Counted(PutStr, f.value)
    [] OTHER -> <<>>

\* Faulty: the value comes before the name.
PutFieldSwapped(f) == <<f.kind>> \o PutValue(f) \o PutStr(f.name)

PutField(f) == <<f.kind>> \o PutStr(f.name) \o PutValue(f)

PutEntry(e) ==
  PutU32(e.formID) \o PutBool(e.soulGem) \o PutU32(e.status) \o <<e.setter>>
  \o Counted(PutField, e.delta)

SerializeEntries(entries) == Counted(PutEntry, entries)

-----------------------------------------------------------------------------
(* Reading *)

Refused == [ok |-> FALSE, value |-> <<>>, rest |-> <<>>]
Got(value, rest) == [ok |-> TRUE, value |-> value, rest |-> rest]

Take(n, b) ==
  IF Len(b) < n THEN Refused ELSE Got(SubSeq(b, 1, n), SubSeq(b, n + 1, Len(b)))

GetU8(b) == IF b = <<>> THEN Refused ELSE Got(Head(b), Tail(b))

GetU32(b) ==
  IF Len(b) < 4 THEN Refused
  ELSE Got(b[1] + 256 * b[2] + 65536 * b[3] + 16777216 * b[4], SubSeq(b, 5, Len(b)))

\* Faulty: a string that is cut short is read as far as it goes.
GetStrLeft(b) ==
  LET n == GetU32(b)
      size == IF n.value > Len(n.rest) THEN Len(n.rest) ELSE n.value
  IN IF n.ok THEN Take(size, n.rest) ELSE Refused

GetStr(b) == LET n == GetU32(b) IN IF n.ok THEN Take(n.value, n.rest) ELSE Refused

ReadStr == [b \in Bytes |-> GetStr(b)]

\* Reads n elements, after each the next.  Each takes a byte at least, so that
\* more of them than there are bytes are refused in the end.
GetAll(read, n, b) ==
  LET upTo[i \in 0..n] ==
        IF i = 0 THEN Got(<<>>, b)
        ELSE LET next == read[upTo[i - 1].rest]
             IN IF upTo[i - 1].ok /\ next.ok
                THEN Got(Append(upTo[i - 1].value, next.value), next.rest) ELSE Refused
  IN IF n > Len(b) THEN Refused ELSE upTo[n]

GetCounted(read, b) ==
  LET n == GetU32(b) IN IF n.ok THEN GetAll(read, n.value, n.rest) ELSE Refused

GetBool(b) == LET v == GetU8(b) IN IF v.ok THEN Got(v.value # 0, v.rest) ELSE Refused

GetValue(kind, b) ==
  CASE kind = Number -> Take(8, b)
    [] kind = Bool -> GetBool(b)
    [] kind = String -> GetStr(b)
    [] kind = KeywordObj -> GetCounted(ReadStr, b)
    [] OTHER -> Got(<<>>, b)

GetField(b) ==
  LET kind == GetU8(b)
      name == GetStr(kind.rest)
      value == GetValue(kind.value, name.rest)
  IN IF kind.ok /\ name.ok /\ kind.value \in Delete..KeywordObj /\ value.ok
     THEN Got([name |-> name.value, kind |-> kind.value, value |-> value.value], value.rest)
     ELSE Refused

ReadField == [b \in Bytes |-> GetField(b)]

GetEntry(b) ==
  LET form == GetU32(b)
      soulGem == GetBool(form.rest)
      status == GetU32(soulGem.rest)
      setter == GetU8(status.rest)
      delta == GetCounted(ReadField, setter.rest)
  IN IF /\ form.ok /\ soulGem.ok /\ status.ok
        /\ setter.ok /\ setter.value \in 0..MaxSetter /\ delta.ok
     THEN Got([formID |-> form.value, soulGem |-> soulGem.value, status |-> status.value,
               setter |-> setter.value, delta |-> delta.value], delta.rest)
     ELSE Refused

ReadEntry == [b \in Bytes |-> GetEntry(b)]

\* Faulty: what follows the last entry is not looked at.
DeserializePrefix(bytes) == GetCounted(ReadEntry, bytes)

\* Nothing may be left.
DeserializeEntries(bytes) ==
  LET all == GetCounted(ReadEntry, bytes) IN IF all.rest = <<>> THEN all ELSE Refused

-----------------------------------------------------------------------------
(* Properties *)

\* The entries come back whole.
RoundTrips(entries) == DeserializeEntries(SerializeEntries(entries)) = Got(entries, <<>>)

\* A record of the entries that ends early, at any byte, or goes on after its
\* end, is refused as a whole.
CutRefused(entries, more) ==
  LET bytes == SerializeEntries(entries) IN
  /\ \A n \in 0..Len(bytes) - 1 : ~DeserializeEntries(SubSeq(bytes, 1, n)).ok
  /\ \A b \in more : ~DeserializeEntries(bytes \o <<b>>).ok

\* The same bytes, but where 1 stands for a boolean that was read as TRUE.
Like(again, bytes) ==
  /\ Len(again) = Len(bytes)
  /\ \A j \in DOMAIN again : again[j] = bytes[j] \/ (again[j] = 1 /\ bytes[j] # 0)

\* Whatever the bytes are, they are only read as entries that could have been
\* saved, and whose record they are.
Understood(bytes) ==
  LET r == DeserializeEntries(bytes)
  IN r.ok => r.value \in ListOf(CacheEntry) /\ Like(SerializeEntries(r.value), bytes)

\* So are those of a record of which a byte, whichever, is not what it was.
DamageUnderstood(entries, tried) ==
  LET bytes == SerializeEntries(entries)
  IN \A i \in DOMAIN bytes, b \in tried : Understood([bytes EXCEPT ![i] = b])

=============================================================================
