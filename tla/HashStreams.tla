---------------------------- MODULE HashStreams -----------------------------
(***************************************************************************)
(* The bytes that go into the plugin's two hashes: HashConfig of           *)
(* ConfigHash.h (whose digest a co-save is stamped with) and               *)
(* FingerprintFields of CacheFingerprint.h (the token of a runtime form).  *)
(* FNV-1a itself is taken as free of collisions: two inputs then hash      *)
(* alike exactly if their streams of bytes are equal.                      *)
(*                                                                         *)
(* Operators whose comment begins with "Faulty:" are wrong on purpose.     *)
(***************************************************************************)
EXTENDS CacheRecord, FiniteSets

CONSTANT StampSize  \* bytes of a file's size and time: 16 in the code

-----------------------------------------------------------------------------
(* ConfigHasher *)

\* Faulty: the size of the contents is not declared.
BeginFileUnsized(name, size) == PutStr(name)

BeginFile(name, size) == PutStr(name) \o PutU32(size)

\* The files that a configuration is read from.
ConfigFile ==
  {file \in [name : Str, stamp : [1..StampSize -> Byte], json : Str, unread : U32] :
     StampSize + Len(file.json) \in U32 /\ file.unread <= Len(file.json)}

\* A file's stamp (size and time of the plugin) and its I4 configuration, of
\* which the last unread bytes could not be read: their number is hashed in
\* their place.
ConfigFileStream(file) ==
  BeginFile(file.name, StampSize + Len(file.json))
  \o file.stamp
  \o SubSeq(file.json, 1, Len(file.json) - file.unread)
  \o (IF file.unread > 0 THEN PutU32(file.unread) ELSE <<>>)

\* The files in load order.
ConfigStream(files) == PutAll(ConfigFileStream, files)

-----------------------------------------------------------------------------
(* FingerprintFields *)

\* Strings are compared byte by byte, the shorter first.
Before(s, t) ==
  \E i \in DOMAIN t :
    /\ i \in DOMAIN s => s[i] < t[i]
    /\ \A j \in 1..i - 1 : j \in DOMAIN s /\ s[j] = t[j]

\* The strings that come before the i-th, or are equal to it and stand before
\* it, and itself.
UpTo(s, i) == {j \in DOMAIN s : Before(s[j], s[i]) \/ (s[j] = s[i] /\ j <= i)}

\* Where the strings stand, the first of them in order first.
InOrder(s) ==
  [n \in DOMAIN s |-> CHOOSE i \in DOMAIN s : Cardinality(UpTo(s, i)) = n]

SortedStrings(s) == [n \in DOMAIN s |-> s[InOrder(s)[n]]]

HashedValue(f) ==
  CASE f.kind = Number -> f.value
    [] f.kind = Bool -> PutU32(IF f.value THEN 1 ELSE 0)
    [] f.kind = String -> PutStr(f.value)
    [] f.kind = KeywordObj -> Counted(PutStr, SortedStrings(f.value))
    [] OTHER -> <<>>

HashedField(f) == PutStr(f.name) \o PutU32(f.kind) \o HashedValue(f)

\* Faulty: the fields are hashed as they were captured.
UnsortedStream(fields) == PutAll(HashedField, fields)

\* The fields, whose names differ, in the order of their names.
FieldStream(fields) ==
  LET order == InOrder([i \in DOMAIN fields |-> fields[i].name])
  IN PutAll(HashedField, [n \in DOMAIN fields |-> fields[order[n]]])

-----------------------------------------------------------------------------
(* Properties *)

\* Configurations that were read to their ends hash alike only if they are the
\* same files in the same order: no byte moves from a name into contents, or
\* from one file into the next.
WholeFiles(files) == \A i \in DOMAIN files : files[i].unread = 0

ConfigsToldApart(files, others) ==
  WholeFiles(files) =>
    \A g \in others :
      WholeFiles(g) /\ ConfigStream(files) = ConfigStream(g) => files = g

\* The one is the other in some order.
SameStrings(s, t) ==
  \E p \in Bijection(DOMAIN s, DOMAIN t) : \A i \in DOMAIN s : s[i] = t[p[i]]

SameField(f, g) ==
  /\ f.name = g.name /\ f.kind = g.kind
  /\ IF f.kind = KeywordObj THEN SameStrings(f.value, g.value) ELSE f.value = g.value

SameFields(fields, g) ==
  \E p \in Bijection(DOMAIN fields, DOMAIN g) :
    \A i \in DOMAIN fields : SameField(fields[i], g[p[i]])

\* Fields hash alike exactly if they are the same fields with the same values,
\* in whatever order they, or the keywords in them, were captured.
FieldsToldApart(fields, others) ==
  \A g \in others : FieldStream(fields) = FieldStream(g) <=> SameFields(fields, g)

\* The fields of an entry, each with a name of its own.
FieldsOfEntry ==
  {fields \in Seq(CachedField) :
     \A i, j \in DOMAIN fields : fields[i].name = fields[j].name => i = j}

=============================================================================
