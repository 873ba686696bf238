---------------------------- MODULE CacheFormats ----------------------------
(***************************************************************************)
(* The formats that the icon cache rests on, each with inputs of its own:  *)
(* packed keys (CacheKey), the record of a co-save (CacheRecord), and what *)
(* configurations and runtime items feed to their hashes (HashStreams).    *)
(* They are functions: an input is an initial state in which nothing       *)
(* further happens.                                                        *)
(***************************************************************************)
EXTENDS CacheKey, HashStreams

CONSTANTS
  KeyParts,     \* [form, status, setter], in bits
  RecordLists,  \* entries that are saved
  Overwritten,  \* what a damaged byte becomes, and what follows a record's end
  ConfigLists,  \* configurations in load order
  FieldLists    \* fields of runtime items

ASSUME FormatConstants ==
  /\ KeyParts \subseteq [form : Word(32), status : Word(32), setter : Word(8)]
  /\ RecordLists \subseteq ListOf(CacheEntry)
  /\ Overwritten \subseteq Byte
  /\ StampSize \in Nat
  /\ ConfigLists \subseteq Seq(ConfigFile)
  /\ FieldLists \subseteq FieldsOfEntry

VARIABLE input

NoInput == [kind |-> "none"]

Inputs ==
  [kind : {"key"}, parts : KeyParts]
  \cup [kind : {"record"}, entries : RecordLists]
  \cup [kind : {"config"}, files : ConfigLists]
  \cup [kind : {"fields"}, fields : FieldLists]

FormatsInit == input \in Inputs \cup {NoInput}

FormatsSpec == FormatsInit /\ [][FALSE]_input

-----------------------------------------------------------------------------
(* Properties *)

\* Every key gives back its parts, and itself after a co-save.
PackedKeysSurvive ==
  input.kind = "key" =>
    \A gem \in BOOLEAN :
      /\ DecodesBack(input.parts.form, gem, input.parts.status, input.parts.setter)
      /\ SurvivesCoSave(input.parts.form, gem, input.parts.status, input.parts.setter)

\* What SerializeEntries writes, DeserializeEntries reads back.
RecordRoundTrip == input.kind = "record" => RoundTrips(input.entries)

\* A record that was cut anywhere, or goes on after its end, is refused whole;
\* one with a damaged byte is refused or read as what its bytes say.
DamageIsRefused ==
  input.kind = "record" =>
    CutRefused(input.entries, Overwritten) /\ DamageUnderstood(input.entries, Overwritten)

\* Different configurations, and different runtime items, feed different
\* bytes to the hash; equal ones the same.
StreamsTellApart ==
  /\ input.kind = "config" => ConfigsToldApart(input.files, ConfigLists)
  /\ input.kind = "fields" => FieldsToldApart(input.fields, FieldLists)

=============================================================================
