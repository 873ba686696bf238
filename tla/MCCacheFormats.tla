--------------------------- MODULE MCCacheFormats ---------------------------
(***************************************************************************)
(* The co-save of MCCoSave; and, in initial states of their own, inputs of *)
(* the formats that it rests on.                                           *)
(***************************************************************************)
EXTENDS MCCoSave, CacheFormats

\* Ids with their first and last bits, and fill levels within eight bits and
\* beyond; the three setters.
MCKeyParts ==
  [form : {{}, {0}, {31}, {7, 8, 24}, 24..31, 0..31},
   status : {{}, {0}, {7}, {8}, 0..31},
   setter : {{}, {0}, {1}}]

\* The members of a delta: every kind, with empty and other strings.
Fields ==
  {[name |-> <<105, 99>>, kind |-> v[1], value |-> v[2]] :
     v \in {<<0, <<>>>>, <<1, <<0, 0, 0, 0, 0, 0, 36, 64>>>>, <<2, <<>>>>, <<2, <<97, 0>>>>,
            <<3, TRUE>>, <<3, FALSE>>, <<4, <<>>>>, <<5, <<>>>>, <<5, <<<<98>>, <<>>>>>>}}

EntryOfItem(id, soulGem, status, setter, delta) ==
  [formID |-> id, soulGem |-> soulGem, status |-> status, setter |-> setter, delta |-> delta]

\* Lists of none, one and two entries, with up to two members each.
MCRecordLists ==
  {<<>>}
  \cup {<<EntryOfItem(258, TRUE, 3, 1, d)>> : d \in UNION {[1..n -> Fields] : n \in 0..2}}
  \cup {<<EntryOfItem(1, FALSE, 0, 2, <<f>>), EntryOfItem(16777216, TRUE, 300, 0, <<>>)>> :
          f \in Fields}

\* Names and contents that run into one another where nothing divides them: the
\* last contents look like a second file's name and stamp.
ConfigFiles ==
  [name : {<<97>>, <<97, 97>>}, stamp : {<<1>>, <<97>>},
   json : {<<>>, <<97>>, <<1, 0, 0, 0, 97, 1>>}, unread : {0}]
MCConfigLists == UNION {[1..n -> ConfigFiles] : n \in 0..2}

\* A runtime form's text and form type, in either order, and keywords.
Text(s) == [name |-> <<116>>, kind |-> 2, value |-> s]
Type(n) == [name |-> <<102>>, kind |-> 1, value |-> <<n, 0, 0, 0, 0, 0, 0, 0>>]
Keywords(s) == [name |-> <<116, 107>>, kind |-> 5, value |-> s]
MCFieldLists ==
  LET texts == {Text(s) : s \in {<<>>, <<97>>, <<97, 102>>}}
      types == {Type(n) : n \in {1, 2}}
      keywords == {Keywords(s) : s \in {<<>>, <<<<97>>>>, <<<<97>>, <<98>>>>, <<<<98>>, <<97>>>>, <<<<97, 98>>>>}}
  IN {<<>>} \cup {<<x>> : x \in texts \cup types \cup keywords}
     \cup {<<x, y>> : x \in texts, y \in types \cup keywords}
     \cup {<<y, x>> : x \in texts, y \in types \cup keywords}

MCInit == Init /\ FormatsInit

MCNext ==
  \/ input = NoInput /\ Next /\ UNCHANGED input
  \/ input # NoInput /\ UNCHANGED <<vars, input>>

MCSpec == MCInit /\ [][MCNext]_<<vars, input>>
=============================================================================
