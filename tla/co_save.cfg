SPECIFICATION MCSpec
CONSTANTS
  sword = sword  gem = gem  brew = brew  inv = inv  craft = craft
  Keys <- MCKeys
  RuntimeKeys <- MCRuntimeKeys
  Configs = {"v1", "v2"}
  Builds = {1, 2}
  Slots = {s1}
  MaxEntries = 2
  Absent = Absent  Torn = Torn
  Env = {}
  KeyParts <- MCKeyParts
  RecordLists <- MCRecordLists
  Overwritten = {0, 1, 2, 6}
  StampSize = 1
  ConfigLists <- MCConfigLists
  FieldLists <- MCFieldLists
INVARIANTS TypeOK IconsOfThisSetup RuntimeIconsAreFresh PackedKeysSurvive RecordRoundTrip DamageIsRefused StreamsTellApart
PROPERTY LoadRestoresSave
