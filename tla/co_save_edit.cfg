SPECIFICATION Spec
CONSTANTS
  sword = sword  gem = gem  brew = brew  inv = inv  craft = craft
  Keys <- MCKeys
  RuntimeKeys <- MCRuntimeKeys
  Configs = {"v1", "v2"}
  Builds = {1}
  Slots = {s1}
  MaxEntries = 3
  Absent = Absent  Torn = Torn
  Env = {"edit"}
INVARIANT IconsOfThisSetup
