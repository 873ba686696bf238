SPECIFICATION Spec
CONSTANTS
  sword = sword  inv = inv
  NoForm = NoForm  Absent = Absent  Keep = Keep  Nothing = Nothing
  Entries = {1}
  Forms = {sword}
  DynamicForms = {}
  SoulGems = {}
  Items <- SwordOnly
  Setters = {inv}
  Value <- MCValue
  Icon <- MCIcon
  Calls = {c1}
  MaxVersion = 1
  Env = {"toggle", "async"}
  Contents = {"list"}
  Configs = {"all"}
  MaxDepth = 2
  Settle <- MCSettle
  Processable <- MCProcessable
VIEW relevant
INVARIANTS SkipShowsCurrentIcons
