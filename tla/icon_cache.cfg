SPECIFICATION Spec
CONSTANTS
  sword = sword  gem = gem  brew = brew  inv = inv  craft = craft
  NoForm = NoForm  Absent = Absent  Keep = Keep  Nothing = Nothing
  Entries = {1, 2}
  Forms = {sword, brew}
  DynamicForms = {brew}
  SoulGems = {gem}
  Items <- SwordAndBrews
  Setters = {inv}
  Value <- MCValue
  Icon <- MCIcon
  Calls = {c1}
  MaxVersion = 1
  Env = {"inplace", "toggle"}
INVARIANTS TypeOK InvalidationsTakeEffect RefreshShowsI4Icons MissesGetCached
