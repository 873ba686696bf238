SPECIFICATION Spec
CONSTANTS
  sword = sword  gem = gem  brew = brew  inv = inv  craft = craft
  NoForm = NoForm  Absent = Absent  Keep = Keep  Nothing = Nothing
  Entries = {1, 2}
  Forms = {gem, brew}
  DynamicForms = {brew}
  SoulGems = {gem}
  Items <- NoSword
  Setters = {inv, craft}
  Value <- MCValue
  Icon <- MCIcon
  Calls = {c1}
  MaxVersion = 0
  Env = {}
INVARIANTS SameIconsAsI4 CachedIconsAreI4s
