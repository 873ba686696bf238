SPECIFICATION Spec
CONSTANTS
  sword = sword  gem = gem  brew = brew  inv = inv  craft = craft
  NoForm = NoForm  Absent = Absent  Keep = Keep  Nothing = Nothing
  Entries = {1}
  Forms = {sword}
  DynamicForms = {brew}
  SoulGems = {gem}
  Items <- SwordOnly
  Setters = {inv}
  Value <- MCValue
  Icon <- MCIcon
  Calls = {c1}
  MaxVersion = 1
  Env = {"async"}
INVARIANT EveryInvalidationTakesEffect
