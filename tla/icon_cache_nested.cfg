SPECIFICATION FairSpec
CONSTANTS
  sword = sword  gem = gem  brew = brew  inv = inv  craft = craft
  NoForm = NoForm  Absent = Absent  Keep = Keep  Nothing = Nothing
  Entries = {1, 2}
  Forms = {sword}
  DynamicForms = {brew}
  SoulGems = {gem}
  Items <- SwordAndNote
  Setters = {inv}
  Value <- MCValue
  Icon <- MCIcon
  Calls = {c1, c2}
  MaxVersion = 1
  Env = {"async"}
INVARIANTS InvalidationsTakeEffect RefreshShowsI4Icons ListRestored
PROPERTY CallsReturn
