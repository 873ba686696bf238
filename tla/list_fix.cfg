SPECIFICATION MCSpec
CONSTANTS
  all = all  weapons = weapons  misc = misc
  Slots = {1, 2}
  Tabs = {all, weapons, misc}
  Bits = {1, 2}
  FlagOf <- MCFlagOf
  Pinned = {misc}
  None = None  Nil = Nil
  Window = 3
  PostFrames = 2
  Menus = {"inventory"}
  Costs = {1}
  MaxMs = 2
  MaxCalls = 1
INVARIANTS TypeOK FilterFollowsTab VerifyAgrees FoldIsNaive ProbeTypeOK RingsHoldTheLastFrames ReportIsTrue DumpCoversRefresh
PROPERTY ImplementsSkyUI
