SPECIFICATION MCSpec
CONSTANTS
  ItemMenus = {"InventoryMenu"}
  OtherMenus = {"TweenMenu"}
  FavoritesMenu = "FavoritesMenu"
  None = None
  OldRuntime = TRUE
  FileSetting = TRUE
  StaticIds = {"sword"}
  RuntimeIds = {"potion"}
  Owners = {"a", "b", "coin"}
  KeywordForms = {"a", "b"}
  MaxLayers = 2
  Lines <- MCLines
  Forms <- MCForms
INVARIANTS TypeOK WrappedOnce NoOwnLookup KeywordsReachI4 ConsoleIsDocumented PrintedIdsReadBack
