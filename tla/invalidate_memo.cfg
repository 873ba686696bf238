SPECIFICATION Spec
CONSTANTS
  book = book  gold = gold
  Nothing = Nothing
  Entries = {book, gold}
  Contents <- MCContents
  Settle <- MCSettle
  Processable <- MCProcessable
  Configs = {"all", "books"}
  MaxDepth = 3
INVARIANTS TypeOK SkipIsSafe RedundantIsSkipped
