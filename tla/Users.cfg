SPECIFICATION SceneSpec
CONSTANTS
  Conns = {c1}
  Files <- CsvFiles
  Image <- Table
  Oversized = {}
  NoConn = NoConn
  NoImage = NoImage
  u1 = u1
  u2 = u2
  u3 = u3
  n1 = n1
  n2 = n2
  n3 = n3
  Users = {u1, u2, u3}
  Nicknames = {n1, n2, n3}
  Accounts <- Installed
  StartMoney <- Money
  PriceList <- Prices
  Matches <- Pair
  MaxMatches = 2
  NoRow = NoRow
INVARIANTS
  AccountsComplete
  BooksBalance
  ExperienceAddsUp
  EquippedAreOwned
  PaidTogether
PROPERTIES
  CsvStoreSpec
