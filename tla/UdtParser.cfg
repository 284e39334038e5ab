SPECIFICATION UdtSpec
CONSTANTS
  token = token
  plain = plain
  rgbpp = rgbpp
  btc = btc
  info1 = info1
  info2 = info2
  Tokens <- MCTokens
  SsriInfo <- NoSsri
  Locks <- MCLocks
  BtcAddress <- MCBtcAddress
  Requesters = 2
  Replies = {"found", "dropped", "skip"}
  Infos <- MCInfos
  NoInfo = NoInfo
  Cropped = Cropped
  NotFound = NotFound
  MaxHeight = 2
  MaxTxs = 2
  MaxAmount = 1
INVARIANTS UdtTypeOK BalancesAreCells SupplyIsCells InfoIsFirst HoldersServed BalancesServed
SYMMETRY Interchangeable
