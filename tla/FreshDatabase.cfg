SPECIFICATION FairIndexerSpec
CONSTANTS
  a = a
  b = b
  token = token
  spore = spore
  tx1 = tx1
  tx2 = tx2
  Payloads <- MCPayloads
  Origin <- MCOrigin
  FinalityDepth = 1
  MaxHeight = 2
  Keys <- OneKey
  TableOf <- OneTable
  Touched <- OneTouched
  TxsOf <- NoTxs
  CodesOf <- NoTxs
  None = None
  Base = 2
  Digits = 3
  Syncers = {s1}
  BlockLimit = 2
  NotFetched = NotFetched
  Missing = Missing
  Clearers = {c1}
  Confirmations = 1
  TxConfirmations = 1
  InitialSynced = None
PROPERTIES PruningHappens
