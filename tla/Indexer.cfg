SPECIFICATION IndexerSpec
CONSTANTS
  a = a
  b = b
  token = token
  spore = spore
  tx1 = tx1
  tx2 = tx2
  Payloads <- MCPayloads
  Origin <- MCOrigin
  FinalityDepth = 2
  MaxHeight = 4
  Keys <- MCKeys
  TableOf <- MCTableOf
  Touched <- MCTouched
  TxsOf <- NoTxs
  CodesOf <- NoTxs
  None = None
  Base = 2
  Digits = 3
  Syncers = {s1}
  BlockLimit = 2
  NotFetched = NotFetched
  Missing = Missing
  Clearers = {c1}
  Confirmations = 2
  TxConfirmations = 2
  InitialSynced = 0
INVARIANTS IndexerTypeOK OneChain HistoryExact FinalKept ServedBlocks SelectedAsNumbers
PROPERTIES KeepsPromise
