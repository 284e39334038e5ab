SPECIFICATION Spec
CONSTANTS
  a = a
  b = b
  token = token
  tx1 = tx1
  tx2 = tx2
  Payloads <- MCPayloads
  Origin <- MCOrigin
  FinalityDepth = 2
  MaxHeight = 3
  Keys <- MCKeys
  TableOf <- MCTableOf
  Touched <- MCTouched
  TxsOf <- MCTxsOf
  CodesOf <- MCCodesOf
  None = None
  Syncers = {s1, s2}
  BlockLimit = 2
  NotFetched = NotFetched
  Missing = Missing
INVARIANTS OneChain HistoryExact TxsCached
SYMMETRY Interchangeable
