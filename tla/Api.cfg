INIT ApiInit
NEXT ApiNext
CONSTANTS
  mint = mint
  sendA = sendA
  leapB = leapB
  sendBoth = sendBoth
  btc = btc
  time = time
  plain = plain
  udt = udt
  t1 = t1
  t2 = t2
  s1 = s1
  s2 = s2
  c1 = c1
  NoToken = NoToken
  NoCluster = NoCluster
  AssetTxs <- MCAssetTxs
  ClusterOf <- MCClusterOf
  NoType = NoType
  Nil = Nil
  PageLimit = 1
  Payloads <- MCBlocks
  Origin <- MCOrigin
  FinalityDepth = 2
  MaxHeight = 3
  InputsOf <- MCInputsOf
  OutputsOf <- MCOutputsOf
  BtcLocks = {btc}
  TimeLocks = {time}
  Requests <- MCRequests
INVARIANTS LookupTypeOK AnswersHeld SpenderHeld SpenderNamed SpenderFound PagesComplete AssetTypeOK EventsAreOfTx IssuesAreOfTx
