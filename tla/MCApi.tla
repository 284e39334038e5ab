-------------------------------- MODULE MCApi --------------------------------
(***************************************************************************)
(* An instance of CellLookup and AssetEvents for TLC.  The two share no    *)
(* state, so each is explored while the other rests.                       *)
(***************************************************************************)
EXTENDS CellLookup, AssetEvents, TLC

CONSTANTS mint, sendA, leapB, sendBoth, btc, time, plain, udt
CONSTANTS t1, t2, s1, s2, c1

(***************************************************************************)
(* A transaction that mints two cells under one RGB++ lock, and three that *)
(* spend the first, the second, or both of them in the other order         *)
(***************************************************************************)

Cell(lock, type) == [lock |-> lock, type |-> type]
Out(tx, index) == [tx |-> tx, index |-> index]

MCInputsOf ==
  (mint :> <<>>) @@ (sendA :> <<Out(mint, 1)>>) @@ (leapB :> <<Out(mint, 2)>>)
    @@ (sendBoth :> <<Out(mint, 2), Out(mint, 1)>>)
MCOutputsOf ==
  (mint :> <<Cell(btc, udt), Cell(btc, udt)>>) @@ (sendA :> <<Cell(btc, udt)>>)
    @@ (leapB :> <<Cell(time, udt), Cell(plain, NoType)>>) @@ (sendBoth :> <<Cell(btc, udt)>>)
MCBlocks == {<<mint>>, <<mint, sendA>>, <<sendA>>, <<leapB>>, <<sendBoth>>}
MCOrigin == <<>>

Request(kind, target, withSpender) ==
  [kind |-> kind, target |-> target, withSpender |-> withSpender]
MCRequests ==
  {Request("outpoint", Out(mint, 1), TRUE), Request("outpoint", Out(leapB, 1), FALSE),
   Request("outpoint", Out(leapB, 2), FALSE), Request("spendInfo", Out(mint, 2), TRUE),
   Request("spendInfo", Out(mint, 3), TRUE), Request("utxo", btc, FALSE),
   Request("tokens", [lock |-> btc, type |-> udt], FALSE)}

(***************************************************************************)
(* Transactions of two inputs and up to three outputs                      *)
(***************************************************************************)

AssetCell(mode, id, amount, isBtc) ==
  [mode |-> mode, id |-> id, amount |-> amount, btc |-> isBtc]
Udts == {AssetCell("udt", t1, 0, FALSE), AssetCell("udt", t1, 1, TRUE),
         AssetCell("udt", t1, 2, FALSE), AssetCell("udt", t2, 1, TRUE)}
Others == {AssetCell("none", NoToken, 0, TRUE), AssetCell("spore", s1, 0, TRUE),
           AssetCell("spore", s2, 0, FALSE), AssetCell("cluster", c1, 0, FALSE)}
Unique == AssetCell("unique", NoToken, 0, FALSE)
Ins == Udts \cup Others \cup {AssetCell("missing", NoToken, 0, FALSE)}
Outs == Udts \cup Others
Distinct(cells) == \A i, j \in DOMAIN cells : i # j => ~SameNft(cells[i], cells[j])
MCAssetTxs ==
  {tx \in [ins : Ins \X Ins, outs : (Outs \X Outs) \cup (Udts \X {Unique} \X Udts)] :
     Distinct(tx.ins) /\ Distinct(tx.outs)}
MCClusterOf == (s1 :> c1) @@ (s2 :> NoCluster)

ApiInit == LookupInit /\ AssetInit
ApiNext ==
  \/ phase = "none" /\ LookupNext /\ UNCHANGED assetVars
  \/ chain = Origin /\ mined = {} /\ pool = {} /\ pc = "idle" /\ AssetNext /\ UNCHANGED lookupVars

=============================================================================
