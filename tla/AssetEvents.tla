------------------------------ MODULE AssetEvents ------------------------------
(***************************************************************************)
(* What the asset API tells of a transaction: the typed cells among its    *)
(* inputs and outputs, and of each whether it is minted, issued,           *)
(* transferred or burnt, and whether it leaps between Bitcoin and CKB.     *)
(*                                                                         *)
(* All inputs are looked up at once, then all outputs, each with requests  *)
(* of its own, so the callbacks of either complete in any order.  They     *)
(* append to shared lists and keep positions of these lists in the totals  *)
(* of each token.                                                          *)
(***************************************************************************)
EXTENDS Integers, Sequences, FiniteSetsExt, Functions

CONSTANTS
  AssetTxs,   \* transactions: the cells spent and the cells created, in order
  ClusterOf,  \* the cluster of a spore, NoCluster if it has none
  NoCluster,
  NoToken

\* A cell has a mode, the id its type script gives, an amount, and a lock
\* that is or is not an RGB++ lock.
Modes == {"none", "unknown", "missing", "udt", "spore", "cluster", "unique"}

VARIABLES
  asset,    \* the transaction asked for, with the inputs that could be found
  todo,     \* the callbacks that have not completed yet
  inputs,   \* txAssetData.inputs
  outputs,  \* txAssetData.outputs
  groups,   \* tokenGroups, in the order in which the tokens came up
  phase     \* "none" without a request, "inputs", "outputs", "answered" or "failed"

assetVars == <<asset, todo, inputs, outputs, groups, phase>>

Listed(c) == c.mode \notin {"none", "unknown"}
IsNft(c) == c.mode \in {"spore", "cluster"}
Positions(cells) == {i \in DOMAIN cells : Listed(cells[i])}

\* nftData: spores by token and cluster, clusters by cluster
NftOf(c) ==
  IF c.mode = "spore" THEN <<c.id, ClusterOf[c.id]>> ELSE <<NoToken, c.id>>
SameNft(c, d) == IsNft(c) /\ IsNft(d) /\ NftOf(c) = NftOf(d)

\* extractCellsFromTxInputs leaves out the inputs whose cells are unknown to
\* the transaction table and to the node.
InputsFound(tx) == SelectSeq(tx.ins, LAMBDA c : c.mode # "missing")

\* An NFT is in one live cell at a time.
ASSUME AssetTxsAssumption ==
  \A tx \in AssetTxs :
    /\ \A cells \in {InputsFound(tx), tx.outs} :
         /\ cells \in Seq(Range(cells))
         /\ \A c \in Range(cells) :
              c.mode \in Modes /\ c.amount \in Nat /\ c.btc \in BOOLEAN
    /\ LET ins == InputsFound(tx)
       IN  \A i, j \in DOMAIN ins : i # j => ~SameNft(ins[i], ins[j])

\* cellDetailWithoutAssets: a cell under an RGB++ lock is bound, with no leap yet
Entry(c, index, event) ==
  [cell |-> c, index |-> index, event |-> event,
   leap |-> IF c.btc THEN "None" ELSE "NoBinding",
   token |-> IF c.mode = "udt" THEN c.id ELSE NoToken, amount |-> c.amount]

(***************************************************************************)
(* Token groups                                                            *)
(***************************************************************************)

Untouched(token) == [token |-> token, inTotal |-> 0, inAt |-> {}, outTotal |-> 0, outAt |-> {}]
Joined(c) ==
  IF \E g \in DOMAIN groups : groups[g].token = c.id THEN groups
  ELSE Append(groups, Untouched(c.id))

With(c, side, at) ==
  [g \in DOMAIN Joined(c) |->
     CASE Joined(c)[g].token # c.id -> Joined(c)[g]
       [] Joined(c)[g].token = c.id /\ side = "in" ->
            [Joined(c)[g] EXCEPT !.inTotal = @ + c.amount, !.inAt = @ \cup {at}]
       [] OTHER ->
            [Joined(c)[g] EXCEPT !.outTotal = @ + c.amount, !.outAt = @ \cup {at}]]

\* Mutant: the position is taken after the cell has been appended.
GroupInputNext(c) == IF c.mode = "udt" THEN With(c, "in", Len(inputs) + 2) ELSE groups

GroupInput(c) == IF c.mode = "udt" THEN With(c, "in", Len(inputs) + 1) ELSE groups
GroupOutput(c) == IF c.mode = "udt" THEN With(c, "out", Len(outputs) + 1) ELSE groups

(***************************************************************************)
(* The callbacks                                                           *)
(***************************************************************************)

AssetInit ==
  /\ phase = "none"
  /\ asset = [ins |-> <<>>, outs |-> <<>>]
  /\ todo = {} /\ inputs = <<>> /\ outputs = <<>> /\ groups = <<>>

Ask ==
  /\ phase = "none"
  /\ \E tx \in AssetTxs : asset' = [ins |-> InputsFound(tx), outs |-> tx.outs]
  /\ todo' = Positions(asset'.ins)
  /\ phase' = "inputs"
  /\ UNCHANGED <<inputs, outputs, groups>>

CompleteInput(i) ==
  /\ phase = "inputs"
  /\ i \in todo
  /\ todo' = todo \ {i}
  /\ groups' = GroupInput(asset.ins[i])
  /\ inputs' = Append(inputs, Entry(asset.ins[i], i, "Burn"))
  /\ UNCHANGED <<asset, outputs, phase>>

\* Mutant: outputs are looked up before every input is.
InputsUnawaited ==
  /\ phase = "inputs"
  /\ Cardinality(todo) <= 1
  /\ phase' = "outputs"
  /\ todo' = Positions(asset.outs)
  /\ UNCHANGED <<asset, inputs, outputs, groups>>

\* await Promise.all(inputCells.map(...))
InputsAwaited ==
  /\ phase = "inputs"
  /\ todo = {}
  /\ phase' = "outputs"
  /\ todo' = Positions(asset.outs)
  /\ UNCHANGED <<asset, inputs, outputs, groups>>

\* The input an output's NFT comes from, by its place in the list; 0 if none
NftIndex(c) ==
  LET same == {n \in DOMAIN inputs : SameNft(inputs[n].cell, c)}
  IN  IF same = {} THEN 0 ELSE Min(same)

\* The mint of a cluster is its issue.
CompleteOutput(i) ==
  /\ phase = "outputs"
  /\ i \in todo
  /\ todo' = todo \ {i}
  /\ LET c == asset.outs[i]
         from == NftIndex(c)
         event == CASE from # 0 -> "Transfer" [] c.mode = "cluster" /\ from = 0 -> "Issue"
                    [] OTHER -> "Mint"
     IN  /\ inputs' = IF from = 0 THEN inputs ELSE [inputs EXCEPT ![from].event = "Transfer"]
         /\ groups' = GroupOutput(c)
         /\ outputs' = Append(outputs, Entry(c, i, event))
  /\ UNCHANGED <<asset, phase>>

(***************************************************************************)
(* When all have completed                                                 *)
(***************************************************************************)

\* The event of a token's cells; as before if nothing comes in or goes out
EventOfTotals(in, out, before) ==
  CASE in = 0 \/ out = 0 -> before
    [] in # 0 /\ out # 0 /\ in > out -> "BurnAndTransfer"
    [] in # 0 /\ out # 0 /\ in = out -> "Transfer"
    [] in # 0 /\ out # 0 /\ in < out -> "MintAndTransfer"

InGroup(list, n, at) ==
  IF \E g \in DOMAIN groups : n \in at[g]
    THEN LET g == groups[CHOOSE g \in DOMAIN groups : n \in at[g]]
         IN  [list[n] EXCEPT !.event = EventOfTotals(g.inTotal, g.outTotal, @)]
    ELSE list[n]
Regrouped(list, at) == [n \in DOMAIN list |-> InGroup(list, n, at)]

\* Mutant: the amount told is what the token's inputs held.
IssueOfFirstSpent(list, n) ==
  [list[n] EXCEPT !.event = "Issue", !.token = groups[1].token, !.amount = groups[1].inTotal]

\* Token metadata: a unique cell tells of the token that came up first.
IssueOfFirst(list, n) ==
  [list[n] EXCEPT !.event = "Issue", !.token = groups[1].token, !.amount = groups[1].outTotal]

\* outputCells[index]: the place in the list is used as the one in the transaction.
WithMetadata(list) ==
  [n \in DOMAIN list |->
     IF groups # <<>> /\ list[n].cell.mode = "unique" /\ asset.outs[n].mode = "unique"
       THEN IssueOfFirst(list, n) ELSE list[n]]

\* filterAndChangeLeapTypes, for one of the two lists and the other
Bound(list) == \E n \in DOMAIN list : list[n].leap # "NoBinding"
WithLeaps(list, other, leap) ==
  [n \in DOMAIN list |->
     IF list[n].leap # "NoBinding" /\ ~Bound(other) THEN [list[n] EXCEPT !.leap = leap]
     ELSE list[n]]

\* The rest has nothing to wait for but parsing.
Answer ==
  /\ phase = "outputs"
  /\ todo = {}
  /\ phase' = "answered"
  /\ inputs' = WithLeaps(Regrouped(inputs, [g \in DOMAIN groups |-> groups[g].inAt]), outputs, "FromUtxo")
  /\ outputs' = WithLeaps(
                    WithMetadata(Regrouped(outputs, [g \in DOMAIN groups |-> groups[g].outAt])),
                    inputs, "ToUtxo")
  /\ UNCHANGED <<asset, todo, groups>>

\* One lookup that throws rejects them all; an ApiError is answered, any
\* other becomes an error of the server.
ExtractFails ==
  /\ phase \in {"inputs", "outputs"}
  /\ phase' = "failed"
  /\ todo' = {}
  /\ UNCHANGED <<asset, inputs, outputs, groups>>

AssetReply ==
  /\ phase \in {"answered", "failed"}
  /\ phase' = "none"
  /\ asset' = [ins |-> <<>>, outs |-> <<>>]
  /\ todo' = {} /\ inputs' = <<>> /\ outputs' = <<>> /\ groups' = <<>>

AssetNext ==
  \/ Ask
  \/ \E i \in todo : CompleteInput(i) \/ CompleteOutput(i)
  \/ InputsAwaited
  \/ Answer
  \/ ExtractFails
  \/ AssetReply

AssetSpec == AssetInit /\ [][AssetNext]_assetVars

(***************************************************************************)
(* Properties                                                              *)
(***************************************************************************)

\* The positions kept in the token groups are those of cells of the token.
AssetTypeOK ==
  /\ phase \in {"none", "inputs", "outputs", "answered", "failed"}
  /\ todo \subseteq DOMAIN asset.ins \cup DOMAIN asset.outs
  /\ \A g \in DOMAIN groups :
       /\ \A n \in groups[g].inAt : n \in DOMAIN inputs /\ inputs[n].token = groups[g].token
       /\ \A n \in groups[g].outAt : n \in DOMAIN outputs /\ outputs[n].token = groups[g].token

\* Each typed cell is told once, whichever callback came first.
ToldOnce(list, cells) ==
  /\ Len(list) = Cardinality(Positions(cells))
  /\ {<<e.index, e.cell>> : e \in Range(list)} = {<<i, cells[i]>> : i \in Positions(cells)}

Total(cells, token) ==
  SumFunctionOnSet([i \in DOMAIN cells |-> cells[i].amount],
    {i \in DOMAIN cells : cells[i].mode = "udt" /\ cells[i].id = token})

Balance(token, alone) ==
  LET in == Total(asset.ins, token)
      out == Total(asset.outs, token)
  IN  IF in = 0 \/ out = 0 THEN alone
      ELSE IF in > out THEN "BurnAndTransfer" ELSE IF in < out THEN "MintAndTransfer" ELSE "Transfer"

Among(c, cells) == \E i \in DOMAIN cells : SameNft(cells[i], c)

\* What the transaction as a whole does to a cell it spends or creates.
EventOfInput(c) ==
  CASE c.mode = "udt" -> {Balance(c.id, "Burn")}
    [] IsNft(c) -> {IF Among(c, asset.outs) THEN "Transfer" ELSE "Burn"}
    [] OTHER -> {"Burn"}
EventOfOutput(c) ==
  CASE c.mode = "udt" -> {Balance(c.id, "Mint")}
    [] IsNft(c) -> {IF Among(c, asset.ins) THEN "Transfer"
                    ELSE IF c.mode = "cluster" THEN "Issue" ELSE "Mint"}
    [] OTHER -> {"Mint", "Issue"}

HasBtc(cells) == \E i \in Positions(cells) : cells[i].btc
LeapOf(c, other, leap) ==
  IF ~c.btc THEN "NoBinding" ELSE IF HasBtc(other) THEN "None" ELSE leap

\* The answer is a function of the transaction: every typed cell once, with
\* the event that the sums of its token or the whereabouts of its NFT give,
\* and the leap the typed cells on the other side give, whatever the order in
\* which the lookups completed.
EventsAreOfTx ==
  phase = "answered" =>
    /\ ToldOnce(inputs, asset.ins) /\ ToldOnce(outputs, asset.outs)
    /\ \A e \in Range(inputs) :
         e.event \in EventOfInput(e.cell) /\ e.leap = LeapOf(e.cell, asset.outs, "FromUtxo")
    /\ \A e \in Range(outputs) :
         e.event \in EventOfOutput(e.cell) /\ e.leap = LeapOf(e.cell, asset.ins, "ToUtxo")

\* A unique cell that is told to issue a token tells of one of the
\* transaction's tokens, and all that the transaction creates of it.
IssuesAreOfTx ==
  phase = "answered" =>
    \A e \in Range(outputs) :
      e.cell.mode = "unique" /\ e.event = "Issue" =>
        /\ \E c \in Range(asset.ins) \cup Range(asset.outs) : c.mode = "udt" /\ c.id = e.token
        /\ e.amount = Total(asset.outs, e.token)

=============================================================================
