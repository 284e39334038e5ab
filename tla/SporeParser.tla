----------------------------- MODULE SporeParser -----------------------------
(***************************************************************************)
(* SporeParser: what the transactions of a block do to the rows of spores  *)
(* and clusters.  analyzeTxFlow works out the flows of a transaction and   *)
(* asks the node and a decoder for what a spore in a cluster needs;        *)
(* handleFlows applies them in the block's database transaction.           *)
(*                                                                         *)
(* An address is what scriptToAddress makes of a lock; that it may differ  *)
(* for an RGB++ lock is the matter of UdtParser.  Blocks are committed and *)
(* rolled back as in SyncService.                                          *)
(***************************************************************************)
EXTENDS Integers, FiniteSetsExt, Functions

CONSTANTS
  Spores, Clusters,
  ClusterOf,   \* the cluster of each spore that is in one
  Addresses,
  Unborn,      \* not created yet
  NoOwner,     \* burnt; in a row, ownerAddress is null
  MaxHeight,   \* bound: blocks
  MaxTxs       \* bound: transactions of a block

ASSUME ClusterOfAssumption ==
  DOMAIN ClusterOf \subseteq Spores /\ Range(ClusterOf) \subseteq Clusters
ASSUME MarkersAssumption == Unborn # NoOwner /\ {Unborn, NoOwner} \cap Addresses = {}
ASSUME SporeBoundsAssumption == MaxHeight \in Nat /\ MaxTxs \in Nat

VARIABLES
  cells,     \* by height: who owns each spore and cluster on the chain, and more
  open,      \* how many more transactions the newest block may have
  spores,    \* spore: for each spore its rows by height
  clusters   \* cluster: for each cluster its rows by height

sporeVars == <<cells, open, spores, clusters>>

Height == Max(DOMAIN cells)
Now == cells[Height]

PartialFunctions(S, T) == UNION {[D -> T] : D \in SUBSET S}

\* The spores and clusters among the inputs, and to whom outputs give them.
Txs == [in : SUBSET Spores, out : PartialFunctions(Spores, Addresses),
        clusterIn : SUBSET Clusters, clusterOut : PartialFunctions(Clusters, Addresses)]

(***************************************************************************)
(* analyzeFlow                                                             *)
(***************************************************************************)

Mints(in, out) == DOMAIN out \ in
Transfers(in, out) == in \cap DOMAIN out
Burns(in, out) == in \ DOMAIN out

\* What the type scripts let pass: an id is new and never used again, and a
\* spore is minted into a cluster that is there.  No cluster is burnt.
Valid(tx) ==
  /\ \A s \in tx.in : Now.owner[s] \in Addresses
  /\ \A s \in Mints(tx.in, tx.out) :
       /\ Now.owner[s] = Unborn
       /\ s \in DOMAIN ClusterOf => Now.clusterOwner[ClusterOf[s]] # Unborn
  /\ \A c \in tx.clusterIn : Now.clusterOwner[c] \in Addresses
  /\ \A c \in Mints(tx.clusterIn, tx.clusterOut) : Now.clusterOwner[c] = Unborn
  /\ Burns(tx.clusterIn, tx.clusterOut) = {}

\* The spores parseSporeData throws for: a request about the cluster fails or
\* does not find it.  The error is logged and the flow goes on without data.
Unparsed(tx) == SUBSET ((tx.in \cup DOMAIN tx.out) \cap DOMAIN ClusterOf)

(***************************************************************************)
(* handleFlows                                                             *)
(***************************************************************************)

None == [owner |-> NoOwner, creator |-> NoOwner, height |-> -1]

\* prevSpore, prevCluster: the newest row.
Prev(history) ==
  IF DOMAIN history = {} THEN None
  ELSE [owner |-> history[Max(DOMAIN history)].owner,
        creator |-> history[Max(DOMAIN history)].creator,
        height |-> Max(DOMAIN history)]

\* Mutant: leaves the rows of this height alone.
SavedOnce(history, owner, creator) ==
  [h \in DOMAIN history \cup {Height} |->
     IF h \in DOMAIN history THEN history[h] ELSE [owner |-> owner, creator |-> creator]]

\* Saved over the row of this height, or as a new one.
Saved(history, owner, creator) ==
  [h \in DOMAIN history \cup {Height} |->
     IF h = Height THEN [owner |-> owner, creator |-> creator] ELSE history[h]]

\* Mutant: takes the minter for the creator.
CreatorOfMinter(s, minter) == minter

\* creatorAddress of a new spore: the owner of its cluster, as stored before
\* the cluster flows of this transaction.
CreatorOf(s, minter) ==
  LET known == s \in DOMAIN ClusterOf /\ DOMAIN clusters[ClusterOf[s]] # {}
  IN  IF known THEN Prev(clusters[ClusterOf[s]]).owner ELSE minter

\* creatorAddress of a row that continues another one, or has none to continue.
CreatorAfter(history, from) ==
  IF DOMAIN history = {} THEN from ELSE Prev(history).creator

\* save() skips ownerAddress where it is undefined, so a row of this height
\* keeps its owner.
OwnerAfterBurn(history) ==
  IF Prev(history).height = Height THEN Prev(history).owner ELSE NoOwner

\* handleSporeFlow
HandleSporeFlow(s, tx) ==
  LET rows == spores[s]
      from == Now.owner[s]
  IN
  CASE s \in Mints(tx.in, tx.out) -> Saved(rows, tx.out[s], CreatorOf(s, tx.out[s]))
    [] s \in Transfers(tx.in, tx.out) -> Saved(rows, tx.out[s], CreatorAfter(rows, from))
    [] s \in Burns(tx.in, tx.out) -> Saved(rows, OwnerAfterBurn(rows), CreatorAfter(rows, from))
    [] OTHER -> rows

\* Mutant: goes on only with clusters it knows.
HandleClusterFlowOfKnown(c, tx) ==
  CASE c \in Mints(tx.clusterIn, tx.clusterOut) ->
         Saved(clusters[c], tx.clusterOut[c], tx.clusterOut[c])
    [] c \in Transfers(tx.clusterIn, tx.clusterOut) /\ DOMAIN clusters[c] # {} ->
         Saved(clusters[c], tx.clusterOut[c], Prev(clusters[c]).creator)
    [] OTHER -> clusters[c]

\* handleClusterFlow
HandleClusterFlow(c, tx) ==
  CASE c \in Mints(tx.clusterIn, tx.clusterOut) ->
         Saved(clusters[c], tx.clusterOut[c], tx.clusterOut[c])
    [] c \in Transfers(tx.clusterIn, tx.clusterOut) ->
         Saved(clusters[c], tx.clusterOut[c], CreatorAfter(clusters[c], Now.clusterOwner[c]))
    [] OTHER -> clusters[c]

\* A mint of what is known throws, and so does a burnt cluster: the block is
\* not committed and tried again.
Throws(tx, unparsed) ==
  \/ \E s \in Mints(tx.in, tx.out) \ unparsed : DOMAIN spores[s] # {}
  \/ \E c \in Mints(tx.clusterIn, tx.clusterOut) : DOMAIN clusters[c] # {}
  \/ Burns(tx.clusterIn, tx.clusterOut) # {}

HandleFlows(tx, unparsed) ==
  /\ ~Throws(tx, unparsed)
  /\ spores' = [s \in Spores |-> IF s \in unparsed THEN spores[s] ELSE HandleSporeFlow(s, tx)]
  /\ clusters' = [c \in Clusters |-> HandleClusterFlow(c, tx)]

(***************************************************************************)
(* The chain, block by block, and the indexer with it.                     *)
(***************************************************************************)

\* The chain after a transaction.  handled: the spores whose last flow was
\* parsed.  moved: those the block has minted or transferred; fleeting: those
\* that such a block then burnt.  creator: of the spores whose mint was parsed.
After(tx, unparsed) ==
  LET flows == tx.in \cup DOMAIN tx.out
      burnt == Burns(tx.in, tx.out)
      NewCreator(s) == IF s \in DOMAIN ClusterOf THEN Now.clusterOwner[ClusterOf[s]] ELSE tx.out[s]
  IN
  [owner |-> [s \in Spores |-> IF s \in burnt THEN NoOwner
                               ELSE IF s \in DOMAIN tx.out THEN tx.out[s] ELSE Now.owner[s]],
   clusterOwner |-> [c \in Clusters |-> IF c \in DOMAIN tx.clusterOut THEN tx.clusterOut[c]
                                        ELSE Now.clusterOwner[c]],
   handled |-> (Now.handled \cup flows) \ unparsed,
   moved |-> Now.moved \cup DOMAIN tx.out,
   fleeting |-> Now.fleeting \cup (burnt \cap Now.moved),
   creator |-> [s \in Spores |-> IF s \in Mints(tx.in, tx.out) \ unparsed THEN NewCreator(s)
                                 ELSE Now.creator[s]]]

\* Some spores and clusters are older than the start block.
SporeInit ==
  /\ \E owner \in [Spores -> Addresses \cup {Unborn}],
        clusterOwner \in [Clusters -> Addresses \cup {Unborn}] :
       /\ \A s \in DOMAIN ClusterOf :
            clusterOwner[ClusterOf[s]] = Unborn => owner[s] = Unborn
       /\ cells = [h \in {0} |->
            [owner |-> owner, clusterOwner |-> clusterOwner,
             handled |-> Spores, moved |-> {}, fleeting |-> {},
             creator |-> [s \in Spores |-> Unborn]]]
  /\ open = 0
  /\ spores = [s \in Spores |-> <<>>]
  /\ clusters = [c \in Clusters |-> <<>>]

NewBlock ==
  /\ Height < MaxHeight
  /\ cells' = [h \in 0..(Height + 1) |->
                 IF h > Height THEN [Now EXCEPT !.moved = {}] ELSE cells[h]]
  /\ open' = MaxTxs
  /\ UNCHANGED <<spores, clusters>>

\* The next transaction of the block.
IndexTx ==
  /\ open > 0
  /\ \E tx \in {x \in Txs : Valid(x)} : \E unparsed \in Unparsed(tx) :
       /\ HandleFlows(tx, unparsed)
       /\ cells' = [cells EXCEPT ![Height] = After(tx, unparsed)]
  /\ open' = open - 1

\* Mutant: keeps the rows of the newest block.
KeptWithNewest(history) == Restrict(history, {h \in DOMAIN history : h <= Height})

\* What the rollback of the newest block leaves of a history.
Kept(history) == Restrict(history, {h \in DOMAIN history : h < Height})

\* sync() rolls the newest block back.
RollBack ==
  /\ Height > 0
  /\ cells' = Restrict(cells, 0..(Height - 1))
  /\ spores' = [s \in Spores |-> Kept(spores[s])]
  /\ clusters' = [c \in Clusters |-> Kept(clusters[c])]
  /\ open' = 0

SporeNext == NewBlock \/ IndexTx \/ RollBack

SporeSpec == SporeInit /\ [][SporeNext]_sporeVars

(***************************************************************************)
(* Properties                                                              *)
(***************************************************************************)

Rows == [owner : Addresses \cup {NoOwner}, creator : Addresses \cup {NoOwner}]

SporeTypeOK ==
  /\ DOMAIN cells = 0..Height /\ Height <= MaxHeight
  /\ open \in 0..MaxTxs
  /\ \A s \in Spores : DOMAIN spores[s] \subseteq 1..Height /\ Range(spores[s]) \subseteq Rows
  /\ \A c \in Clusters : DOMAIN clusters[c] \subseteq 1..Height /\ Range(clusters[c]) \subseteq Rows
  /\ \A h \in 0..Height :
       /\ cells[h].owner \in [Spores -> Addresses \cup {Unborn, NoOwner}]
       /\ cells[h].clusterOwner \in [Clusters -> Addresses \cup {Unborn}]

\* The owner a history shows as of a height; without a row, the one at the start.
OwnerAsOf(history, height, atStart) ==
  LET upTo == {h \in DOMAIN history : h <= height}
  IN  IF upTo = {} THEN atStart ELSE history[Max(upTo)].owner

\* At every height the stored owner of a spore is that of its cell, provided
\* that its last flow could be parsed, whatever was missed before, and that
\* it was not burnt in a block that had moved it.
SporeOwnersAreCells ==
  \A h \in 0..Height : \A s \in cells[h].handled \ cells[h].fleeting :
    OwnerAsOf(spores[s], h, cells[0].owner[s]) = cells[h].owner[s]

\* So is the stored owner of a cluster, always.
ClusterOwnersAreCells ==
  \A h \in 0..Height, c \in Clusters :
    OwnerAsOf(clusters[c], h, cells[0].clusterOwner[c]) = cells[h].clusterOwner[c]

\* The creator of a spore whose mint was parsed is who owned its cluster at
\* that time, in every row, however both move since and within the block; the
\* cluster must have been created after the start block.
CreatorsStay ==
  \A s \in Spores :
    \/ Now.creator[s] = Unborn
    \/ s \in DOMAIN ClusterOf /\ cells[0].clusterOwner[ClusterOf[s]] # Unborn
    \/ \A h \in DOMAIN spores[s] : spores[s][h].creator = Now.creator[s]

\* No transaction the chain may hold next makes the commit of its block throw,
\* after any missed flows and rollbacks; the block would be retried for ever.
NoBlockIsStuck ==
  \A tx \in Txs : Valid(tx) => \A unparsed \in Unparsed(tx) : ~Throws(tx, unparsed)

=============================================================================
