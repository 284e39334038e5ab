----------------------------- MODULE BlockQueries -----------------------------
(***************************************************************************)
(* What the block API and the tracker info answer from the block table,    *)
(* and what the queries of sync() and clear() select, all by comparing     *)
(* heights as the strings they are stored as.                              *)
(***************************************************************************)
EXTENDS Indexer, SortableInt

\* 80 digits hold every height.
ASSUME HeightsFit == Length(MaxHeight + 1) <= Digits

\* Heights, as stored
Stored == [n \in Permanent..(MaxHeight + 1) |-> FormatSortableInt(n)]
HeightOf(block) == Stored[Len(block)]

\* order: { height: "DESC" }, take: 1
GetTipBlock ==
  IF blocks = {} THEN None
  ELSE CHOOSE b \in blocks : \A other \in blocks : ~Below(HeightOf(b), HeightOf(other))

GetBlockByNumber(n) ==
  IF \E b \in blocks : HeightOf(b) = Stored[n]
    THEN CHOOSE b \in blocks : HeightOf(b) = Stored[n] ELSE None

\* Number 0 counts as none: the tip.
GetBlockHeader(n, fromDb) ==
  CASE n # 0 /\ fromDb -> GetBlockByNumber(n)
    [] n # 0 /\ ~fromDb -> BlockAt(n, None)
    [] n = 0 /\ fromDb -> GetTipBlock
    [] OTHER -> chain

GetTipBlockNumber ==
  IF GetTipBlock = None THEN 0 ELSE ParseSortableInt(HeightOf(GetTipBlock))

\* getTrackerInfo: BlockNotFound as long as nothing is indexed
TrackerInfo ==
  IF GetBlockHeader(0, TRUE) = None THEN None
  ELSE [trackerBlockHeight |-> ParseSortableInt(HeightOf(GetBlockHeader(0, TRUE))),
        nodeBlockHeight |-> Len(GetBlockHeader(0, FALSE))]

\* updatedAtHeight >= h, in a rollback; <= h and > -1, in clear()
FromHeight(history, h) == {x \in DOMAIN history : ~Below(Stored[x], Stored[h])}
UpToHeight(history, h) ==
  {x \in DOMAIN history : ~Below(Stored[h], Stored[x]) /\ Below(Stored[Permanent], Stored[x])}

\* order: { updatedAtHeight: "DESC" }
NewestOf(heights) ==
  CHOOSE x \in heights : \A y \in heights : ~Below(Stored[x], Stored[y])

(***************************************************************************)
(* Properties                                                              *)
(***************************************************************************)

\* The block API serves the indexed chain: its newest block as the tip, with
\* the height sync() has got to, each of its blocks by number, and no block of
\* a branch that was rolled back, while rows come and go.
ServedBlocks ==
  /\ blocks # {} =>
       /\ GetBlockHeader(0, TRUE) = Indexed
       /\ GetTipBlockNumber = pending
       /\ TrackerInfo.trackerBlockHeight = pending
  /\ \A n \in 1..(MaxHeight + 1) :
       GetBlockHeader(n, TRUE) =
         IF n \in (Start + 1)..Len(Indexed) THEN Prefix(Indexed, n) ELSE None

\* Comparing strings selects the rows that comparing heights would: those a
\* rollback deletes, those clear() may compact and never a permanent one, and
\* the newest one, whatever numbers of digits the heights have.
SelectedAsNumbers ==
  \A k \in Keys, h \in 0..MaxHeight :
    LET history == rows[k] IN
    /\ DOMAIN DropFrom(history, h) = DOMAIN history \ FromHeight(history, h)
    /\ UpToHeight(history, h) = DOMAIN history \cap (0..h)
    /\ DOMAIN history # {} => NewestOf(DOMAIN history) = Max(DOMAIN history)

=============================================================================
