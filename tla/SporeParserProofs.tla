-------------------------- MODULE SporeParserProofs --------------------------
(***************************************************************************)
(* Proofs about SporeParser for all spores, clusters, addresses and        *)
(* blocks: the rows show the owners of the cells, a creator never changes, *)
(* and no block the chain may hold is stuck.                               *)
(***************************************************************************)
EXTENDS SporeParser, FiniteLemmas

(***************************************************************************)
(* The inductive invariant                                                 *)
(***************************************************************************)

\* What there is of the chain at each height.
CellsOK ==
  \A h \in 0..Height :
    cells[h] \in [owner : [Spores -> Addresses \cup {Unborn, NoOwner}],
                  clusterOwner : [Clusters -> Addresses \cup {Unborn}],
                  handled : SUBSET Spores, moved : SUBSET Spores, fleeting : SUBSET Spores,
                  creator : [Spores -> Addresses \cup {Unborn}]]

\* Transactions are indexed in blocks above the start block.
OpenBlock == open > 0 => Height > 0

\* A spore that is not created yet has no row.
SporesBorn ==
  \A h \in 0..Height, s \in Spores :
    cells[h].owner[s] = Unborn => \A k \in DOMAIN spores[s] : k > h

\* A spore with a row of a block was moved in it, or is gone.
MovedOrGone ==
  \A h \in 0..Height, s \in Spores :
    h \in DOMAIN spores[s] /\ s \notin cells[h].moved => cells[h].owner[s] = NoOwner

\* The cluster of the spore, if it has one, was created after the start block.
ClusterIsNew(s) == s \in DOMAIN ClusterOf => cells[0].clusterOwner[ClusterOf[s]] = Unborn

\* A spore whose mint was parsed has rows since, and they name its creator.
CreatorsHeld ==
  \A h \in 0..Height, s \in Spores :
    cells[h].creator[s] # Unborn =>
      /\ \E k \in DOMAIN spores[s] : k <= h
      /\ ClusterIsNew(s) => \A k \in DOMAIN spores[s] :
                              k <= h => spores[s][k].creator = cells[h].creator[s]

SporeInv ==
  /\ Height \in Nat
  /\ SporeTypeOK
  /\ CellsOK
  /\ OpenBlock
  /\ SporesBorn
  /\ MovedOrGone
  /\ CreatorsHeld
  /\ ClusterOwnersAreCells
  /\ SporeOwnersAreCells

(***************************************************************************)
(* Histories                                                               *)
(***************************************************************************)

\* Rows above a height do not count at that height.
LEMMA OwnerOfSameRows ==
  ASSUME NEW n \in Nat, NEW history, NEW other, NEW start, NEW h \in 0..n,
         DOMAIN history \subseteq 0..n,
         {k \in DOMAIN other : k <= h} = {k \in DOMAIN history : k <= h},
         \A k \in DOMAIN history : k <= h => other[k] = history[k]
  PROVE  OwnerAsOf(other, h, start) = OwnerAsOf(history, h, start)
<1> DEFINE S == {k \in DOMAIN history : k <= h}
<1>1. CASE S = {}
  BY <1>1 DEF OwnerAsOf
<1>2. CASE S # {}
  <2>1. S \in SUBSET (0..n)
    OBVIOUS
  <2>2. Max(S) \in S
    <3> HIDE DEF S
    <3> QED
      BY <1>2, <2>1, MaxExists
  <2>3. other[Max(S)] = history[Max(S)]
    BY <2>2
  <2> QED
    BY <1>2, <2>3 DEF OwnerAsOf
<1> QED
  BY <1>1, <1>2

\* A history without rows says what there was at the start, any other what its
\* newest row says.
LEMMA OwnerOfNewest ==
  ASSUME NEW n \in Nat, NEW history, NEW start, NEW h \in Nat, n <= h,
         DOMAIN history \subseteq 0..n
  PROVE  OwnerAsOf(history, h, start) =
           IF DOMAIN history = {} THEN start ELSE history[Max(DOMAIN history)].owner
<1>1. {k \in DOMAIN history : k <= h} = DOMAIN history
  OBVIOUS
<1> QED
  BY <1>1 DEF OwnerAsOf

\* A row saved at the newest height counts there and nowhere below.
LEMMA OwnerOfSaved ==
  ASSUME Height \in Nat, NEW history, NEW owner, NEW creator, NEW start,
         DOMAIN history \subseteq 0..Height
  PROVE  OwnerAsOf(Saved(history, owner, creator), Height, start) = owner
<1> DEFINE new == Saved(history, owner, creator)
           D == {k \in DOMAIN new : k <= Height}
<1>1. Height \in DOMAIN new /\ new[Height].owner = owner /\ DOMAIN new \subseteq 0..Height
  BY DEF Saved
<1> HIDE DEF new
<1>2. Height \in D /\ D \in SUBSET Int /\ \A k \in D : k <= Height
  BY <1>1
<1>3. Max(D) = Height
  <2> HIDE DEF D
  <2> QED
    BY <1>2, MaxIs
<1>4. OwnerAsOf(new, Height, start) = owner
  BY <1>1, <1>2, <1>3 DEF OwnerAsOf
<1> QED
  BY <1>4 DEF new

LEMMA OwnerBelowSaved ==
  ASSUME Height \in Nat, NEW history, NEW owner, NEW creator, NEW start,
         DOMAIN history \subseteq 0..Height, NEW h \in 0..Height, h # Height
  PROVE  OwnerAsOf(Saved(history, owner, creator), h, start) = OwnerAsOf(history, h, start)
<1> DEFINE new == Saved(history, owner, creator)
<1>1. {k \in DOMAIN new : k <= h} = {k \in DOMAIN history : k <= h}
  BY DEF Saved
<1>2. \A k \in DOMAIN history : k <= h => new[k] = history[k]
  BY DEF Saved
<1> HIDE DEF new
<1>3. OwnerAsOf(new, h, start) = OwnerAsOf(history, h, start)
  BY <1>1, <1>2, OwnerOfSameRows
<1> QED
  BY <1>3 DEF new

\* What a rollback leaves says the same of every height that is left.
LEMMA OwnerOfKept ==
  ASSUME Height \in Nat, NEW history, NEW start, DOMAIN history \subseteq 0..Height,
         NEW h \in 0..Height, h < Height
  PROVE  OwnerAsOf(Kept(history), h, start) = OwnerAsOf(history, h, start)
<1> DEFINE rest == Kept(history)
<1>1. {k \in DOMAIN rest : k <= h} = {k \in DOMAIN history : k <= h}
  BY DEF Kept, Restrict
<1>2. \A k \in DOMAIN history : k <= h => rest[k] = history[k]
  BY DEF Kept, Restrict
<1> HIDE DEF rest
<1>3. OwnerAsOf(rest, h, start) = OwnerAsOf(history, h, start)
  BY <1>1, <1>2, OwnerOfSameRows
<1> QED
  BY <1>3 DEF rest

\* The newest row, if there is one.
LEMMA PrevIs ==
  ASSUME NEW n \in Nat, NEW history, DOMAIN history \subseteq 0..n, DOMAIN history # {}
  PROVE  /\ Max(DOMAIN history) \in DOMAIN history
         /\ Prev(history).owner = history[Max(DOMAIN history)].owner
         /\ Prev(history).creator = history[Max(DOMAIN history)].creator
         /\ Prev(history).height = Max(DOMAIN history)
         /\ \A k \in DOMAIN history : k <= Prev(history).height
<1>1. Max(DOMAIN history) \in DOMAIN history /\ \A k \in DOMAIN history : k <= Max(DOMAIN history)
  BY MaxExists
<1> QED
  BY <1>1 DEF Prev

(***************************************************************************)
(* The first state and new blocks                                          *)
(***************************************************************************)

LEMMA SporeStarts == SporeInit => SporeInv
<1> SUFFICES ASSUME SporeInit PROVE SporeInv
  OBVIOUS
<1>1. PICK owner \in [Spores -> Addresses \cup {Unborn}],
           clusterOwner \in [Clusters -> Addresses \cup {Unborn}] :
        cells = [h \in {0} |-> [owner |-> owner, clusterOwner |-> clusterOwner,
                                handled |-> Spores, moved |-> {}, fleeting |-> {},
                                creator |-> [s \in Spores |-> Unborn]]]
  BY DEF SporeInit
<1>2. /\ DOMAIN cells = {0} /\ cells[0].owner = owner /\ cells[0].clusterOwner = clusterOwner
      /\ cells[0].creator = [s \in Spores |-> Unborn] /\ cells[0].handled = Spores
  BY <1>1
<1>3. /\ open = 0 /\ spores = [s \in Spores |-> <<>>] /\ clusters = [c \in Clusters |-> <<>>]
  BY DEF SporeInit
<1>4. DOMAIN <<>> = {}
  OBVIOUS
<1>5. Height = 0 /\ 0..Height = {0}
  <2>1. Max({0}) = 0
    BY MaxIs
  <2> QED
    BY <1>2, <2>1 DEF Height
<1>6. SporeTypeOK
  <2>1. Range(<<>>) = {}
    BY DEF Range
  <2> QED
    BY <1>2, <1>3, <1>4, <1>5, <2>1, SporeBoundsAssumption DEF SporeTypeOK
<1>7. OpenBlock /\ SporesBorn /\ MovedOrGone /\ CreatorsHeld
  BY <1>2, <1>3, <1>4, <1>5 DEF OpenBlock, SporesBorn, MovedOrGone, CreatorsHeld
<1>8. \A h, start : OwnerAsOf(<<>>, h, start) = start
  BY <1>4 DEF OwnerAsOf
<1>9. ClusterOwnersAreCells
  BY <1>3, <1>5, <1>8 DEF ClusterOwnersAreCells
<1>10. CellsOK
  BY <1>1, <1>5 DEF CellsOK
<1>11. SporeOwnersAreCells
  BY <1>2, <1>3, <1>5, <1>8 DEF SporeOwnersAreCells
<1> QED
  BY <1>5, <1>6, <1>7, <1>9, <1>10, <1>11 DEF SporeInv

\* A new block starts with what the chain was, and nothing is moved in it yet.
LEMMA NewBlockFacts ==
  ASSUME SporeInv, NewBlock
  PROVE  /\ Height' = Height + 1 /\ Height' \in Nat /\ Height' <= MaxHeight /\ Height \in Nat
         /\ DOMAIN cells' = 0..(Height + 1)
         /\ \A h \in 0..Height : cells'[h] = cells[h]
         /\ cells'[Height + 1] = [cells[Height] EXCEPT !.moved = {}]
         /\ spores' = spores /\ clusters' = clusters /\ open' = MaxTxs
<1>1. Height \in Nat /\ Height < MaxHeight /\ MaxHeight \in Nat
  BY SporeBoundsAssumption DEF SporeInv, NewBlock
<1>2. cells' = [h \in 0..(Height + 1) |-> IF h > Height THEN [Now EXCEPT !.moved = {}] ELSE cells[h]]
  BY DEF NewBlock
<1>3. Height' = Height + 1
  <2>1. Max(0..(Height + 1)) = Height + 1
    BY <1>1, MaxOfRange
  <2> QED
    BY <1>2, <2>1 DEF Height
<1>4. DOMAIN cells' = 0..(Height + 1)
  BY <1>2
<1>5. \A h \in 0..Height : cells'[h] = cells[h]
  BY <1>1, <1>2
<1>6. cells'[Height + 1] = [cells[Height] EXCEPT !.moved = {}]
  BY <1>1, <1>2 DEF Now
<1> QED
  BY <1>1, <1>3, <1>4, <1>5, <1>6 DEF NewBlock

LEMMA NewBlockKeeps == SporeInv /\ NewBlock => SporeInv'
<1> SUFFICES ASSUME SporeInv, NewBlock PROVE SporeInv'
  OBVIOUS
<1> DEFINE new == [cells[Height] EXCEPT !.moved = {}]
<1>1. /\ Height' = Height + 1 /\ Height' \in Nat /\ Height' <= MaxHeight /\ Height \in Nat
      /\ DOMAIN cells' = 0..(Height + 1)
      /\ \A h \in 0..Height : cells'[h] = cells[h]
      /\ cells'[Height + 1] = new
      /\ spores' = spores /\ clusters' = clusters /\ open' = MaxTxs
  BY NewBlockFacts
<1>2. /\ SporeTypeOK /\ CellsOK /\ SporesBorn /\ MovedOrGone /\ CreatorsHeld
      /\ ClusterOwnersAreCells /\ SporeOwnersAreCells
  BY DEF SporeInv
<1>3. /\ new.owner = cells[Height].owner /\ new.clusterOwner = cells[Height].clusterOwner
      /\ new.handled = cells[Height].handled /\ new.fleeting = cells[Height].fleeting
      /\ new.creator = cells[Height].creator /\ new.moved = {}
      /\ new \in [owner : [Spores -> Addresses \cup {Unborn, NoOwner}],
                  clusterOwner : [Clusters -> Addresses \cup {Unborn}],
                  handled : SUBSET Spores, moved : SUBSET Spores, fleeting : SUBSET Spores,
                  creator : [Spores -> Addresses \cup {Unborn}]]
  <2>1. Height \in 0..Height
    BY <1>1
  <2> QED
    BY <1>2, <2>1 DEF CellsOK
<1>4. /\ \A s \in Spores : DOMAIN spores[s] \subseteq 1..Height /\ Range(spores[s]) \subseteq Rows
      /\ \A c \in Clusters : DOMAIN clusters[c] \subseteq 1..Height /\ Range(clusters[c]) \subseteq Rows
  BY <1>2 DEF SporeTypeOK
\* Each height there is now looks like one there was.
<1> DEFINE Before(h) == IF h = Height + 1 THEN Height ELSE h
<1> HIDE DEF new
<1>5. ASSUME NEW h \in 0..Height'
      PROVE  /\ Before(h) \in 0..Height /\ Before(h) <= h
             /\ cells'[h].owner = cells[Before(h)].owner
             /\ cells'[h].clusterOwner = cells[Before(h)].clusterOwner
             /\ cells'[h].handled = cells[Before(h)].handled
             /\ cells'[h].fleeting = cells[Before(h)].fleeting
             /\ cells'[h].creator = cells[Before(h)].creator
  BY <1>1, <1>3
<1>6. \A h \in 0..Height' : \A start :
        /\ \A s \in Spores :
             OwnerAsOf(spores[s], h, start) = OwnerAsOf(spores[s], Before(h), start)
        /\ \A c \in Clusters :
             OwnerAsOf(clusters[c], h, start) = OwnerAsOf(clusters[c], Before(h), start)
  <2>1. /\ \A s \in Spores : DOMAIN spores[s] \subseteq 0..Height
        /\ \A c \in Clusters : DOMAIN clusters[c] \subseteq 0..Height
    BY <1>1, <1>4
  <2>2. ASSUME NEW history, DOMAIN history \subseteq 0..Height, NEW start
        PROVE  OwnerAsOf(history, Height + 1, start) = OwnerAsOf(history, Height, start)
    BY <1>1, <2>2, OwnerOfNewest
  <2> QED
    BY <1>1, <2>1, <2>2
<1>7. \A h \in 0..Height' : \A s \in Spores : \A k \in DOMAIN spores[s] :
        k > h <=> k > Before(h)
  BY <1>1, <1>4
<1>8. cells'[0] = cells[0]
  BY <1>1
<1> HIDE DEF Before
<1>9. SporeTypeOK'
  <2>1. \A h \in 0..Height' :
          /\ cells'[h].owner \in [Spores -> Addresses \cup {Unborn, NoOwner}]
          /\ cells'[h].clusterOwner \in [Clusters -> Addresses \cup {Unborn}]
    BY <1>2, <1>5 DEF SporeTypeOK
  <2>2. open' \in 0..MaxTxs /\ 1..Height \subseteq 1..Height'
    BY <1>1, SporeBoundsAssumption
  <2> QED
    BY <1>1, <1>4, <2>1, <2>2 DEF SporeTypeOK
<1>10. CellsOK'
  <2>1. \A h \in 0..Height' : h \in 0..Height \/ h = Height + 1
    BY <1>1
  <2> QED
    BY <1>1, <1>2, <1>3, <2>1 DEF CellsOK
<1>11. OpenBlock'
  BY <1>1 DEF OpenBlock
<1>12. SporesBorn'
  <2> SUFFICES ASSUME NEW h \in 0..Height', NEW s \in Spores, cells'[h].owner[s] = Unborn,
                      NEW k \in DOMAIN spores[s]
               PROVE  k > h
    BY <1>1 DEF SporesBorn
  <2>1. k > Before(h)
    BY <1>2, <1>5 DEF SporesBorn
  <2> QED
    BY <1>7, <2>1
<1>13. MovedOrGone'
  <2> SUFFICES ASSUME NEW h \in 0..Height', NEW s \in Spores, h \in DOMAIN spores[s],
                      s \notin cells'[h].moved
               PROVE  cells'[h].owner[s] = NoOwner
    BY <1>1 DEF MovedOrGone
  <2>1. h \in 0..Height
    BY <1>1, <1>4
  <2> QED
    BY <1>1, <1>2, <2>1 DEF MovedOrGone
<1>14. CreatorsHeld'
  <2> SUFFICES ASSUME NEW h \in 0..Height', NEW s \in Spores, cells'[h].creator[s] # Unborn
               PROVE  /\ \E k \in DOMAIN spores[s] : k <= h
                      /\ ClusterIsNew(s)' => \A k \in DOMAIN spores[s] :
                           k <= h => spores[s][k].creator = cells'[h].creator[s]
    BY <1>1 DEF CreatorsHeld
  <2>1. ClusterIsNew(s)' <=> ClusterIsNew(s)
    BY <1>8 DEF ClusterIsNew
  <2>2. /\ \E k \in DOMAIN spores[s] : k <= Before(h)
        /\ ClusterIsNew(s) => \A k \in DOMAIN spores[s] :
             k <= Before(h) => spores[s][k].creator = cells'[h].creator[s]
    BY <1>2, <1>5 DEF CreatorsHeld
  <2>3. \A k \in DOMAIN spores[s] : k <= h <=> k <= Before(h)
    <3>1. \A k \in DOMAIN spores[s] : k \in Int
      BY <1>4
    <3> QED
      BY <1>5, <1>7, <3>1
  <2> QED
    BY <2>1, <2>2, <2>3
<1>15. ClusterOwnersAreCells'
  <2> SUFFICES ASSUME NEW h \in 0..Height', NEW c \in Clusters
               PROVE  OwnerAsOf(clusters[c], h, cells[0].clusterOwner[c]) = cells'[h].clusterOwner[c]
    BY <1>1, <1>8 DEF ClusterOwnersAreCells
  <2>1. OwnerAsOf(clusters[c], Before(h), cells[0].clusterOwner[c]) = cells[Before(h)].clusterOwner[c]
    BY <1>2, <1>5 DEF ClusterOwnersAreCells
  <2> QED
    BY <1>5, <1>6, <2>1
<1>16. SporeOwnersAreCells'
  <2> SUFFICES ASSUME NEW h \in 0..Height', NEW s \in cells'[h].handled \ cells'[h].fleeting
               PROVE  OwnerAsOf(spores[s], h, cells[0].owner[s]) = cells'[h].owner[s]
    BY <1>1, <1>8 DEF SporeOwnersAreCells
  <2>1. s \in Spores
    BY <1>10 DEF CellsOK
  <2>2. OwnerAsOf(spores[s], Before(h), cells[0].owner[s]) = cells[Before(h)].owner[s]
    BY <1>2, <1>5 DEF SporeOwnersAreCells
  <2> QED
    BY <1>5, <1>6, <2>1, <2>2
<1> QED
  BY <1>1, <1>9, <1>10, <1>11, <1>12, <1>13, <1>14, <1>15, <1>16 DEF SporeInv

(***************************************************************************)
(* Rolling back                                                            *)
(***************************************************************************)

LEMMA RollBackFacts ==
  ASSUME SporeInv, RollBack
  PROVE  /\ Height \in Nat /\ Height > 0 /\ Height' = Height - 1 /\ Height' \in Nat
         /\ \A h \in 0..Height' : h \in 0..Height /\ h < Height
         /\ DOMAIN cells' = 0..Height'
         /\ \A h \in 0..Height' : cells'[h] = cells[h]
         /\ cells'[0] = cells[0]
         /\ open' = 0
<1>1. Height \in Nat /\ Height > 0
  BY DEF SporeInv, RollBack
<1>2. cells' = [h \in 0..(Height - 1) |-> cells[h]]
  BY DEF RollBack, Restrict
<1>3. Height' = Height - 1
  <2>1. Max(0..(Height - 1)) = Height - 1
    BY <1>1, MaxOfRange
  <2> QED
    BY <1>2, <2>1 DEF Height
<1> QED
  BY <1>1, <1>2, <1>3 DEF RollBack

\* The rows that are left.
LEMMA KeptRows ==
  ASSUME Height \in Nat, NEW history, DOMAIN history \subseteq 1..Height
  PROVE  /\ DOMAIN Kept(history) \subseteq 1..(Height - 1)
         /\ DOMAIN Kept(history) = {k \in DOMAIN history : k < Height}
         /\ \A k \in DOMAIN Kept(history) : Kept(history)[k] = history[k]
         /\ Range(Kept(history)) \subseteq Range(history)
BY DEF Kept, Restrict, Range

LEMMA RollBackKeeps == SporeInv /\ RollBack => SporeInv'
<1> SUFFICES ASSUME SporeInv, RollBack PROVE SporeInv'
  OBVIOUS
<1>1. /\ Height \in Nat /\ Height > 0 /\ Height' = Height - 1 /\ Height' \in Nat
      /\ \A h \in 0..Height' : h \in 0..Height /\ h < Height
      /\ DOMAIN cells' = 0..Height'
      /\ \A h \in 0..Height' : cells'[h] = cells[h]
      /\ cells'[0] = cells[0]
      /\ open' = 0
  BY RollBackFacts
<1>2. /\ SporeTypeOK /\ CellsOK /\ SporesBorn /\ MovedOrGone /\ CreatorsHeld
      /\ ClusterOwnersAreCells /\ SporeOwnersAreCells
  BY DEF SporeInv
<1>3. ASSUME NEW s \in Spores
      PROVE  /\ DOMAIN spores'[s] \subseteq 1..Height' /\ Range(spores'[s]) \subseteq Rows
             /\ DOMAIN spores'[s] = {k \in DOMAIN spores[s] : k < Height}
             /\ \A k \in DOMAIN spores'[s] : spores'[s][k] = spores[s][k]
             /\ \A h \in 0..Height' : \A start :
                  OwnerAsOf(spores'[s], h, start) = OwnerAsOf(spores[s], h, start)
  <2>1. /\ DOMAIN spores[s] \subseteq 1..Height /\ Range(spores[s]) \subseteq Rows
        /\ DOMAIN spores[s] \subseteq 0..Height
    BY <1>1, <1>2 DEF SporeTypeOK
  <2>2. spores'[s] = Kept(spores[s])
    BY DEF RollBack
  <2>3. /\ DOMAIN spores'[s] \subseteq 1..Height' /\ Range(spores'[s]) \subseteq Rows
        /\ DOMAIN spores'[s] = {k \in DOMAIN spores[s] : k < Height}
        /\ \A k \in DOMAIN spores'[s] : spores'[s][k] = spores[s][k]
    <3>1. /\ DOMAIN Kept(spores[s]) \subseteq 1..(Height - 1)
          /\ DOMAIN Kept(spores[s]) = {k \in DOMAIN spores[s] : k < Height}
      BY <1>1, <2>1, KeptRows
    <3>2. \A k \in DOMAIN Kept(spores[s]) : Kept(spores[s])[k] = spores[s][k]
      BY <1>1, <2>1, KeptRows
    <3>3. Range(Kept(spores[s])) \subseteq Range(spores[s])
      BY <1>1, <2>1, KeptRows
    <3> QED
      BY <1>1, <2>1, <2>2, <3>1, <3>2, <3>3
  <2>4. \A h \in 0..Height' : \A start :
          OwnerAsOf(spores'[s], h, start) = OwnerAsOf(spores[s], h, start)
    BY <1>1, <2>1, <2>2, OwnerOfKept
  <2> QED
    BY <2>3, <2>4
<1>4. ASSUME NEW c \in Clusters
      PROVE  /\ DOMAIN clusters'[c] \subseteq 1..Height' /\ Range(clusters'[c]) \subseteq Rows
             /\ \A h \in 0..Height' : \A start :
                  OwnerAsOf(clusters'[c], h, start) = OwnerAsOf(clusters[c], h, start)
  <2>1. /\ DOMAIN clusters[c] \subseteq 1..Height /\ Range(clusters[c]) \subseteq Rows
        /\ DOMAIN clusters[c] \subseteq 0..Height
    BY <1>1, <1>2 DEF SporeTypeOK
  <2>2. clusters'[c] = Kept(clusters[c])
    BY DEF RollBack
  <2>3. DOMAIN clusters'[c] \subseteq 1..Height' /\ Range(clusters'[c]) \subseteq Rows
    BY <1>1, <2>1, <2>2, KeptRows
  <2>4. \A h \in 0..Height' : \A start :
          OwnerAsOf(clusters'[c], h, start) = OwnerAsOf(clusters[c], h, start)
    BY <1>1, <2>1, <2>2, OwnerOfKept
  <2> QED
    BY <2>3, <2>4
<1>5. SporeTypeOK'
  <2>1. open' \in 0..MaxTxs
    BY <1>1, SporeBoundsAssumption
  <2>2. Height' <= MaxHeight
    BY <1>1, <1>2, SporeBoundsAssumption DEF SporeTypeOK
  <2>3. \A h \in 0..Height' :
          /\ cells'[h].owner \in [Spores -> Addresses \cup {Unborn, NoOwner}]
          /\ cells'[h].clusterOwner \in [Clusters -> Addresses \cup {Unborn}]
    BY <1>1, <1>2 DEF SporeTypeOK
  <2> QED
    BY <1>1, <1>3, <1>4, <2>1, <2>2, <2>3 DEF SporeTypeOK
<1>6. CellsOK'
  BY <1>1, <1>2 DEF CellsOK
<1>7. OpenBlock'
  BY <1>1 DEF OpenBlock
<1>8. SporesBorn'
  BY <1>1, <1>2, <1>3 DEF SporesBorn
<1>9. MovedOrGone'
  BY <1>1, <1>2, <1>3 DEF MovedOrGone
<1>10. CreatorsHeld'
  <2> SUFFICES ASSUME NEW h \in 0..Height', NEW s \in Spores, cells'[h].creator[s] # Unborn
               PROVE  /\ \E k \in DOMAIN spores'[s] : k <= h
                      /\ ClusterIsNew(s)' => \A k \in DOMAIN spores'[s] :
                           k <= h => spores'[s][k].creator = cells'[h].creator[s]
    BY DEF CreatorsHeld
  <2>1. ClusterIsNew(s)' <=> ClusterIsNew(s)
    BY <1>1 DEF ClusterIsNew
  <2>2. /\ \E k \in DOMAIN spores[s] : k <= h
        /\ ClusterIsNew(s) => \A k \in DOMAIN spores[s] :
             k <= h => spores[s][k].creator = cells[h].creator[s]
    BY <1>1, <1>2 DEF CreatorsHeld
  <2>3. \A k \in DOMAIN spores[s] : k <= h => k \in DOMAIN spores'[s]
    <3>1. \A k \in DOMAIN spores[s] : k \in Int
      BY <1>2 DEF SporeTypeOK
    <3> QED
      BY <1>1, <1>3, <3>1
  <2> QED
    BY <1>1, <1>3, <2>1, <2>2, <2>3
<1>11. ClusterOwnersAreCells'
  BY <1>1, <1>2, <1>4 DEF ClusterOwnersAreCells
<1>12. SporeOwnersAreCells'
  <2> SUFFICES ASSUME NEW h \in 0..Height', NEW s \in cells'[h].handled \ cells'[h].fleeting
               PROVE  OwnerAsOf(spores'[s], h, cells'[0].owner[s]) = cells'[h].owner[s]
    BY DEF SporeOwnersAreCells
  <2>1. s \in Spores
    BY <1>6 DEF CellsOK
  <2>2. OwnerAsOf(spores[s], h, cells[0].owner[s]) = cells[h].owner[s]
    BY <1>1, <1>2 DEF SporeOwnersAreCells
  <2> QED
    BY <1>1, <1>3, <2>1, <2>2
<1> QED
  BY <1>1, <1>5, <1>6, <1>7, <1>8, <1>9, <1>10, <1>11, <1>12 DEF SporeInv

(***************************************************************************)
(* A transaction                                                           *)
(***************************************************************************)

\* IndexTx of this transaction, with these spores not parsed.
Indexed(tx, unparsed) ==
  /\ tx \in Txs /\ Valid(tx) /\ unparsed \in Unparsed(tx)
  /\ HandleFlows(tx, unparsed)
  /\ cells' = [cells EXCEPT ![Height] = After(tx, unparsed)]
  /\ open > 0 /\ open' = open - 1

LEMMA IndexTxIs == IndexTx => \E tx, unparsed : Indexed(tx, unparsed)
BY DEF IndexTx, Indexed

LEMMA TxFacts ==
  ASSUME NEW tx \in Txs
  PROVE  /\ tx.in \in SUBSET Spores /\ DOMAIN tx.out \in SUBSET Spores
         /\ \A s \in DOMAIN tx.out : tx.out[s] \in Addresses
         /\ tx.clusterIn \in SUBSET Clusters /\ DOMAIN tx.clusterOut \in SUBSET Clusters
         /\ \A c \in DOMAIN tx.clusterOut : tx.clusterOut[c] \in Addresses
<1>1. /\ tx.in \in SUBSET Spores /\ tx.clusterIn \in SUBSET Clusters
      /\ tx.out \in PartialFunctions(Spores, Addresses)
      /\ tx.clusterOut \in PartialFunctions(Clusters, Addresses)
  BY DEF Txs
<1>2. PICK D \in SUBSET Spores : tx.out \in [D -> Addresses]
  BY <1>1 DEF PartialFunctions
<1>3. PICK E \in SUBSET Clusters : tx.clusterOut \in [E -> Addresses]
  BY <1>1 DEF PartialFunctions
<1> QED
  BY <1>1, <1>2, <1>3

\* The chain after the transaction; it is not that of the start block.
LEMMA IndexedCells ==
  ASSUME SporeInv, NEW tx, NEW unparsed, Indexed(tx, unparsed)
  PROVE  /\ Height' = Height /\ Height \in Nat /\ Height > 0 /\ Height \in 0..Height
         /\ DOMAIN cells' = 0..Height
         /\ cells'[Height] = After(tx, unparsed)
         /\ \A h \in 0..Height : h # Height => cells'[h] = cells[h]
         /\ cells'[0] = cells[0]
         /\ Now \in [owner : [Spores -> Addresses \cup {Unborn, NoOwner}],
                     clusterOwner : [Clusters -> Addresses \cup {Unborn}],
                     handled : SUBSET Spores, moved : SUBSET Spores, fleeting : SUBSET Spores,
                     creator : [Spores -> Addresses \cup {Unborn}]]
<1>1. Height \in Nat /\ DOMAIN cells = 0..Height /\ Height > 0 /\ CellsOK
  BY DEF SporeInv, SporeTypeOK, OpenBlock, Indexed
<1>2. cells' = [cells EXCEPT ![Height] = After(tx, unparsed)]
  BY DEF Indexed
<1>3. DOMAIN cells' = DOMAIN cells
  BY <1>2
<1>4. Height' = Height
  BY <1>3 DEF Height
<1>5. Height \in DOMAIN cells /\ Height \in 0..Height /\ 0 \in 0..Height
  BY <1>1
<1>6. Now \in [owner : [Spores -> Addresses \cup {Unborn, NoOwner}],
               clusterOwner : [Clusters -> Addresses \cup {Unborn}],
               handled : SUBSET Spores, moved : SUBSET Spores, fleeting : SUBSET Spores,
               creator : [Spores -> Addresses \cup {Unborn}]]
  BY <1>1, <1>5 DEF CellsOK, Now
<1> QED
  BY <1>1, <1>2, <1>3, <1>4, <1>5, <1>6

\* A row is of the type of rows, and so is what Prev makes up.
LEMMA PrevType ==
  ASSUME NEW n \in Nat, NEW history, DOMAIN history \subseteq 0..n, Range(history) \subseteq Rows
  PROVE  /\ Prev(history).owner \in Addresses \cup {NoOwner}
         /\ Prev(history).creator \in Addresses \cup {NoOwner}
<1>1. CASE DOMAIN history = {}
  BY <1>1 DEF Prev, None
<1>2. CASE DOMAIN history # {}
  <2>1. /\ Max(DOMAIN history) \in DOMAIN history
        /\ Prev(history).owner = history[Max(DOMAIN history)].owner
        /\ Prev(history).creator = history[Max(DOMAIN history)].creator
    BY <1>2, PrevIs
  <2>2. history[Max(DOMAIN history)] \in Rows
    BY <2>1 DEF Range
  <2> QED
    BY <2>1, <2>2 DEF Rows
<1> QED
  BY <1>1, <1>2

\* What HandleSporeFlow does to the rows of a spore: nothing, or it saves one.
SavesRow(s, tx, owner, creator) ==
  /\ owner \in Addresses \cup {NoOwner} /\ creator \in Addresses \cup {NoOwner}
  /\ spores'[s] = Saved(spores[s], owner, creator)
  /\ s \in DOMAIN tx.out => owner = tx.out[s]
  /\ s \notin DOMAIN tx.out /\ s \notin Now.moved => owner = NoOwner
  /\ DOMAIN spores[s] # {} => creator = Prev(spores[s]).creator
  /\ s \in Mints(tx.in, tx.out) => DOMAIN spores[s] = {} /\ creator = CreatorOf(s, tx.out[s])

\* A spore that is burnt and was not moved in this block has no row of it.
LEMMA BurnClears ==
  ASSUME SporeInv, NEW tx, NEW unparsed, Indexed(tx, unparsed), NEW s \in Burns(tx.in, tx.out),
         s \notin Now.moved
  PROVE  OwnerAfterBurn(spores[s]) = NoOwner
<1>1. s \in Spores /\ s \in tx.in /\ tx \in Txs /\ Valid(tx)
  BY TxFacts DEF Indexed, Burns
<1>2. Now.owner[s] \in Addresses
  BY <1>1 DEF Valid
<1>3. Height \in 0..Height /\ Height \in Nat
  BY IndexedCells
<1>4. DOMAIN spores[s] \subseteq 0..Height
  BY <1>1, <1>3 DEF SporeInv, SporeTypeOK
<1>5. Height \notin DOMAIN spores[s]
  <2>1. MovedOrGone
    BY DEF SporeInv
  <2> QED
    BY <1>1, <1>2, <1>3, <2>1, MarkersAssumption DEF MovedOrGone, Now
<1>6. Prev(spores[s]).height # Height
  <2>1. CASE DOMAIN spores[s] = {}
    BY <1>3, <2>1 DEF Prev, None
  <2>2. CASE DOMAIN spores[s] # {}
    <3>1. Max(DOMAIN spores[s]) \in DOMAIN spores[s]
          /\ Prev(spores[s]).height = Max(DOMAIN spores[s])
      BY <1>3, <1>4, <2>2, PrevIs
    <3> QED
      BY <1>5, <3>1
  <2> QED
    BY <2>1, <2>2
<1> QED
  BY <1>6 DEF OwnerAfterBurn

LEMMA SporeRows ==
  ASSUME SporeInv, NEW tx, NEW unparsed, Indexed(tx, unparsed), NEW s \in Spores
  PROVE  \/ /\ spores'[s] = spores[s]
            /\ s \in unparsed \/ s \notin tx.in \cup DOMAIN tx.out
         \/ /\ s \notin unparsed /\ s \in tx.in \cup DOMAIN tx.out
            /\ \E owner, creator : SavesRow(s, tx, owner, creator)
<1> DEFINE rows == spores[s]
<1>1. tx \in Txs /\ Valid(tx) /\ ~Throws(tx, unparsed)
  BY DEF Indexed, HandleFlows
<1>2. spores'[s] = IF s \in unparsed THEN rows ELSE HandleSporeFlow(s, tx)
  BY DEF Indexed, HandleFlows
<1>3. /\ Height \in Nat /\ DOMAIN rows \subseteq 0..Height /\ Range(rows) \subseteq Rows
      /\ \A c \in Clusters : DOMAIN clusters[c] \subseteq 0..Height /\ Range(clusters[c]) \subseteq Rows
  BY DEF SporeInv, SporeTypeOK
<1>4. Prev(rows).owner \in Addresses \cup {NoOwner} /\ Prev(rows).creator \in Addresses \cup {NoOwner}
  BY <1>3, PrevType
<1>5. CASE s \in unparsed
  BY <1>2, <1>5
<1>6. CASE s \notin unparsed /\ s \notin tx.in \cup DOMAIN tx.out
  BY <1>2, <1>6 DEF HandleSporeFlow, Mints, Transfers, Burns
<1>7. CASE s \notin unparsed /\ s \in Mints(tx.in, tx.out)
  <2>1. s \in DOMAIN tx.out /\ s \notin tx.in /\ tx.out[s] \in Addresses
    BY <1>1, <1>7, TxFacts DEF Mints
  <2>2. DOMAIN rows = {}
    BY <1>1, <1>7 DEF Throws
  <2>3. CreatorOf(s, tx.out[s]) \in Addresses \cup {NoOwner}
    <3>1. s \in DOMAIN ClusterOf => ClusterOf[s] \in Clusters
      BY ClusterOfAssumption DEF Range
    <3>2. s \in DOMAIN ClusterOf => Prev(clusters[ClusterOf[s]]).owner \in Addresses \cup {NoOwner}
      BY <1>3, <3>1, PrevType
    <3> QED
      BY <2>1, <3>2 DEF CreatorOf
  <2>4. HandleSporeFlow(s, tx) = Saved(rows, tx.out[s], CreatorOf(s, tx.out[s]))
    BY <1>7 DEF HandleSporeFlow, Mints, Transfers, Burns
  <2>5. SavesRow(s, tx, tx.out[s], CreatorOf(s, tx.out[s]))
    BY <1>2, <1>7, <2>1, <2>2, <2>3, <2>4 DEF SavesRow
  <2> QED
    BY <1>7, <2>1, <2>5
<1>8. CASE s \notin unparsed /\ s \in tx.in
  <2>1. Now.owner[s] \in Addresses
    BY <1>1, <1>8 DEF Valid
  <2> DEFINE creator == CreatorAfter(rows, Now.owner[s])
  <2>2. /\ creator \in Addresses \cup {NoOwner}
        /\ DOMAIN rows # {} => creator = Prev(rows).creator
    BY <1>4, <2>1 DEF CreatorAfter
  <2>3. s \notin Mints(tx.in, tx.out)
    BY <1>8 DEF Mints
  <2>4. CASE s \in DOMAIN tx.out
    <3>1. tx.out[s] \in Addresses
      BY <1>1, <2>4, TxFacts
    <3>2. HandleSporeFlow(s, tx) = Saved(rows, tx.out[s], creator)
      BY <1>8, <2>4 DEF HandleSporeFlow, Mints, Transfers, Burns
    <3> HIDE DEF creator
    <3>3. SavesRow(s, tx, tx.out[s], creator)
      BY <1>2, <1>8, <2>2, <2>3, <2>4, <3>1, <3>2 DEF SavesRow
    <3> QED
      BY <1>8, <3>3
  <2>5. CASE s \notin DOMAIN tx.out
    <3> DEFINE owner == OwnerAfterBurn(rows)
    <3>1. s \in Burns(tx.in, tx.out)
      BY <1>8, <2>5 DEF Burns
    <3>2. s \notin Now.moved => owner = NoOwner
      BY <3>1, BurnClears
    <3>3. owner \in Addresses \cup {NoOwner}
      BY <1>4 DEF OwnerAfterBurn
    <3>4. HandleSporeFlow(s, tx) = Saved(rows, owner, creator)
      BY <1>8, <2>5 DEF HandleSporeFlow, Mints, Transfers, Burns
    <3> HIDE DEF creator, owner
    <3>5. SavesRow(s, tx, owner, creator)
      BY <1>2, <1>8, <2>2, <2>3, <2>5, <3>2, <3>3, <3>4 DEF SavesRow
    <3> QED
      BY <1>8, <3>5
  <2> QED
    BY <2>4, <2>5
<1> QED
  BY <1>5, <1>6, <1>7, <1>8 DEF Mints

\* A saved row is one more row, or another one in the place of that height.
LEMMA SavedRows ==
  ASSUME Height \in Nat, Height > 0, NEW history, NEW owner, NEW creator,
         DOMAIN history \subseteq 1..Height, Range(history) \subseteq Rows,
         owner \in Addresses \cup {NoOwner}, creator \in Addresses \cup {NoOwner}
  PROVE  /\ DOMAIN Saved(history, owner, creator) \subseteq 1..Height
         /\ Range(Saved(history, owner, creator)) \subseteq Rows
<1>1. [owner |-> owner, creator |-> creator] \in Rows
  BY DEF Rows
<1>2. \A k \in DOMAIN history : history[k] \in Rows
  BY DEF Range
<1>3. Height \in 1..Height
  OBVIOUS
<1>4. DOMAIN Saved(history, owner, creator) \subseteq 1..Height
  BY <1>3 DEF Saved
<1>5. \A k \in DOMAIN Saved(history, owner, creator) : Saved(history, owner, creator)[k] \in Rows
  BY <1>1, <1>2 DEF Saved
<1> QED
  BY <1>4, <1>5 DEF Range

\* What HandleClusterFlow does to the rows of a cluster.
LEMMA ClusterRows ==
  ASSUME SporeInv, NEW tx, NEW unparsed, Indexed(tx, unparsed), NEW c \in Clusters
  PROVE  \/ clusters'[c] = clusters[c] /\ c \notin DOMAIN tx.clusterOut
         \/ /\ c \in DOMAIN tx.clusterOut /\ tx.clusterOut[c] \in Addresses
            /\ \E creator \in Addresses \cup {NoOwner} :
                 clusters'[c] = Saved(clusters[c], tx.clusterOut[c], creator)
<1> DEFINE rows == clusters[c]
<1>1. tx \in Txs /\ Valid(tx) /\ clusters'[c] = HandleClusterFlow(c, tx)
  BY DEF Indexed, HandleFlows
<1>2. Height \in Nat /\ DOMAIN rows \subseteq 0..Height /\ Range(rows) \subseteq Rows
  BY DEF SporeInv, SporeTypeOK
<1>3. Prev(rows).creator \in Addresses \cup {NoOwner}
  BY <1>2, PrevType
<1>4. CASE c \notin DOMAIN tx.clusterOut
  <2>1. c \notin tx.clusterIn
    BY <1>1, <1>4 DEF Valid, Burns
  <2> QED
    BY <1>1, <1>4, <2>1 DEF HandleClusterFlow, Mints, Transfers
<1>5. CASE c \in DOMAIN tx.clusterOut /\ c \notin tx.clusterIn
  <2>1. tx.clusterOut[c] \in Addresses
    BY <1>1, <1>5, TxFacts
  <2>2. clusters'[c] = Saved(rows, tx.clusterOut[c], tx.clusterOut[c])
    BY <1>1, <1>5 DEF HandleClusterFlow, Mints, Transfers
  <2> QED
    BY <1>5, <2>1, <2>2
<1>6. CASE c \in DOMAIN tx.clusterOut /\ c \in tx.clusterIn
  <2> DEFINE creator == CreatorAfter(rows, Now.clusterOwner[c])
  <2>1. tx.clusterOut[c] \in Addresses /\ Now.clusterOwner[c] \in Addresses
    BY <1>1, <1>6, TxFacts DEF Valid
  <2>2. creator \in Addresses \cup {NoOwner}
    BY <1>3, <2>1 DEF CreatorAfter
  <2>3. clusters'[c] = Saved(rows, tx.clusterOut[c], creator)
    BY <1>1, <1>6 DEF HandleClusterFlow, Mints, Transfers
  <2> QED
    BY <1>6, <2>1, <2>2, <2>3
<1> QED
  BY <1>4, <1>5, <1>6

\* What a cluster's rows say now is what the chain says.
LEMMA ClusterOwnerNow ==
  ASSUME SporeInv, NEW c \in Clusters
  PROVE  Now.clusterOwner[c] = IF DOMAIN clusters[c] = {} THEN cells[0].clusterOwner[c]
                               ELSE Prev(clusters[c]).owner
<1>1. Height \in Nat /\ Height \in 0..Height /\ ClusterOwnersAreCells
  BY DEF SporeInv
<1>2. DOMAIN clusters[c] \subseteq 0..Height
  BY DEF SporeInv, SporeTypeOK
<1>3. OwnerAsOf(clusters[c], Height, cells[0].clusterOwner[c]) = Now.clusterOwner[c]
  BY <1>1 DEF ClusterOwnersAreCells, Now
<1>4. OwnerAsOf(clusters[c], Height, cells[0].clusterOwner[c]) =
        IF DOMAIN clusters[c] = {} THEN cells[0].clusterOwner[c]
        ELSE clusters[c][Max(DOMAIN clusters[c])].owner
  <2>1. ASSUME NEW history, NEW start, DOMAIN history \subseteq 0..Height
        PROVE  OwnerAsOf(history, Height, start) =
                 IF DOMAIN history = {} THEN start ELSE history[Max(DOMAIN history)].owner
    <3>1. Height <= Height
      BY <1>1
    <3> QED
      BY <1>1, <2>1, <3>1, OwnerOfNewest
  <2> QED
    BY <1>2, <2>1
<1> QED
  BY <1>3, <1>4 DEF Prev

\* The types of rows and of the chain after the transaction.
LEMMA IndexedTypes ==
  ASSUME SporeInv, NEW tx, NEW unparsed, Indexed(tx, unparsed)
  PROVE  SporeTypeOK' /\ CellsOK'
<1>1. /\ Height' = Height /\ Height \in Nat /\ Height > 0 /\ Height \in 0..Height
      /\ DOMAIN cells' = 0..Height /\ cells'[Height] = After(tx, unparsed)
      /\ \A h \in 0..Height : h # Height => cells'[h] = cells[h]
  BY IndexedCells
<1>2. SporeTypeOK /\ CellsOK /\ tx \in Txs /\ Valid(tx)
  BY DEF SporeInv, Indexed
<1>3. /\ Now.owner \in [Spores -> Addresses \cup {Unborn, NoOwner}]
      /\ Now.clusterOwner \in [Clusters -> Addresses \cup {Unborn}]
      /\ Now.handled \in SUBSET Spores /\ Now.moved \in SUBSET Spores /\ Now.fleeting \in SUBSET Spores
      /\ Now.creator \in [Spores -> Addresses \cup {Unborn}]
  BY IndexedCells
<1>4. /\ tx.in \in SUBSET Spores /\ DOMAIN tx.out \in SUBSET Spores
      /\ \A s \in DOMAIN tx.out : tx.out[s] \in Addresses
      /\ \A c \in DOMAIN tx.clusterOut : tx.clusterOut[c] \in Addresses
  BY <1>2, TxFacts
<1>5. \A s \in DOMAIN ClusterOf : ClusterOf[s] \in Clusters
  BY ClusterOfAssumption DEF Range
<1> DEFINE new == After(tx, unparsed)
<1>6. /\ new.owner \in [Spores -> Addresses \cup {Unborn, NoOwner}]
      /\ new.clusterOwner \in [Clusters -> Addresses \cup {Unborn}]
  BY <1>3, <1>4 DEF After
<1>7. new.handled \in SUBSET Spores /\ new.moved \in SUBSET Spores /\ new.fleeting \in SUBSET Spores
  BY <1>3, <1>4 DEF After
<1>8. new.creator \in [Spores -> Addresses \cup {Unborn}]
  BY <1>3, <1>4, <1>5 DEF After, Mints
<1>9. new = [owner |-> new.owner, clusterOwner |-> new.clusterOwner, handled |-> new.handled,
             moved |-> new.moved, fleeting |-> new.fleeting, creator |-> new.creator]
  BY DEF After
<1> HIDE DEF new
<1>10. CellsOK'
  <2>1. new \in [owner : [Spores -> Addresses \cup {Unborn, NoOwner}],
                 clusterOwner : [Clusters -> Addresses \cup {Unborn}],
                 handled : SUBSET Spores, moved : SUBSET Spores, fleeting : SUBSET Spores,
                 creator : [Spores -> Addresses \cup {Unborn}]]
    BY <1>6, <1>7, <1>8, <1>9
  <2>2. cells'[Height] = new
    BY <1>1 DEF new
  <2> QED
    BY <1>1, <1>2, <2>1, <2>2 DEF CellsOK
<1>11. \A s \in Spores : DOMAIN spores'[s] \subseteq 1..Height /\ Range(spores'[s]) \subseteq Rows
  <2> TAKE s \in Spores
  <2>1. DOMAIN spores[s] \subseteq 1..Height /\ Range(spores[s]) \subseteq Rows
    BY <1>2 DEF SporeTypeOK
  <2>2. CASE spores'[s] = spores[s]
    BY <2>1, <2>2
  <2>3. ASSUME NEW owner, NEW creator, SavesRow(s, tx, owner, creator)
        PROVE  DOMAIN spores'[s] \subseteq 1..Height /\ Range(spores'[s]) \subseteq Rows
    BY <1>1, <2>1, <2>3, SavedRows DEF SavesRow
  <2> QED
    BY <2>2, <2>3, SporeRows
<1>12. \A c \in Clusters : DOMAIN clusters'[c] \subseteq 1..Height /\ Range(clusters'[c]) \subseteq Rows
  <2> TAKE c \in Clusters
  <2>1. DOMAIN clusters[c] \subseteq 1..Height /\ Range(clusters[c]) \subseteq Rows
    BY <1>2 DEF SporeTypeOK
  <2>2. CASE clusters'[c] = clusters[c]
    BY <2>1, <2>2
  <2>3. ASSUME tx.clusterOut[c] \in Addresses, NEW creator \in Addresses \cup {NoOwner},
               clusters'[c] = Saved(clusters[c], tx.clusterOut[c], creator)
        PROVE  DOMAIN clusters'[c] \subseteq 1..Height /\ Range(clusters'[c]) \subseteq Rows
    BY <1>1, <2>1, <2>3, SavedRows
  <2> QED
    BY <2>2, <2>3, ClusterRows
<1>13. SporeTypeOK'
  <2>1. open' \in 0..MaxTxs
    <3>1. open \in 0..MaxTxs /\ open > 0 /\ open' = open - 1
      BY <1>2 DEF SporeTypeOK, Indexed
    <3> QED
      BY <3>1, SporeBoundsAssumption
  <2>2. \A h \in 0..Height' :
          /\ cells'[h].owner \in [Spores -> Addresses \cup {Unborn, NoOwner}]
          /\ cells'[h].clusterOwner \in [Clusters -> Addresses \cup {Unborn}]
    BY <1>10 DEF CellsOK
  <2>3. Height' <= MaxHeight
    BY <1>1, <1>2 DEF SporeTypeOK
  <2> QED
    BY <1>1, <1>11, <1>12, <2>1, <2>2, <2>3 DEF SporeTypeOK
<1> QED
  BY <1>10, <1>13

\* What the transaction makes of a spore on the chain.
LEMMA AfterIs ==
  ASSUME NEW tx, NEW unparsed, NEW s \in Spores
  PROVE  /\ s \in tx.in /\ s \notin DOMAIN tx.out => After(tx, unparsed).owner[s] = NoOwner
         /\ s \in DOMAIN tx.out => After(tx, unparsed).owner[s] = tx.out[s]
         /\ s \notin tx.in \cup DOMAIN tx.out => After(tx, unparsed).owner[s] = Now.owner[s]
         /\ s \in After(tx, unparsed).handled =>
              s \notin unparsed /\ s \in Now.handled \cup (tx.in \cup DOMAIN tx.out)
         /\ s \notin After(tx, unparsed).moved => s \notin Now.moved /\ s \notin DOMAIN tx.out
         /\ s \notin After(tx, unparsed).fleeting =>
              s \notin Now.fleeting /\ (s \in tx.in /\ s \notin DOMAIN tx.out => s \notin Now.moved)
         /\ After(tx, unparsed).creator[s] =
              IF s \in Mints(tx.in, tx.out) \ unparsed
                THEN IF s \in DOMAIN ClusterOf THEN Now.clusterOwner[ClusterOf[s]] ELSE tx.out[s]
                ELSE Now.creator[s]
BY DEF After, Burns

\* Below the newest height no row changes.
LEMMA RowsBelow ==
  ASSUME SporeInv, NEW tx, NEW unparsed, Indexed(tx, unparsed), NEW s \in Spores
  PROVE  /\ \A k \in 0..Height : k # Height => (k \in DOMAIN spores'[s] <=> k \in DOMAIN spores[s])
         /\ \A k \in DOMAIN spores'[s] : k # Height => spores'[s][k] = spores[s][k]
         /\ \A k \in DOMAIN spores'[s] : k \in DOMAIN spores[s] \/ k = Height
         /\ DOMAIN spores[s] \subseteq DOMAIN spores'[s]
         /\ \A h \in 0..Height : \A start : h # Height =>
              OwnerAsOf(spores'[s], h, start) = OwnerAsOf(spores[s], h, start)
<1>1. Height \in Nat /\ DOMAIN spores[s] \subseteq 0..Height
  BY DEF SporeInv, SporeTypeOK
<1>2. CASE spores'[s] = spores[s]
  BY <1>2
<1>3. ASSUME NEW owner, NEW creator, SavesRow(s, tx, owner, creator)
      PROVE  /\ \A k \in 0..Height : k # Height => (k \in DOMAIN spores'[s] <=> k \in DOMAIN spores[s])
             /\ \A k \in DOMAIN spores'[s] : k # Height => spores'[s][k] = spores[s][k]
             /\ \A k \in DOMAIN spores'[s] : k \in DOMAIN spores[s] \/ k = Height
             /\ DOMAIN spores[s] \subseteq DOMAIN spores'[s]
             /\ \A h \in 0..Height : \A start : h # Height =>
                  OwnerAsOf(spores'[s], h, start) = OwnerAsOf(spores[s], h, start)
  <2>1. spores'[s] = Saved(spores[s], owner, creator)
    BY <1>3 DEF SavesRow
  <2>2. /\ \A k \in 0..Height : k # Height => (k \in DOMAIN spores'[s] <=> k \in DOMAIN spores[s])
        /\ \A k \in DOMAIN spores'[s] : k # Height => spores'[s][k] = spores[s][k]
        /\ \A k \in DOMAIN spores'[s] : k \in DOMAIN spores[s] \/ k = Height
        /\ DOMAIN spores[s] \subseteq DOMAIN spores'[s]
    BY <2>1 DEF Saved
  <2>3. \A h \in 0..Height : \A start : h # Height =>
          OwnerAsOf(spores'[s], h, start) = OwnerAsOf(spores[s], h, start)
    BY <1>1, <2>1, OwnerBelowSaved
  <2> QED
    BY <2>2, <2>3
<1>4. spores'[s] = spores[s] \/ \E owner, creator : SavesRow(s, tx, owner, creator)
  BY SporeRows
<1> QED
  BY <1>2, <1>3, <1>4

LEMMA IndexedOwners ==
  ASSUME SporeInv, NEW tx, NEW unparsed, Indexed(tx, unparsed)
  PROVE  ClusterOwnersAreCells' /\ SporeOwnersAreCells'
<1>1. /\ Height' = Height /\ Height \in Nat /\ Height \in 0..Height
      /\ cells'[Height] = After(tx, unparsed) /\ cells'[0] = cells[0]
      /\ \A h \in 0..Height : h # Height => cells'[h] = cells[h]
  BY IndexedCells
<1>2. ClusterOwnersAreCells /\ SporeOwnersAreCells /\ CellsOK /\ SporeTypeOK
  BY DEF SporeInv
<1>3. ClusterOwnersAreCells'
  <2> SUFFICES ASSUME NEW h \in 0..Height, NEW c \in Clusters
               PROVE  OwnerAsOf(clusters'[c], h, cells[0].clusterOwner[c]) = cells'[h].clusterOwner[c]
    BY <1>1 DEF ClusterOwnersAreCells
  <2>1. OwnerAsOf(clusters[c], h, cells[0].clusterOwner[c]) = cells[h].clusterOwner[c]
    BY <1>2 DEF ClusterOwnersAreCells
  <2>2. After(tx, unparsed).clusterOwner[c] =
          IF c \in DOMAIN tx.clusterOut THEN tx.clusterOut[c] ELSE Now.clusterOwner[c]
    BY DEF After
  <2>3. DOMAIN clusters[c] \subseteq 0..Height
    BY <1>1, <1>2 DEF SporeTypeOK
  <2>4. CASE clusters'[c] = clusters[c] /\ c \notin DOMAIN tx.clusterOut
    BY <1>1, <2>1, <2>2, <2>4 DEF Now
  <2>5. ASSUME c \in DOMAIN tx.clusterOut, NEW creator,
               clusters'[c] = Saved(clusters[c], tx.clusterOut[c], creator)
        PROVE  OwnerAsOf(clusters'[c], h, cells[0].clusterOwner[c]) = cells'[h].clusterOwner[c]
    <3>1. CASE h = Height
      BY <1>1, <2>2, <2>3, <2>5, <3>1, OwnerOfSaved
    <3>2. CASE h # Height
      BY <1>1, <2>1, <2>3, <2>5, <3>2, OwnerBelowSaved
    <3> QED
      BY <3>1, <3>2
  <2> QED
    BY <2>4, <2>5, ClusterRows
<1>4. SporeOwnersAreCells'
  <2> SUFFICES ASSUME NEW h \in 0..Height, NEW s \in cells'[h].handled \ cells'[h].fleeting
               PROVE  OwnerAsOf(spores'[s], h, cells[0].owner[s]) = cells'[h].owner[s]
    BY <1>1 DEF SporeOwnersAreCells
  <2>1. s \in Spores
    <3>1. CellsOK'
      BY IndexedTypes
    <3> QED
      BY <1>1, <3>1 DEF CellsOK
  <2>2. CASE h # Height
    <3>1. OwnerAsOf(spores[s], h, cells[0].owner[s]) = cells[h].owner[s]
      BY <1>1, <1>2, <2>2 DEF SporeOwnersAreCells
    <3> QED
      BY <1>1, <2>1, <2>2, <3>1, RowsBelow
  <2>3. CASE h = Height
    <3>1. /\ s \notin unparsed /\ s \in Now.handled \cup (tx.in \cup DOMAIN tx.out)
          /\ s \notin Now.fleeting
          /\ s \in tx.in /\ s \notin DOMAIN tx.out => s \notin Now.moved
      BY <1>1, <2>1, <2>3, AfterIs
    <3>2. CASE s \notin tx.in \cup DOMAIN tx.out
      <4>1. spores'[s] = spores[s]
        BY <2>1, <3>2, SporeRows
      <4>2. OwnerAsOf(spores[s], Height, cells[0].owner[s]) = Now.owner[s]
        BY <1>1, <1>2, <3>1, <3>2 DEF SporeOwnersAreCells, Now
      <4>3. After(tx, unparsed).owner[s] = Now.owner[s]
        BY <2>1, <3>2, AfterIs
      <4> QED
        BY <1>1, <2>3, <4>1, <4>2, <4>3
    <3>3. CASE s \in tx.in \cup DOMAIN tx.out
      <4>1. PICK owner, creator : SavesRow(s, tx, owner, creator)
        BY <2>1, <3>1, <3>3, SporeRows
      <4>2. owner = After(tx, unparsed).owner[s]
        <5>1. CASE s \in DOMAIN tx.out
          BY <2>1, <4>1, <5>1, AfterIs DEF SavesRow
        <5>2. CASE s \notin DOMAIN tx.out
          BY <2>1, <3>1, <3>3, <4>1, <5>2, AfterIs DEF SavesRow
        <5> QED
          BY <5>1, <5>2
      <4>3. DOMAIN spores[s] \subseteq 0..Height
        BY <1>1, <1>2, <2>1 DEF SporeTypeOK
      <4>4. spores'[s] = Saved(spores[s], owner, creator)
        BY <4>1 DEF SavesRow
      <4>5. \A start : OwnerAsOf(Saved(spores[s], owner, creator), Height, start) = owner
        BY <1>1, <4>3, OwnerOfSaved
      <4> QED
        BY <1>1, <2>3, <4>2, <4>4, <4>5
    <3> QED
      BY <3>2, <3>3
  <2> QED
    BY <2>2, <2>3
<1> QED
  BY <1>3, <1>4

LEMMA IndexedBirths ==
  ASSUME SporeInv, NEW tx, NEW unparsed, Indexed(tx, unparsed)
  PROVE  SporesBorn' /\ MovedOrGone'
<1>1. /\ Height' = Height /\ Height \in Nat /\ Height \in 0..Height
      /\ cells'[Height] = After(tx, unparsed)
      /\ \A h \in 0..Height : h # Height => cells'[h] = cells[h]
  BY IndexedCells
<1>2. SporesBorn /\ MovedOrGone /\ tx \in Txs
  BY DEF SporeInv, Indexed
<1>3. \A s \in Spores : \A k \in DOMAIN spores[s] : k \in 1..Height
  BY DEF SporeInv, SporeTypeOK
<1>4. SporesBorn'
  <2> SUFFICES ASSUME NEW h \in 0..Height, NEW s \in Spores, cells'[h].owner[s] = Unborn,
                      NEW k \in DOMAIN spores'[s]
               PROVE  k > h
    BY <1>1 DEF SporesBorn
  <2>1. k \in DOMAIN spores[s] \/ k = Height
    BY RowsBelow
  <2>2. CASE h # Height
    <3>1. \A x \in DOMAIN spores[s] : x > h
      BY <1>1, <1>2, <2>2 DEF SporesBorn
    <3> QED
      BY <1>1, <2>1, <2>2, <3>1
  <2>3. CASE h = Height
    <3>1. s \notin tx.in \cup DOMAIN tx.out
      <4>1. s \in DOMAIN tx.out => tx.out[s] \in Addresses
        BY <1>2, TxFacts
      <4> QED
        BY <1>1, <2>3, <4>1, AfterIs, MarkersAssumption
    <3>2. Now.owner[s] = Unborn
      BY <1>1, <2>3, <3>1, AfterIs
    <3>3. k \in DOMAIN spores[s]
      BY <3>1, SporeRows
    <3> QED
      BY <1>1, <1>2, <2>3, <3>2, <3>3 DEF SporesBorn, Now
  <2> QED
    BY <2>2, <2>3
<1>5. MovedOrGone'
  <2> SUFFICES ASSUME NEW h \in 0..Height, NEW s \in Spores, h \in DOMAIN spores'[s],
                      s \notin cells'[h].moved
               PROVE  cells'[h].owner[s] = NoOwner
    BY <1>1 DEF MovedOrGone
  <2>1. CASE h # Height
    <3>1. h \in DOMAIN spores[s]
      BY <2>1, RowsBelow
    <3> QED
      BY <1>1, <1>2, <2>1, <3>1 DEF MovedOrGone
  <2>2. CASE h = Height
    <3>1. s \notin Now.moved /\ s \notin DOMAIN tx.out
      BY <1>1, <2>2, AfterIs
    <3>2. CASE s \in tx.in
      BY <1>1, <2>2, <3>1, <3>2, AfterIs
    <3>3. CASE s \notin tx.in
      <4>1. spores'[s] = spores[s]
        BY <3>1, <3>3, SporeRows
      <4>2. Now.owner[s] = NoOwner
        BY <1>1, <1>2, <2>2, <3>1, <4>1 DEF MovedOrGone, Now
      <4> QED
        BY <1>1, <2>2, <3>1, <3>3, <4>2, AfterIs
    <3> QED
      BY <3>2, <3>3
  <2> QED
    BY <2>1, <2>2
<1> QED
  BY <1>4, <1>5

\* The creator of a spore that is minted now, whose cluster is new, is what the
\* rows of the cluster, or the mint, say.
LEMMA MintedCreator ==
  ASSUME SporeInv, NEW tx, NEW unparsed, Indexed(tx, unparsed), NEW s \in Mints(tx.in, tx.out),
         ClusterIsNew(s)
  PROVE  CreatorOf(s, tx.out[s]) =
           IF s \in DOMAIN ClusterOf THEN Now.clusterOwner[ClusterOf[s]] ELSE tx.out[s]
<1>1. CASE s \notin DOMAIN ClusterOf
  BY <1>1 DEF CreatorOf
<1>2. CASE s \in DOMAIN ClusterOf
  <2>1. ClusterOf[s] \in Clusters /\ cells[0].clusterOwner[ClusterOf[s]] = Unborn
    BY <1>2, ClusterOfAssumption DEF Range, ClusterIsNew
  <2>2. Now.clusterOwner[ClusterOf[s]] # Unborn
    BY <1>2 DEF Indexed, Valid
  <2>3. Now.clusterOwner[ClusterOf[s]] =
          IF DOMAIN clusters[ClusterOf[s]] = {} THEN cells[0].clusterOwner[ClusterOf[s]]
          ELSE Prev(clusters[ClusterOf[s]]).owner
    BY <2>1, ClusterOwnerNow
  <2> QED
    BY <1>2, <2>1, <2>2, <2>3 DEF CreatorOf
<1> QED
  BY <1>1, <1>2

LEMMA IndexedCreators ==
  ASSUME SporeInv, NEW tx, NEW unparsed, Indexed(tx, unparsed)
  PROVE  CreatorsHeld'
<1>1. /\ Height' = Height /\ Height \in Nat /\ Height \in 0..Height
      /\ cells'[Height] = After(tx, unparsed) /\ cells'[0] = cells[0]
      /\ \A h \in 0..Height : h # Height => cells'[h] = cells[h]
  BY IndexedCells
<1>2. CreatorsHeld
  BY DEF SporeInv
<1> SUFFICES ASSUME NEW h \in 0..Height, NEW s \in Spores, cells'[h].creator[s] # Unborn
             PROVE  /\ \E k \in DOMAIN spores'[s] : k <= h
                    /\ ClusterIsNew(s) => \A k \in DOMAIN spores'[s] :
                         k <= h => spores'[s][k].creator = cells'[h].creator[s]
  <2>1. \A s \in Spores : ClusterIsNew(s)' <=> ClusterIsNew(s)
    BY <1>1 DEF ClusterIsNew
  <2> QED
    BY <1>1, <2>1 DEF CreatorsHeld
<1>3. /\ DOMAIN spores[s] \subseteq 0..Height
      /\ DOMAIN spores[s] \subseteq DOMAIN spores'[s]
      /\ \A k \in DOMAIN spores'[s] : k \in DOMAIN spores[s] \/ k = Height
      /\ \A k \in DOMAIN spores'[s] : k # Height => spores'[s][k] = spores[s][k]
  BY RowsBelow DEF SporeInv, SporeTypeOK
<1>4. CASE h # Height
  <2>1. /\ \E k \in DOMAIN spores[s] : k <= h
        /\ ClusterIsNew(s) => \A k \in DOMAIN spores[s] :
             k <= h => spores[s][k].creator = cells'[h].creator[s]
    BY <1>1, <1>2, <1>4 DEF CreatorsHeld
  <2>2. \A k \in DOMAIN spores'[s] : k <= h => k \in DOMAIN spores[s] /\ k # Height
    BY <1>1, <1>3, <1>4
  <2> QED
    BY <1>3, <2>1, <2>2
<1>5. CASE h = Height /\ s \in Mints(tx.in, tx.out) \ unparsed
  <2>1. s \in DOMAIN tx.out
    BY <1>5 DEF Mints
  <2>2. PICK owner, creator : SavesRow(s, tx, owner, creator)
    BY <1>5, <2>1, SporeRows
  <2>3. /\ spores'[s] = Saved(spores[s], owner, creator) /\ DOMAIN spores[s] = {}
        /\ creator = CreatorOf(s, tx.out[s])
    BY <1>5, <2>2 DEF SavesRow
  <2>4. DOMAIN spores'[s] = {Height} /\ spores'[s][Height].creator = creator
    BY <2>3 DEF Saved
  <2>5. cells'[h].creator[s] =
          IF s \in DOMAIN ClusterOf THEN Now.clusterOwner[ClusterOf[s]] ELSE tx.out[s]
    BY <1>1, <1>5, AfterIs
  <2>6. ClusterIsNew(s) => creator = cells'[h].creator[s]
    BY <1>5, <2>3, <2>5, MintedCreator
  <2> QED
    BY <1>1, <1>5, <2>4, <2>6
<1>6. CASE h = Height /\ s \notin Mints(tx.in, tx.out) \ unparsed
  <2>1. cells'[h].creator[s] = Now.creator[s]
    BY <1>1, <1>6, AfterIs
  <2>2. /\ \E k \in DOMAIN spores[s] : k <= Height
        /\ ClusterIsNew(s) => \A k \in DOMAIN spores[s] : spores[s][k].creator = Now.creator[s]
    <3>1. \A k \in DOMAIN spores[s] : k <= Height
      BY <1>1, <1>3
    <3> QED
      BY <1>1, <1>2, <2>1, <3>1 DEF CreatorsHeld, Now
  <2>3. ClusterIsNew(s) => \A k \in DOMAIN spores'[s] : spores'[s][k].creator = Now.creator[s]
    <3>1. CASE spores'[s] = spores[s]
      BY <2>2, <3>1
    <3>2. ASSUME NEW owner, NEW creator, SavesRow(s, tx, owner, creator)
          PROVE  ClusterIsNew(s) => \A k \in DOMAIN spores'[s] : spores'[s][k].creator = Now.creator[s]
      <4>1. spores'[s] = Saved(spores[s], owner, creator) /\ creator = Prev(spores[s]).creator
        BY <2>2, <3>2 DEF SavesRow
      <4>2. /\ Max(DOMAIN spores[s]) \in DOMAIN spores[s]
            /\ Prev(spores[s]).creator = spores[s][Max(DOMAIN spores[s])].creator
        BY <1>1, <1>3, <2>2, PrevIs
      <4>3. spores'[s][Height].creator = creator
        BY <4>1 DEF Saved
      <4> QED
        BY <1>3, <2>2, <4>1, <4>2, <4>3
    <3> QED
      BY <3>1, <3>2, SporeRows
  <2> QED
    BY <1>3, <1>6, <2>1, <2>2, <2>3
<1> QED
  BY <1>4, <1>5, <1>6

LEMMA IndexTxKeeps == SporeInv /\ IndexTx => SporeInv'
<1> SUFFICES ASSUME SporeInv, IndexTx PROVE SporeInv'
  OBVIOUS
<1>1. PICK tx, unparsed : Indexed(tx, unparsed)
  BY IndexTxIs
<1>2. Height' = Height /\ Height \in Nat /\ Height > 0
  BY <1>1, IndexedCells
<1>3. OpenBlock'
  BY <1>2 DEF OpenBlock
<1>4. SporeTypeOK' /\ CellsOK'
  BY <1>1, IndexedTypes
<1>5. SporesBorn' /\ MovedOrGone'
  BY <1>1, IndexedBirths
<1>6. CreatorsHeld'
  BY <1>1, IndexedCreators
<1>7. ClusterOwnersAreCells' /\ SporeOwnersAreCells'
  BY <1>1, IndexedOwners
<1> QED
  BY <1>2, <1>3, <1>4, <1>5, <1>6, <1>7 DEF SporeInv

LEMMA SporeInvStutters == SporeInv /\ UNCHANGED sporeVars => SporeInv'
<1> SUFFICES ASSUME SporeInv, UNCHANGED sporeVars PROVE SporeInv'
  OBVIOUS
<1>1. cells' = cells /\ open' = open /\ spores' = spores /\ clusters' = clusters
  BY DEF sporeVars
<1>2. Height' = Height
  BY <1>1 DEF Height
<1>3. SporeTypeOK' /\ CellsOK' /\ OpenBlock'
  BY <1>1, <1>2 DEF SporeInv, SporeTypeOK, CellsOK, OpenBlock
<1>4. SporesBorn' /\ MovedOrGone' /\ CreatorsHeld'
  BY <1>1, <1>2 DEF SporeInv, SporesBorn, MovedOrGone, CreatorsHeld, ClusterIsNew
<1>5. ClusterOwnersAreCells' /\ SporeOwnersAreCells'
  BY <1>1, <1>2 DEF SporeInv, ClusterOwnersAreCells, SporeOwnersAreCells
<1> QED
  BY <1>2, <1>3, <1>4, <1>5 DEF SporeInv

(***************************************************************************)
(* Theorems                                                                *)
(***************************************************************************)

\* The invariant the other theorems follow from.
THEOREM SporeCorrect == SporeSpec => []SporeInv
<1>1. SporeInv /\ [SporeNext]_sporeVars => SporeInv'
  BY NewBlockKeeps, IndexTxKeeps, RollBackKeeps, SporeInvStutters DEF SporeNext
<1> QED
  BY <1>1, SporeStarts, PTL DEF SporeSpec

\* Rows are of the heights of the chain and hold owners and creators, whatever
\* handleSporeFlow and handleClusterFlow have made of the flows.
THEOREM SporeTypeCorrect == SporeSpec => []SporeTypeOK
<1>1. SporeInv => SporeTypeOK
  BY DEF SporeInv
<1> QED
  BY <1>1, SporeCorrect, PTL

\* handleClusterFlow: at each height the newest row of a cluster up to it names
\* the owner of the cluster's cell, after any blocks and rollbacks.
THEOREM ClusterOwnersCorrect == SporeSpec => []ClusterOwnersAreCells
<1>1. SporeInv => ClusterOwnersAreCells
  BY DEF SporeInv
<1> QED
  BY <1>1, SporeCorrect, PTL

\* handleSporeFlow: so does the newest row of a spore, if its last flow could be
\* parsed and it was not burnt in a block that had moved it.
THEOREM SporeOwnersCorrect == SporeSpec => []SporeOwnersAreCells
<1>1. SporeInv => SporeOwnersAreCells
  BY DEF SporeInv
<1> QED
  BY <1>1, SporeCorrect, PTL

\* handleSporeFlow: creatorAddress is passed on from row to row, so every row
\* names who owned the cluster when the spore was minted.
THEOREM CreatorsCorrect == SporeSpec => []CreatorsStay
<1>1. SporeInv => CreatorsStay
  <2> SUFFICES ASSUME SporeInv, NEW s \in Spores, Now.creator[s] # Unborn, ClusterIsNew(s),
                      NEW k \in DOMAIN spores[s]
               PROVE  spores[s][k].creator = Now.creator[s]
    BY DEF CreatorsStay, ClusterIsNew
  <2>1. CreatorsHeld /\ Height \in 0..Height
    BY DEF SporeInv
  <2>2. k <= Height
    BY DEF SporeInv, SporeTypeOK
  <2> QED
    BY <2>1, <2>2 DEF CreatorsHeld, Now
<1> QED
  BY <1>1, SporeCorrect, PTL

\* handleSporeFlow and handleClusterFlow throw for a mint of what is known and
\* for a burnt cluster: no transaction the type scripts let pass is one of them.
THEOREM NeverStuck == SporeSpec => []NoBlockIsStuck
<1>1. SporeInv => NoBlockIsStuck
  <2> SUFFICES ASSUME SporeInv, NEW tx \in Txs, Valid(tx), NEW unparsed \in Unparsed(tx)
               PROVE  ~Throws(tx, unparsed)
    BY DEF NoBlockIsStuck
  <2>1. SporesBorn /\ SporeTypeOK /\ Height \in Nat /\ Height \in 0..Height
    BY DEF SporeInv
  <2>2. ASSUME NEW s \in Mints(tx.in, tx.out) PROVE DOMAIN spores[s] = {}
    <3>1. s \in Spores
      BY TxFacts DEF Mints
    <3>2. Now.owner[s] = Unborn
      BY DEF Valid
    <3>3. \A k \in DOMAIN spores[s] : k > Height /\ k \in 1..Height
      BY <2>1, <3>1, <3>2 DEF SporesBorn, SporeTypeOK, Now
    <3> QED
      BY <2>1, <3>3
  <2>3. ASSUME NEW c \in Mints(tx.clusterIn, tx.clusterOut) PROVE DOMAIN clusters[c] = {}
    <3>1. c \in Clusters
      BY TxFacts DEF Mints
    <3>2. Now.clusterOwner[c] = Unborn
      BY DEF Valid
    <3>3. DOMAIN clusters[c] \subseteq 0..Height /\ Range(clusters[c]) \subseteq Rows
      BY <2>1, <3>1 DEF SporeTypeOK
    <3>4. Prev(clusters[c]).owner \in Addresses \cup {NoOwner}
      BY <2>1, <3>3, PrevType
    <3>5. Prev(clusters[c]).owner # Unborn
      BY <3>4, MarkersAssumption
    <3> QED
      BY <3>1, <3>2, <3>5, ClusterOwnerNow
  <2>4. Burns(tx.clusterIn, tx.clusterOut) = {}
    BY DEF Valid
  <2> QED
    BY <2>2, <2>3, <2>4 DEF Throws
<1> QED
  BY <1>1, SporeCorrect, PTL

=============================================================================
