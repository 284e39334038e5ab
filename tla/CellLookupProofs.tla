-------------------------- MODULE CellLookupProofs --------------------------
(***************************************************************************)
(* Proofs about CellLookup: what a request tells of a cell held at some    *)
(* moment of the request, the spender it names is the spender, a spender   *)
(* that stays where it is gets found, and a client that follows the        *)
(* cursors is given every cell that stays.                                 *)
(***************************************************************************)
EXTENDS CellLookup, FiniteLemmas

(***************************************************************************)
(* Transactions on a chain                                                 *)
(***************************************************************************)

LEMMA PlacesAre ==
  ASSUME NEW c \in Seq(Payloads), NEW x
  PROVE  x \in Places(c) <=> \E h \in 1..Len(c) : \E i \in 1..Len(c[h]) : x = <<h, i>>
<1>1. DOMAIN c = 1..Len(c)
  OBVIOUS
<1>2. \A h \in 1..Len(c) : DOMAIN c[h] = 1..Len(c[h])
  <2> TAKE h \in 1..Len(c)
  <2>1. c[h] \in Seq(DOMAIN InputsOf)
    BY BlocksAssumption
  <2> QED
    BY <2>1
<1> QED
  BY <1>1, <1>2 DEF Places

LEMMA PlaceType ==
  ASSUME NEW c \in Seq(Payloads), NEW x \in Places(c)
  PROVE  /\ x \in Nat \X Nat /\ x[1] \in 1..Len(c) /\ x = <<x[1], x[2]>>
         /\ TxAt(c, x) \in Txs /\ TxAt(c, x) \in Range(c[x[1]])
<1>1. PICK h \in 1..Len(c) : \E i \in 1..Len(c[h]) : x = <<h, i>>
  BY PlacesAre
<1>2. PICK i \in 1..Len(c[h]) : x = <<h, i>>
  BY <1>1
<1>3. c[h] \in Seq(DOMAIN InputsOf)
  BY BlocksAssumption
<1>4. c[h][i] \in Txs /\ c[h][i] \in Range(c[h])
  BY <1>3 DEF Txs, Range
<1> QED
  BY <1>2, <1>4 DEF TxAt

\* The transactions of a chain are those that are at some place of it.
LEMMA TxsHavePlaces ==
  ASSUME NEW c \in Seq(Payloads), NEW t
  PROVE  t \in TxsOfBlocks(c) <=> \E x \in Places(c) : TxAt(c, x) = t
<1>1. ASSUME t \in TxsOfBlocks(c) PROVE \E x \in Places(c) : TxAt(c, x) = t
  <2>1. PICK h \in 1..Len(c) : t \in Range(c[h])
    BY <1>1 DEF TxsOfBlocks
  <2>2. c[h] \in Seq(DOMAIN InputsOf)
    BY BlocksAssumption
  <2>3. PICK i \in 1..Len(c[h]) : c[h][i] = t
    BY <2>1, <2>2 DEF Range
  <2>4. <<h, i>> \in Places(c)
    BY <2>3, PlacesAre
  <2> QED
    BY <2>3, <2>4 DEF TxAt
<1>2. ASSUME NEW x \in Places(c), TxAt(c, x) = t PROVE t \in TxsOfBlocks(c)
  BY <1>2, PlaceType DEF TxsOfBlocks
<1> QED
  BY <1>1, <1>2

LEMMA TxsOfBlocksType ==
  ASSUME NEW c \in Seq(Payloads)
  PROVE  TxsOfBlocks(c) \subseteq Txs
BY TxsHavePlaces, PlaceType

\* The chain's rule, for one transaction and one of its inputs.
LEMMA BlocksAreValid ==
  ASSUME NEW c \in Seq(Payloads), ValidBlocks(c), NEW x \in Places(c)
  PROVE  /\ \A y \in Places(c) : Precedes(y, x) => TxAt(c, y) # TxAt(c, x)
         /\ \A out \in Range(InputsOf[TxAt(c, x)]) :
              /\ \E y \in Places(c) : Precedes(y, x) /\ TxAt(c, y) = out.tx
              /\ \A y \in Places(c) : Precedes(y, x) => ~Spends(TxAt(c, y), out)
BY Zenon DEF ValidBlocks, EarlierTxs

\* A transaction is at one place.
LEMMA OnePlace ==
  ASSUME NEW c \in Seq(Payloads), ValidBlocks(c), NEW x \in Places(c), NEW y \in Places(c),
         TxAt(c, x) = TxAt(c, y)
  PROVE  x = y
<1>1. x = <<x[1], x[2]>> /\ y = <<y[1], y[2]>> /\ x \in Nat \X Nat /\ y \in Nat \X Nat
  BY PlaceType
<1>2. ~Precedes(x, y) /\ ~Precedes(y, x)
  BY BlocksAreValid
<1>3. x[1] = y[1] /\ x[2] = y[2]
  BY <1>1, <1>2 DEF Precedes
<1> QED
  BY <1>1, <1>3

LEMMA PlaceOnIs ==
  ASSUME NEW c \in Seq(Payloads), ValidBlocks(c), NEW x \in Places(c)
  PROVE  PlaceOn(c, TxAt(c, x)) = x
<1>1. \A y \in Places(c) : TxAt(c, y) = TxAt(c, x) => y = x
  BY OnePlace
<1> QED
  BY <1>1, Zenon DEF PlaceOn

LEMMA PlaceOnType ==
  ASSUME NEW c \in Seq(Payloads), ValidBlocks(c), NEW t \in TxsOfBlocks(c)
  PROVE  /\ PlaceOn(c, t) \in Places(c) /\ TxAt(c, PlaceOn(c, t)) = t
         /\ PlaceOn(c, t) \in Nat \X Nat /\ HeightOn(c, t) \in 1..Len(c)
         /\ HeightOn(c, t) = PlaceOn(c, t)[1]
<1>1. PICK x \in Places(c) : TxAt(c, x) = t
  BY TxsHavePlaces
<1>2. PlaceOn(c, t) = x
  BY <1>1, PlaceOnIs
<1> QED
  BY <1>1, <1>2, PlaceType DEF HeightOn

\* A cell has one spender.
LEMMA OneSpender ==
  ASSUME NEW c \in Seq(Payloads), ValidBlocks(c), NEW out,
         NEW t \in TxsOfBlocks(c), NEW u \in TxsOfBlocks(c), Spends(t, out), Spends(u, out)
  PROVE  t = u
<1>1. PICK x \in Places(c) : TxAt(c, x) = t
  BY TxsHavePlaces
<1>2. PICK y \in Places(c) : TxAt(c, y) = u
  BY TxsHavePlaces
<1>3. x = <<x[1], x[2]>> /\ y = <<y[1], y[2]>> /\ x \in Nat \X Nat /\ y \in Nat \X Nat
  BY PlaceType
<1>4. ~Precedes(x, y) /\ ~Precedes(y, x)
  BY <1>1, <1>2, BlocksAreValid DEF Spends
<1>5. x[1] = y[1] /\ x[2] = y[2]
  BY <1>3, <1>4 DEF Precedes
<1> QED
  BY <1>1, <1>2, <1>3, <1>5

\* Who spends a cell is on the chain no lower than who created it.
LEMMA SpenderIsLater ==
  ASSUME NEW c \in Seq(Payloads), ValidBlocks(c), NEW out,
         NEW t \in TxsOfBlocks(c), Spends(t, out)
  PROVE  out.tx \in TxsOfBlocks(c) /\ HeightOn(c, out.tx) <= HeightOn(c, t)
<1>1. PICK x \in Places(c) : TxAt(c, x) = t
  BY TxsHavePlaces
<1>2. PICK y \in Places(c) : Precedes(y, x) /\ TxAt(c, y) = out.tx
  BY <1>1, BlocksAreValid DEF Spends
<1>3. PlaceOn(c, t) = x /\ PlaceOn(c, out.tx) = y
  BY <1>1, <1>2, PlaceOnIs
<1>4. x \in Nat \X Nat /\ y \in Nat \X Nat
  BY PlaceType
<1>5. y[1] <= x[1]
  BY <1>2, <1>4 DEF Precedes
<1> QED
  BY <1>2, <1>3, <1>5, TxsHavePlaces DEF HeightOn

(***************************************************************************)
(* How an outpoint stands                                                  *)
(***************************************************************************)

SpentBy(t, place) == [is |-> "spent", by |-> t, at |-> place]

LEMMA StandsLive ==
  ASSUME NEW c, NEW out
  PROVE  (Standing(c, out).is = "live") <=> LiveOn(c, out)
BY DEF Standing

LEMMA StandsSpent ==
  ASSUME NEW c \in Seq(Payloads), ValidBlocks(c), NEW out,
         NEW t \in TxsOfBlocks(c), Spends(t, out)
  PROVE  Standing(c, out) = SpentBy(t, PlaceOn(c, t))
<1> DEFINE by == CHOOSE u \in TxsOfBlocks(c) : Spends(u, out)
<1>1. by \in TxsOfBlocks(c) /\ Spends(by, out)
  OBVIOUS
<1>2. by = t
  <2> HIDE DEF by
  <2> QED
    BY <1>1, OneSpender
<1>3. ~LiveOn(c, out)
  BY DEF LiveOn
<1> QED
  BY <1>2, <1>3 DEF Standing, SpentBy

LEMMA SpentHasSpender ==
  ASSUME NEW c \in Seq(Payloads), ValidBlocks(c), NEW out, Standing(c, out).is = "spent"
  PROVE  \E t \in TxsOfBlocks(c) : /\ Spends(t, out)
                                   /\ Standing(c, out) = SpentBy(t, PlaceOn(c, t))
<1>1. \E t \in TxsOfBlocks(c) : Spends(t, out)
  BY DEF Standing
<1> QED
  BY <1>1, StandsSpent

(***************************************************************************)
(* The node's chain                                                        *)
(***************************************************************************)

LEMMA MaxOfTwo ==
  ASSUME NEW x \in Int, NEW y \in Int
  PROVE  Max({x, y}) \in {x, y} /\ Max({x, y}) >= x
BY DEF Max

LEMMA NodeStarts ==
  NodeInit => NodeTypeOK /\ ValidBlocks(chain) /\ Len(chain) <= MaxHeight
BY OriginAssumption, OriginOfNodeAssumption DEF NodeInit, NodeTypeOK, Start

LEMMA NodeSteps ==
  ASSUME NodeTypeOK, Len(chain) <= MaxHeight, NodeNext
  PROVE  NodeTypeOK' /\ Len(chain') <= MaxHeight
<1>1. /\ chain \in Seq(Payloads) /\ Len(chain) \in Nat /\ Start \in Nat
      /\ final \in Start..Len(chain) /\ MaxHeight \in Nat /\ FinalityDepth \in Nat \ {0}
  BY OriginAssumption, MaxHeightAssumption, FinalityDepthAssumption DEF NodeTypeOK, Start
<1>2. ASSUME NEW best \in Seq(Payloads), Adopt(best), final <= Len(best), Len(best) <= MaxHeight
      PROVE  NodeTypeOK' /\ Len(chain') <= MaxHeight
  <2>1. Len(best) \in Nat /\ Len(best) - FinalityDepth \in Int /\ Len(best) - FinalityDepth <= Len(best)
    BY <1>1
  <2>2. final' \in {final, Len(best) - FinalityDepth} /\ final' >= final
    BY <1>1, <1>2, <2>1, MaxOfTwo DEF Adopt
  <2> QED
    BY <1>1, <1>2, <2>1, <2>2 DEF Adopt, NodeTypeOK
<1>3. CASE Grow
  <2>1. PICK p \in Payloads : Adopt(Append(chain, p))
    BY <1>3 DEF Grow
  <2>2. Append(chain, p) \in Seq(Payloads) /\ Len(Append(chain, p)) = Len(chain) + 1
    BY <1>1
  <2>3. Len(chain) < MaxHeight
    BY <1>3 DEF Grow
  <2> DEFINE best == Append(chain, p)
  <2>4. best \in Seq(Payloads) /\ Adopt(best) /\ final <= Len(best) /\ Len(best) <= MaxHeight
    BY <1>1, <2>1, <2>2, <2>3
  <2> HIDE DEF best
  <2> QED
    BY <1>2, <2>4
<1>4. CASE Reorg
  <2>1. PICK n \in final..(Len(chain) - 1) : \E p \in Payloads :
          Adopt(Append(Prefix(chain, n), p))
    BY <1>4 DEF Reorg
  <2>2. PICK p \in Payloads : Adopt(Append(Prefix(chain, n), p))
    BY <2>1
  <2>3. n \in 0..Len(chain) /\ n < Len(chain) /\ final <= n
    BY <1>1
  <2>4. Prefix(chain, n) \in Seq(Payloads) /\ Len(Prefix(chain, n)) = n
    BY <1>1, <2>3 DEF Prefix
  <2>5. /\ Append(Prefix(chain, n), p) \in Seq(Payloads)
        /\ Len(Append(Prefix(chain, n), p)) = n + 1
    BY <2>4
  <2> DEFINE best == Append(Prefix(chain, n), p)
  <2>6. best \in Seq(Payloads) /\ Adopt(best) /\ final <= Len(best) /\ Len(best) <= MaxHeight
    BY <1>1, <2>2, <2>3, <2>5
  <2> HIDE DEF best
  <2> QED
    BY <1>2, <2>6
<1> QED
  BY <1>3, <1>4 DEF NodeNext

(***************************************************************************)
(* The entries of the node's index                                         *)
(***************************************************************************)

EntryRecords == [tx : Txs, place : Nat \X Nat, index : Nat, isInput : BOOLEAN]

EntryOf(t, x, i, in) == [tx |-> t, place |-> x, index |-> i, isInput |-> in]

\* An entry belongs to a search key by an input or an output of its transaction.
BelongsTo(e, key) ==
  IF e.isInput THEN e.index \in DOMAIN InputsOf[e.tx] /\ Matches(InputsOf[e.tx][e.index], key)
  ELSE e.index \in DOMAIN OutputsOf[e.tx] /\ Matches(OutPointOf(e), key)

\* A transaction's entries are of its inputs and of its outputs.
InputEntry(e, t, x, key) ==
  \E i \in DOMAIN InputsOf[t] : Matches(InputsOf[t][i], key) /\ e = EntryOf(t, x, i, TRUE)
OutputEntry(e, t, x, key) ==
  \E i \in DOMAIN OutputsOf[t] :
    Matches([tx |-> t, index |-> i], key) /\ e = EntryOf(t, x, i, FALSE)

LEMMA EntriesAtAre ==
  \A c, x, key, e :
    e \in EntriesAt(c, x, key) <=>
      InputEntry(e, TxAt(c, x), x, key) \/ OutputEntry(e, TxAt(c, x), x, key)
BY DEF EntriesAt, EntryOf, InputEntry, OutputEntry

LEMMA IndexesAre ==
  ASSUME NEW t \in Txs
  PROVE  /\ DOMAIN InputsOf[t] = 1..Len(InputsOf[t]) /\ Len(InputsOf[t]) \in Nat
         /\ DOMAIN OutputsOf[t] = 1..Len(OutputsOf[t]) /\ Len(OutputsOf[t]) \in Nat
BY InputsAssumption, OutputsAssumption DEF Txs

LEMMA EntriesAre ==
  ASSUME NEW c \in Seq(Payloads), NEW key, NEW e \in Entries(c, key)
  PROVE  /\ e \in EntryRecords /\ BelongsTo(e, key)
         /\ e.place \in Places(c) /\ TxAt(c, e.place) = e.tx
<1>1. PICK x \in Places(c) : e \in EntriesAt(c, x, key)
  BY DEF Entries
<1> DEFINE t == TxAt(c, x)
<1>2. t \in Txs /\ x \in Nat \X Nat
  BY PlaceType
<1>3. DOMAIN InputsOf[t] \subseteq Nat /\ DOMAIN OutputsOf[t] \subseteq Nat
  BY <1>2, IndexesAre
<1>4. CASE InputEntry(e, t, x, key)
  BY <1>2, <1>3, <1>4 DEF EntryOf, EntryRecords, BelongsTo, InputEntry
<1>5. CASE OutputEntry(e, t, x, key)
  BY <1>2, <1>3, <1>5 DEF EntryOf, EntryRecords, BelongsTo, OutPointOf, OutputEntry
<1> QED
  BY <1>1, <1>4, <1>5, EntriesAtAre

\* A matching input of a transaction of the chain has its entry.
LEMMA InputHasEntry ==
  ASSUME NEW c, NEW key, NEW x \in Places(c), NEW i \in DOMAIN InputsOf[TxAt(c, x)],
         Matches(InputsOf[TxAt(c, x)][i], key)
  PROVE  EntryOf(TxAt(c, x), x, i, TRUE) \in Entries(c, key)
<1>1. EntryOf(TxAt(c, x), x, i, TRUE) \in EntriesAt(c, x, key)
  BY EntriesAtAre DEF InputEntry
<1> QED
  BY <1>1 DEF Entries

\* So has a matching cell that is live.
LEMMA LiveHasEntry ==
  ASSUME NEW c \in Seq(Payloads), NEW key, NEW out \in OutPoints, LiveOn(c, out), Matches(out, key)
  PROVE  LiveCells(c, key) # {}
<1>1. PICK x \in Places(c) : TxAt(c, x) = out.tx
  BY TxsHavePlaces DEF LiveOn
<1>2. out = [tx |-> out.tx, index |-> out.index] /\ out.index \in DOMAIN OutputsOf[out.tx]
  BY DEF OutPoints
<1> DEFINE e == EntryOf(out.tx, x, out.index, FALSE)
<1>3. e \in EntriesAt(c, x, key)
  BY <1>1, <1>2, EntriesAtAre DEF OutputEntry
<1>4. e \in Entries(c, key)
  BY <1>3 DEF Entries
<1>5. ~e.isInput /\ OutPointOf(e) = out
  BY <1>2 DEF EntryOf, OutPointOf
<1> HIDE DEF e
<1> QED
  BY <1>4, <1>5 DEF LiveCells

\* A live cell's entry names a live cell that matches.
LEMMA LiveEntries ==
  ASSUME NEW c \in Seq(Payloads), NEW key, NEW e \in LiveCells(c, key)
  PROVE  /\ e \in Entries(c, key) /\ e \in EntryRecords /\ OutPointOf(e) \in OutPoints
         /\ LiveOn(c, OutPointOf(e)) /\ Matches(OutPointOf(e), key)
<1>1. e \in Entries(c, key) /\ ~e.isInput /\ LiveOn(c, OutPointOf(e))
  BY DEF LiveCells
<1>2. e \in EntryRecords /\ BelongsTo(e, key)
  BY <1>1, EntriesAre
<1> QED
  BY <1>1, <1>2 DEF BelongsTo, OutPointOf, OutPoints, EntryRecords

LEMMA ImageIsFinite ==
  ASSUME NEW S, IsFiniteSet(S), NEW f, f = [x \in S |-> f[x]]
  PROVE  IsFiniteSet({f[x] : x \in S})
<1> DEFINE T == {f[x] : x \in S}
<1>1. f \in Surjection(S, T)
  BY DEF Surjection
<1> HIDE DEF T
<1>2. IsFiniteSet(T)
  BY <1>1, FS_Surjection
<1> QED
  BY <1>2 DEF T

LEMMA UpToIsFinite == \A n \in Nat : IsFiniteSet(1..n)
BY FS_Interval

LEMMA PlacesFinite ==
  ASSUME NEW c \in Seq(Payloads)
  PROVE  IsFiniteSet(Places(c))
<1> DEFINE f == [h \in DOMAIN c |-> {h} \X DOMAIN c[h]]
<1>1. IsFiniteSet(DOMAIN c)
  <2>1. DOMAIN c = 1..Len(c) /\ Len(c) \in Nat
    OBVIOUS
  <2> QED
    BY <2>1, UpToIsFinite
<1>2. \A h \in DOMAIN c : IsFiniteSet(f[h])
  <2> TAKE h \in DOMAIN c
  <2>1. c[h] \in Seq(DOMAIN InputsOf)
    BY BlocksAssumption
  <2>2. DOMAIN c[h] = 1..Len(c[h]) /\ Len(c[h]) \in Nat
    BY <2>1
  <2>3. IsFiniteSet({h}) /\ IsFiniteSet(DOMAIN c[h])
    <3>1. IsFiniteSet(1..Len(c[h]))
      BY <2>2, UpToIsFinite
    <3>2. IsFiniteSet({h})
      BY FS_Singleton
    <3> QED
      BY <2>2, <3>1, <3>2
  <2>4. IsFiniteSet({h} \X DOMAIN c[h])
    BY <2>3, FS_Product
  <2> QED
    BY <2>4
<1>3. f = [h \in DOMAIN c |-> f[h]] /\ Places(c) = UNION {f[h] : h \in DOMAIN c}
  BY DEF Places
<1> HIDE DEF f
<1>4. IsFiniteSet({f[h] : h \in DOMAIN c})
  BY <1>1, <1>3, ImageIsFinite
<1>5. \A T \in {f[h] : h \in DOMAIN c} : IsFiniteSet(T)
  BY <1>2
<1>6. IsFiniteSet(UNION {f[h] : h \in DOMAIN c})
  BY <1>4, <1>5, FS_UNION
<1> QED
  BY <1>3, <1>6

LEMMA EntriesAtFinite ==
  ASSUME NEW c \in Seq(Payloads), NEW key, NEW x \in Places(c)
  PROVE  IsFiniteSet(EntriesAt(c, x, key))
<1> DEFINE t == TxAt(c, x)
           D == DOMAIN InputsOf[t]
           R == DOMAIN OutputsOf[t]
           f == [i \in D |-> EntryOf(t, x, i, TRUE)]
           g == [i \in R |-> EntryOf(t, x, i, FALSE)]
           ins == {f[i] : i \in D}
           outs == {g[i] : i \in R}
<1>1. IsFiniteSet(D) /\ IsFiniteSet(R)
  <2>1. t \in Txs
    BY PlaceType
  <2>2. D = 1..Len(InputsOf[t]) /\ R = 1..Len(OutputsOf[t])
        /\ Len(InputsOf[t]) \in Nat /\ Len(OutputsOf[t]) \in Nat
    BY <2>1, IndexesAre
  <2>3. IsFiniteSet(1..Len(InputsOf[t])) /\ IsFiniteSet(1..Len(OutputsOf[t]))
    BY <2>2, UpToIsFinite
  <2> QED
    BY <2>2, <2>3
<1>2. f = [i \in D |-> f[i]] /\ g = [i \in R |-> g[i]]
  OBVIOUS
<1>3. EntriesAt(c, x, key) \subseteq ins \cup outs
  <2> SUFFICES ASSUME NEW e \in EntriesAt(c, x, key) PROVE e \in ins \cup outs
    OBVIOUS
  <2>1. \/ \E i \in D : e = EntryOf(t, x, i, TRUE)
        \/ \E i \in R : e = EntryOf(t, x, i, FALSE)
    <3>1. InputEntry(e, t, x, key) \/ OutputEntry(e, t, x, key)
      BY EntriesAtAre
    <3> QED
      BY <3>1 DEF InputEntry, OutputEntry
  <2>2. \/ \E i \in D : e = f[i]
        \/ \E i \in R : e = g[i]
    BY <2>1
  <2> HIDE DEF f, g
  <2> QED
    BY <2>2
<1>4. IsFiniteSet(ins)
  <2> HIDE DEF f, D
  <2> QED
    BY <1>1, <1>2, ImageIsFinite
<1>5. IsFiniteSet(outs)
  <2> HIDE DEF g, R
  <2> QED
    BY <1>1, <1>2, ImageIsFinite
<1> HIDE DEF ins, outs
<1>6. IsFiniteSet(ins \cup outs)
  BY <1>4, <1>5, FS_Union
<1> QED
  BY <1>3, <1>6, FS_Subset

LEMMA EntriesFinite ==
  ASSUME NEW c \in Seq(Payloads), NEW key
  PROVE  IsFiniteSet(Entries(c, key)) /\ IsFiniteSet(LiveCells(c, key))
<1> DEFINE f == [x \in Places(c) |-> EntriesAt(c, x, key)]
<1>1. IsFiniteSet(Places(c))
  BY PlacesFinite
<1>2. f = [x \in Places(c) |-> f[x]] /\ Entries(c, key) = UNION {f[x] : x \in Places(c)}
  BY DEF Entries
<1>3. \A x \in Places(c) : IsFiniteSet(f[x])
  BY EntriesAtFinite
<1> HIDE DEF f
<1>4. IsFiniteSet({f[x] : x \in Places(c)})
  BY <1>1, <1>2, ImageIsFinite
<1>5. \A T \in {f[x] : x \in Places(c)} : IsFiniteSet(T)
  BY <1>3
<1>6. IsFiniteSet(UNION {f[x] : x \in Places(c)})
  BY <1>4, <1>5, FS_UNION
<1>7. IsFiniteSet(Entries(c, key))
  BY <1>2, <1>6
<1>8. LiveCells(c, key) \subseteq Entries(c, key)
  BY DEF LiveCells
<1> QED
  BY <1>7, <1>8, FS_Subset

(***************************************************************************)
(* The order of the entries, and their pages                               *)
(***************************************************************************)

Orders == {"asc", "desc"}

LEMMA PrecedesIsOrder ==
  ASSUME NEW x \in Nat \X Nat, NEW y \in Nat \X Nat, NEW z \in Nat \X Nat
  PROVE  /\ ~Precedes(x, x)
         /\ Precedes(x, y) /\ Precedes(y, z) => Precedes(x, z)
         /\ x # y => Precedes(x, y) \/ Precedes(y, x)
<1>1. x = <<x[1], x[2]>> /\ y = <<y[1], y[2]>> /\ x[1] \in Nat /\ x[2] \in Nat
      /\ y[1] \in Nat /\ y[2] \in Nat /\ z[1] \in Nat /\ z[2] \in Nat
  OBVIOUS
<1> QED
  BY <1>1 DEF Precedes

LEMMA SoonerIsOrder ==
  ASSUME NEW e \in EntryRecords, NEW f \in EntryRecords, NEW g \in EntryRecords
  PROVE  /\ ~Sooner(e, e)
         /\ Sooner(e, f) /\ Sooner(f, g) => Sooner(e, g)
<1>1. /\ e.place \in Nat \X Nat /\ f.place \in Nat \X Nat /\ g.place \in Nat \X Nat
      /\ e.index \in Nat /\ f.index \in Nat /\ g.index \in Nat
  BY DEF EntryRecords
<1>2. /\ ~Precedes(e.place, e.place)
      /\ Precedes(e.place, f.place) /\ Precedes(f.place, g.place) => Precedes(e.place, g.place)
  BY <1>1, PrecedesIsOrder
<1> QED
  BY <1>1, <1>2 DEF Sooner

\* Of two entries of a chain, one is sooner.
Ordered(S) ==
  /\ S \subseteq EntryRecords
  /\ \A e, f \in S : e # f => Sooner(e, f) \/ Sooner(f, e)

LEMMA EntriesAreOrdered ==
  ASSUME NEW c \in Seq(Payloads), NEW key
  PROVE  Ordered(Entries(c, key)) /\ Ordered(LiveCells(c, key))
<1>1. ASSUME NEW e \in Entries(c, key), NEW f \in Entries(c, key), e # f
      PROVE  Sooner(e, f) \/ Sooner(f, e)
  <2>1. /\ e \in EntryRecords /\ f \in EntryRecords
        /\ TxAt(c, e.place) = e.tx /\ TxAt(c, f.place) = f.tx
    BY EntriesAre
  <2>2. e.place # f.place => Precedes(e.place, f.place) \/ Precedes(f.place, e.place)
    <3>1. e.place \in Nat \X Nat /\ f.place \in Nat \X Nat
      BY <2>1 DEF EntryRecords
    <3> QED
      BY <3>1, PrecedesIsOrder
  <2>3. e.place = f.place => e.tx = f.tx
    BY <2>1
  <2>4. /\ e.index \in Nat /\ f.index \in Nat /\ e.isInput \in BOOLEAN /\ f.isInput \in BOOLEAN
        /\ e = [tx |-> e.tx, place |-> e.place, index |-> e.index, isInput |-> e.isInput]
        /\ f = [tx |-> f.tx, place |-> f.place, index |-> f.index, isInput |-> f.isInput]
    BY <2>1 DEF EntryRecords
  <2>5. e.place # f.place \/ e.index # f.index \/ e.isInput # f.isInput
    BY <1>1, <2>3, <2>4
  <2> QED
    BY <2>2, <2>4, <2>5 DEF Sooner
<1>2. Entries(c, key) \subseteq EntryRecords /\ LiveCells(c, key) \subseteq Entries(c, key)
  BY EntriesAre DEF LiveCells
<1> QED
  BY <1>1, <1>2 DEF Ordered

LEMMA InOrderOfIsOrder ==
  ASSUME NEW S, Ordered(S), NEW order \in Orders, NEW e \in S, NEW f \in S, NEW g \in S
  PROVE  /\ ~InOrderOf(e, e, order)
         /\ InOrderOf(e, f, order) /\ InOrderOf(f, g, order) => InOrderOf(e, g, order)
         /\ e # f => InOrderOf(e, f, order) \/ InOrderOf(f, e, order)
<1>1. e \in EntryRecords /\ f \in EntryRecords /\ g \in EntryRecords
  BY DEF Ordered
<1>2. /\ ~Sooner(e, e)
      /\ Sooner(e, f) /\ Sooner(f, g) => Sooner(e, g)
      /\ Sooner(g, f) /\ Sooner(f, e) => Sooner(g, e)
  BY <1>1, SoonerIsOrder
<1>3. e # f => Sooner(e, f) \/ Sooner(f, e)
  BY DEF Ordered
<1> QED
  BY <1>2, <1>3 DEF InOrderOf, Orders

\* A finite set of entries has a last one.
LEMMA LastExists ==
  ASSUME NEW S, IsFiniteSet(S), Ordered(S), NEW order \in Orders, S # {}
  PROVE  /\ LastOf(S, order) \in S
         /\ \A f \in S \ {LastOf(S, order)} : InOrderOf(f, LastOf(S, order), order)
<1> DEFINE HasLast(U) == \E e \in U : \A f \in U \ {e} : InOrderOf(f, e, order)
           good == {U \in SUBSET S : U = {} \/ HasLast(U)}
<1>1. {} \in good
  OBVIOUS
<1>2. ASSUME NEW U \in SUBSET S, NEW y \in S, y \notin U, U \in good
      PROVE  U \cup {y} \in good
  <2>1. CASE U = {}
    <3>1. \A f \in (U \cup {y}) \ {y} : InOrderOf(f, y, order)
      BY <2>1
    <3> QED
      BY <3>1
  <2>2. CASE U # {}
    <3>1. PICK e \in U : \A f \in U \ {e} : InOrderOf(f, e, order)
      BY <1>2, <2>2
    <3>2. CASE InOrderOf(y, e, order)
      <4>1. \A f \in (U \cup {y}) \ {e} : InOrderOf(f, e, order)
        BY <3>1, <3>2
      <4> QED
        BY <4>1
    <3>3. CASE InOrderOf(e, y, order)
      <4>1. \A f \in (U \cup {y}) \ {y} : InOrderOf(f, y, order)
        <5> TAKE f \in (U \cup {y}) \ {y}
        <5>1. f = e \/ InOrderOf(f, e, order)
          BY <3>1
        <5>2. f \in S /\ e \in S /\ y \in S
          OBVIOUS
        <5> QED
          BY <3>3, <5>1, <5>2, InOrderOfIsOrder
      <4> QED
        BY <4>1
    <3>4. InOrderOf(y, e, order) \/ InOrderOf(e, y, order)
      <4>1. y # e /\ y \in S /\ e \in S
        BY <1>2
      <4> QED
        BY <4>1, InOrderOfIsOrder
    <3> QED
      BY <3>2, <3>3, <3>4
  <2> QED
    BY <2>1, <2>2
<1>3. S \in good
  <2> HIDE DEF good
  <2>1. \A U \in SUBSET S : \A x \in S : x \notin U /\ U \in good => U \cup {x} \in good
    BY <1>2
  <2> QED
    BY <1>1, <2>1, SetInduction
<1>4. HasLast(S)
  BY <1>3
<1> QED
  BY <1>4, Zenon DEF LastOf

\* What is in order after the cursor.
After(cur, e, order) == cur = Nil \/ InOrderOf(cur, e, order)

\* A page is all there is after the cursor, or it is full and the rest comes
\* after its last entry.
LEMMA PageIs ==
  ASSUME NEW S, IsFiniteSet(S), Ordered(S), NEW order \in Orders, NEW cur
  PROVE  LET P == PageAfter(S, cur, order) IN
         /\ P \subseteq S /\ IsFiniteSet(P)
         /\ Cardinality(P) \in Nat
         /\ P # {} => LastOf(P, order) \in P
         /\ \A e \in S \ P : After(cur, e, order) =>
              /\ Cardinality(P) = PageLimit /\ P # {}
              /\ InOrderOf(LastOf(P, order), e, order)
<1> DEFINE R == {e \in S : After(cur, e, order)}
           Pred(e) == {f \in R : InOrderOf(f, e, order)}
           P == {e \in R : Cardinality(Pred(e)) < PageLimit}
<1>1. PageAfter(S, cur, order) = P
  BY DEF PageAfter, After
<1>2. R \subseteq S /\ IsFiniteSet(R) /\ P \subseteq R
  BY FS_Subset
<1>3. \A e \in R : IsFiniteSet(Pred(e)) /\ Cardinality(Pred(e)) \in Nat
  BY <1>2, FS_Subset, FS_CardinalityType
<1>4. \A e \in R : e \in P <=> Cardinality(Pred(e)) < PageLimit
  OBVIOUS
<1>5. \A e, f \in R : f \in Pred(e) <=> InOrderOf(f, e, order)
  OBVIOUS
<1>6. PageLimit \in Nat \ {0}
  BY PageLimitAssumption
<1>7. \A e \in R : Pred(e) \subseteq R
  OBVIOUS
<1> HIDE DEF R, P, Pred
<1>8. IsFiniteSet(P) /\ Cardinality(P) \in Nat
  BY <1>2, FS_Subset, FS_CardinalityType
<1>9. Ordered(P) /\ P \subseteq S
  BY <1>2 DEF Ordered
<1>10. P # {} => /\ LastOf(P, order) \in P
                 /\ \A f \in P \ {LastOf(P, order)} : InOrderOf(f, LastOf(P, order), order)
  BY <1>8, <1>9, LastExists
\* Sooner entries have fewer before them.
<1>11. ASSUME NEW e \in R, NEW f \in R, InOrderOf(f, e, order)
       PROVE  /\ Pred(f) \subseteq Pred(e) /\ Pred(f) # Pred(e)
              /\ Cardinality(Pred(f)) < Cardinality(Pred(e))
  <2>1. Pred(f) \subseteq Pred(e)
    <3> SUFFICES ASSUME NEW g \in Pred(f) PROVE g \in Pred(e)
      OBVIOUS
    <3>1. g \in R /\ InOrderOf(g, f, order)
      BY <1>5, <1>7
    <3>2. InOrderOf(g, e, order)
      BY <1>2, <1>11, <3>1, InOrderOfIsOrder
    <3> QED
      BY <1>5, <3>1, <3>2
  <2>2. f \in Pred(e) /\ f \notin Pred(f)
    BY <1>2, <1>5, <1>11, InOrderOfIsOrder
  <2>3. /\ Cardinality(Pred(f)) <= Cardinality(Pred(e))
        /\ Cardinality(Pred(f)) # Cardinality(Pred(e))
    BY <1>3, <2>1, <2>2, FS_Subset
  <2> QED
    BY <1>3, <2>1, <2>2, <2>3
\* A page holds no more than it may.
<1>12. Cardinality(P) <= PageLimit
  <2>1. CASE P = {}
    BY <1>6, <2>1, FS_EmptySet
  <2>2. CASE P # {}
    <3> DEFINE z == LastOf(P, order)
    <3>1. z \in P /\ \A f \in P \ {z} : InOrderOf(f, z, order)
      BY <1>10, <2>2
    <3> HIDE DEF z
    <3>2. P \ {z} \subseteq Pred(z)
      BY <1>2, <1>5, <3>1
    <3>3. z \in R /\ Cardinality(Pred(z)) < PageLimit
      BY <1>2, <1>4, <3>1
    <3>4. IsFiniteSet(Pred(z)) /\ Cardinality(Pred(z)) \in Nat
      BY <1>3, <3>3
    <3>5. Cardinality(P \ {z}) = Cardinality(P) - 1
      BY <1>8, <3>1, FS_RemoveElement
    <3>6. Cardinality(P \ {z}) <= Cardinality(Pred(z))
      BY <3>2, <3>4, FS_Subset
    <3> QED
      BY <1>6, <1>8, <3>3, <3>4, <3>5, <3>6
  <2> QED
    BY <2>1, <2>2
\* The first entry that is left out finds the page full.
<1>13. ASSUME R \ P # {} PROVE Cardinality(P) = PageLimit
  <2> DEFINE left == {Pred(e) : e \in R \ P}
  <2>1. left \in SUBSET (SUBSET R) /\ left # {}
    BY <1>7, <1>13
  <2>2. PICK U \in left : \A V \in SUBSET U : V # U => V \notin left
    <3> HIDE DEF left
    <3> QED
      BY <1>2, <2>1, SmallestSubset
  <2>3. PICK e \in R \ P : U = Pred(e)
    BY <2>2
  <2>4. \A f \in R \ P : Pred(f) \subseteq U => Pred(f) = U
    BY <2>2
  <2>5. Pred(e) \subseteq P
    <3> SUFFICES ASSUME NEW f \in Pred(e), f \notin P PROVE FALSE
      OBVIOUS
    <3>1. f \in R /\ InOrderOf(f, e, order)
      BY <1>5, <1>7, <2>3
    <3> QED
      BY <1>11, <2>3, <2>4, <3>1
  <2>6. Cardinality(Pred(e)) <= Cardinality(P) /\ Cardinality(Pred(e)) >= PageLimit
    BY <1>3, <1>4, <1>6, <1>8, <2>3, <2>5, FS_Subset
  <2> QED
    BY <1>3, <1>6, <1>8, <1>12, <2>3, <2>6
\* What is left out comes after all that is on the page.
<1>14. ASSUME NEW e \in R \ P, NEW f \in P PROVE InOrderOf(f, e, order)
  <2>1. e \in R /\ f \in R /\ e # f /\ e \in S /\ f \in S
    BY <1>2
  <2>2. Cardinality(Pred(e)) >= PageLimit /\ Cardinality(Pred(f)) < PageLimit
    BY <1>3, <1>4, <1>6, <2>1
  <2>3. ~InOrderOf(e, f, order)
    BY <1>3, <1>6, <1>11, <2>1, <2>2
  <2> QED
    BY <2>1, <2>3, InOrderOfIsOrder
<1>15. ASSUME NEW e \in S \ P, After(cur, e, order)
       PROVE  /\ Cardinality(P) = PageLimit /\ P # {}
              /\ InOrderOf(LastOf(P, order), e, order)
  <2>1. e \in R \ P
    BY <1>15 DEF R
  <2>2. Cardinality(P) = PageLimit
    BY <1>13, <2>1
  <2>3. P # {}
    BY <1>6, <2>2, FS_EmptySet
  <2> QED
    BY <1>10, <1>14, <2>1, <2>2, <2>3
<1> QED
  BY <1>1, <1>8, <1>9, <1>10, <1>15

(***************************************************************************)
(* The inductive invariant                                                 *)
(***************************************************************************)

Asking == {"readCache", "getCell", "getCellLive", "getCellTx"}
Searching == {"readPage", "entry"}
Paging == {"list", "describePage"}
Describing == {"describe", "bind"}

KeyOf(r, out) ==
  CASE r.kind = "utxo" -> [lock |-> r.target, type |-> NoType]
    [] r.kind = "tokens" -> r.target
    [] OTHER -> Output(out)

\* The chain is one the node may have.
ChainOK == ValidBlocks(chain) /\ Len(chain) <= MaxHeight

\* Which request is at which step, and what it has not found out yet.
Stages ==
  /\ pc \in {"idle", "findLive", "done"} \cup Asking \cup Searching \cup Paging \cup Describing
  /\ pc \in Asking => ByOutPoint(call)
  /\ pc = "findLive" => call.kind = "utxo"
  /\ pc \in Searching => ByOutPoint(call) \/ call.kind = "utxo"
  /\ pc \in Paging => call.kind = "tokens"
  /\ pc \notin Describing \cup {"done"} => answer = Nil
  /\ pc \in Describing => Said("live") \/ Said("spent")
  /\ pc \in {"idle", "readCache", "getCell", "findLive"} \cup Paging => cell = Nil
  /\ Said("live") \/ Said("spent") => cell # Nil
  /\ pc \in Searching /\ ByOutPoint(call) => cell # Nil /\ spender = Nil
  /\ pc \in {"idle", "findLive"} \cup Asking => page = {} /\ cursor = Nil /\ more /\ spender = Nil
  /\ pc \in {"idle", "readPage", "list"} => page = {}
  /\ pc \in {"idle", "list"} => answer = Nil
  /\ pc = "idle" => cursor = Nil /\ listed = {} /\ since = 0

\* The cell that was found is one the request asks about.
CellAsked == cell # Nil => cell \in OutPoints /\ cell \in Watched(call)

\* Until it answers, a request has seen how its cells stand.
Witnessed == call # Nil /\ answer = Nil => Standings(call, chain) \subseteq held

\* Once the request looks for a spender, no cell it asks about is still live
\* for all it knows.
NoneLive ==
  pc \in Searching \cup {"getCellTx"} =>
    \A out \in Watched(call) : \E x \in held : x[1] = out /\ x[2].is # "live"

\* What a page holds was on the chain while the request was waiting.
Seen(e, key) ==
  /\ e \in EntryRecords /\ BelongsTo(e, key)
  /\ ByOutPoint(call) /\ Spends(e.tx, cell) => <<cell, SpentBy(e.tx, e.place)>> \in held

PageSeen == pc \in Searching => \A e \in page : Seen(e, KeyOf(call, cell))

SpenderSeen ==
  spender # Nil /\ ByOutPoint(call) =>
    Seen(spender, KeyOf(call, cell)) /\ spender.isInput /\ Spends(spender.tx, cell)

\* The entry of a spender that stays where it is is still to be read.
Ahead(e) == e \in page \/ (more /\ After(cursor, e, "desc"))

SpenderAhead ==
  \A x \in held :
    pc \in Searching /\ ByOutPoint(call) /\ held = {x} /\ x[2].is = "spent" =>
      /\ since <= x[2].at[1]
      /\ \E i \in DOMAIN InputsOf[x[2].by] :
           InputsOf[x[2].by][i] = cell /\ Ahead(EntryOf(x[2].by, x[2].at, i, TRUE))

\* The cells that stay are those of every page, given or still to come.
SteadyListed == call # Nil => steady \subseteq Listing(call, chain)

PagesToCome ==
  \A e \in steady :
    /\ pc = "list" => e \in listed \/ After(cursor, e, "asc")
    /\ pc = "describePage" =>
         e \in listed \cup page \/ (cursor # Nil /\ InOrderOf(cursor, e, "asc"))

LookupInv ==
  /\ LookupTypeOK /\ ChainOK /\ Stages /\ CellAsked
  /\ Witnessed /\ NoneLive /\ PageSeen /\ SpenderSeen /\ SpenderAhead
  /\ SteadyListed /\ PagesToCome
  /\ AnswersHeld /\ SpenderFound /\ PagesComplete

(***************************************************************************)
(* What follows at once                                                    *)
(***************************************************************************)

LEMMA SearchKeyIs == SearchKey = KeyOf(call, cell)
BY DEF SearchKey, KeyOf

LEMMA AnswersAreNotNil == \A is \in Replies, leap \in Leaps : [is |-> is, leap |-> leap] # Nil
BY AnswersAssumption

LEMMA EntriesAreNotNil == \A e \in EntryRecords : e # Nil
BY NilAssumption DEF EntryRecords

LEMMA RequestFacts ==
  ASSUME NEW r \in Requests
  PROVE  /\ r # Nil /\ r.kind \in {"outpoint", "spendInfo", "utxo", "tokens"}
         /\ ByOutPoint(r) => /\ r.target \in [tx : Txs, index : Nat]
                             /\ r.withSpender \in BOOLEAN
                             /\ Watched(r) = {r.target}
         /\ ByOutPoint(r) <=> r.kind \in {"outpoint", "spendInfo"}
BY RequestsAssumption DEF ByOutPoint, Watched

LEMMA TargetIsCell ==
  ASSUME NEW out \in [tx : Txs, index : Nat], HasOutput(out)
  PROVE  out \in OutPoints /\ out # Nil
<1>1. out = [tx |-> out.tx, index |-> out.index] /\ out.tx \in Txs
      /\ out.index \in DOMAIN OutputsOf[out.tx]
  BY DEF HasOutput
<1>2. out \in OutPoints
  BY <1>1 DEF OutPoints
<1> QED
  BY <1>2, NilAssumption

LEMMA CallFacts ==
  ASSUME LookupTypeOK, pc # "idle"
  PROVE  call \in Requests /\ call # Nil
BY DEF LookupTypeOK

\* A request at work has seen how each of its cells stands now.
LEMMA StandsNow ==
  ASSUME LookupInv, call # Nil, answer = Nil, NEW out \in Watched(call)
  PROVE  <<out, Standing(chain, out)>> \in held
BY DEF LookupInv, Witnessed, Standings

\* What is steady in held is how the cell stands now.
LEMMA SteadyStands ==
  ASSUME LookupInv, call # Nil, answer = Nil, ByOutPoint(call), NEW x \in held, held = {x}
  PROVE  x = <<call.target, Standing(chain, call.target)>>
<1>1. call \in Requests
  BY DEF LookupInv, LookupTypeOK
<1>2. call.target \in Watched(call)
  BY <1>1, RequestFacts
<1>3. <<call.target, Standing(chain, call.target)>> \in held
  BY <1>2, StandsNow
<1> QED
  BY <1>3

LEMMA ChainFacts ==
  ASSUME LookupInv
  PROVE  /\ chain \in Seq(Payloads) /\ ValidBlocks(chain) /\ Len(chain) <= MaxHeight
         /\ TxsOfBlocks(chain) \subseteq Txs /\ Len(chain) \in Nat /\ MaxHeight \in Nat
BY TxsOfBlocksType, MaxHeightAssumption DEF LookupInv, LookupTypeOK, NodeTypeOK, ChainOK

(***************************************************************************)
(* Steps of the request that leave the node alone                          *)
(***************************************************************************)

Still == UNCHANGED <<nodeVars, pool, mined, held, steady, call>>

LEMMA StillKeeps ==
  ASSUME LookupInv, Still, answer = Nil \/ answer' # Nil
  PROVE  ChainOK' /\ Witnessed' /\ SteadyListed'
BY DEF LookupInv, Still, ChainOK, Witnessed, SteadyListed, nodeVars

LEMMA StillTyped ==
  ASSUME LookupInv, Still
  PROVE  /\ NodeTypeOK' /\ pool' \subseteq Txs /\ mined' \subseteq Txs
         /\ pool' \cap TxsOfBlocks(chain') = {}
         /\ call' \in Requests \cup {Nil}
BY DEF LookupInv, Still, LookupTypeOK, NodeTypeOK, nodeVars

\* A step to where nothing is looked for or listed.
LEMMA LeaveKeeps ==
  ASSUME pc' \notin Searching \cup Paging \cup {"getCellTx"}
  PROVE  NoneLive' /\ PageSeen' /\ SpenderAhead' /\ PagesToCome'
BY DEF NoneLive, PageSeen, SpenderAhead, PagesToCome, Searching, Paging

\* A step without an answer says nothing.
LEMMA SilentKeeps ==
  ASSUME answer' = Nil
  PROVE  AnswersHeld' /\ SpenderFound' /\ PagesComplete'
BY DEF AnswersHeld, SpenderFound, PagesComplete, Said

\* An error says nothing of the cell, unless it is that the cell is unknown.
LEMMA ErrorKeeps ==
  ASSUME answer' # Nil, answer'.is \notin {"live", "spent", "listed", "CkbCellNotFound"}
  PROVE  AnswersHeld' /\ SpenderFound' /\ PagesComplete'
BY DEF AnswersHeld, SpenderFound, PagesComplete, Said

LEMMA SpenderStays ==
  ASSUME LookupInv, Still, spender' = spender, cell' = cell
  PROVE  SpenderSeen'
BY DEF LookupInv, SpenderSeen, Still, Seen

LEMMA ReadCacheKeeps == LookupInv /\ ReadCache => LookupInv'
<1> SUFFICES ASSUME LookupInv, ReadCache PROVE LookupInv'
  OBVIOUS
<1>1. /\ LookupTypeOK /\ Stages /\ pc = "readCache" /\ answer = Nil /\ cell = Nil
      /\ page = {} /\ cursor = Nil /\ more /\ spender = Nil /\ ByOutPoint(call)
  BY DEF LookupInv, Stages, ReadCache, Asking
<1>2. call \in Requests /\ call # Nil
  BY <1>1, CallFacts
<1>3. Still /\ UNCHANGED <<since, page, cursor, more, spender, listed>>
  BY DEF ReadCache, Elsewhere, Still
<1>4. \/ pc' = "getCell" /\ cell' = Nil /\ answer' = Nil
      \/ /\ HasOutput(call.target) /\ call.target.tx \in mined
         /\ pc' = "getCellLive" /\ cell' = call.target /\ answer' = Nil
      \/ pc' = "done" /\ cell' = Nil /\ answer' = [is |-> "Exception", leap |-> Nil]
  BY <1>1 DEF ReadCache, Refuse, Respond
<1>5. HasOutput(call.target) => /\ call.target \in OutPoints /\ call.target # Nil
                                /\ call.target \in Watched(call)
  BY <1>1, <1>2, RequestFacts, TargetIsCell
<1>6. cell' # Nil => cell' \in OutPoints /\ cell' \in Watched(call)
  BY <1>4, <1>5
<1>7. answer' \in [is : Replies, leap : Leaps] \cup {Nil}
  BY <1>4 DEF Replies, Leaps
<1>8. pc' = "done" => answer' # Nil /\ answer'.is = "Exception"
  BY <1>4, AnswersAreNotNil DEF Replies, Leaps
<1>9. LookupTypeOK'
  BY <1>1, <1>2, <1>3, <1>4, <1>5, <1>6, <1>7, <1>8, StillTyped DEF LookupTypeOK, Still
<1>10. Stages'
  BY <1>1, <1>3, <1>4, <1>5, <1>6, <1>8
     DEF Stages, Still, Asking, Searching, Paging, Describing, Said
<1>11. CellAsked'
  BY <1>3, <1>6 DEF CellAsked, Still
<1>12. NoneLive' /\ PageSeen' /\ SpenderAhead' /\ PagesToCome'
  BY <1>4, LeaveKeeps DEF Searching, Paging
<1>13. AnswersHeld' /\ SpenderFound' /\ PagesComplete'
  BY <1>4, <1>8, SilentKeeps, ErrorKeeps
<1>14. SpenderSeen'
  BY <1>1, <1>3 DEF SpenderSeen
<1>15. ChainOK' /\ Witnessed' /\ SteadyListed'
  BY <1>1, <1>3, StillKeeps
<1> QED
  BY <1>9, <1>10, <1>11, <1>12, <1>13, <1>14, <1>15 DEF LookupInv

\* A cell that a request has only seen spent is spent now, at the same place.
LEMMA SpentNow ==
  ASSUME LookupInv, call # Nil, answer = Nil, ByOutPoint(call),
         NEW x \in held, held = {x}, x[2].is = "spent"
  PROVE  /\ x = <<call.target, SpentBy(x[2].by, x[2].at)>>
         /\ x[2].by \in TxsOfBlocks(chain) /\ Spends(x[2].by, call.target)
         /\ x[2].at = PlaceOn(chain, x[2].by)
         /\ call.target.tx \in TxsOfBlocks(chain) /\ HasOutput(call.target)
         /\ ~LiveOn(chain, call.target)
         /\ HeightOn(chain, call.target.tx) <= x[2].at[1]
<1> DEFINE out == call.target
<1>1. chain \in Seq(Payloads) /\ ValidBlocks(chain)
  BY ChainFacts
<1>2. x = <<out, Standing(chain, out)>>
  BY SteadyStands
<1>3. Standing(chain, out).is = "spent"
  BY <1>2
<1>4. PICK t \in TxsOfBlocks(chain) : /\ Spends(t, out)
                                      /\ Standing(chain, out) = SpentBy(t, PlaceOn(chain, t))
  BY <1>1, <1>3, SpentHasSpender
<1>5. x[2].by = t /\ x[2].at = PlaceOn(chain, t)
  BY <1>2, <1>4 DEF SpentBy
<1>6. out.tx \in TxsOfBlocks(chain) /\ HeightOn(chain, out.tx) <= HeightOn(chain, t)
  BY <1>1, <1>4, SpenderIsLater
<1>7. HasOutput(out)
  <2>1. t \in Txs
    BY <1>4, ChainFacts
  <2>2. InputsOf[t] \in Seq(OutPoints)
    BY <2>1, InputsAssumption
  <2>3. out \in OutPoints
    BY <1>4, <2>2 DEF Spends, Range
  <2> QED
    BY <2>3 DEF OutPoints, HasOutput
<1>8. ~LiveOn(chain, out)
  BY <1>4 DEF LiveOn
<1>9. HeightOn(chain, t) = x[2].at[1]
  BY <1>5 DEF HeightOn
<1> HIDE DEF out
<1>10. x = <<out, SpentBy(x[2].by, x[2].at)>>
  BY <1>2, <1>4, <1>5
<1> QED
  BY <1>4, <1>5, <1>6, <1>7, <1>8, <1>9, <1>10 DEF out

LEMMA GetCellKeeps == LookupInv /\ GetCell => LookupInv'
<1> SUFFICES ASSUME LookupInv, GetCell PROVE LookupInv'
  OBVIOUS
<1>1. /\ LookupTypeOK /\ Stages /\ pc = "getCell" /\ answer = Nil /\ cell = Nil
      /\ page = {} /\ cursor = Nil /\ more /\ spender = Nil /\ ByOutPoint(call)
  BY DEF LookupInv, Stages, GetCell, Asking
<1>2. call \in Requests /\ call # Nil
  BY <1>1, CallFacts
<1>3. Still /\ UNCHANGED <<since, page, cursor, more, spender, listed>>
  BY DEF GetCell, Elsewhere, Still
<1>4. \/ HasOutput(call.target) /\ pc' = "getCellLive" /\ cell' = call.target /\ answer' = Nil
      \/ /\ ~(Knows(call.target.tx) /\ HasOutput(call.target))
         /\ pc' = "done" /\ cell' = Nil /\ answer' = [is |-> "CkbCellNotFound", leap |-> Nil]
  BY <1>1 DEF GetCell, Refuse, Respond
<1>5. HasOutput(call.target) => /\ call.target \in OutPoints /\ call.target # Nil
                                /\ call.target \in Watched(call)
  BY <1>1, <1>2, RequestFacts, TargetIsCell
<1>6. cell' # Nil => cell' \in OutPoints /\ cell' \in Watched(call)
  BY <1>4, <1>5
<1>7. answer' \in [is : Replies, leap : Leaps] \cup {Nil}
  BY <1>4 DEF Replies, Leaps
<1>8. pc' = "done" => answer' # Nil /\ answer'.is = "CkbCellNotFound"
  BY <1>4, AnswersAreNotNil DEF Replies, Leaps
<1>9. LookupTypeOK'
  BY <1>1, <1>2, <1>3, <1>4, <1>5, <1>6, <1>7, <1>8, StillTyped DEF LookupTypeOK, Still
<1>10. Stages'
  BY <1>1, <1>3, <1>4, <1>5, <1>6, <1>8
     DEF Stages, Still, Asking, Searching, Paging, Describing, Said
<1>11. CellAsked'
  BY <1>3, <1>6 DEF CellAsked, Still
<1>12. NoneLive' /\ PageSeen' /\ SpenderAhead' /\ PagesToCome'
  BY <1>4, LeaveKeeps DEF Searching, Paging
<1>13. AnswersHeld' /\ SpenderFound' /\ PagesComplete'
  <2>1. CASE answer' = Nil
    BY <2>1, SilentKeeps
  <2>2. CASE answer' # Nil
    <3>1. answer'.is = "CkbCellNotFound" /\ ~(Knows(call.target.tx) /\ HasOutput(call.target))
      BY <1>4, <2>2
    <3>2. AnswersHeld' /\ PagesComplete'
      BY <3>1 DEF AnswersHeld, PagesComplete, Said
    <3>3. \A x \in held : held = {x} => x[2].is # "spent"
      BY <1>1, <1>2, <3>1, SpentNow DEF Knows
    <3>4. SpenderFound'
      BY <1>3, <3>3 DEF SpenderFound, Still
    <3> QED
      BY <3>2, <3>4
  <2> QED
    BY <2>1, <2>2
<1>14. SpenderSeen'
  BY <1>1, <1>3 DEF SpenderSeen
<1>15. ChainOK' /\ Witnessed' /\ SteadyListed'
  BY <1>1, <1>3, StillKeeps
<1> QED
  BY <1>9, <1>10, <1>11, <1>12, <1>13, <1>14, <1>15 DEF LookupInv

\* What Found and Refuse do.
LEMMA FoundIs ==
  ASSUME NEW is \in {"live", "spent"}, Found(is)
  PROVE  /\ answer' = [is |-> is, leap |-> Nil] /\ answer' # Nil /\ answer'.is = is
         /\ answer' \in [is : Replies, leap : Leaps] \cup {Nil}
         /\ pc' \in {"done", "describe"}
<1>1. is \in Replies /\ Nil \in Leaps /\ answer' = [is |-> is, leap |-> Nil]
  BY DEF Replies, Leaps, Found
<1>2. answer' # Nil
  BY <1>1, AnswersAreNotNil
<1> QED
  BY <1>1, <1>2 DEF Found

LEMMA RefuseIs ==
  ASSUME NEW error \in Replies, Refuse(error)
  PROVE  /\ answer' = [is |-> error, leap |-> Nil] /\ answer' # Nil /\ answer'.is = error
         /\ answer' \in [is : Replies, leap : Leaps] \cup {Nil}
         /\ pc' = "done"
<1>1. Nil \in Leaps /\ answer' = [is |-> error, leap |-> Nil]
  BY DEF Leaps, Refuse, Respond
<1>2. answer' # Nil
  BY <1>1, AnswersAreNotNil
<1> QED
  BY <1>1, <1>2 DEF Refuse, Respond

LEMMA GetCellLiveKeeps == LookupInv /\ GetCellLive => LookupInv'
<1> SUFFICES ASSUME LookupInv, GetCellLive PROVE LookupInv'
  OBVIOUS
<1>1. /\ LookupTypeOK /\ Stages /\ pc = "getCellLive" /\ answer = Nil /\ cell # Nil
      /\ page = {} /\ cursor = Nil /\ more /\ spender = Nil /\ ByOutPoint(call)
  <2>1. LookupTypeOK /\ Stages /\ pc = "getCellLive"
    BY DEF LookupInv, GetCellLive
  <2> QED
    BY <2>1 DEF LookupTypeOK, Stages, Asking, Describing
<1>2. call \in Requests /\ call # Nil /\ Watched(call) = {call.target}
  BY <1>1, CallFacts, RequestFacts
<1>3. Still /\ UNCHANGED <<cell, since, page, cursor, more, spender, listed>>
  BY DEF GetCellLive, Elsewhere, Still
<1>4. cell \in OutPoints /\ cell \in Watched(call) /\ cell = call.target
  BY <1>1, <1>2 DEF LookupInv, CellAsked
<1>5. <<cell, Standing(chain, cell)>> \in held
  BY <1>1, <1>2, <1>4, StandsNow
<1>6. CASE LiveOn(chain, cell) /\ Found("live")
  <2>1. /\ answer' # Nil /\ answer'.is = "live" /\ pc' \in {"done", "describe"}
        /\ answer' \in [is : Replies, leap : Leaps] \cup {Nil}
    BY <1>6, FoundIs
  <2>2. LookupTypeOK'
    BY <1>1, <1>2, <1>3, <2>1, StillTyped DEF LookupTypeOK, Still
  <2>3. Stages'
    BY <1>1, <1>3, <2>1 DEF Stages, Still, Asking, Searching, Paging, Describing, Said
  <2>4. AnswersHeld' /\ PagesComplete'
    BY <1>3, <1>5, <1>6, <2>1, StandsLive DEF AnswersHeld, PagesComplete, Said, Still
  <2>5. SpenderFound'
    <3>1. \A x \in held : held = {x} => x[2].is # "spent"
      BY <1>1, <1>2, <1>4, <1>6, SpentNow
    <3> QED
      BY <1>3, <3>1 DEF SpenderFound, Still
  <2>6. NoneLive' /\ PageSeen' /\ SpenderAhead' /\ PagesToCome'
    BY <2>1, LeaveKeeps DEF Searching, Paging
  <2>7. SpenderSeen' /\ CellAsked'
    BY <1>1, <1>3, <1>4 DEF SpenderSeen, CellAsked, Still
  <2>8. ChainOK' /\ Witnessed' /\ SteadyListed'
    BY <1>1, <1>3, StillKeeps
  <2> QED
    BY <2>2, <2>3, <2>4, <2>5, <2>6, <2>7, <2>8 DEF LookupInv
<1>7. CASE ~LiveOn(chain, cell) /\ ~call.withSpender /\ Found("spent")
  <2>1. /\ answer' # Nil /\ answer'.is = "spent" /\ pc' \in {"done", "describe"}
        /\ answer' \in [is : Replies, leap : Leaps] \cup {Nil}
    BY <1>7, FoundIs
  <2>2. LookupTypeOK'
    BY <1>1, <1>2, <1>3, <2>1, StillTyped DEF LookupTypeOK, Still
  <2>3. Stages'
    BY <1>1, <1>3, <2>1 DEF Stages, Still, Asking, Searching, Paging, Describing, Said
  <2>4. AnswersHeld' /\ PagesComplete'
    BY <1>3, <1>5, <1>7, <2>1, StandsLive DEF AnswersHeld, PagesComplete, Said, Still
  <2>5. SpenderFound'
    BY <1>3, <1>7 DEF SpenderFound, Still
  <2>6. NoneLive' /\ PageSeen' /\ SpenderAhead' /\ PagesToCome'
    BY <2>1, LeaveKeeps DEF Searching, Paging
  <2>7. SpenderSeen' /\ CellAsked'
    BY <1>1, <1>3, <1>4 DEF SpenderSeen, CellAsked, Still
  <2>8. ChainOK' /\ Witnessed' /\ SteadyListed'
    BY <1>1, <1>3, StillKeeps
  <2> QED
    BY <2>2, <2>3, <2>4, <2>5, <2>6, <2>7, <2>8 DEF LookupInv
<1>8. CASE ~LiveOn(chain, cell) /\ pc' = "getCellTx" /\ UNCHANGED answer
  <2>1. LookupTypeOK'
    BY <1>1, <1>2, <1>3, <1>8, StillTyped DEF LookupTypeOK, Still
  <2>2. Stages'
    BY <1>1, <1>3, <1>8 DEF Stages, Still, Asking, Searching, Paging, Describing, Said
  <2>3. AnswersHeld' /\ SpenderFound' /\ PagesComplete'
    BY <1>1, <1>8, SilentKeeps
  <2>4. NoneLive'
    <3>1. \A out \in Watched(call) : \E x \in held : x[1] = out /\ x[2].is # "live"
      BY <1>2, <1>4, <1>5, <1>8, StandsLive
    <3> QED
      BY <1>3, <3>1 DEF NoneLive, Still
  <2>5. PageSeen' /\ SpenderAhead' /\ PagesToCome'
    BY <1>8 DEF PageSeen, SpenderAhead, PagesToCome, Searching
  <2>6. SpenderSeen' /\ CellAsked'
    BY <1>1, <1>3, <1>4 DEF SpenderSeen, CellAsked, Still
  <2>7. ChainOK' /\ Witnessed' /\ SteadyListed'
    BY <1>1, <1>3, StillKeeps
  <2> QED
    BY <2>1, <2>2, <2>3, <2>4, <2>5, <2>6, <2>7 DEF LookupInv
<1> QED
  BY <1>6, <1>7, <1>8 DEF GetCellLive

\* A request that looks for a spender has found its cell, and read an answer
\* that the cell is not live.
LEMMA SearchFacts ==
  ASSUME LookupInv, pc \in Searching \cup {"getCellTx"}, ByOutPoint(call)
  PROVE  /\ LookupTypeOK /\ Stages /\ answer = Nil /\ call \in Requests /\ call # Nil
         /\ cell = call.target /\ cell \in OutPoints /\ cell # Nil
         /\ Watched(call) = {cell} /\ cell \in Watched(call) /\ spender = Nil
         /\ \E x \in held : x[1] = cell /\ x[2].is # "live"
<1>1. LookupTypeOK /\ Stages /\ CellAsked /\ NoneLive
  BY DEF LookupInv
<1>2. call \in Requests /\ call # Nil
  BY <1>1, CallFacts DEF Searching
<1>3. cell # Nil /\ answer = Nil /\ spender = Nil
  BY <1>1 DEF LookupTypeOK, Stages, Searching, Asking, Describing
<1>4. Watched(call) = {call.target}
  BY <1>2, RequestFacts
<1>5. cell \in OutPoints /\ cell \in Watched(call)
  BY <1>1, <1>3 DEF CellAsked
<1>6. \E x \in held : x[1] = cell /\ x[2].is # "live"
  BY <1>1, <1>5 DEF NoneLive
<1> QED
  BY <1>1, <1>2, <1>3, <1>4, <1>5, <1>6

LEMMA GetCellTxKeeps == LookupInv /\ GetCellTx => LookupInv'
<1> SUFFICES ASSUME LookupInv, GetCellTx PROVE LookupInv'
  OBVIOUS
<1>1. /\ pc = "getCellTx" /\ page = {} /\ cursor = Nil /\ more /\ ByOutPoint(call)
  BY DEF LookupInv, Stages, GetCellTx, Asking
<1>2. /\ LookupTypeOK /\ Stages /\ answer = Nil /\ call \in Requests /\ call # Nil
      /\ cell = call.target /\ cell \in OutPoints /\ cell # Nil
      /\ Watched(call) = {cell} /\ cell \in Watched(call) /\ spender = Nil
      /\ \E x \in held : x[1] = cell /\ x[2].is # "live"
  BY <1>1, SearchFacts
<1>3. Still /\ UNCHANGED <<cell, page, cursor, more, spender, listed>>
  BY DEF GetCellTx, Elsewhere, Still
<1>4. CASE /\ since' = IF cell.tx \in TxsOfBlocks(chain) THEN HeightOn(chain, cell.tx) ELSE 0
           /\ pc' = "readPage" /\ UNCHANGED answer
  <2>1. since' \in 0..MaxHeight
    <3>1. cell.tx \in TxsOfBlocks(chain) => HeightOn(chain, cell.tx) \in 1..Len(chain)
      BY ChainFacts, PlaceOnType
    <3> QED
      BY <1>4, <3>1, ChainFacts
  <2>2. LookupTypeOK'
    BY <1>1, <1>2, <1>3, <1>4, <2>1, StillTyped DEF LookupTypeOK, Still
  <2>3. Stages'
    BY <1>1, <1>2, <1>3, <1>4 DEF Stages, Still, Asking, Searching, Paging, Describing, Said
  <2>4. AnswersHeld' /\ SpenderFound' /\ PagesComplete'
    BY <1>2, <1>4, SilentKeeps
  <2>5. NoneLive'
    BY <1>2, <1>3 DEF NoneLive, Still
  <2>6. SpenderAhead'
    <3>1. ASSUME NEW x \in held, held = {x}, x[2].is = "spent"
          PROVE  /\ since' <= x[2].at[1]
                 /\ \E i \in DOMAIN InputsOf[x[2].by] : InputsOf[x[2].by][i] = cell
      <4>1. /\ Spends(x[2].by, call.target) /\ call.target.tx \in TxsOfBlocks(chain)
            /\ HeightOn(chain, call.target.tx) <= x[2].at[1]
        BY <1>1, <1>2, <3>1, SpentNow
      <4> QED
        BY <1>2, <1>4, <4>1 DEF Spends, Range
    <3>2. \A e : Ahead(e)'
      BY <1>1, <1>3 DEF Ahead, After
    <3> QED
      BY <1>3, <3>1, <3>2 DEF SpenderAhead, Still
  <2>7. PageSeen' /\ PagesToCome'
    BY <1>1, <1>3, <1>4 DEF PageSeen, PagesToCome
  <2>8. SpenderSeen' /\ CellAsked'
    BY <1>2, <1>3 DEF SpenderSeen, CellAsked, Still
  <2>9. ChainOK' /\ Witnessed' /\ SteadyListed'
    BY <1>2, <1>3, StillKeeps
  <2> QED
    BY <2>2, <2>3, <2>4, <2>5, <2>6, <2>7, <2>8, <2>9 DEF LookupInv
<1>5. CASE ~Knows(cell.tx) /\ Refuse("CkbCellNotFound") /\ UNCHANGED since
  <2>1. /\ answer' # Nil /\ answer'.is = "CkbCellNotFound" /\ pc' = "done"
        /\ answer' \in [is : Replies, leap : Leaps] \cup {Nil}
    BY <1>5, RefuseIs DEF Replies
  <2>2. LookupTypeOK'
    BY <1>1, <1>2, <1>3, <1>5, <2>1, StillTyped DEF LookupTypeOK, Still
  <2>3. Stages'
    BY <1>1, <1>2, <1>3, <2>1 DEF Stages, Still, Asking, Searching, Paging, Describing, Said
  <2>4. AnswersHeld' /\ PagesComplete'
    BY <2>1 DEF AnswersHeld, PagesComplete, Said
  <2>5. SpenderFound'
    <3>1. \A x \in held : held = {x} => x[2].is # "spent"
      BY <1>1, <1>2, <1>5, SpentNow DEF Knows
    <3> QED
      BY <1>3, <3>1 DEF SpenderFound, Still
  <2>6. NoneLive' /\ PageSeen' /\ SpenderAhead' /\ PagesToCome'
    BY <2>1, LeaveKeeps DEF Searching, Paging
  <2>7. SpenderSeen' /\ CellAsked'
    BY <1>2, <1>3 DEF SpenderSeen, CellAsked, Still
  <2>8. ChainOK' /\ Witnessed' /\ SteadyListed'
    BY <1>2, <1>3, StillKeeps
  <2> QED
    BY <2>2, <2>3, <2>4, <2>5, <2>6, <2>7, <2>8 DEF LookupInv
<1> QED
  BY <1>4, <1>5 DEF GetCellTx

LEMMA NoSpenderKeeps == LookupInv /\ NoSpender => LookupInv'
<1> SUFFICES ASSUME LookupInv, NoSpender PROVE LookupInv'
  OBVIOUS
<1>1. pc = "readPage" /\ ~more /\ page = {} /\ ByOutPoint(call) /\ pc \in Searching
  BY DEF LookupInv, Stages, NoSpender, Searching
<1>2. /\ LookupTypeOK /\ Stages /\ answer = Nil /\ call \in Requests /\ call # Nil
      /\ cell \in OutPoints /\ cell # Nil /\ cell \in Watched(call) /\ spender = Nil
      /\ \E x \in held : x[1] = cell /\ x[2].is # "live"
  BY <1>1, SearchFacts
<1>3. Still /\ UNCHANGED <<cell, since, page, cursor, more, spender, listed>>
  BY DEF NoSpender, Elsewhere, Still
<1>4. /\ answer' # Nil /\ answer'.is = "spent" /\ pc' \in {"done", "describe"}
      /\ answer' \in [is : Replies, leap : Leaps] \cup {Nil}
  BY FoundIs DEF NoSpender
<1>5. LookupTypeOK'
  BY <1>1, <1>2, <1>3, <1>4, StillTyped DEF LookupTypeOK, Still
<1>6. Stages'
  BY <1>1, <1>2, <1>3, <1>4 DEF Stages, Still, Asking, Searching, Paging, Describing, Said
<1>7. AnswersHeld' /\ PagesComplete'
  BY <1>2, <1>3, <1>4 DEF AnswersHeld, PagesComplete, Said, Still
<1>8. SpenderFound'
  <2>1. SpenderAhead
    BY DEF LookupInv
  <2>2. \A x \in held : held = {x} => x[2].is # "spent"
    BY <1>1, <2>1 DEF SpenderAhead, Ahead
  <2> QED
    BY <1>3, <2>2 DEF SpenderFound, Still
<1>9. NoneLive' /\ PageSeen' /\ SpenderAhead' /\ PagesToCome'
  BY <1>4, LeaveKeeps DEF Searching, Paging
<1>10. SpenderSeen' /\ CellAsked'
  BY <1>2, <1>3 DEF SpenderSeen, CellAsked, Still
<1>11. ChainOK' /\ Witnessed' /\ SteadyListed'
  BY <1>2, <1>3, StillKeeps
<1> QED
  BY <1>5, <1>6, <1>7, <1>8, <1>9, <1>10, <1>11 DEF LookupInv

LEMMA CheckEntryKeeps == LookupInv /\ CheckEntry => LookupInv'
<1> SUFFICES ASSUME LookupInv, CheckEntry PROVE LookupInv'
  OBVIOUS
<1>1. pc = "entry" /\ pc \in Searching /\ ByOutPoint(call)
  BY DEF CheckEntry, Searching
<1>2. /\ LookupTypeOK /\ Stages /\ answer = Nil /\ call \in Requests /\ call # Nil
      /\ cell = call.target /\ cell \in OutPoints /\ cell # Nil
      /\ Watched(call) = {cell} /\ cell \in Watched(call) /\ spender = Nil
      /\ \E x \in held : x[1] = cell /\ x[2].is # "live"
  BY <1>1, SearchFacts
<1>3. Still /\ UNCHANGED <<cell, since, cursor, more, listed>>
  BY DEF CheckEntry, Elsewhere, Still
<1>4. PICK e \in page :
        IF IsSpender(e)
          THEN spender' = e /\ Found("spent") /\ UNCHANGED page
          ELSE /\ page' = page \ {e}
               /\ pc' = IF page' = {} THEN "readPage" ELSE "entry"
               /\ UNCHANGED <<spender, answer>>
  BY Zenon DEF CheckEntry
<1>5. Seen(e, KeyOf(call, cell)) /\ e # Nil
  BY <1>1, EntriesAreNotNil DEF LookupInv, PageSeen, Seen
<1>6. CASE IsSpender(e)
  <2>1. spender' = e /\ Found("spent") /\ page' = page
    BY <1>4, <1>6
  <2>2. /\ answer' # Nil /\ answer'.is = "spent" /\ pc' \in {"done", "describe"}
        /\ answer' \in [is : Replies, leap : Leaps] \cup {Nil}
    BY <2>1, FoundIs
  <2>3. e.isInput /\ Spends(e.tx, cell) /\ <<cell, SpentBy(e.tx, e.place)>> \in held
    BY <1>1, <1>5, <1>6 DEF IsSpender, Seen
  <2>4. LookupTypeOK'
    BY <1>1, <1>2, <1>3, <2>2, StillTyped DEF LookupTypeOK, Still
  <2>5. Stages'
    BY <1>1, <1>2, <1>3, <2>2 DEF Stages, Still, Asking, Searching, Paging, Describing, Said
  <2>6. AnswersHeld' /\ PagesComplete'
    BY <1>2, <1>3, <2>2 DEF AnswersHeld, PagesComplete, Said, Still
  <2>7. SpenderFound'
    <3>1. \A x \in held : held = {x} => e.tx = x[2].by /\ e.place = x[2].at
      BY <2>3 DEF SpentBy
    <3> QED
      BY <1>3, <1>5, <2>1, <2>2, <3>1 DEF SpenderFound, Said, Still
  <2>8. SpenderSeen'
    BY <1>3, <1>5, <2>1, <2>3 DEF SpenderSeen, Seen, Still
  <2>9. NoneLive' /\ PageSeen' /\ SpenderAhead' /\ PagesToCome'
    BY <2>2, LeaveKeeps DEF Searching, Paging
  <2>10. CellAsked'
    BY <1>2, <1>3 DEF CellAsked, Still
  <2>11. ChainOK' /\ Witnessed' /\ SteadyListed'
    BY <1>2, <1>3, StillKeeps
  <2> QED
    BY <2>4, <2>5, <2>6, <2>7, <2>8, <2>9, <2>10, <2>11 DEF LookupInv
<1>7. CASE ~IsSpender(e)
  <2>1. /\ page' = page \ {e} /\ UNCHANGED <<spender, answer>>
        /\ pc' = IF page' = {} THEN "readPage" ELSE "entry"
    BY <1>4, <1>7
  <2>2. LookupTypeOK'
    BY <1>1, <1>2, <1>3, <2>1, StillTyped DEF LookupTypeOK, Still
  <2>3. Stages'
    BY <1>1, <1>2, <1>3, <2>1 DEF Stages, Still, Asking, Searching, Paging, Describing, Said
  <2>4. AnswersHeld' /\ SpenderFound' /\ PagesComplete'
    BY <1>2, <2>1, SilentKeeps
  <2>5. SpenderAhead'
    <3> SUFFICES ASSUME NEW x \in held, held = {x}, x[2].is = "spent"
                 PROVE  /\ since <= x[2].at[1]
                        /\ \E i \in DOMAIN InputsOf[x[2].by] :
                             /\ InputsOf[x[2].by][i] = cell
                             /\ Ahead(EntryOf(x[2].by, x[2].at, i, TRUE))'
      BY <1>3 DEF SpenderAhead, Still
    <3>1. since <= x[2].at[1]
      BY <1>1 DEF LookupInv, SpenderAhead
    <3>2. PICK i \in DOMAIN InputsOf[x[2].by] :
            /\ InputsOf[x[2].by][i] = cell
            /\ Ahead(EntryOf(x[2].by, x[2].at, i, TRUE))
      BY <1>1 DEF LookupInv, SpenderAhead
    <3> DEFINE it == EntryOf(x[2].by, x[2].at, i, TRUE)
    <3>3. x[2].by \in TxsOfBlocks(chain) /\ Spends(x[2].by, cell)
      BY <1>1, <1>2, SpentNow
    <3>4. it.isInput /\ it.tx = x[2].by /\ it.place = x[2].at
      BY DEF EntryOf
    <3> HIDE DEF it
    <3>5. since \in Nat /\ x[2].at[1] \in Nat
      <4>1. x[2].at = PlaceOn(chain, x[2].by)
        BY <1>1, <1>2, SpentNow
      <4>2. x[2].at \in Nat \X Nat
        BY <3>3, <4>1, ChainFacts, PlaceOnType
      <4> QED
        BY <1>2, <4>2 DEF LookupTypeOK
    <3>6. IsSpender(it)
      BY <3>1, <3>3, <3>4, <3>5 DEF IsSpender, Knows
    <3>7. it # e
      BY <1>7, <3>6
    <3>8. Ahead(it)'
      BY <1>3, <2>1, <3>2, <3>7 DEF Ahead, it
    <3> QED
      BY <3>1, <3>2, <3>8 DEF it
  <2>6. PageSeen'
    BY <1>1, <1>3, <2>1 DEF LookupInv, PageSeen, Seen, Still
  <2>7. NoneLive' /\ PagesToCome'
    BY <1>2, <1>3, <2>1 DEF NoneLive, PagesToCome, Still
  <2>8. SpenderSeen' /\ CellAsked'
    BY <1>2, <1>3, <2>1 DEF SpenderSeen, CellAsked, Still
  <2>9. ChainOK' /\ Witnessed' /\ SteadyListed'
    BY <1>2, <1>3, StillKeeps
  <2> QED
    BY <2>2, <2>3, <2>4, <2>5, <2>6, <2>7, <2>8, <2>9 DEF LookupInv
<1> QED
  BY <1>6, <1>7

\* Who spends the cell in an entry of the chain spends it as it stands.
LEMMA EntrySeen ==
  ASSUME LookupInv, call # Nil, answer = Nil, cell \in Watched(call), NEW key,
         NEW e \in Entries(chain, key)
  PROVE  Seen(e, key)
<1>1. chain \in Seq(Payloads) /\ ValidBlocks(chain)
  BY ChainFacts
<1>2. /\ e \in EntryRecords /\ BelongsTo(e, key)
      /\ e.place \in Places(chain) /\ TxAt(chain, e.place) = e.tx
  BY <1>1, EntriesAre
<1>3. e.tx \in TxsOfBlocks(chain) /\ PlaceOn(chain, e.tx) = e.place
  BY <1>1, <1>2, TxsHavePlaces, PlaceOnIs
<1>4. Spends(e.tx, cell) => Standing(chain, cell) = SpentBy(e.tx, e.place)
  BY <1>1, <1>3, StandsSpent
<1>5. <<cell, Standing(chain, cell)>> \in held
  BY StandsNow
<1> QED
  BY <1>2, <1>4, <1>5 DEF Seen

LEMMA ReadPageKeeps == LookupInv /\ ReadPage => LookupInv'
<1> SUFFICES ASSUME LookupInv, ReadPage PROVE LookupInv'
  OBVIOUS
<1> DEFINE S == Entries(chain, SearchKey)
<1>1. /\ pc = "readPage" /\ pc \in Searching /\ page = {} /\ more /\ answer = Nil
      /\ LookupTypeOK /\ Stages /\ (ByOutPoint(call) \/ call.kind = "utxo")
  BY DEF LookupInv, Stages, ReadPage, Searching, Describing
<1>2. call \in Requests /\ call # Nil /\ Order \in Orders
  BY <1>1, CallFacts DEF Order, Orders
<1>3. Still /\ UNCHANGED <<cell, since, spender, answer, listed>>
  BY DEF ReadPage, Elsewhere, Still
<1>4. /\ page' = PageAfter(S, cursor, Order)
      /\ cursor' = IF page' = {} THEN cursor ELSE LastOf(page', Order)
      /\ more' = (Cardinality(page') = PageLimit)
      /\ pc' = IF page' = {} THEN "readPage" ELSE "entry"
  BY DEF ReadPage
<1>5. IsFiniteSet(S) /\ Ordered(S)
  BY ChainFacts, EntriesFinite, EntriesAreOrdered
<1>6. /\ page' \subseteq S
      /\ \A e \in S \ page' : After(cursor, e, Order) =>
           /\ Cardinality(page') = PageLimit /\ page' # {}
           /\ InOrderOf(LastOf(page', Order), e, Order)
  <2> HIDE DEF S
  <2> QED
    BY <1>2, <1>4, <1>5, PageIs
<1>7. \A e \in S : e \in EntryRecords /\ BelongsTo(e, KeyOf(call, cell))
  BY ChainFacts, EntriesAre, SearchKeyIs
<1>8. ByOutPoint(call) =>
        /\ cell = call.target /\ cell \in OutPoints /\ cell # Nil
        /\ Watched(call) = {cell} /\ cell \in Watched(call) /\ spender = Nil
  BY <1>1, SearchFacts
<1>9. LookupTypeOK'
  BY <1>1, <1>2, <1>3, <1>4, StillTyped DEF LookupTypeOK, Still
<1>10. Stages'
  BY <1>1, <1>2, <1>3, <1>4, <1>8 DEF Stages, Still, Asking, Searching, Paging, Describing, Said
<1>11. AnswersHeld' /\ SpenderFound' /\ PagesComplete'
  BY <1>1, <1>3, SilentKeeps
<1>12. NoneLive'
  BY <1>1, <1>3 DEF LookupInv, NoneLive, Still
<1>13. PageSeen'
  <2>1. \A e \in S : ByOutPoint(call) => Seen(e, KeyOf(call, cell))
    BY <1>1, <1>2, <1>8, EntrySeen, SearchKeyIs
  <2>2. \A e \in S : Seen(e, KeyOf(call, cell))
    BY <1>7, <2>1 DEF Seen
  <2> HIDE DEF S
  <2>3. \A e \in page' : Seen(e, KeyOf(call, cell))'
    BY <1>3, <1>6, <2>2 DEF Seen, Still
  <2> QED
    BY <2>3 DEF PageSeen
<1>14. SpenderAhead'
  <2> SUFFICES ASSUME ByOutPoint(call), NEW x \in held, held = {x}, x[2].is = "spent"
               PROVE  /\ since <= x[2].at[1]
                      /\ \E i \in DOMAIN InputsOf[x[2].by] :
                           /\ InputsOf[x[2].by][i] = cell
                           /\ Ahead(EntryOf(x[2].by, x[2].at, i, TRUE))'
    BY <1>3 DEF SpenderAhead, Still
  <2>1. since <= x[2].at[1]
    BY <1>1 DEF LookupInv, SpenderAhead
  <2>2. PICK i \in DOMAIN InputsOf[x[2].by] :
          /\ InputsOf[x[2].by][i] = cell
          /\ Ahead(EntryOf(x[2].by, x[2].at, i, TRUE))
    BY <1>1 DEF LookupInv, SpenderAhead
  <2> DEFINE it == EntryOf(x[2].by, x[2].at, i, TRUE)
  <2>3. x[2].by \in TxsOfBlocks(chain) /\ x[2].at = PlaceOn(chain, x[2].by)
    BY <1>1, <1>2, SpentNow
  <2>4. x[2].at \in Places(chain) /\ TxAt(chain, x[2].at) = x[2].by
    BY <2>3, ChainFacts, PlaceOnType
  <2>5. Matches(cell, SearchKey)
    <3>1. SearchKey = Output(cell)
      BY <1>2, RequestFacts DEF SearchKey
    <3> QED
      BY <3>1 DEF Matches
  <2>6. it \in S
    BY <2>2, <2>4, <2>5, InputHasEntry
  <2>7. After(cursor, it, "desc") /\ Order = "desc"
    BY <1>1, <2>2 DEF Ahead, Order
  <2> HIDE DEF it, S
  <2>8. it \in page' \/ (more' /\ InOrderOf(cursor', it, "desc"))
    BY <1>4, <1>6, <2>6, <2>7
  <2>9. Ahead(it)'
    BY <2>8 DEF Ahead, After
  <2> QED
    BY <2>1, <2>2, <2>9 DEF it
<1>15. SpenderSeen' /\ CellAsked'
  BY <1>3, SpenderStays DEF LookupInv, CellAsked, Still
<1>16. PagesToCome'
  BY <1>4 DEF PagesToCome
<1>17. ChainOK' /\ Witnessed' /\ SteadyListed'
  BY <1>1, <1>3, StillKeeps
<1> QED
  BY <1>9, <1>10, <1>11, <1>12, <1>13, <1>14, <1>15, <1>16, <1>17 DEF LookupInv

LEMMA UtxoWatched ==
  ASSUME NEW r \in Requests, r.kind = "utxo", NEW out \in OutPoints
  PROVE  /\ out \in Watched(r) <=> Output(out).lock = r.target
         /\ Matches(out, [lock |-> r.target, type |-> NoType]) <=> out \in Watched(r)
         /\ ~ByOutPoint(r)
BY DEF Watched, ByOutPoint, Matches

LEMMA FindLiveKeeps == LookupInv /\ FindLive => LookupInv'
<1> SUFFICES ASSUME LookupInv, FindLive PROVE LookupInv'
  OBVIOUS
<1>1. /\ LookupTypeOK /\ Stages /\ pc = "findLive" /\ answer = Nil /\ cell = Nil
      /\ page = {} /\ cursor = Nil /\ more /\ spender = Nil /\ call.kind = "utxo"
  BY DEF LookupInv, Stages, FindLive, Describing
<1>2. call \in Requests /\ call # Nil /\ ~ByOutPoint(call)
  BY <1>1, CallFacts, RequestFacts
<1>3. Still /\ UNCHANGED <<since, page, cursor, more, spender, listed>>
  BY DEF FindLive, Elsewhere, Still
<1>4. SearchKey = [lock |-> call.target, type |-> NoType]
  BY <1>1 DEF SearchKey
<1>5. \A out \in OutPoints : Matches(out, SearchKey) <=> out \in Watched(call)
  BY <1>1, <1>2, <1>4, UtxoWatched
<1>6. CASE LiveCells(chain, SearchKey) = {} /\ pc' = "readPage" /\ UNCHANGED <<cell, answer>>
  <2>1. LookupTypeOK'
    BY <1>1, <1>2, <1>3, <1>6, StillTyped DEF LookupTypeOK, Still
  <2>2. Stages'
    BY <1>1, <1>2, <1>3, <1>6 DEF Stages, Still, Asking, Searching, Paging, Describing, Said
  <2>3. AnswersHeld' /\ SpenderFound' /\ PagesComplete'
    BY <1>1, <1>6, SilentKeeps
  <2>4. NoneLive'
    <3>1. \A out \in Watched(call) : out \in OutPoints
      BY <1>1, <1>2 DEF Watched
    <3>2. \A out \in Watched(call) : ~LiveOn(chain, out)
      BY <1>5, <1>6, <3>1, ChainFacts, LiveHasEntry
    <3>3. \A out \in Watched(call) : <<out, Standing(chain, out)>> \in held
      BY <1>1, <1>2, StandsNow
    <3>4. \A out \in Watched(call) : \E x \in held : x[1] = out /\ x[2].is # "live"
      BY <3>2, <3>3, StandsLive
    <3> QED
      BY <1>3, <3>4 DEF NoneLive, Still
  <2>5. PageSeen' /\ SpenderAhead' /\ PagesToCome'
    BY <1>1, <1>2, <1>3, <1>6 DEF PageSeen, SpenderAhead, PagesToCome, Still
  <2>6. SpenderSeen' /\ CellAsked'
    BY <1>1, <1>3, <1>6 DEF SpenderSeen, CellAsked
  <2>7. ChainOK' /\ Witnessed' /\ SteadyListed'
    BY <1>1, <1>3, StillKeeps
  <2> QED
    BY <2>1, <2>2, <2>3, <2>4, <2>5, <2>6, <2>7 DEF LookupInv
<1>7. ASSUME NEW e \in LiveCells(chain, SearchKey), cell' = OutPointOf(e), Found("live")
      PROVE  LookupInv'
  <2>1. /\ answer' # Nil /\ answer'.is = "live" /\ pc' \in {"done", "describe"}
        /\ answer' \in [is : Replies, leap : Leaps] \cup {Nil}
    BY <1>7, FoundIs
  <2>2. cell' \in OutPoints /\ LiveOn(chain, cell') /\ cell' \in Watched(call)
    BY <1>5, <1>7, ChainFacts, LiveEntries
  <2>3. cell' # Nil
    BY <2>2, NilAssumption
  <2>4. LookupTypeOK'
    BY <1>1, <1>2, <1>3, <2>1, <2>2, <2>3, StillTyped DEF LookupTypeOK, Still
  <2>5. Stages'
    BY <1>1, <1>2, <1>3, <2>1, <2>3 DEF Stages, Still, Asking, Searching, Paging, Describing, Said
  <2>6. AnswersHeld' /\ PagesComplete'
    <3>1. <<cell', Standing(chain, cell')>> \in held
      BY <1>1, <1>2, <2>2, StandsNow
    <3> QED
      BY <1>3, <2>1, <2>2, <3>1, StandsLive DEF AnswersHeld, PagesComplete, Said, Still
  <2>7. SpenderFound'
    BY <1>2, <1>3 DEF SpenderFound, Still
  <2>8. NoneLive' /\ PageSeen' /\ SpenderAhead' /\ PagesToCome'
    BY <2>1, LeaveKeeps DEF Searching, Paging
  <2>9. SpenderSeen' /\ CellAsked'
    BY <1>1, <1>3, <2>2 DEF SpenderSeen, CellAsked, Still
  <2>10. ChainOK' /\ Witnessed' /\ SteadyListed'
    BY <1>1, <1>3, StillKeeps
  <2> QED
    BY <2>4, <2>5, <2>6, <2>7, <2>8, <2>9, <2>10 DEF LookupInv
<1> QED
  BY <1>6, <1>7, Zenon DEF FindLive

LEMMA ReadUtxoEntryKeeps == LookupInv /\ ReadUtxoEntry => LookupInv'
<1> SUFFICES ASSUME LookupInv, ReadUtxoEntry PROVE LookupInv'
  OBVIOUS
<1>1. /\ LookupTypeOK /\ Stages /\ pc = "entry" /\ pc \in Searching /\ answer = Nil
      /\ call.kind = "utxo"
  BY DEF LookupInv, Stages, ReadUtxoEntry, Searching, Describing
<1>2. call \in Requests /\ call # Nil /\ ~ByOutPoint(call)
  BY <1>1, CallFacts, RequestFacts
<1>3. Still /\ UNCHANGED <<since, cursor, more, answer, listed>>
  BY DEF ReadUtxoEntry, Elsewhere, Still
<1>4. PICK e \in page :
        /\ IF e.isInput THEN spender' = e /\ UNCHANGED cell
           ELSE /\ cell' = IF Knows(e.tx) THEN OutPointOf(e) ELSE Nil
                /\ UNCHANGED spender
        /\ page' = page \ {e}
        /\ pc' = IF page' = {} THEN "readPage" ELSE "entry"
  BY Zenon DEF ReadUtxoEntry
<1>5. \A f \in page : \A key : Seen(f, key) <=> f \in EntryRecords /\ BelongsTo(f, key)
  BY <1>2 DEF Seen
<1>6. KeyOf(call, cell) = KeyOf(call, cell') /\
      KeyOf(call, cell) = [lock |-> call.target, type |-> NoType]
  BY <1>1 DEF KeyOf
<1>7. \A f \in page : f \in EntryRecords /\ BelongsTo(f, KeyOf(call, cell))
  BY <1>1, <1>5 DEF LookupInv, PageSeen
<1>8. cell' # Nil => cell' \in OutPoints /\ cell' \in Watched(call)
  <2>1. CASE cell' = cell
    BY <2>1 DEF LookupInv, CellAsked
  <2>2. CASE ~e.isInput /\ cell' = OutPointOf(e)
    <3>1. e \in EntryRecords /\ e.index \in DOMAIN OutputsOf[e.tx]
          /\ Matches(OutPointOf(e), KeyOf(call, cell))
      BY <1>7, <2>2 DEF BelongsTo
    <3>2. OutPointOf(e) \in OutPoints
      BY <3>1 DEF OutPointOf, OutPoints, EntryRecords
    <3>3. OutPointOf(e) \in Watched(call)
      BY <1>1, <1>2, <1>6, <3>1, <3>2, UtxoWatched
    <3> QED
      BY <2>2, <3>2, <3>3
  <2> QED
    BY <1>4, <2>1, <2>2
<1>9. LookupTypeOK'
  BY <1>1, <1>2, <1>3, <1>4, <1>8, StillTyped DEF LookupTypeOK, Still
<1>10. Stages'
  BY <1>1, <1>2, <1>3, <1>4 DEF Stages, Still, Asking, Searching, Paging, Describing, Said
<1>11. AnswersHeld' /\ SpenderFound' /\ PagesComplete'
  BY <1>1, <1>3, SilentKeeps
<1>12. NoneLive'
  BY <1>1, <1>3 DEF LookupInv, NoneLive, Still
<1>13. PageSeen'
  <2>1. \A f \in page' : Seen(f, KeyOf(call, cell))'
    BY <1>2, <1>3, <1>4, <1>6, <1>7 DEF Seen, Still
  <2> QED
    BY <2>1 DEF PageSeen
<1>14. SpenderSeen' /\ SpenderAhead'
  BY <1>2, <1>3 DEF SpenderSeen, SpenderAhead, Still
<1>15. CellAsked' /\ PagesToCome'
  BY <1>3, <1>4, <1>8 DEF CellAsked, PagesToCome, Still
<1>16. ChainOK' /\ Witnessed' /\ SteadyListed'
  BY <1>1, <1>3, StillKeeps
<1> QED
  BY <1>9, <1>10, <1>11, <1>12, <1>13, <1>14, <1>15, <1>16 DEF LookupInv

LEMMA UtxoEndKeeps == LookupInv /\ UtxoEnd => LookupInv'
<1> SUFFICES ASSUME LookupInv, UtxoEnd PROVE LookupInv'
  OBVIOUS
<1>1. /\ LookupTypeOK /\ Stages /\ pc = "readPage" /\ pc \in Searching /\ answer = Nil
      /\ call.kind = "utxo" /\ page = {}
  BY DEF LookupInv, Stages, UtxoEnd, Searching, Describing
<1>2. call \in Requests /\ call # Nil /\ ~ByOutPoint(call)
  BY <1>1, CallFacts, RequestFacts
<1>3. Still /\ UNCHANGED <<cell, since, page, cursor, more, spender, listed>>
  BY DEF UtxoEnd, Elsewhere, Still
<1>4. \/ /\ answer' # Nil /\ answer'.is = "RgbppCellNotFound" /\ pc' = "done"
         /\ answer' \in [is : Replies, leap : Leaps] \cup {Nil}
      \/ /\ cell # Nil /\ answer' # Nil /\ answer'.is = "spent" /\ pc' \in {"done", "describe"}
         /\ answer' \in [is : Replies, leap : Leaps] \cup {Nil}
  <2>1. CASE cell = Nil
    <3>1. Refuse("RgbppCellNotFound") /\ "RgbppCellNotFound" \in Replies
      BY <2>1 DEF UtxoEnd, Replies
    <3> QED
      BY <3>1, RefuseIs
  <2>2. CASE cell # Nil
    <3>1. Found("spent")
      BY <2>2 DEF UtxoEnd
    <3> QED
      BY <2>2, <3>1, FoundIs
  <2> QED
    BY <2>1, <2>2
<1>5. LookupTypeOK'
  BY <1>1, <1>2, <1>3, <1>4, StillTyped DEF LookupTypeOK, Still
<1>6. Stages'
  BY <1>1, <1>2, <1>3, <1>4 DEF Stages, Still, Asking, Searching, Paging, Describing, Said
<1>7. AnswersHeld' /\ PagesComplete'
  <2>1. cell # Nil => \E x \in held : x[1] = cell /\ x[2].is # "live"
    BY <1>1 DEF LookupInv, CellAsked, NoneLive
  <2> QED
    BY <1>3, <1>4, <2>1 DEF AnswersHeld, PagesComplete, Said, Still
<1>8. SpenderFound'
  BY <1>2, <1>3 DEF SpenderFound, Still
<1>9. NoneLive' /\ PageSeen' /\ SpenderAhead' /\ PagesToCome'
  BY <1>4, LeaveKeeps DEF Searching, Paging
<1>10. SpenderSeen' /\ CellAsked'
  BY <1>2, <1>3 DEF LookupInv, SpenderSeen, CellAsked, Still
<1>11. ChainOK' /\ Witnessed' /\ SteadyListed'
  BY <1>1, <1>3, StillKeeps
<1> QED
  BY <1>5, <1>6, <1>7, <1>8, <1>9, <1>10, <1>11 DEF LookupInv

(***************************************************************************)
(* What the request tells of the cell, and the pages of a token            *)
(***************************************************************************)

LEMMA DescribeKeeps == LookupInv /\ Describe => LookupInv'
<1> SUFFICES ASSUME LookupInv, Describe PROVE LookupInv'
  OBVIOUS
<1>1. /\ LookupTypeOK /\ Stages /\ pc = "describe" /\ answer # Nil
      /\ (answer.is = "live" \/ answer.is = "spent") /\ cell # Nil
  BY DEF LookupInv, Stages, Describe, Describing, Said
<1>2. call \in Requests /\ call # Nil
  BY <1>1, CallFacts
<1>3. Still /\ UNCHANGED <<cell, since, page, cursor, more, spender, listed>>
  BY DEF Describe, Elsewhere, Still
<1>4. \/ /\ answer' # Nil /\ answer'.is \in {"CellNotAsset", "TxNotFound"} /\ pc' = "done"
         /\ answer' \in [is : Replies, leap : Leaps] \cup {Nil}
      \/ pc' = "bind" /\ answer' = answer
  <2>1. CASE Output(cell).type = NoType
    <3>1. Refuse("CellNotAsset") /\ "CellNotAsset" \in Replies
      BY <2>1 DEF Describe, Replies
    <3> QED
      BY <3>1, RefuseIs
  <2>2. CASE Output(cell).type # NoType /\ ~Knows(cell.tx)
    <3>1. Refuse("TxNotFound") /\ "TxNotFound" \in Replies
      BY <2>2 DEF Describe, Replies
    <3> QED
      BY <3>1, RefuseIs
  <2>3. CASE Output(cell).type # NoType /\ Knows(cell.tx)
    BY <2>3 DEF Describe
  <2> QED
    BY <2>1, <2>2, <2>3
<1>5. LookupTypeOK'
  BY <1>1, <1>2, <1>3, <1>4, StillTyped DEF LookupTypeOK, Still
<1>6. Stages'
  BY <1>1, <1>2, <1>3, <1>4 DEF Stages, Still, Asking, Searching, Paging, Describing, Said
<1>7. AnswersHeld' /\ SpenderFound' /\ PagesComplete'
  <2>1. CASE answer' = answer
    BY <1>3, <2>1 DEF LookupInv, AnswersHeld, SpenderFound, PagesComplete, Said, Still
  <2>2. CASE answer' # answer
    BY <1>4, <2>2, ErrorKeeps
  <2> QED
    BY <2>1, <2>2
<1>8. NoneLive' /\ PageSeen' /\ SpenderAhead' /\ PagesToCome'
  BY <1>4, LeaveKeeps DEF Searching, Paging
<1>9. SpenderSeen' /\ CellAsked'
  BY <1>3, SpenderStays DEF LookupInv, CellAsked, Still
<1>10. ChainOK' /\ Witnessed' /\ SteadyListed'
  BY <1>1, <1>3, <1>4, StillKeeps
<1> QED
  BY <1>5, <1>6, <1>7, <1>8, <1>9, <1>10 DEF LookupInv

LEMMA BindKeeps == LookupInv /\ Bind => LookupInv'
<1> SUFFICES ASSUME LookupInv, Bind PROVE LookupInv'
  OBVIOUS
<1>1. /\ LookupTypeOK /\ Stages /\ pc = "bind" /\ answer # Nil
      /\ (answer.is = "live" \/ answer.is = "spent") /\ cell # Nil
      /\ answer \in [is : Replies, leap : Leaps]
  <2>1. LookupTypeOK /\ Stages /\ pc = "bind"
    BY DEF LookupInv, Bind
  <2>2. answer # Nil /\ (answer.is = "live" \/ answer.is = "spent") /\ cell # Nil
    BY <2>1 DEF Stages, Describing, Said
  <2> QED
    BY <2>1, <2>2 DEF LookupTypeOK
<1>2. call \in Requests /\ call # Nil
  BY <1>1, CallFacts
<1>3. Still /\ UNCHANGED <<cell, since, page, cursor, more, spender, listed>>
  BY DEF Bind, Elsewhere, Still
<1>4. /\ pc' = "done" /\ answer' # Nil /\ answer' \in [is : Replies, leap : Leaps] \cup {Nil}
      /\ answer'.is = "RgbppCellNotFound" \/ answer'.is = answer.is
  <2>1. CASE BindingOf(cell) = "RgbppCellNotFound"
    <3>1. Refuse("RgbppCellNotFound") /\ "RgbppCellNotFound" \in Replies
      BY <2>1 DEF Bind, Replies
    <3> QED
      BY <3>1, RefuseIs
  <2>2. CASE BindingOf(cell) # "RgbppCellNotFound"
    <3>1. BindingOf(cell) \in Leaps
      BY <2>2 DEF BindingOf, Leaps
    <3>2. pc' = "done" /\ answer' = [answer EXCEPT !.leap = BindingOf(cell)]
      BY <2>2 DEF Bind, Respond
    <3>3. answer' = [is |-> answer.is, leap |-> BindingOf(cell)] /\ answer.is \in Replies
      BY <1>1, <3>2
    <3> QED
      BY <3>1, <3>2, <3>3, AnswersAreNotNil
  <2> QED
    BY <2>1, <2>2
<1>5. LookupTypeOK'
  BY <1>1, <1>2, <1>3, <1>4, StillTyped DEF LookupTypeOK, Still
<1>6. Stages'
  BY <1>1, <1>2, <1>3, <1>4 DEF Stages, Still, Asking, Searching, Paging, Describing, Said
<1>7. AnswersHeld' /\ SpenderFound' /\ PagesComplete'
  <2>1. CASE answer'.is = answer.is
    BY <1>1, <1>3, <1>4, <2>1 DEF LookupInv, AnswersHeld, SpenderFound, PagesComplete, Said, Still
  <2>2. CASE answer'.is = "RgbppCellNotFound"
    BY <1>4, <2>2, ErrorKeeps
  <2> QED
    BY <1>4, <2>1, <2>2
<1>8. NoneLive' /\ PageSeen' /\ SpenderAhead' /\ PagesToCome'
  BY <1>4, LeaveKeeps DEF Searching, Paging
<1>9. SpenderSeen' /\ CellAsked'
  BY <1>3, SpenderStays DEF LookupInv, CellAsked, Still
<1>10. ChainOK' /\ Witnessed' /\ SteadyListed'
  BY <1>1, <1>3, <1>4, StillKeeps
<1> QED
  BY <1>5, <1>6, <1>7, <1>8, <1>9, <1>10 DEF LookupInv

LEMMA ListPageKeeps == LookupInv /\ ListPage => LookupInv'
<1> SUFFICES ASSUME LookupInv, ListPage PROVE LookupInv'
  OBVIOUS
<1> DEFINE S == LiveCells(chain, SearchKey)
<1>1. /\ LookupTypeOK /\ Stages /\ pc = "list" /\ answer = Nil /\ cell = Nil
      /\ page = {} /\ call.kind = "tokens"
  BY DEF LookupInv, Stages, ListPage, Paging, Describing
<1>2. call \in Requests /\ call # Nil /\ ~ByOutPoint(call)
  BY <1>1, CallFacts, RequestFacts
<1>3. Still /\ UNCHANGED <<cell, since, more, spender, answer, listed>>
  BY DEF ListPage, Elsewhere, Still
<1>4. /\ page' = PageAfter(S, cursor, "asc") /\ pc' = "describePage"
      /\ cursor' = IF page' = {} THEN Nil ELSE CursorAfter(page', LastOf(page', "asc"))
  BY DEF ListPage
<1>5. IsFiniteSet(S) /\ Ordered(S)
  BY ChainFacts, EntriesFinite, EntriesAreOrdered
<1>6. /\ page' \subseteq S /\ (page' # {} => LastOf(page', "asc") \in page')
      /\ \A e \in S \ page' : After(cursor, e, "asc") =>
           /\ Cardinality(page') = PageLimit /\ page' # {}
           /\ InOrderOf(LastOf(page', "asc"), e, "asc")
  <2>1. "asc" \in Orders
    BY DEF Orders
  <2> HIDE DEF S
  <2> QED
    BY <1>4, <1>5, <2>1, PageIs
<1>7. steady \subseteq S
  <2>1. SearchKey = call.target
    BY <1>1 DEF SearchKey
  <2>2. Listing(call, chain) = S
    BY <1>1, <2>1 DEF Listing
  <2> QED
    BY <1>2, <2>2 DEF LookupInv, SteadyListed
<1>8. LookupTypeOK'
  BY <1>1, <1>2, <1>3, <1>4, StillTyped DEF LookupTypeOK, Still
<1>9. Stages'
  BY <1>1, <1>2, <1>3, <1>4 DEF Stages, Still, Asking, Searching, Paging, Describing, Said
<1>10. AnswersHeld' /\ SpenderFound' /\ PagesComplete'
  BY <1>1, <1>3, SilentKeeps
<1>11. PagesToCome'
  <2> SUFFICES ASSUME NEW e \in steady, e \notin listed, e \notin page'
               PROVE  cursor' # Nil /\ InOrderOf(cursor', e, "asc")
    BY <1>3, <1>4 DEF PagesToCome, Still
  <2>1. After(cursor, e, "asc")
    BY <1>1 DEF LookupInv, PagesToCome
  <2>2. e \in S \ page'
    BY <1>7
  <2> HIDE DEF S
  <2>3. /\ Cardinality(page') = PageLimit /\ page' # {}
        /\ InOrderOf(LastOf(page', "asc"), e, "asc")
    BY <1>6, <2>1, <2>2
  <2>4. cursor' = LastOf(page', "asc")
    BY <1>4, <2>3, PageLimitAssumption DEF CursorAfter
  <2>5. LastOf(page', "asc") \in EntryRecords
    BY <1>5, <1>6, <2>3 DEF Ordered
  <2> QED
    BY <2>3, <2>4, <2>5, EntriesAreNotNil
<1>12. NoneLive' /\ PageSeen' /\ SpenderAhead'
  BY <1>4 DEF NoneLive, PageSeen, SpenderAhead, Searching
<1>13. SpenderSeen' /\ CellAsked'
  BY <1>3, SpenderStays DEF LookupInv, CellAsked, Still
<1>14. ChainOK' /\ Witnessed' /\ SteadyListed'
  BY <1>1, <1>3, StillKeeps
<1> QED
  BY <1>8, <1>9, <1>10, <1>11, <1>12, <1>13, <1>14 DEF LookupInv

LEMMA DescribePageKeeps == LookupInv /\ DescribePage => LookupInv'
<1> SUFFICES ASSUME LookupInv, DescribePage PROVE LookupInv'
  OBVIOUS
<1>1. /\ LookupTypeOK /\ Stages /\ pc = "describePage" /\ answer = Nil /\ cell = Nil
      /\ call.kind = "tokens"
  BY DEF LookupInv, Stages, DescribePage, Paging, Describing
<1>2. call \in Requests /\ call # Nil /\ ~ByOutPoint(call)
  BY <1>1, CallFacts, RequestFacts
<1>3. Still /\ UNCHANGED <<cell, since, cursor, more, spender>>
  BY DEF DescribePage, Elsewhere, Still
<1>4. \/ Refuse("Exception") /\ UNCHANGED <<page, listed>>
      \/ /\ listed' = listed \cup page /\ page' = {} /\ cursor = Nil
         /\ Respond([is |-> "listed", leap |-> Nil])
      \/ /\ listed' = listed \cup page /\ page' = {} /\ cursor # Nil
         /\ pc' = "list" /\ answer' = answer
  BY Zenon DEF DescribePage
<1>5. CASE Refuse("Exception") /\ UNCHANGED <<page, listed>>
  <2>1. /\ answer' # Nil /\ answer'.is = "Exception" /\ pc' = "done"
        /\ answer' \in [is : Replies, leap : Leaps] \cup {Nil}
    BY <1>5, RefuseIs DEF Replies
  <2>2. LookupTypeOK'
    BY <1>1, <1>2, <1>3, <2>1, StillTyped DEF LookupTypeOK, Still
  <2>3. Stages'
    BY <1>1, <1>2, <1>3, <2>1 DEF Stages, Still, Asking, Searching, Paging, Describing, Said
  <2>4. AnswersHeld' /\ SpenderFound' /\ PagesComplete'
    BY <2>1, ErrorKeeps
  <2>5. NoneLive' /\ PageSeen' /\ SpenderAhead' /\ PagesToCome'
    BY <2>1, LeaveKeeps DEF Searching, Paging
  <2>6. SpenderSeen' /\ CellAsked'
    BY <1>3, SpenderStays DEF LookupInv, CellAsked, Still
  <2>7. ChainOK' /\ Witnessed' /\ SteadyListed'
    BY <1>1, <1>3, StillKeeps
  <2> QED
    BY <2>2, <2>3, <2>4, <2>5, <2>6, <2>7 DEF LookupInv
<1>6. CASE /\ listed' = listed \cup page /\ page' = {} /\ cursor = Nil
           /\ Respond([is |-> "listed", leap |-> Nil])
  <2>1. /\ answer' # Nil /\ answer'.is = "listed" /\ pc' = "done"
        /\ answer' \in [is : Replies, leap : Leaps] \cup {Nil}
    <3>1. Refuse("listed") /\ "listed" \in Replies
      BY <1>6 DEF Refuse, Replies
    <3> QED
      BY <3>1, RefuseIs
  <2>2. LookupTypeOK'
    BY <1>1, <1>2, <1>3, <2>1, StillTyped DEF LookupTypeOK, Still
  <2>3. Stages'
    BY <1>1, <1>2, <1>3, <2>1 DEF Stages, Still, Asking, Searching, Paging, Describing, Said
  <2>4. AnswersHeld' /\ SpenderFound'
    BY <1>2, <1>3, <2>1 DEF AnswersHeld, SpenderFound, Said, Still
  <2>5. PagesComplete'
    BY <1>1, <1>3, <1>6 DEF LookupInv, PagesToCome, PagesComplete, Still
  <2>6. NoneLive' /\ PageSeen' /\ SpenderAhead' /\ PagesToCome'
    BY <2>1, LeaveKeeps DEF Searching, Paging
  <2>7. SpenderSeen' /\ CellAsked'
    BY <1>3, SpenderStays DEF LookupInv, CellAsked, Still
  <2>8. ChainOK' /\ Witnessed' /\ SteadyListed'
    BY <1>1, <1>3, StillKeeps
  <2> QED
    BY <2>2, <2>3, <2>4, <2>5, <2>6, <2>7, <2>8 DEF LookupInv
<1>7. CASE /\ listed' = listed \cup page /\ page' = {} /\ cursor # Nil
           /\ pc' = "list" /\ answer' = answer
  <2>1. LookupTypeOK'
    BY <1>1, <1>2, <1>3, <1>7, StillTyped DEF LookupTypeOK, Still
  <2>2. Stages'
    BY <1>1, <1>2, <1>3, <1>7 DEF Stages, Still, Asking, Searching, Paging, Describing, Said
  <2>3. AnswersHeld' /\ SpenderFound' /\ PagesComplete'
    BY <1>1, <1>7, SilentKeeps
  <2>4. PagesToCome'
    BY <1>1, <1>3, <1>7 DEF LookupInv, PagesToCome, After, Still
  <2>5. NoneLive' /\ PageSeen' /\ SpenderAhead'
    BY <1>7 DEF NoneLive, PageSeen, SpenderAhead, Searching
  <2>6. SpenderSeen' /\ CellAsked'
    BY <1>3, SpenderStays DEF LookupInv, CellAsked, Still
  <2>7. ChainOK' /\ Witnessed' /\ SteadyListed'
    BY <1>1, <1>3, StillKeeps
  <2> QED
    BY <2>1, <2>2, <2>3, <2>4, <2>5, <2>6, <2>7 DEF LookupInv
<1> QED
  BY <1>4, <1>5, <1>6, <1>7

(***************************************************************************)
(* A request comes and goes, and the chain moves                           *)
(***************************************************************************)

LEMMA BeginKeeps ==
  ASSUME NEW r \in Requests
  PROVE  LookupInv /\ Begin(r) => LookupInv'
<1> SUFFICES ASSUME LookupInv, Begin(r) PROVE LookupInv'
  OBVIOUS
<1>1. /\ LookupTypeOK /\ Stages /\ answer = Nil /\ cell = Nil /\ page = {}
      /\ cursor = Nil /\ more /\ spender = Nil /\ listed = {} /\ since = 0
  BY DEF LookupInv, Stages, Begin
<1>2. /\ UNCHANGED <<cell, since, page, cursor, more, spender, answer, listed>>
      /\ UNCHANGED <<nodeVars, pool, mined>>
      /\ call' = r /\ held' = Standings(r, chain) /\ steady' = Listing(r, chain)
  BY DEF Begin
<1>3. r # Nil /\ r.kind \in {"outpoint", "spendInfo", "utxo", "tokens"}
  BY RequestFacts
<1>4. \/ ByOutPoint(r) /\ pc' = "readCache"
      \/ r.kind = "utxo" /\ pc' = "findLive"
      \/ r.kind = "tokens" /\ pc' = "list"
  BY <1>3 DEF Begin, ByOutPoint
<1>5. chain' = chain /\ final' = final
  BY <1>2 DEF nodeVars
<1>6. LookupTypeOK'
  <2>1. NodeTypeOK'
    BY <1>1, <1>5 DEF LookupTypeOK, NodeTypeOK
  <2> QED
    BY <1>1, <1>2, <1>3, <1>4, <1>5, <2>1 DEF LookupTypeOK
<1>7. Stages'
  BY <1>1, <1>2, <1>4 DEF Stages, Asking, Searching, Paging, Describing, Said
<1>8. AnswersHeld' /\ SpenderFound' /\ PagesComplete'
  BY <1>1, <1>2, SilentKeeps
<1>9. NoneLive' /\ PageSeen' /\ SpenderAhead'
  BY <1>4 DEF NoneLive, PageSeen, SpenderAhead, Searching
<1>10. SpenderSeen' /\ CellAsked'
  BY <1>1, <1>2 DEF SpenderSeen, CellAsked
<1>11. PagesToCome'
  BY <1>1, <1>2, <1>4 DEF PagesToCome, After
<1>12. ChainOK' /\ Witnessed' /\ SteadyListed'
  BY <1>2, <1>5 DEF LookupInv, ChainOK, Witnessed, SteadyListed
<1> QED
  BY <1>6, <1>7, <1>8, <1>9, <1>10, <1>11, <1>12 DEF LookupInv

LEMMA ReplyKeeps == LookupInv /\ Reply => LookupInv'
<1> SUFFICES ASSUME LookupInv, Reply PROVE LookupInv'
  OBVIOUS
<1>1. /\ call' = Nil /\ pc' = "idle" /\ answer' = Nil /\ cell' = Nil /\ since' = 0
      /\ spender' = Nil /\ page' = {} /\ cursor' = Nil /\ more' = TRUE /\ listed' = {}
      /\ held' = {} /\ steady' = {} /\ pool' = pool /\ mined' = mined
      /\ chain' = chain /\ final' = final
  BY DEF Reply, nodeVars
<1>2. LookupTypeOK'
  <2>1. NodeTypeOK'
    BY <1>1 DEF LookupInv, LookupTypeOK, NodeTypeOK
  <2> QED
    BY <1>1, <2>1, MaxHeightAssumption DEF LookupInv, LookupTypeOK
<1>3. Stages'
  BY <1>1 DEF Stages, Asking, Searching, Paging, Describing, Said
<1>4. AnswersHeld' /\ SpenderFound' /\ PagesComplete'
  BY <1>1, SilentKeeps
<1>5. NoneLive' /\ PageSeen' /\ SpenderAhead' /\ PagesToCome'
  BY <1>1, LeaveKeeps DEF Searching, Paging
<1>6. SpenderSeen' /\ CellAsked' /\ Witnessed' /\ SteadyListed'
  BY <1>1 DEF SpenderSeen, CellAsked, Witnessed, SteadyListed
<1>7. ChainOK'
  BY <1>1 DEF LookupInv, ChainOK
<1> QED
  BY <1>2, <1>3, <1>4, <1>5, <1>6, <1>7 DEF LookupInv

LEMMA SubmitKeeps == LookupInv /\ Submit => LookupInv'
<1> SUFFICES ASSUME LookupInv, Submit PROVE LookupInv'
  OBVIOUS
<1>1. UNCHANGED <<nodeVars, mined, requestVars, held, steady>>
  BY DEF Submit
<1>2. PICK t \in Txs \ (pool \cup TxsOfBlocks(chain)) : pool' = pool \cup {t}
  BY DEF Submit
<1>3. LookupTypeOK'
  BY <1>1, <1>2 DEF LookupInv, LookupTypeOK, NodeTypeOK, nodeVars, requestVars
<1>4. /\ ChainOK' /\ Stages' /\ CellAsked' /\ Witnessed' /\ NoneLive'
      /\ SteadyListed' /\ PagesToCome'
  BY <1>1 DEF LookupInv, ChainOK, Stages, Said, CellAsked, Witnessed, NoneLive,
              SteadyListed, PagesToCome, nodeVars, requestVars
<1>5. PageSeen' /\ SpenderSeen' /\ SpenderAhead'
  BY <1>1 DEF LookupInv, PageSeen, SpenderSeen, SpenderAhead, Seen, Ahead, requestVars
<1>6. AnswersHeld' /\ SpenderFound' /\ PagesComplete'
  BY <1>1 DEF LookupInv, AnswersHeld, SpenderFound, PagesComplete, Said, requestVars
<1> QED
  BY <1>3, <1>4, <1>5, <1>6 DEF LookupInv

LEMMA StutterKeeps == LookupInv /\ UNCHANGED lookupVars => LookupInv'
<1> SUFFICES ASSUME LookupInv, UNCHANGED lookupVars PROVE LookupInv'
  OBVIOUS
<1>1. UNCHANGED <<nodeVars, mined, requestVars, held, steady>> /\ pool' = pool
  BY DEF lookupVars
<1>2. LookupTypeOK'
  BY <1>1 DEF LookupInv, LookupTypeOK, NodeTypeOK, nodeVars, requestVars
<1>3. /\ ChainOK' /\ Stages' /\ CellAsked' /\ Witnessed' /\ NoneLive'
      /\ SteadyListed' /\ PagesToCome'
  BY <1>1 DEF LookupInv, ChainOK, Stages, Said, CellAsked, Witnessed, NoneLive,
              SteadyListed, PagesToCome, nodeVars, requestVars
<1>4. PageSeen' /\ SpenderSeen' /\ SpenderAhead'
  BY <1>1 DEF LookupInv, PageSeen, SpenderSeen, SpenderAhead, Seen, Ahead, requestVars
<1>5. AnswersHeld' /\ SpenderFound' /\ PagesComplete'
  BY <1>1 DEF LookupInv, AnswersHeld, SpenderFound, PagesComplete, Said, requestVars
<1> QED
  BY <1>2, <1>3, <1>4, <1>5 DEF LookupInv

\* Whatever chain comes, a request that has not answered sees how its cells
\* stand on it, and forgets nothing of what it saw.
LEMMA ChainMovesKeeps == LookupInv /\ ChainMoves => LookupInv'
<1> SUFFICES ASSUME LookupInv, ChainMoves PROVE LookupInv'
  OBVIOUS
<1>1. UNCHANGED requestVars /\ NodeNext /\ ValidBlocks(chain') /\ Observe
  BY DEF ChainMoves
<1>2. UNCHANGED <<call, pc, cell, since, page, cursor, more, spender, answer, listed>>
  BY <1>1 DEF requestVars
<1>3. NodeTypeOK' /\ Len(chain') <= MaxHeight
  BY <1>1, NodeSteps DEF LookupInv, LookupTypeOK, ChainOK
<1>4. TxsOfBlocks(chain') \subseteq Txs /\ TxsOfBlocks(chain) \subseteq Txs
  <2>1. chain' \in Seq(Payloads)
    BY <1>3 DEF NodeTypeOK
  <2> QED
    BY <2>1, ChainFacts, TxsOfBlocksType
<1>5. /\ held \subseteq held' /\ steady' \subseteq steady
      /\ answer # Nil => held' = held
      /\ call # Nil /\ answer = Nil => held' = held \cup Standings(call, chain')
      /\ call # Nil => steady' = steady \cap Listing(call, chain')
  BY <1>1 DEF Observe
<1>6. ASSUME pc \in Searching, ByOutPoint(call), NEW x, held' = {x}
      PROVE  held = {x}
  <2>1. answer = Nil /\ pc # "idle"
    BY <1>6 DEF LookupInv, Stages, Searching, Describing
  <2>2. call \in Requests /\ call # Nil
    BY <2>1, CallFacts DEF LookupInv
  <2>3. call.target \in Watched(call)
    BY <1>6, <2>2, RequestFacts
  <2>4. held # {}
    BY <2>1, <2>2, <2>3, StandsNow
  <2> QED
    BY <1>5, <1>6, <2>4
<1>7. LookupTypeOK'
  <2>1. LookupTypeOK
    BY DEF LookupInv
  <2>2. pool' \in SUBSET ((pool \cup TxsOfBlocks(chain)) \ TxsOfBlocks(chain'))
        /\ mined' = mined \cup TxsOfBlocks(chain')
    BY DEF ChainMoves
  <2>3. pool' \subseteq Txs /\ mined' \subseteq Txs /\ pool' \cap TxsOfBlocks(chain') = {}
    BY <1>4, <2>1, <2>2 DEF LookupTypeOK
  <2> QED
    BY <1>2, <1>3, <2>1, <2>3 DEF LookupTypeOK
<1>8. Stages' /\ CellAsked'
  BY <1>2 DEF LookupInv, Stages, CellAsked, Said
<1>9. ChainOK'
  BY <1>1, <1>3 DEF ChainOK
<1>10. Witnessed' /\ SteadyListed'
  BY <1>2, <1>5 DEF Witnessed, SteadyListed
<1>11. NoneLive'
  BY <1>2, <1>5 DEF LookupInv, NoneLive
<1>12. PageSeen' /\ SpenderSeen'
  BY <1>2, <1>5 DEF LookupInv, PageSeen, SpenderSeen, Seen
<1>13. SpenderAhead'
  <2> SUFFICES ASSUME NEW x \in held', pc \in Searching, ByOutPoint(call), held' = {x},
                      x[2].is = "spent"
               PROVE  /\ since <= x[2].at[1]
                      /\ \E i \in DOMAIN InputsOf[x[2].by] :
                           /\ InputsOf[x[2].by][i] = cell
                           /\ Ahead(EntryOf(x[2].by, x[2].at, i, TRUE))
    BY <1>2 DEF SpenderAhead, Ahead
  <2>1. held = {x} /\ x \in held
    BY <1>6
  <2> QED
    BY <2>1 DEF LookupInv, SpenderAhead
<1>14. PagesToCome'
  BY <1>2, <1>5 DEF LookupInv, PagesToCome
<1>15. AnswersHeld' /\ SpenderFound' /\ PagesComplete'
  BY <1>2, <1>5 DEF LookupInv, AnswersHeld, SpenderFound, PagesComplete, Said
<1> QED
  BY <1>7, <1>8, <1>9, <1>10, <1>11, <1>12, <1>13, <1>14, <1>15 DEF LookupInv

LEMMA LookupStarts == LookupInit => LookupInv
<1> SUFFICES ASSUME LookupInit PROVE LookupInv
  OBVIOUS
<1>1. NodeTypeOK /\ ValidBlocks(chain) /\ Len(chain) <= MaxHeight
  BY NodeStarts DEF LookupInit
<1>2. TxsOfBlocks(chain) \subseteq Txs
  BY <1>1, TxsOfBlocksType DEF NodeTypeOK
<1>3. LookupTypeOK
  BY <1>1, <1>2, MaxHeightAssumption DEF LookupInit, LookupTypeOK
<1>4. ChainOK /\ Stages /\ CellAsked /\ Witnessed /\ NoneLive
  BY <1>1 DEF LookupInit, ChainOK, Stages, CellAsked, Witnessed, NoneLive,
              Asking, Searching, Paging, Describing, Said
<1>5. PageSeen /\ SpenderSeen /\ SpenderAhead /\ SteadyListed /\ PagesToCome
  BY DEF LookupInit, PageSeen, SpenderSeen, SpenderAhead, SteadyListed, PagesToCome, Searching
<1>6. AnswersHeld /\ SpenderFound /\ PagesComplete
  BY DEF LookupInit, AnswersHeld, SpenderFound, PagesComplete, Said
<1> QED
  BY <1>3, <1>4, <1>5, <1>6 DEF LookupInv

LEMMA LookupSteps == LookupInv /\ [LookupNext]_lookupVars => LookupInv'
<1> SUFFICES ASSUME LookupInv, [LookupNext]_lookupVars PROVE LookupInv'
  OBVIOUS
<1>1. CASE ChainMoves
  BY <1>1, ChainMovesKeeps
<1>2. CASE Submit
  BY <1>2, SubmitKeeps
<1>3. CASE \E r \in Requests : Begin(r)
  BY <1>3, BeginKeeps
<1>4. CASE ReadCache \/ GetCell \/ GetCellLive \/ GetCellTx
  BY <1>4, ReadCacheKeeps, GetCellKeeps, GetCellLiveKeeps, GetCellTxKeeps
<1>5. CASE ReadPage \/ CheckEntry \/ NoSpender
  BY <1>5, ReadPageKeeps, CheckEntryKeeps, NoSpenderKeeps
<1>6. CASE FindLive \/ ReadUtxoEntry \/ UtxoEnd
  BY <1>6, FindLiveKeeps, ReadUtxoEntryKeeps, UtxoEndKeeps
<1>7. CASE Describe \/ Bind
  BY <1>7, DescribeKeeps, BindKeeps
<1>8. CASE ListPage \/ DescribePage \/ Reply
  BY <1>8, ListPageKeeps, DescribePageKeeps, ReplyKeeps
<1>9. CASE UNCHANGED lookupVars
  BY <1>9, StutterKeeps
<1> QED
  BY <1>1, <1>2, <1>3, <1>4, <1>5, <1>6, <1>7, <1>8, <1>9 DEF LookupNext, RequestStep

(***************************************************************************)
(* Theorems                                                                *)
(***************************************************************************)

\* Whatever the node's chain does between the calls of a request, at each of
\* its steps the request has seen how the cells it asks about stand, and the
\* spender that stays is on a page it has not passed.
THEOREM LookupCorrect == LookupSpec => []LookupInv
BY LookupStarts, LookupSteps, PTL DEF LookupSpec

\* Each step of CellService finds the cell or the page it works on, and what
\* is answered is of the kinds the controllers tell apart.
THEOREM LookupTypes == LookupSpec => []LookupTypeOK
<1>1. LookupInv => LookupTypeOK
  BY DEF LookupInv
<1> QED
  BY <1>1, LookupCorrect, PTL

\* A cell answered to be live was live on the node's chain at some moment of
\* the request, and one answered to be spent was not (getCellLive).
THEOREM AnswersAreOfTheChain == LookupSpec => []AnswersHeld
<1>1. LookupInv => AnswersHeld
  BY DEF LookupInv
<1> QED
  BY <1>1, LookupCorrect, PTL

\* An entry of the page that names a cell's spender is that of an input.
LEMMA SpenderIs ==
  ASSUME LookupInv, Said("spent"), ByOutPoint(call), spender # Nil
  PROVE  /\ spender \in EntryRecords /\ BelongsTo(spender, SearchKey)
         /\ spender.isInput /\ Spends(spender.tx, cell) /\ cell # Nil
         /\ <<cell, SpentBy(spender.tx, spender.place)>> \in held
BY SearchKeyIs DEF LookupInv, SpenderSeen, Seen, Stages

\* The spender that getCellSpender names did spend the cell, at the place of
\* the chain it names, at some moment of the request.
THEOREM SpenderDidSpend == LookupSpec => []SpenderHeld
<1>1. LookupInv => SpenderHeld
  BY SpenderIs DEF SpenderHeld, SpentBy
<1> QED
  BY <1>1, LookupCorrect, PTL

\* The input index that getCellSpender names is the index of an input with the
\* lock and type of the cell, and of the cell itself unless the transaction
\* spends several cells of these scripts.
THEOREM SpenderIndexIsOfCell == LookupSpec => []SpenderNamed
<1>1. ASSUME LookupInv PROVE SpenderNamed
  <2> SUFFICES ASSUME Said("spent"), ByOutPoint(call), spender # Nil
               PROVE  LET ins == InputsOf[spender.tx]
                          same == {i \in DOMAIN ins : Matches(ins[i], SearchKey)}
                      IN  /\ spender.isInput /\ spender.index \in same
                          /\ same = {spender.index} => ins[spender.index] = cell
    BY DEF SpenderNamed
  <2> DEFINE ins == InputsOf[spender.tx]
             same == {i \in DOMAIN ins : Matches(ins[i], SearchKey)}
  <2>1. /\ spender \in EntryRecords /\ BelongsTo(spender, SearchKey)
        /\ spender.isInput /\ Spends(spender.tx, cell) /\ cell # Nil
    BY <1>1, SpenderIs
  <2>2. spender.index \in same
    BY <2>1 DEF BelongsTo
  <2>3. PICK j \in DOMAIN ins : ins[j] = cell
    BY <2>1 DEF Spends, Range
  <2>4. Matches(cell, SearchKey)
    BY SearchKeyIs DEF Matches, SearchKey, ByOutPoint
  <2>5. j \in same
    BY <2>3, <2>4
  <2> QED
    BY <2>1, <2>2, <2>3, <2>5
<1> QED
  BY <1>1, LookupCorrect, PTL

\* A cell that stays spent by one transaction at one place is found to be
\* spent by it, however far down the pages of findTransactions that is and
\* whatever the node does to the rest of its chain meanwhile.
THEOREM SpenderIsFound == LookupSpec => []SpenderFound
<1>1. LookupInv => SpenderFound
  BY DEF LookupInv
<1> QED
  BY <1>1, LookupCorrect, PTL

\* A client that follows the cursors of findCellsPaged to the end is given
\* every cell of the token that stayed live where it was.
THEOREM PagesAreComplete == LookupSpec => []PagesComplete
<1>1. LookupInv => PagesComplete
  BY DEF LookupInv
<1> QED
  BY <1>1, LookupCorrect, PTL

=============================================================================
