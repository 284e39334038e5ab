-------------------------- MODULE AssetEventsProofs --------------------------
(***************************************************************************)
(* Proofs about AssetEvents: in whatever order the lookups of a            *)
(* transaction's cells complete, what is told of it is the same.           *)
(***************************************************************************)
EXTENDS AssetEvents, FiniteLemmas

(***************************************************************************)
(* The inductive invariant                                                 *)
(***************************************************************************)

Cells == UNION {Range(InputsFound(tx)) \cup Range(tx.outs) : tx \in AssetTxs}
Tokens == {c.id : c \in Cells} \cup {NoToken}
Events == {"Burn", "Mint", "Issue", "Transfer", "BurnAndTransfer", "MintAndTransfer"}
LeapTypes == {"None", "NoBinding", "ToUtxo", "FromUtxo"}
Told ==
  [cell : Cells, index : Nat, event : Events, leap : LeapTypes, token : Tokens, amount : Nat]
Groups == [token : Tokens, inTotal : Nat, inAt : SUBSET Nat, outTotal : Nat, outAt : SUBSET Nat]

IsToken(c, token) == c.mode = "udt" /\ c.id = token

\* The transaction asked for is one of the chain's.
AssetOK ==
  /\ asset.ins \in Seq(Cells) /\ asset.outs \in Seq(Cells)
  /\ \A i, j \in DOMAIN asset.ins : i # j => ~SameNft(asset.ins[i], asset.ins[j])
  /\ inputs \in Seq(Told) /\ outputs \in Seq(Told)
  /\ groups \in Seq(Groups)

Working == phase \in {"inputs", "outputs"}

\* What there is at each phase, and what is left to do.
PhasesOK ==
  /\ phase \in {"none", "inputs", "outputs", "answered", "failed"}
  /\ phase = "none" => asset.ins = <<>> /\ asset.outs = <<>> /\ inputs = <<>> /\ groups = <<>>
  /\ phase \in {"none", "inputs"} => outputs = <<>>
  /\ phase = "inputs" => todo \subseteq Positions(asset.ins)
  /\ phase = "outputs" => todo \subseteq Positions(asset.outs)
  /\ ~Working => todo = {}

\* The callbacks that have completed.
InsDone == IF phase = "inputs" THEN Positions(asset.ins) \ todo ELSE Positions(asset.ins)
OutsDone == IF phase = "inputs" THEN {} ELSE Positions(asset.outs) \ todo

\* A list tells of each of these cells once.
Tells(list, cells, done) ==
  /\ \A n \in DOMAIN list : list[n].index \in done /\ list[n].cell = cells[list[n].index]
  /\ \A m, n \in DOMAIN list : list[m].index = list[n].index => m = n
  /\ \A i \in done : \E n \in DOMAIN list : list[n].index = i
  /\ Len(list) = Cardinality(done)

ListsOK ==
  Working \/ phase = "answered" =>
    Tells(inputs, asset.ins, InsDone) /\ Tells(outputs, asset.outs, OutsDone)

\* Where the cells of a token are in a list.
PositionsOf(list, token) == {n \in DOMAIN list : IsToken(list[n].cell, token)}

\* There is a group for each token that has come up, and only for those.
Grouped(gs, ins, outs) ==
  /\ \A g, h \in DOMAIN gs : gs[g].token = gs[h].token => g = h
  /\ \A g \in DOMAIN gs : gs[g].inAt = PositionsOf(ins, gs[g].token)
  /\ \A g \in DOMAIN gs : gs[g].outAt = PositionsOf(outs, gs[g].token)
  /\ \A n \in DOMAIN ins : ins[n].cell.mode = "udt" =>
       \E g \in DOMAIN gs : gs[g].token = ins[n].cell.id
  /\ \A n \in DOMAIN outs : outs[n].cell.mode = "udt" =>
       \E g \in DOMAIN gs : gs[g].token = outs[n].cell.id

GroupsOK == Grouped(groups, inputs, outputs)

TokensAreOfTx ==
  \A g \in DOMAIN groups :
    \E c \in Range(asset.ins) \cup Range(asset.outs) : IsToken(c, groups[g].token)

AmountsOf(cells) == [i \in DOMAIN cells |-> cells[i].amount]
SumOf(cells, token, done) ==
  SumFunctionOnSet(AmountsOf(cells), {i \in done : IsToken(cells[i], token)})

Summed(gs, inCells, insDone, outCells, outsDone) ==
  \A g \in DOMAIN gs :
    /\ gs[g].inTotal = SumOf(inCells, gs[g].token, insDone)
    /\ gs[g].outTotal = SumOf(outCells, gs[g].token, outsDone)

\* A group adds up what its token's cells hold.
TotalsOK ==
  Working \/ phase = "answered" => Summed(groups, asset.ins, InsDone, asset.outs, OutsDone)

\* A cell of a token is told with it.
TokensTold ==
  /\ \A n \in DOMAIN inputs : inputs[n].cell.mode = "udt" => inputs[n].token = inputs[n].cell.id
  /\ \A n \in DOMAIN outputs :
       outputs[n].cell.mode = "udt" => outputs[n].token = outputs[n].cell.id

\* Before the totals are looked at, events are those of NFTs.
InEvent(c, done) == IF \E j \in done : SameNft(c, asset.outs[j]) THEN "Transfer" ELSE "Burn"
OutEvent(c) ==
  IF \E i \in DOMAIN asset.ins : SameNft(asset.ins[i], c) THEN "Transfer"
  ELSE IF c.mode = "cluster" THEN "Issue" ELSE "Mint"
NoLeap(c) == IF c.btc THEN "None" ELSE "NoBinding"

EventsSoFar ==
  Working =>
    /\ \A n \in DOMAIN inputs :
         /\ inputs[n].event = InEvent(inputs[n].cell, OutsDone)
         /\ inputs[n].leap = NoLeap(inputs[n].cell)
    /\ \A n \in DOMAIN outputs :
         /\ outputs[n].event = OutEvent(outputs[n].cell)
         /\ outputs[n].leap = NoLeap(outputs[n].cell)

AssetInv ==
  /\ AssetOK /\ PhasesOK /\ ListsOK /\ GroupsOK /\ TokensAreOfTx /\ TotalsOK /\ TokensTold
  /\ EventsSoFar /\ EventsAreOfTx /\ IssuesAreOfTx

(***************************************************************************)
(* Sequences and cells                                                     *)
(***************************************************************************)

LEMMA AppendIs ==
  ASSUME NEW S, NEW s \in Seq(S), NEW e \in S
  PROVE  /\ Append(s, e) \in Seq(S) /\ Len(s) \in Nat
         /\ DOMAIN s = 1..Len(s) /\ DOMAIN Append(s, e) = 1..(Len(s) + 1)
         /\ Len(Append(s, e)) = Len(s) + 1
         /\ Append(s, e)[Len(s) + 1] = e
         /\ \A n \in DOMAIN s : Append(s, e)[n] = s[n] /\ n # Len(s) + 1
OBVIOUS

LEMMA MapIsSeq ==
  ASSUME NEW S, NEW s \in Seq(S), NEW T, NEW f, f = [n \in DOMAIN s |-> f[n]],
         \A n \in DOMAIN s : f[n] \in T
  PROVE  f \in Seq(T) /\ DOMAIN f = DOMAIN s /\ Len(f) = Len(s)
<1>1. DOMAIN s = 1..Len(s) /\ Len(s) \in Nat
  OBVIOUS
<1>2. f \in [1..Len(s) -> T]
  BY <1>1
<1> QED
  BY <1>1, <1>2

LEMMA CellsAre ==
  \A c \in Cells : c.mode \in Modes /\ c.amount \in Nat /\ c.btc \in BOOLEAN /\ c.id \in Tokens
BY AssetTxsAssumption DEF Cells, Tokens

LEMMA CellAt ==
  ASSUME NEW cells \in Seq(Cells), NEW i \in DOMAIN cells
  PROVE  cells[i] \in Cells /\ i \in Nat /\ cells[i] \in Range(cells)
BY DEF Range

LEMMA PositionsAre ==
  ASSUME NEW cells \in Seq(Cells)
  PROVE  /\ Positions(cells) \subseteq DOMAIN cells /\ IsFiniteSet(Positions(cells))
         /\ IsFiniteSet(DOMAIN cells)
<1>1. DOMAIN cells = 1..Len(cells) /\ Len(cells) \in Nat
  OBVIOUS
<1>2. IsFiniteSet(1..Len(cells))
  BY <1>1, FS_Interval
<1>3. Positions(cells) \subseteq DOMAIN cells
  BY DEF Positions
<1> QED
  BY <1>1, <1>2, <1>3, FS_Subset

LEMMA EntryIs ==
  ASSUME NEW c \in Cells, NEW i \in Nat, NEW event \in Events
  PROVE  /\ Entry(c, i, event) \in Told
         /\ Entry(c, i, event).cell = c /\ Entry(c, i, event).index = i
         /\ Entry(c, i, event).event = event /\ Entry(c, i, event).leap = NoLeap(c)
         /\ c.mode = "udt" => Entry(c, i, event).token = c.id
<1> DEFINE leap == NoLeap(c)
           token == IF c.mode = "udt" THEN c.id ELSE NoToken
<1>1. leap \in LeapTypes /\ leap = NoLeap(c)
  BY DEF NoLeap, LeapTypes
<1>2. token \in Tokens /\ (c.mode = "udt" => token = c.id) /\ c.amount \in Nat
  <2>1. NoToken \in Tokens
    BY DEF Tokens
  <2> QED
    BY <2>1, CellsAre
<1>3. Entry(c, i, event) = [cell |-> c, index |-> i, event |-> event, leap |-> leap,
                            token |-> token, amount |-> c.amount]
  BY DEF Entry, NoLeap
<1> HIDE DEF leap, token
<1> QED
  BY <1>1, <1>2, <1>3 DEF Told

(***************************************************************************)
(* A callback adds to the lists                                            *)
(***************************************************************************)

LEMMA TellsMore ==
  ASSUME NEW cells, NEW list \in Seq(Told), NEW done, IsFiniteSet(done),
         Tells(list, cells, done), NEW i, i \notin done,
         NEW e \in Told, e.index = i, e.cell = cells[i]
  PROVE  Tells(Append(list, e), cells, done \cup {i})
<1> DEFINE more == Append(list, e)
<1>1. /\ Len(list) \in Nat /\ DOMAIN list = 1..Len(list)
      /\ DOMAIN more = 1..(Len(list) + 1) /\ Len(more) = Len(list) + 1
      /\ more[Len(list) + 1] = e
      /\ \A n \in DOMAIN list : more[n] = list[n] /\ n # Len(list) + 1
  BY AppendIs
<1> HIDE DEF more
<1>2. \A n \in DOMAIN more : n \in DOMAIN list \/ n = Len(list) + 1
  BY <1>1
<1>3. \A n \in DOMAIN list : n \in DOMAIN more
  BY <1>1
<1>4. \A n \in DOMAIN list : list[n].index \in done /\ list[n].cell = cells[list[n].index]
  BY DEF Tells
<1>5. \A n \in DOMAIN more : more[n].index \in done \cup {i} /\ more[n].cell = cells[more[n].index]
  BY <1>1, <1>2, <1>4
<1>6. \A m, n \in DOMAIN more : more[m].index = more[n].index => m = n
  <2>1. \A m, n \in DOMAIN list : list[m].index = list[n].index => m = n
    BY DEF Tells
  <2> QED
    BY <1>1, <1>2, <1>4, <2>1
<1>7. \A j \in done \cup {i} : \E n \in DOMAIN more : more[n].index = j
  <2>1. \A j \in done : \E n \in DOMAIN list : list[n].index = j
    BY DEF Tells
  <2>2. Len(list) + 1 \in DOMAIN more
    BY <1>1
  <2> QED
    BY <1>1, <1>3, <2>1, <2>2
<1>8. Cardinality(done \cup {i}) = Cardinality(done) + 1
  BY FS_AddElement
<1>9. Len(more) = Cardinality(done \cup {i})
  BY <1>1, <1>8 DEF Tells
<1> QED
  BY <1>5, <1>6, <1>7, <1>9 DEF Tells, more

\* What is told of the cells does not change where they are.
LEMMA TellsStill ==
  ASSUME NEW cells, NEW done, NEW list, NEW list2, DOMAIN list2 = DOMAIN list,
         Len(list2) = Len(list), Tells(list, cells, done),
         \A n \in DOMAIN list : list2[n].index = list[n].index /\ list2[n].cell = list[n].cell
  PROVE  Tells(list2, cells, done)
BY DEF Tells

(***************************************************************************)
(* And to the group of its token                                           *)
(***************************************************************************)

LEMMA GroupedStill ==
  ASSUME NEW gs, NEW ins, NEW outs, NEW ins2, NEW outs2, Grouped(gs, ins, outs),
         DOMAIN ins2 = DOMAIN ins, DOMAIN outs2 = DOMAIN outs,
         \A n \in DOMAIN ins : ins2[n].cell = ins[n].cell,
         \A n \in DOMAIN outs : outs2[n].cell = outs[n].cell
  PROVE  Grouped(gs, ins2, outs2)
<1>1. \A token : PositionsOf(ins2, token) = PositionsOf(ins, token)
  BY DEF PositionsOf
<1>2. \A token : PositionsOf(outs2, token) = PositionsOf(outs, token)
  BY DEF PositionsOf
<1>3. \A n \in DOMAIN ins2 : ins2[n].cell.mode = "udt" =>
        \E g \in DOMAIN gs : gs[g].token = ins2[n].cell.id
  BY DEF Grouped
<1>4. \A n \in DOMAIN outs2 : outs2[n].cell.mode = "udt" =>
        \E g \in DOMAIN gs : gs[g].token = outs2[n].cell.id
  BY DEF Grouped
<1> QED
  BY <1>1, <1>2, <1>3, <1>4 DEF Grouped

\* A token that comes up is given a group.
LEMMA JoinedIs ==
  ASSUME NEW c \in Cells, c.mode = "udt", groups \in Seq(Groups), GroupsOK
  PROVE  /\ Joined(c) \in Seq(Groups) /\ Grouped(Joined(c), inputs, outputs)
         /\ \E g \in DOMAIN Joined(c) : Joined(c)[g].token = c.id
         /\ \A g \in DOMAIN Joined(c) :
              \/ g \in DOMAIN groups /\ Joined(c)[g] = groups[g]
              \/ /\ Joined(c)[g] = Untouched(c.id)
                 /\ PositionsOf(inputs, c.id) = {} /\ PositionsOf(outputs, c.id) = {}
<1>1. CASE \E g \in DOMAIN groups : groups[g].token = c.id
  <2>1. Joined(c) = groups
    BY <1>1 DEF Joined
  <2> QED
    BY <1>1, <2>1 DEF GroupsOK
<1>2. CASE ~\E g \in DOMAIN groups : groups[g].token = c.id
  <2> DEFINE new == Untouched(c.id)
             J == Append(groups, new)
             k == Len(groups) + 1
  <2>1. new \in Groups /\ new.token = c.id /\ new.inAt = {} /\ new.outAt = {}
    BY CellsAre DEF Untouched, Groups
  <2>2. Joined(c) = J
    BY <1>2 DEF Joined
  <2> HIDE DEF new
  <2>3. /\ J \in Seq(Groups) /\ DOMAIN J = 1..k /\ J[k] = new /\ k \in DOMAIN J
        /\ \A g \in DOMAIN groups : J[g] = groups[g] /\ g # k /\ g \in DOMAIN J
        /\ \A g \in DOMAIN J : g \in DOMAIN groups \/ g = k
    BY <2>1, AppendIs
  <2> HIDE DEF J, k
  <2>4. PositionsOf(inputs, c.id) = {} /\ PositionsOf(outputs, c.id) = {}
    BY <1>2 DEF GroupsOK, Grouped, PositionsOf, IsToken
  <2>5. \A g, h \in DOMAIN J : J[g].token = J[h].token => g = h
    BY <1>2, <2>1, <2>3 DEF GroupsOK, Grouped
  <2>6. \A g \in DOMAIN J : /\ J[g].inAt = PositionsOf(inputs, J[g].token)
                            /\ J[g].outAt = PositionsOf(outputs, J[g].token)
    BY <2>1, <2>3, <2>4 DEF GroupsOK, Grouped
  <2>7. /\ \A n \in DOMAIN inputs : inputs[n].cell.mode = "udt" =>
             \E g \in DOMAIN J : J[g].token = inputs[n].cell.id
        /\ \A n \in DOMAIN outputs : outputs[n].cell.mode = "udt" =>
             \E g \in DOMAIN J : J[g].token = outputs[n].cell.id
    BY <2>3 DEF GroupsOK, Grouped
  <2>8. Grouped(J, inputs, outputs)
    BY <2>5, <2>6, <2>7 DEF Grouped
  <2> QED
    BY <2>1, <2>2, <2>3, <2>4, <2>8 DEF new
<1> QED
  BY <1>1, <1>2

\* Its place in the list is added to the group, on the side it is on.
LEMMA WithIs ==
  ASSUME NEW c \in Cells, c.mode = "udt", groups \in Seq(Groups), GroupsOK,
         NEW side \in {"in", "out"}, NEW at \in Nat
  PROVE  /\ With(c, side, at) \in Seq(Groups)
         /\ DOMAIN With(c, side, at) = DOMAIN Joined(c)
         /\ \A g \in DOMAIN Joined(c) :
              LET old == Joined(c)[g]
                  new == With(c, side, at)[g]
              IN  /\ new.token = old.token
                  /\ (old.token # c.id \/ side = "out") =>
                       new.inTotal = old.inTotal /\ new.inAt = old.inAt
                  /\ (old.token # c.id \/ side = "in") =>
                       new.outTotal = old.outTotal /\ new.outAt = old.outAt
                  /\ (old.token = c.id /\ side = "in") =>
                       /\ new.inTotal = old.inTotal + c.amount
                       /\ new.inAt = old.inAt \cup {at}
                  /\ (old.token = c.id /\ side = "out") =>
                       /\ new.outTotal = old.outTotal + c.amount
                       /\ new.outAt = old.outAt \cup {at}
<1> DEFINE J == Joined(c)
           W == With(c, side, at)
<1>1. J \in Seq(Groups)
  BY JoinedIs
<1>2. W = [g \in DOMAIN J |->
            CASE J[g].token # c.id -> J[g]
              [] J[g].token = c.id /\ side = "in" ->
                   [J[g] EXCEPT !.inTotal = @ + c.amount, !.inAt = @ \cup {at}]
              [] OTHER ->
                   [J[g] EXCEPT !.outTotal = @ + c.amount, !.outAt = @ \cup {at}]]
  BY DEF With
<1>3. c.amount \in Nat
  BY CellsAre
<1> HIDE DEF J, W
<1>4. ASSUME NEW g \in DOMAIN J
      PROVE  /\ W[g] \in Groups
             /\ W[g].token = J[g].token
             /\ (J[g].token # c.id \/ side = "out") =>
                  W[g].inTotal = J[g].inTotal /\ W[g].inAt = J[g].inAt
             /\ (J[g].token # c.id \/ side = "in") =>
                  W[g].outTotal = J[g].outTotal /\ W[g].outAt = J[g].outAt
             /\ (J[g].token = c.id /\ side = "in") =>
                  W[g].inTotal = J[g].inTotal + c.amount /\ W[g].inAt = J[g].inAt \cup {at}
             /\ (J[g].token = c.id /\ side = "out") =>
                  W[g].outTotal = J[g].outTotal + c.amount /\ W[g].outAt = J[g].outAt \cup {at}
  <2>1. J[g] \in Groups
    BY <1>1
  <2>2. CASE J[g].token # c.id
    BY <1>2, <2>1, <2>2
  <2>3. CASE J[g].token = c.id /\ side = "in"
    <3>1. W[g] = [J[g] EXCEPT !.inTotal = @ + c.amount, !.inAt = @ \cup {at}]
      BY <1>2, <2>3
    <3>2. /\ J[g].inTotal + c.amount \in Nat /\ J[g].inAt \cup {at} \in SUBSET Nat
          /\ J[g] = [token |-> J[g].token, inTotal |-> J[g].inTotal, inAt |-> J[g].inAt,
                     outTotal |-> J[g].outTotal, outAt |-> J[g].outAt]
      BY <1>3, <2>1 DEF Groups
    <3>3. W[g] = [token |-> J[g].token, inTotal |-> J[g].inTotal + c.amount,
                  inAt |-> J[g].inAt \cup {at},
                  outTotal |-> J[g].outTotal, outAt |-> J[g].outAt]
      BY <3>1, <3>2
    <3> QED
      BY <2>1, <2>3, <3>2, <3>3 DEF Groups
  <2>4. CASE J[g].token = c.id /\ side = "out"
    <3>1. W[g] = [J[g] EXCEPT !.outTotal = @ + c.amount, !.outAt = @ \cup {at}]
      BY <1>2, <2>4
    <3>2. /\ J[g].outTotal + c.amount \in Nat /\ J[g].outAt \cup {at} \in SUBSET Nat
          /\ J[g] = [token |-> J[g].token, inTotal |-> J[g].inTotal, inAt |-> J[g].inAt,
                     outTotal |-> J[g].outTotal, outAt |-> J[g].outAt]
      BY <1>3, <2>1 DEF Groups
    <3>3. W[g] = [token |-> J[g].token, inTotal |-> J[g].inTotal, inAt |-> J[g].inAt,
                  outTotal |-> J[g].outTotal + c.amount,
                  outAt |-> J[g].outAt \cup {at}]
      BY <3>1, <3>2
    <3> QED
      BY <2>1, <2>4, <3>2, <3>3 DEF Groups
  <2> QED
    BY <2>2, <2>3, <2>4
<1>5. W = [g \in DOMAIN J |-> W[g]]
  BY <1>2
<1>6. W \in Seq(Groups) /\ DOMAIN W = DOMAIN J
  BY <1>1, <1>4, <1>5, MapIsSeq
<1> QED
  BY <1>4, <1>6 DEF J, W

\* One more position in a list.
LEMMA PositionsOfMore ==
  ASSUME NEW list \in Seq(Told), NEW e \in Told, NEW token
  PROVE  PositionsOf(Append(list, e), token) =
           IF IsToken(e.cell, token) THEN PositionsOf(list, token) \cup {Len(list) + 1}
           ELSE PositionsOf(list, token)
<1> DEFINE more == Append(list, e)
<1>1. /\ Len(list) \in Nat /\ DOMAIN list = 1..Len(list) /\ DOMAIN more = 1..(Len(list) + 1)
      /\ more[Len(list) + 1] = e
      /\ \A n \in DOMAIN list : more[n] = list[n] /\ n # Len(list) + 1
  BY AppendIs
<1> HIDE DEF more
<1>2. \A n : n \in DOMAIN more <=> n \in DOMAIN list \/ n = Len(list) + 1
  BY <1>1
<1>3. \A n : n \in PositionsOf(more, token) <=>
               \/ n \in DOMAIN list /\ IsToken(list[n].cell, token)
               \/ n = Len(list) + 1 /\ IsToken(e.cell, token)
  BY <1>1, <1>2 DEF PositionsOf
<1>4. \A n : n \in PositionsOf(list, token) <=> n \in DOMAIN list /\ IsToken(list[n].cell, token)
  BY DEF PositionsOf
<1> QED
  BY <1>3, <1>4 DEF more

LEMMA GroupInputIs ==
  ASSUME NEW c \in Cells, groups \in Seq(Groups), GroupsOK, inputs \in Seq(Told),
         NEW e \in Told, e.cell = c
  PROVE  /\ GroupInput(c) \in Seq(Groups)
         /\ Grouped(GroupInput(c), Append(inputs, e), outputs)
         /\ \A g \in DOMAIN GroupInput(c) :
              \/ IsToken(c, GroupInput(c)[g].token)
              \/ \E h \in DOMAIN groups : groups[h].token = GroupInput(c)[g].token
<1> DEFINE more == Append(inputs, e)
           at == Len(inputs) + 1
<1>1. /\ Len(inputs) \in Nat /\ DOMAIN inputs = 1..Len(inputs) /\ DOMAIN more = 1..at
      /\ more[at] = e /\ at \in Nat
      /\ \A n \in DOMAIN inputs : more[n] = inputs[n]
      /\ \A n \in DOMAIN more : n \in DOMAIN inputs \/ n = at
  BY AppendIs
<1>2. \A token : PositionsOf(more, token) =
                   IF IsToken(c, token) THEN PositionsOf(inputs, token) \cup {at}
                   ELSE PositionsOf(inputs, token)
  BY PositionsOfMore
<1> HIDE DEF more, at
<1>3. CASE c.mode # "udt"
  <2>1. GroupInput(c) = groups
    BY <1>3 DEF GroupInput
  <2>2. \A token : PositionsOf(more, token) = PositionsOf(inputs, token)
    BY <1>2, <1>3 DEF IsToken
  <2>3. \A n \in DOMAIN more : more[n].cell.mode = "udt" =>
          \E g \in DOMAIN groups : groups[g].token = more[n].cell.id
    BY <1>1, <1>3 DEF GroupsOK, Grouped
  <2>4. Grouped(groups, more, outputs)
    BY <2>2, <2>3 DEF GroupsOK, Grouped
  <2> QED
    BY <2>1, <2>4 DEF more
<1>4. CASE c.mode = "udt"
  <2> DEFINE J == Joined(c)
             W == With(c, "in", at)
  <2>1. GroupInput(c) = W
    BY <1>4 DEF GroupInput, at
  <2>2. /\ J \in Seq(Groups) /\ Grouped(J, inputs, outputs)
        /\ \E g \in DOMAIN J : J[g].token = c.id
        /\ \A g \in DOMAIN J : \/ g \in DOMAIN groups /\ J[g] = groups[g]
                               \/ J[g] = Untouched(c.id)
    BY <1>4, JoinedIs
  <2>3. /\ W \in Seq(Groups) /\ DOMAIN W = DOMAIN J
        /\ \A g \in DOMAIN J :
             /\ W[g].token = J[g].token /\ W[g].outAt = J[g].outAt
             /\ J[g].token # c.id => W[g].inAt = J[g].inAt
             /\ J[g].token = c.id => W[g].inAt = J[g].inAt \cup {at}
    BY <1>1, <1>4, WithIs
  <2> HIDE DEF J, W
  <2>4. \A g, h \in DOMAIN W : W[g].token = W[h].token => g = h
    BY <2>2, <2>3 DEF Grouped
  <2>5. \A g \in DOMAIN W : W[g].outAt = PositionsOf(outputs, W[g].token)
    BY <2>2, <2>3 DEF Grouped
  <2>6. \A g \in DOMAIN W : W[g].inAt = PositionsOf(more, W[g].token)
    <3> TAKE g \in DOMAIN W
    <3>1. J[g].inAt = PositionsOf(inputs, J[g].token)
      BY <2>2, <2>3 DEF Grouped
    <3>2. IsToken(c, J[g].token) <=> J[g].token = c.id
      BY <1>4 DEF IsToken
    <3> QED
      BY <1>2, <2>3, <3>1, <3>2
  <2>7. \A n \in DOMAIN more : more[n].cell.mode = "udt" =>
          \E g \in DOMAIN W : W[g].token = more[n].cell.id
    BY <1>1, <2>2, <2>3 DEF Grouped
  <2>8. \A n \in DOMAIN outputs : outputs[n].cell.mode = "udt" =>
          \E g \in DOMAIN W : W[g].token = outputs[n].cell.id
    BY <2>2, <2>3 DEF Grouped
  <2>9. Grouped(W, more, outputs)
    BY <2>4, <2>5, <2>6, <2>7, <2>8 DEF Grouped
  <2>10. \A g \in DOMAIN W :
           \/ IsToken(c, W[g].token)
           \/ \E h \in DOMAIN groups : groups[h].token = W[g].token
    BY <1>4, <2>2, <2>3 DEF Untouched, IsToken
  <2> QED
    BY <2>1, <2>3, <2>9, <2>10 DEF more
<1> QED
  BY <1>3, <1>4

LEMMA GroupOutputIs ==
  ASSUME NEW c \in Cells, groups \in Seq(Groups), GroupsOK, outputs \in Seq(Told),
         NEW e \in Told, e.cell = c
  PROVE  /\ GroupOutput(c) \in Seq(Groups)
         /\ Grouped(GroupOutput(c), inputs, Append(outputs, e))
         /\ \A g \in DOMAIN GroupOutput(c) :
              \/ IsToken(c, GroupOutput(c)[g].token)
              \/ \E h \in DOMAIN groups : groups[h].token = GroupOutput(c)[g].token
<1> DEFINE more == Append(outputs, e)
           at == Len(outputs) + 1
<1>1. /\ Len(outputs) \in Nat /\ DOMAIN outputs = 1..Len(outputs) /\ DOMAIN more = 1..at
      /\ more[at] = e /\ at \in Nat
      /\ \A n \in DOMAIN outputs : more[n] = outputs[n]
      /\ \A n \in DOMAIN more : n \in DOMAIN outputs \/ n = at
  BY AppendIs
<1>2. \A token : PositionsOf(more, token) =
                   IF IsToken(c, token) THEN PositionsOf(outputs, token) \cup {at}
                   ELSE PositionsOf(outputs, token)
  BY PositionsOfMore
<1> HIDE DEF more, at
<1>3. CASE c.mode # "udt"
  <2>1. GroupOutput(c) = groups
    BY <1>3 DEF GroupOutput
  <2>2. \A token : PositionsOf(more, token) = PositionsOf(outputs, token)
    BY <1>2, <1>3 DEF IsToken
  <2>3. \A n \in DOMAIN more : more[n].cell.mode = "udt" =>
          \E g \in DOMAIN groups : groups[g].token = more[n].cell.id
    BY <1>1, <1>3 DEF GroupsOK, Grouped
  <2>4. Grouped(groups, inputs, more)
    BY <2>2, <2>3 DEF GroupsOK, Grouped
  <2> QED
    BY <2>1, <2>4 DEF more
<1>4. CASE c.mode = "udt"
  <2> DEFINE J == Joined(c)
             W == With(c, "out", at)
  <2>1. GroupOutput(c) = W
    BY <1>4 DEF GroupOutput, at
  <2>2. /\ J \in Seq(Groups) /\ Grouped(J, inputs, outputs)
        /\ \E g \in DOMAIN J : J[g].token = c.id
        /\ \A g \in DOMAIN J : \/ g \in DOMAIN groups /\ J[g] = groups[g]
                               \/ J[g] = Untouched(c.id)
    BY <1>4, JoinedIs
  <2>3. /\ W \in Seq(Groups) /\ DOMAIN W = DOMAIN J
        /\ \A g \in DOMAIN J :
             /\ W[g].token = J[g].token /\ W[g].inAt = J[g].inAt
             /\ J[g].token # c.id => W[g].outAt = J[g].outAt
             /\ J[g].token = c.id => W[g].outAt = J[g].outAt \cup {at}
    BY <1>1, <1>4, WithIs
  <2> HIDE DEF J, W
  <2>4. \A g, h \in DOMAIN W : W[g].token = W[h].token => g = h
    BY <2>2, <2>3 DEF Grouped
  <2>5. \A g \in DOMAIN W : W[g].inAt = PositionsOf(inputs, W[g].token)
    BY <2>2, <2>3 DEF Grouped
  <2>6. \A g \in DOMAIN W : W[g].outAt = PositionsOf(more, W[g].token)
    <3> TAKE g \in DOMAIN W
    <3>1. J[g].outAt = PositionsOf(outputs, J[g].token)
      BY <2>2, <2>3 DEF Grouped
    <3>2. IsToken(c, J[g].token) <=> J[g].token = c.id
      BY <1>4 DEF IsToken
    <3> QED
      BY <1>2, <2>3, <3>1, <3>2
  <2>7. \A n \in DOMAIN more : more[n].cell.mode = "udt" =>
          \E g \in DOMAIN W : W[g].token = more[n].cell.id
    BY <1>1, <2>2, <2>3 DEF Grouped
  <2>8. \A n \in DOMAIN inputs : inputs[n].cell.mode = "udt" =>
          \E g \in DOMAIN W : W[g].token = inputs[n].cell.id
    BY <2>2, <2>3 DEF Grouped
  <2>9. Grouped(W, inputs, more)
    BY <2>4, <2>5, <2>6, <2>7, <2>8 DEF Grouped
  <2>10. \A g \in DOMAIN W :
           \/ IsToken(c, W[g].token)
           \/ \E h \in DOMAIN groups : groups[h].token = W[g].token
    BY <1>4, <2>2, <2>3 DEF Untouched, IsToken
  <2> QED
    BY <2>1, <2>3, <2>9, <2>10 DEF more
<1> QED
  BY <1>3, <1>4

(***************************************************************************)
(* And to the totals                                                       *)
(***************************************************************************)

LEMMA SumMore ==
  ASSUME NEW cells \in Seq(Cells), NEW done \in SUBSET DOMAIN cells,
         NEW i \in DOMAIN cells \ done, NEW token
  PROVE  SumOf(cells, token, done \cup {i}) =
           IF IsToken(cells[i], token) THEN SumOf(cells, token, done) + cells[i].amount
           ELSE SumOf(cells, token, done)
<1> DEFINE f == AmountsOf(cells)
           S == {j \in done : IsToken(cells[j], token)}
           T == {j \in done \cup {i} : IsToken(cells[j], token)}
<1>1. \A j \in DOMAIN cells : f[j] \in Int /\ f[j] = cells[j].amount
  BY CellAt, CellsAre DEF AmountsOf
<1>2. IsFiniteSet(S) /\ S \subseteq DOMAIN cells /\ i \notin S
  <2>1. IsFiniteSet(DOMAIN cells)
    BY PositionsAre
  <2>2. S \subseteq DOMAIN cells /\ i \notin S
    OBVIOUS
  <2> HIDE DEF S
  <2> QED
    BY <2>1, <2>2, FS_Subset
<1>3. CASE IsToken(cells[i], token)
  <2>1. T = S \cup {i}
    BY <1>3
  <2> HIDE DEF f, S, T
  <2>2. \A x \in S \cup {i} : f[x] \in Int
    BY <1>1, <1>2
  <2>3. SumFunctionOnSet(f, S \cup {i}) = f[i] + SumFunctionOnSet(f, S)
        /\ SumFunctionOnSet(f, S) \in Int
    BY <1>2, <2>2, SumWith
  <2>4. SumFunctionOnSet(f, T) = SumFunctionOnSet(f, S) + cells[i].amount
    BY <1>1, <2>1, <2>3
  <2> QED
    BY <1>3, <2>4 DEF SumOf, f, S, T
<1>4. CASE ~IsToken(cells[i], token)
  <2>1. T = S
    BY <1>4
  <2> HIDE DEF S, T
  <2> QED
    BY <1>4, <2>1 DEF SumOf, S, T
<1> QED
  BY <1>3, <1>4

\* A token that has not come up has nothing to add up.
LEMMA SumOfNew ==
  ASSUME NEW cells, NEW list, NEW done, Tells(list, cells, done), NEW token,
         PositionsOf(list, token) = {}
  PROVE  SumOf(cells, token, done) = 0
<1>1. {j \in done : IsToken(cells[j], token)} = {}
  BY DEF Tells, PositionsOf
<1> QED
  BY <1>1, SumOfNone DEF SumOf

LEMMA JoinedSums ==
  ASSUME NEW c \in Cells, c.mode = "udt", groups \in Seq(Groups), GroupsOK,
         NEW ins, NEW insDone, NEW outs, NEW outsDone,
         Summed(groups, ins, insDone, outs, outsDone),
         Tells(inputs, ins, insDone), Tells(outputs, outs, outsDone)
  PROVE  Summed(Joined(c), ins, insDone, outs, outsDone)
<1> DEFINE J == Joined(c)
<1> SUFFICES ASSUME NEW g \in DOMAIN J
             PROVE  /\ J[g].inTotal = SumOf(ins, J[g].token, insDone)
                    /\ J[g].outTotal = SumOf(outs, J[g].token, outsDone)
  BY DEF Summed
<1>1. \/ g \in DOMAIN groups /\ J[g] = groups[g]
      \/ /\ J[g] = Untouched(c.id)
         /\ PositionsOf(inputs, c.id) = {} /\ PositionsOf(outputs, c.id) = {}
  BY JoinedIs
<1> HIDE DEF J
<1>2. CASE g \in DOMAIN groups /\ J[g] = groups[g]
  BY <1>2 DEF Summed
<1>3. CASE /\ J[g] = Untouched(c.id)
           /\ PositionsOf(inputs, c.id) = {} /\ PositionsOf(outputs, c.id) = {}
  <2>1. SumOf(ins, c.id, insDone) = 0 /\ SumOf(outs, c.id, outsDone) = 0
    BY <1>3, SumOfNew
  <2> QED
    BY <1>3, <2>1 DEF Untouched
<1> QED
  BY <1>1, <1>2, <1>3

LEMMA GroupInputSums ==
  ASSUME groups \in Seq(Groups), GroupsOK,
         NEW ins \in Seq(Cells), NEW insDone \in SUBSET DOMAIN ins, NEW outs, NEW outsDone,
         Summed(groups, ins, insDone, outs, outsDone),
         Tells(inputs, ins, insDone), Tells(outputs, outs, outsDone),
         NEW i \in DOMAIN ins \ insDone
  PROVE  Summed(GroupInput(ins[i]), ins, insDone \cup {i}, outs, outsDone)
<1> DEFINE c == ins[i]
<1>1. c \in Cells
  BY CellAt
<1>2. \A token : SumOf(ins, token, insDone \cup {i}) =
                   IF IsToken(c, token) THEN SumOf(ins, token, insDone) + c.amount
                   ELSE SumOf(ins, token, insDone)
  BY SumMore
<1> HIDE DEF c
<1>3. CASE c.mode # "udt"
  <2>1. GroupInput(c) = groups
    BY <1>3 DEF GroupInput
  <2>2. \A token : SumOf(ins, token, insDone \cup {i}) = SumOf(ins, token, insDone)
    BY <1>2, <1>3 DEF IsToken
  <2> QED
    BY <2>1, <2>2 DEF Summed, c
<1>4. CASE c.mode = "udt"
  <2> DEFINE J == Joined(c)
             at == Len(inputs) + 1
             W == With(c, "in", at)
  <2>1. GroupInput(c) = W
    BY <1>4 DEF GroupInput
  <2>2. Summed(J, ins, insDone, outs, outsDone)
    BY <1>1, <1>4, JoinedSums
  <2>3. /\ DOMAIN W = DOMAIN J
        /\ \A g \in DOMAIN J :
             /\ W[g].token = J[g].token /\ W[g].outTotal = J[g].outTotal
             /\ J[g].token # c.id => W[g].inTotal = J[g].inTotal
             /\ J[g].token = c.id => W[g].inTotal = J[g].inTotal + c.amount
    <3>1. at \in Nat
      BY DEF GroupsOK, Tells
    <3> HIDE DEF at
    <3> QED
      BY <1>1, <1>4, <3>1, WithIs
  <2> HIDE DEF J, W
  <2>4. \A g \in DOMAIN W : /\ W[g].inTotal = SumOf(ins, W[g].token, insDone \cup {i})
                            /\ W[g].outTotal = SumOf(outs, W[g].token, outsDone)
    <3> TAKE g \in DOMAIN W
    <3>1. /\ J[g].inTotal = SumOf(ins, J[g].token, insDone)
          /\ J[g].outTotal = SumOf(outs, J[g].token, outsDone)
      BY <2>2, <2>3 DEF Summed
    <3>2. IsToken(c, J[g].token) <=> J[g].token = c.id
      BY <1>4 DEF IsToken
    <3> QED
      BY <1>2, <2>3, <3>1, <3>2
  <2> QED
    BY <2>1, <2>4 DEF Summed, c
<1> QED
  BY <1>3, <1>4

LEMMA GroupOutputSums ==
  ASSUME groups \in Seq(Groups), GroupsOK,
         NEW outs \in Seq(Cells), NEW outsDone \in SUBSET DOMAIN outs, NEW ins, NEW insDone,
         Summed(groups, ins, insDone, outs, outsDone),
         Tells(inputs, ins, insDone), Tells(outputs, outs, outsDone),
         NEW i \in DOMAIN outs \ outsDone
  PROVE  Summed(GroupOutput(outs[i]), ins, insDone, outs, outsDone \cup {i})
<1> DEFINE c == outs[i]
<1>1. c \in Cells
  BY CellAt
<1>2. \A token : SumOf(outs, token, outsDone \cup {i}) =
                   IF IsToken(c, token) THEN SumOf(outs, token, outsDone) + c.amount
                   ELSE SumOf(outs, token, outsDone)
  BY SumMore
<1> HIDE DEF c
<1>3. CASE c.mode # "udt"
  <2>1. GroupOutput(c) = groups
    BY <1>3 DEF GroupOutput
  <2>2. \A token : SumOf(outs, token, outsDone \cup {i}) = SumOf(outs, token, outsDone)
    BY <1>2, <1>3 DEF IsToken
  <2> QED
    BY <2>1, <2>2 DEF Summed, c
<1>4. CASE c.mode = "udt"
  <2> DEFINE J == Joined(c)
             at == Len(outputs) + 1
             W == With(c, "out", at)
  <2>1. GroupOutput(c) = W
    BY <1>4 DEF GroupOutput
  <2>2. Summed(J, ins, insDone, outs, outsDone)
    BY <1>1, <1>4, JoinedSums
  <2>3. /\ DOMAIN W = DOMAIN J
        /\ \A g \in DOMAIN J :
             /\ W[g].token = J[g].token /\ W[g].inTotal = J[g].inTotal
             /\ J[g].token # c.id => W[g].outTotal = J[g].outTotal
             /\ J[g].token = c.id => W[g].outTotal = J[g].outTotal + c.amount
    <3>1. at \in Nat
      BY DEF GroupsOK, Tells
    <3> HIDE DEF at
    <3> QED
      BY <1>1, <1>4, <3>1, WithIs
  <2> HIDE DEF J, W
  <2>4. \A g \in DOMAIN W : /\ W[g].inTotal = SumOf(ins, W[g].token, insDone)
                            /\ W[g].outTotal = SumOf(outs, W[g].token, outsDone \cup {i})
    <3> TAKE g \in DOMAIN W
    <3>1. /\ J[g].inTotal = SumOf(ins, J[g].token, insDone)
          /\ J[g].outTotal = SumOf(outs, J[g].token, outsDone)
      BY <2>2, <2>3 DEF Summed
    <3>2. IsToken(c, J[g].token) <=> J[g].token = c.id
      BY <1>4 DEF IsToken
    <3> QED
      BY <1>2, <2>3, <3>1, <3>2
  <2> QED
    BY <2>1, <2>4 DEF Summed, c
<1> QED
  BY <1>3, <1>4

(***************************************************************************)
(* The steps                                                               *)
(***************************************************************************)

LEMMA AssetStarts == AssetInit => AssetInv
<1> SUFFICES ASSUME AssetInit PROVE AssetInv
  OBVIOUS
<1>1. /\ phase = "none" /\ asset = [ins |-> <<>>, outs |-> <<>>] /\ todo = {}
      /\ inputs = <<>> /\ outputs = <<>> /\ groups = <<>>
      /\ asset.ins = <<>> /\ asset.outs = <<>>
  BY DEF AssetInit
<1>2. AssetOK /\ PhasesOK
  BY <1>1 DEF AssetOK, PhasesOK, Working
<1>3. GroupsOK /\ TokensAreOfTx /\ TokensTold
  BY <1>1 DEF GroupsOK, Grouped, TokensAreOfTx, TokensTold
<1>4. ListsOK /\ TotalsOK /\ EventsSoFar /\ EventsAreOfTx /\ IssuesAreOfTx
  BY <1>1 DEF ListsOK, TotalsOK, EventsSoFar, EventsAreOfTx, IssuesAreOfTx, Working
<1> QED
  BY <1>2, <1>3, <1>4 DEF AssetInv

LEMMA AskKeeps == AssetInv /\ Ask => AssetInv'
<1> SUFFICES ASSUME AssetInv, Ask PROVE AssetInv'
  OBVIOUS
<1>1. /\ phase = "none" /\ inputs = <<>> /\ outputs = <<>> /\ groups = <<>>
  BY DEF AssetInv, PhasesOK, Ask
<1>2. PICK tx \in AssetTxs : asset' = [ins |-> InputsFound(tx), outs |-> tx.outs]
  BY DEF Ask
<1>3. /\ inputs' = <<>> /\ outputs' = <<>> /\ groups' = <<>> /\ phase' = "inputs"
      /\ todo' = Positions(asset'.ins)
      /\ asset'.ins = InputsFound(tx) /\ asset'.outs = tx.outs
  BY <1>1, <1>2 DEF Ask
<1>4. AssetOK'
  <2>1. /\ InputsFound(tx) \in Seq(Range(InputsFound(tx))) /\ tx.outs \in Seq(Range(tx.outs))
        /\ \A i, j \in DOMAIN InputsFound(tx) :
             i # j => ~SameNft(InputsFound(tx)[i], InputsFound(tx)[j])
    BY AssetTxsAssumption
  <2>2. Range(InputsFound(tx)) \subseteq Cells /\ Range(tx.outs) \subseteq Cells
    BY DEF Cells
  <2>3. InputsFound(tx) \in Seq(Cells) /\ tx.outs \in Seq(Cells)
    BY <2>1, <2>2
  <2> QED
    BY <1>3, <2>1, <2>3 DEF AssetOK
<1>5. PhasesOK'
  BY <1>3 DEF PhasesOK, Working
<1>6. ListsOK'
  <2>1. InsDone' = {} /\ OutsDone' = {}
    BY <1>3 DEF InsDone, OutsDone
  <2>2. Cardinality({}) = 0
    BY FS_EmptySet
  <2> QED
    BY <1>3, <2>1, <2>2 DEF ListsOK, Tells
<1>7. GroupsOK' /\ TokensAreOfTx' /\ TokensTold' /\ TotalsOK' /\ EventsSoFar'
  BY <1>3 DEF GroupsOK, Grouped, TokensAreOfTx, TokensTold, TotalsOK, Summed, EventsSoFar
<1>8. EventsAreOfTx' /\ IssuesAreOfTx'
  BY <1>3 DEF EventsAreOfTx, IssuesAreOfTx
<1> QED
  BY <1>4, <1>5, <1>6, <1>7, <1>8 DEF AssetInv

LEMMA CompleteInputKeeps ==
  ASSUME NEW i \in todo
  PROVE  AssetInv /\ CompleteInput(i) => AssetInv'
<1> SUFFICES ASSUME AssetInv, CompleteInput(i) PROVE AssetInv'
  OBVIOUS
<1> DEFINE c == asset.ins[i]
           e == Entry(c, i, "Burn")
<1>1. /\ phase = "inputs" /\ phase' = "inputs" /\ todo' = todo \ {i} /\ asset' = asset
      /\ groups' = GroupInput(c) /\ inputs' = Append(inputs, e) /\ outputs' = outputs
  BY DEF CompleteInput
<1>2. /\ AssetOK /\ GroupsOK /\ outputs = <<>> /\ todo \subseteq Positions(asset.ins)
      /\ Tells(inputs, asset.ins, InsDone) /\ Tells(outputs, asset.outs, OutsDone)
      /\ Summed(groups, asset.ins, InsDone, asset.outs, OutsDone)
  BY <1>1 DEF AssetInv, PhasesOK, ListsOK, TotalsOK, Working
<1>3. asset.ins \in Seq(Cells) /\ inputs \in Seq(Told) /\ groups \in Seq(Groups)
  BY <1>2 DEF AssetOK
<1>4. /\ InsDone = Positions(asset.ins) \ todo /\ OutsDone = {}
      /\ InsDone' = InsDone \cup {i} /\ OutsDone' = {}
  BY <1>1, <1>2 DEF InsDone, OutsDone
<1>5. /\ Positions(asset.ins) \subseteq DOMAIN asset.ins /\ IsFiniteSet(Positions(asset.ins))
      /\ i \in DOMAIN asset.ins \ InsDone /\ InsDone \subseteq DOMAIN asset.ins
  BY <1>2, <1>3, <1>4, PositionsAre
<1>6. c \in Cells /\ i \in Nat
  BY <1>3, <1>5, CellAt
<1>7. e \in Told /\ e.cell = c /\ e.index = i /\ e.event = "Burn" /\ e.leap = NoLeap(c)
      /\ (c.mode = "udt" => e.token = c.id)
  <2>1. "Burn" \in Events
    BY DEF Events
  <2> QED
    BY <1>6, <2>1, EntryIs
<1>8. IsFiniteSet(InsDone) /\ i \notin InsDone
  BY <1>4, <1>5, FS_Subset
<1>9. /\ inputs' \in Seq(Told) /\ Len(inputs) \in Nat
      /\ DOMAIN inputs = 1..Len(inputs)
      /\ DOMAIN inputs' = 1..(Len(inputs) + 1) /\ inputs'[Len(inputs) + 1] = e
      /\ \A n \in DOMAIN inputs : inputs'[n] = inputs[n]
      /\ \A n \in DOMAIN inputs' : n \in DOMAIN inputs \/ n = Len(inputs) + 1
  <2>1. /\ Append(inputs, e) \in Seq(Told) /\ Len(inputs) \in Nat
        /\ DOMAIN inputs = 1..Len(inputs)
        /\ DOMAIN Append(inputs, e) = 1..(Len(inputs) + 1)
        /\ Append(inputs, e)[Len(inputs) + 1] = e
        /\ \A n \in DOMAIN inputs : Append(inputs, e)[n] = inputs[n]
    BY <1>3, <1>7, AppendIs
  <2> HIDE DEF e
  <2> QED
    BY <1>1, <2>1
<1>10. Tells(inputs', asset.ins, InsDone \cup {i})
  BY <1>1, <1>2, <1>3, <1>7, <1>8, TellsMore
<1>11. /\ groups' \in Seq(Groups) /\ Grouped(groups', inputs', outputs)
       /\ \A g \in DOMAIN groups' :
            \/ IsToken(c, groups'[g].token)
            \/ \E h \in DOMAIN groups : groups[h].token = groups'[g].token
  BY <1>1, <1>2, <1>3, <1>6, <1>7, GroupInputIs
<1>12. Summed(groups', asset.ins, InsDone \cup {i}, asset.outs, OutsDone)
  BY <1>1, <1>2, <1>3, <1>5, GroupInputSums
<1>13. c \in Range(asset.ins)
  BY <1>3, <1>5, CellAt
<1> HIDE DEF c, e
<1>14. AssetOK'
  BY <1>1, <1>2, <1>9, <1>11 DEF AssetOK
<1>15. PhasesOK'
  BY <1>1, <1>2 DEF PhasesOK, Working
<1>16. ListsOK'
  <2>1. Tells(outputs', asset'.outs, OutsDone')
    BY <1>1, <1>2, <1>4
  <2> QED
    BY <1>1, <1>4, <1>10, <2>1 DEF ListsOK
<1>17. GroupsOK'
  BY <1>1, <1>11 DEF GroupsOK
<1>18. TokensAreOfTx'
  <2>1. TokensAreOfTx
    BY DEF AssetInv
  <2> QED
    BY <1>1, <1>11, <1>13, <2>1 DEF TokensAreOfTx
<1>19. TotalsOK'
  BY <1>1, <1>4, <1>12 DEF TotalsOK
<1>20. TokensTold'
  <2>1. TokensTold
    BY DEF AssetInv
  <2> QED
    BY <1>1, <1>7, <1>9, <2>1 DEF TokensTold
<1>21. EventsSoFar'
  <2>1. \A n \in DOMAIN inputs' :
          /\ inputs'[n].event = "Burn"
          /\ inputs'[n].leap = NoLeap(inputs'[n].cell)
    <3>1. \A n \in DOMAIN inputs :
            /\ inputs[n].event = "Burn" /\ inputs[n].leap = NoLeap(inputs[n].cell)
      BY <1>1, <1>4 DEF AssetInv, EventsSoFar, InEvent, Working
    <3> QED
      BY <1>7, <1>9, <3>1
  <2>2. \A x : InEvent(x, OutsDone)' = "Burn"
    BY <1>4 DEF InEvent
  <2> QED
    BY <1>1, <1>2, <1>4, <2>1, <2>2 DEF EventsSoFar, InEvent
<1>22. EventsAreOfTx' /\ IssuesAreOfTx'
  BY <1>1 DEF EventsAreOfTx, IssuesAreOfTx
<1> QED
  BY <1>14, <1>15, <1>16, <1>17, <1>18, <1>19, <1>20, <1>21, <1>22 DEF AssetInv

LEMMA InputsAwaitedKeeps == AssetInv /\ InputsAwaited => AssetInv'
<1> SUFFICES ASSUME AssetInv, InputsAwaited PROVE AssetInv'
  OBVIOUS
<1>1. /\ phase = "inputs" /\ todo = {} /\ phase' = "outputs" /\ todo' = Positions(asset.outs)
      /\ asset' = asset /\ inputs' = inputs /\ outputs' = outputs /\ groups' = groups
  BY DEF InputsAwaited
<1>2. InsDone' = InsDone /\ OutsDone' = OutsDone
  BY <1>1 DEF InsDone, OutsDone
<1>3. AssetOK' /\ PhasesOK' /\ GroupsOK' /\ TokensAreOfTx' /\ TokensTold'
  BY <1>1 DEF AssetInv, AssetOK, PhasesOK, GroupsOK, TokensAreOfTx, TokensTold, Working
<1>4. ListsOK' /\ TotalsOK'
  BY <1>1, <1>2 DEF AssetInv, ListsOK, TotalsOK, Working
<1>5. EventsSoFar'
  BY <1>1, <1>2 DEF AssetInv, EventsSoFar, InEvent, OutEvent, Working
<1>6. EventsAreOfTx' /\ IssuesAreOfTx'
  BY <1>1 DEF EventsAreOfTx, IssuesAreOfTx
<1> QED
  BY <1>3, <1>4, <1>5, <1>6 DEF AssetInv

\* findIndex finds the input an NFT comes from, if there is one: all inputs
\* are in the list, and no other of them holds the NFT.
LEMMA NftIndexIs ==
  ASSUME AssetInv, phase = "outputs", NEW c
  PROVE  \/ /\ NftIndex(c) = 0
            /\ \A n \in DOMAIN inputs : ~SameNft(inputs[n].cell, c)
            /\ ~\E i \in DOMAIN asset.ins : SameNft(asset.ins[i], c)
         \/ /\ NftIndex(c) \in DOMAIN inputs /\ NftIndex(c) # 0
            /\ \A n \in DOMAIN inputs : SameNft(inputs[n].cell, c) <=> n = NftIndex(c)
            /\ \E i \in DOMAIN asset.ins : SameNft(asset.ins[i], c)
<1> DEFINE same == {n \in DOMAIN inputs : SameNft(inputs[n].cell, c)}
<1>1. /\ asset.ins \in Seq(Cells) /\ inputs \in Seq(Told) /\ DOMAIN inputs = 1..Len(inputs)
      /\ Len(inputs) \in Nat
      /\ \A i, j \in DOMAIN asset.ins : i # j => ~SameNft(asset.ins[i], asset.ins[j])
  BY DEF AssetInv, AssetOK
<1>2. Tells(inputs, asset.ins, Positions(asset.ins))
  <2>1. InsDone = Positions(asset.ins)
    BY DEF InsDone
  <2> QED
    BY <2>1 DEF AssetInv, ListsOK, Working
<1>3. Positions(asset.ins) \subseteq DOMAIN asset.ins
  BY <1>1, PositionsAre
<1>4. \A i \in DOMAIN asset.ins : SameNft(asset.ins[i], c) =>
        \E n \in DOMAIN inputs : inputs[n].cell = asset.ins[i]
  BY <1>2 DEF Tells, SameNft, IsNft, Positions, Listed
<1>5. \A n \in DOMAIN inputs : /\ inputs[n].index \in DOMAIN asset.ins
                               /\ inputs[n].cell = asset.ins[inputs[n].index]
  BY <1>2, <1>3 DEF Tells
<1>6. \A m, n \in same : m = n
  <2> TAKE m, n \in same
  <2>1. SameNft(inputs[m].cell, inputs[n].cell)
    BY DEF SameNft
  <2>2. inputs[m].index = inputs[n].index
    BY <1>1, <1>5, <2>1
  <2> QED
    BY <1>2, <2>2 DEF Tells
<1>7. NftIndex(c) = IF same = {} THEN 0 ELSE Min(same)
  BY DEF NftIndex
<1>8. CASE same = {}
  BY <1>4, <1>7, <1>8
<1>9. CASE same # {}
  <2>1. PICK n \in same : TRUE
    BY <1>9
  <2>2. n \in Nat /\ n # 0 /\ n \in DOMAIN inputs
    BY <1>1
  <2>3. same = {n}
    BY <1>6, <2>1
  <2> HIDE DEF same
  <2>4. Min(same) = n
    BY <2>2, <2>3 DEF Min
  <2>5. NftIndex(c) = n
    BY <1>7, <1>9, <2>4
  <2>6. \E i \in DOMAIN asset.ins : SameNft(asset.ins[i], c)
    BY <1>5, <2>1 DEF same
  <2> QED
    BY <2>2, <2>3, <2>5, <2>6 DEF same
<1> QED
  BY <1>8, <1>9

\* What changes of an entry, and what does not.
SameCell(e, f) ==
  e.cell = f.cell /\ e.index = f.index /\ e.token = f.token /\ e.amount = f.amount

LEMMA WithEvent ==
  ASSUME NEW e \in Told, NEW event \in Events
  PROVE  LET f == [e EXCEPT !.event = event]
         IN  f \in Told /\ SameCell(e, f) /\ f.event = event /\ f.leap = e.leap
BY DEF Told, SameCell

LEMMA WithLeap ==
  ASSUME NEW e \in Told, NEW leap \in LeapTypes
  PROVE  LET f == [e EXCEPT !.leap = leap]
         IN  f \in Told /\ SameCell(e, f) /\ f.event = e.event /\ f.leap = leap
BY DEF Told, SameCell

\* An output makes the input it comes from a transfer.
LEMMA TransferIs ==
  ASSUME NEW list \in Seq(Told), NEW from \in DOMAIN list
  PROVE  LET new == [list EXCEPT ![from].event = "Transfer"]
         IN  /\ new \in Seq(Told) /\ DOMAIN new = DOMAIN list /\ Len(new) = Len(list)
             /\ \A n \in DOMAIN list :
                  /\ SameCell(list[n], new[n]) /\ new[n].leap = list[n].leap
                  /\ new[n].event = IF n = from THEN "Transfer" ELSE list[n].event
<1> DEFINE e == [list[from] EXCEPT !.event = "Transfer"]
           new == [list EXCEPT ![from].event = "Transfer"]
<1>1. list[from] \in Told /\ "Transfer" \in Events
  BY DEF Events
<1>2. /\ e \in Told /\ SameCell(list[from], e) /\ e.event = "Transfer"
      /\ e.leap = list[from].leap
  BY <1>1, WithEvent
<1>3. /\ new = [n \in DOMAIN list |-> new[n]]
      /\ \A n \in DOMAIN list : new[n] = IF n = from THEN e ELSE list[n]
  OBVIOUS
<1> HIDE DEF e, new
<1>4. \A n \in DOMAIN list : list[n] \in Told /\ new[n] \in Told
  BY <1>2, <1>3
<1>5. new \in Seq(Told) /\ DOMAIN new = DOMAIN list /\ Len(new) = Len(list)
  BY <1>3, <1>4, MapIsSeq
<1> QED
  BY <1>2, <1>3, <1>5 DEF new, SameCell

LEMMA CompleteOutputKeeps ==
  ASSUME NEW i \in todo
  PROVE  AssetInv /\ CompleteOutput(i) => AssetInv'
<1> SUFFICES ASSUME AssetInv, CompleteOutput(i) PROVE AssetInv'
  OBVIOUS
<1> DEFINE c == asset.outs[i]
           from == NftIndex(c)
           event == CASE from # 0 -> "Transfer" [] c.mode = "cluster" /\ from = 0 -> "Issue"
                      [] OTHER -> "Mint"
           e == Entry(c, i, event)
<1>1. /\ phase = "outputs" /\ phase' = "outputs" /\ todo' = todo \ {i} /\ asset' = asset
      /\ inputs' = IF from = 0 THEN inputs ELSE [inputs EXCEPT ![from].event = "Transfer"]
      /\ groups' = GroupOutput(c) /\ outputs' = Append(outputs, e)
  BY DEF CompleteOutput
<1>2. /\ AssetOK /\ GroupsOK /\ todo \subseteq Positions(asset.outs)
      /\ Tells(inputs, asset.ins, InsDone) /\ Tells(outputs, asset.outs, OutsDone)
      /\ Summed(groups, asset.ins, InsDone, asset.outs, OutsDone)
  BY <1>1 DEF AssetInv, PhasesOK, ListsOK, TotalsOK, Working
<1>3. /\ asset.ins \in Seq(Cells) /\ asset.outs \in Seq(Cells)
      /\ inputs \in Seq(Told) /\ outputs \in Seq(Told) /\ groups \in Seq(Groups)
  BY <1>2 DEF AssetOK
<1>4. /\ OutsDone = Positions(asset.outs) \ todo /\ InsDone' = InsDone
      /\ OutsDone' = OutsDone \cup {i}
  BY <1>1, <1>2 DEF InsDone, OutsDone
<1>5. /\ Positions(asset.outs) \subseteq DOMAIN asset.outs /\ IsFiniteSet(Positions(asset.outs))
      /\ i \in DOMAIN asset.outs \ OutsDone /\ OutsDone \subseteq DOMAIN asset.outs
  BY <1>2, <1>3, <1>4, PositionsAre
<1>6. c \in Cells /\ i \in Nat /\ c \in Range(asset.outs)
  BY <1>3, <1>5, CellAt
<1>7. \/ /\ from = 0
         /\ \A n \in DOMAIN inputs : ~SameNft(inputs[n].cell, c)
         /\ ~\E j \in DOMAIN asset.ins : SameNft(asset.ins[j], c)
      \/ /\ from \in DOMAIN inputs /\ from # 0
         /\ \A n \in DOMAIN inputs : SameNft(inputs[n].cell, c) <=> n = from
         /\ \E j \in DOMAIN asset.ins : SameNft(asset.ins[j], c)
  BY <1>1, NftIndexIs
<1>8. event \in Events /\ event = OutEvent(c)
  <2> HIDE DEF from
  <2>1. event \in Events
    BY DEF Events
  <2>2. event = OutEvent(c)
    BY <1>7 DEF OutEvent
  <2> QED
    BY <2>1, <2>2
<1> HIDE DEF c, from, event
<1>9. e \in Told /\ e.cell = c /\ e.index = i /\ e.event = event /\ e.leap = NoLeap(c)
      /\ (c.mode = "udt" => e.token = c.id)
  BY <1>6, <1>8, EntryIs
<1> HIDE DEF e
<1>10. IsFiniteSet(OutsDone) /\ i \notin OutsDone
  BY <1>4, <1>5, FS_Subset
<1>11. /\ outputs' \in Seq(Told)
       /\ outputs'[Len(outputs) + 1] = e
       /\ \A n \in DOMAIN outputs : outputs'[n] = outputs[n]
       /\ \A n \in DOMAIN outputs' : n \in DOMAIN outputs \/ n = Len(outputs) + 1
  BY <1>1, <1>3, <1>9, AppendIs
<1>12. Tells(outputs', asset.outs, OutsDone \cup {i})
  BY <1>1, <1>2, <1>3, <1>9, <1>10, TellsMore DEF c
<1>13. /\ inputs' \in Seq(Told) /\ DOMAIN inputs' = DOMAIN inputs /\ Len(inputs') = Len(inputs)
       /\ \A n \in DOMAIN inputs :
            /\ SameCell(inputs[n], inputs'[n]) /\ inputs'[n].leap = inputs[n].leap
            /\ inputs'[n].event =
                 IF SameNft(inputs[n].cell, c) THEN "Transfer" ELSE inputs[n].event
  <2>1. CASE from = 0
    BY <1>1, <1>3, <1>7, <2>1 DEF SameCell
  <2>2. CASE from # 0
    <3>1. from \in DOMAIN inputs /\ \A n \in DOMAIN inputs : SameNft(inputs[n].cell, c) <=> n = from
      BY <1>7, <2>2
    <3>2. inputs' = [inputs EXCEPT ![from].event = "Transfer"]
      BY <1>1, <2>2
    <3>3. /\ inputs' \in Seq(Told) /\ DOMAIN inputs' = DOMAIN inputs
          /\ Len(inputs') = Len(inputs)
          /\ \A n \in DOMAIN inputs :
               /\ SameCell(inputs[n], inputs'[n]) /\ inputs'[n].leap = inputs[n].leap
               /\ inputs'[n].event = IF n = from THEN "Transfer" ELSE inputs[n].event
      BY <1>3, <3>1, <3>2, TransferIs
    <3> QED
      BY <3>1, <3>3
  <2> QED
    BY <2>1, <2>2
<1>14. /\ groups' \in Seq(Groups) /\ Grouped(groups', inputs, outputs')
       /\ \A g \in DOMAIN groups' :
            \/ IsToken(c, groups'[g].token)
            \/ \E h \in DOMAIN groups : groups[h].token = groups'[g].token
  BY <1>1, <1>2, <1>3, <1>6, <1>9, GroupOutputIs
<1>15. Summed(groups', asset.ins, InsDone, asset.outs, OutsDone \cup {i})
  BY <1>1, <1>2, <1>3, <1>5, GroupOutputSums DEF c
<1>16. AssetOK'
  BY <1>1, <1>2, <1>11, <1>13, <1>14 DEF AssetOK
<1>17. PhasesOK'
  BY <1>1, <1>2 DEF PhasesOK, Working
<1>18. ListsOK'
  <2>1. Tells(inputs', asset.ins, InsDone)
    BY <1>2, <1>13, TellsStill DEF SameCell
  <2> QED
    BY <1>1, <1>4, <1>12, <2>1 DEF ListsOK
<1>19. GroupsOK'
  <2>1. Grouped(groups', inputs', outputs')
    BY <1>13, <1>14, GroupedStill DEF SameCell
  <2> QED
    BY <2>1 DEF GroupsOK
<1>20. TokensAreOfTx'
  <2>1. TokensAreOfTx
    BY DEF AssetInv
  <2> QED
    BY <1>1, <1>6, <1>14, <2>1 DEF TokensAreOfTx
<1>21. TotalsOK'
  BY <1>1, <1>4, <1>15 DEF TotalsOK
<1>22. TokensTold'
  <2>1. TokensTold
    BY DEF AssetInv
  <2>2. \A n \in DOMAIN inputs' :
          inputs'[n].cell.mode = "udt" => inputs'[n].token = inputs'[n].cell.id
    BY <1>13, <2>1 DEF TokensTold, SameCell
  <2>3. \A n \in DOMAIN outputs' :
          outputs'[n].cell.mode = "udt" => outputs'[n].token = outputs'[n].cell.id
    BY <1>9, <1>11, <2>1 DEF TokensTold
  <2> QED
    BY <2>2, <2>3 DEF TokensTold
<1>23. EventsSoFar'
  <2>1. /\ \A n \in DOMAIN inputs :
             /\ inputs[n].event = InEvent(inputs[n].cell, OutsDone)
             /\ inputs[n].leap = NoLeap(inputs[n].cell)
        /\ \A n \in DOMAIN outputs :
             /\ outputs[n].event = OutEvent(outputs[n].cell)
             /\ outputs[n].leap = NoLeap(outputs[n].cell)
    BY <1>1 DEF AssetInv, EventsSoFar, Working
  <2>2. \A x : InEvent(x, OutsDone \cup {i}) =
                 IF SameNft(x, c) THEN "Transfer" ELSE InEvent(x, OutsDone)
    BY DEF InEvent, c
  <2>3. \A n \in DOMAIN inputs' :
          /\ inputs'[n].event = InEvent(inputs'[n].cell, OutsDone \cup {i})
          /\ inputs'[n].leap = NoLeap(inputs'[n].cell)
    <3> TAKE n \in DOMAIN inputs'
    <3>1. n \in DOMAIN inputs
      BY <1>13
    <3>2. /\ inputs'[n].cell = inputs[n].cell /\ inputs'[n].leap = inputs[n].leap
          /\ inputs'[n].event = IF SameNft(inputs[n].cell, c) THEN "Transfer" ELSE inputs[n].event
      BY <1>13, <3>1 DEF SameCell
    <3>3. InEvent(inputs[n].cell, OutsDone \cup {i}) =
            IF SameNft(inputs[n].cell, c) THEN "Transfer" ELSE InEvent(inputs[n].cell, OutsDone)
      BY <2>2
    <3> QED
      BY <2>1, <3>1, <3>2, <3>3
  <2>4. \A n \in DOMAIN outputs' :
          /\ outputs'[n].event = OutEvent(outputs'[n].cell)
          /\ outputs'[n].leap = NoLeap(outputs'[n].cell)
    BY <1>8, <1>9, <1>11, <2>1
  <2> QED
    BY <1>1, <1>4, <2>3, <2>4 DEF EventsSoFar, InEvent, OutEvent
<1>24. EventsAreOfTx' /\ IssuesAreOfTx'
  BY <1>1 DEF EventsAreOfTx, IssuesAreOfTx
<1> QED
  BY <1>16, <1>17, <1>18, <1>19, <1>20, <1>21, <1>22, <1>23, <1>24 DEF AssetInv

(***************************************************************************)
(* The answer                                                              *)
(***************************************************************************)

\* All that has completed is all there is.
LEMMA TotalIs ==
  ASSUME NEW cells, NEW token
  PROVE  SumOf(cells, token, Positions(cells)) = Total(cells, token)
<1>1. {i \in Positions(cells) : IsToken(cells[i], token)}
        = {i \in DOMAIN cells : cells[i].mode = "udt" /\ cells[i].id = token}
  BY DEF Positions, Listed, IsToken
<1> QED
  BY <1>1 DEF SumOf, Total, AmountsOf

\* The totals of a token's group are those of the transaction.
LEMMA GroupTotals ==
  ASSUME AssetInv, phase = "outputs", todo = {}, NEW g \in DOMAIN groups
  PROVE  /\ groups[g] \in Groups
         /\ groups[g].inTotal = Total(asset.ins, groups[g].token)
         /\ groups[g].outTotal = Total(asset.outs, groups[g].token)
<1>1. InsDone = Positions(asset.ins) /\ OutsDone = Positions(asset.outs)
  BY DEF InsDone, OutsDone
<1>2. Summed(groups, asset.ins, Positions(asset.ins), asset.outs, Positions(asset.outs))
  BY <1>1 DEF AssetInv, TotalsOK, Working
<1>3. groups[g] \in Groups
  BY DEF AssetInv, AssetOK
<1>4. /\ groups[g].inTotal = SumOf(asset.ins, groups[g].token, Positions(asset.ins))
      /\ groups[g].outTotal = SumOf(asset.outs, groups[g].token, Positions(asset.outs))
  BY <1>2 DEF Summed
<1>5. /\ SumOf(asset.ins, groups[g].token, Positions(asset.ins)) = Total(asset.ins, groups[g].token)
      /\ SumOf(asset.outs, groups[g].token, Positions(asset.outs)) = Total(asset.outs, groups[g].token)
  BY TotalIs
<1> QED
  BY <1>3, <1>4, <1>5

LEMMA BalanceIs ==
  ASSUME AssetInv, phase = "outputs", todo = {}, NEW g \in DOMAIN groups, NEW before \in Events
  PROVE  LET event == EventOfTotals(groups[g].inTotal, groups[g].outTotal, before)
         IN  event = Balance(groups[g].token, before) /\ event \in Events
<1> DEFINE in == groups[g].inTotal
           out == groups[g].outTotal
<1>1. in \in Nat /\ out \in Nat
  BY GroupTotals DEF Groups
<1>2. /\ in = Total(asset.ins, groups[g].token)
      /\ out = Total(asset.outs, groups[g].token)
  BY GroupTotals
<1>3. Balance(groups[g].token, before) =
        IF in = 0 \/ out = 0 THEN before
        ELSE IF in > out THEN "BurnAndTransfer" ELSE IF in < out THEN "MintAndTransfer" ELSE "Transfer"
  BY <1>2 DEF Balance
<1> HIDE DEF in, out
<1>4. EventOfTotals(in, out, before) =
        IF in = 0 \/ out = 0 THEN before
        ELSE IF in > out THEN "BurnAndTransfer" ELSE IF in < out THEN "MintAndTransfer" ELSE "Transfer"
  BY <1>1 DEF EventOfTotals
<1>5. EventOfTotals(in, out, before) \in Events
  BY <1>4 DEF Events
<1>6. EventOfTotals(in, out, before) = Balance(groups[g].token, before)
  BY <1>3, <1>4
<1> QED
  BY <1>5, <1>6 DEF in, out

\* What the totals make of a cell's event.
EventIn(e) == IF e.cell.mode = "udt" THEN Balance(e.cell.id, e.event) ELSE e.event

LEMMA InGroupIs ==
  ASSUME AssetInv, phase = "outputs", todo = {},
         NEW list \in Seq(Told), NEW n \in DOMAIN list,
         NEW at, \A g \in DOMAIN groups : at[g] = PositionsOf(list, groups[g].token),
         list[n].cell.mode = "udt" => \E g \in DOMAIN groups : groups[g].token = list[n].cell.id
  PROVE  LET new == InGroup(list, n, at)
         IN  /\ new \in Told /\ SameCell(list[n], new) /\ new.leap = list[n].leap
             /\ new.event = EventIn(list[n])
<1>1. list[n] \in Told /\ list[n].event \in Events
  <2>1. list[n] \in Told
    OBVIOUS
  <2> QED
    BY <2>1 DEF Told
<1>2. CASE list[n].cell.mode = "udt"
  <2>1. \E g \in DOMAIN groups : n \in at[g]
    BY <1>2 DEF PositionsOf, IsToken
  <2> DEFINE g == CHOOSE g \in DOMAIN groups : n \in at[g]
  <2>2. g \in DOMAIN groups /\ n \in at[g]
    BY <2>1
  <2>3. InGroup(list, n, at) =
          [list[n] EXCEPT !.event = EventOfTotals(groups[g].inTotal, groups[g].outTotal, @)]
    BY <2>1 DEF InGroup
  <2> HIDE DEF g
  <2>4. groups[g].token = list[n].cell.id
    BY <2>2 DEF PositionsOf, IsToken
  <2> DEFINE event == EventOfTotals(groups[g].inTotal, groups[g].outTotal, list[n].event)
  <2>5. event = Balance(list[n].cell.id, list[n].event) /\ event \in Events
    BY <1>1, <2>2, <2>4, BalanceIs
  <2>6. InGroup(list, n, at) = [list[n] EXCEPT !.event = event]
    BY <2>3
  <2> HIDE DEF event
  <2>7. LET f == [list[n] EXCEPT !.event = event]
        IN  f \in Told /\ SameCell(list[n], f) /\ f.event = event /\ f.leap = list[n].leap
    BY <1>1, <2>5, WithEvent
  <2> QED
    BY <1>2, <2>5, <2>6, <2>7 DEF EventIn
<1>3. CASE list[n].cell.mode # "udt"
  <2>1. ~\E g \in DOMAIN groups : n \in at[g]
    BY <1>3 DEF PositionsOf, IsToken
  <2>2. InGroup(list, n, at) = list[n]
    BY <2>1 DEF InGroup
  <2> QED
    BY <1>1, <1>3, <2>2 DEF EventIn, SameCell
<1> QED
  BY <1>2, <1>3

LEMMA RegroupedIs ==
  ASSUME AssetInv, phase = "outputs", todo = {}, NEW list \in Seq(Told),
         NEW at, \A g \in DOMAIN groups : at[g] = PositionsOf(list, groups[g].token),
         \A n \in DOMAIN list : list[n].cell.mode = "udt" =>
           \E g \in DOMAIN groups : groups[g].token = list[n].cell.id
  PROVE  LET new == Regrouped(list, at)
         IN  /\ new \in Seq(Told) /\ DOMAIN new = DOMAIN list /\ Len(new) = Len(list)
             /\ \A n \in DOMAIN list :
                  /\ SameCell(list[n], new[n]) /\ new[n].leap = list[n].leap
                  /\ new[n].event = EventIn(list[n])
<1> DEFINE new == Regrouped(list, at)
<1>1. new = [n \in DOMAIN list |-> InGroup(list, n, at)]
  BY DEF Regrouped
<1>2. \A n \in DOMAIN list :
        /\ InGroup(list, n, at) \in Told /\ SameCell(list[n], InGroup(list, n, at))
        /\ InGroup(list, n, at).leap = list[n].leap
        /\ InGroup(list, n, at).event = EventIn(list[n])
  BY InGroupIs
<1> HIDE DEF new
<1>3. \A n \in DOMAIN list : new[n] = InGroup(list, n, at)
  BY <1>1
<1>4. new = [n \in DOMAIN list |-> new[n]]
  BY <1>1
<1>5. new \in Seq(Told) /\ DOMAIN new = DOMAIN list /\ Len(new) = Len(list)
  BY <1>2, <1>3, <1>4, MapIsSeq
<1> QED
  BY <1>2, <1>3, <1>5 DEF new

\* A unique cell may be told to issue the token that came up first.
LEMMA IssueIs ==
  ASSUME AssetInv, NEW list \in Seq(Told), NEW n \in DOMAIN list, groups # <<>>
  PROVE  LET new == IssueOfFirst(list, n)
         IN  /\ new \in Told /\ new.cell = list[n].cell /\ new.index = list[n].index
             /\ new.leap = list[n].leap /\ new.event = "Issue"
             /\ 1 \in DOMAIN groups /\ new.token = groups[1].token
             /\ new.amount = groups[1].outTotal
<1> DEFINE e == list[n]
           new == IssueOfFirst(list, n)
           token == groups[1].token
           amount == groups[1].outTotal
<1>1. e \in Told
  OBVIOUS
<1>2. 1 \in DOMAIN groups /\ token \in Tokens /\ amount \in Nat
  <2>1. groups \in Seq(Groups)
    BY DEF AssetInv, AssetOK
  <2>2. 1 \in DOMAIN groups /\ groups[1] \in Groups
    BY <2>1
  <2> QED
    BY <2>2 DEF Groups
<1>3. new = [e EXCEPT !.event = "Issue", !.token = token, !.amount = amount]
  BY DEF IssueOfFirst
<1> HIDE DEF e, new, token, amount
<1>4. e = [cell |-> e.cell, index |-> e.index, event |-> e.event, leap |-> e.leap,
           token |-> e.token, amount |-> e.amount]
  BY <1>1 DEF Told
<1>5. new = [cell |-> e.cell, index |-> e.index, event |-> "Issue", leap |-> e.leap,
             token |-> token, amount |-> amount]
  BY <1>3, <1>4
<1>6. new \in Told
  BY <1>1, <1>2, <1>5 DEF Told, Events
<1> QED
  BY <1>2, <1>5, <1>6 DEF e, new, token, amount

LEMMA WithMetadataIs ==
  ASSUME AssetInv, NEW list \in Seq(Told)
  PROVE  LET new == WithMetadata(list)
         IN  /\ new \in Seq(Told) /\ DOMAIN new = DOMAIN list /\ Len(new) = Len(list)
             /\ \A n \in DOMAIN list :
                  /\ new[n].cell = list[n].cell /\ new[n].index = list[n].index
                  /\ new[n].leap = list[n].leap
                  /\ \/ new[n] = list[n]
                     \/ /\ list[n].cell.mode = "unique" /\ new[n].event = "Issue"
                        /\ 1 \in DOMAIN groups /\ new[n].token = groups[1].token
                        /\ new[n].amount = groups[1].outTotal
<1> DEFINE new == WithMetadata(list)
           issue(n) == groups # <<>> /\ list[n].cell.mode = "unique" /\ asset.outs[n].mode = "unique"
<1>1. new = [n \in DOMAIN list |-> IF issue(n) THEN IssueOfFirst(list, n) ELSE list[n]]
  BY DEF WithMetadata
<1>2. \A n \in DOMAIN list : new[n] = IF issue(n) THEN IssueOfFirst(list, n) ELSE list[n]
  BY <1>1
<1>3. new = [n \in DOMAIN list |-> new[n]]
  BY <1>1
<1> HIDE DEF new
<1>4. ASSUME NEW n \in DOMAIN list
      PROVE  /\ new[n] \in Told
             /\ new[n].cell = list[n].cell /\ new[n].index = list[n].index
             /\ new[n].leap = list[n].leap
             /\ \/ new[n] = list[n]
                \/ /\ list[n].cell.mode = "unique" /\ new[n].event = "Issue"
                   /\ 1 \in DOMAIN groups /\ new[n].token = groups[1].token
                   /\ new[n].amount = groups[1].outTotal
  <2>1. CASE issue(n)
    <3>1. new[n] = IssueOfFirst(list, n)
      BY <1>2, <2>1
    <3> QED
      BY <2>1, <3>1, IssueIs
  <2>2. CASE ~issue(n)
    <3>1. new[n] = list[n]
      BY <1>2, <2>2
    <3> QED
      BY <3>1
  <2> QED
    BY <2>1, <2>2
<1>5. new \in Seq(Told) /\ DOMAIN new = DOMAIN list /\ Len(new) = Len(list)
  BY <1>3, <1>4, MapIsSeq
<1> QED
  BY <1>4, <1>5 DEF new

\* The typed cells under an RGB++ lock are bound.
LEMMA BoundIs ==
  ASSUME NEW cells, NEW other, Tells(other, cells, Positions(cells)),
         \A n \in DOMAIN other : other[n].leap = NoLeap(other[n].cell)
  PROVE  Bound(other) <=> HasBtc(cells)
<1>1. \A n \in DOMAIN other : other[n].leap # "NoBinding" <=> other[n].cell.btc
  BY DEF NoLeap
<1>2. /\ \A n \in DOMAIN other : /\ other[n].index \in Positions(cells)
                                 /\ other[n].cell = cells[other[n].index]
      /\ \A i \in Positions(cells) : \E n \in DOMAIN other : other[n].index = i
  BY DEF Tells
<1> QED
  BY <1>1, <1>2 DEF Bound, HasBtc

LEMMA WithLeapsIs ==
  ASSUME NEW list \in Seq(Told), \A n \in DOMAIN list : list[n].leap = NoLeap(list[n].cell),
         NEW cells, NEW other, Tells(other, cells, Positions(cells)),
         \A n \in DOMAIN other : other[n].leap = NoLeap(other[n].cell),
         NEW leap \in LeapTypes
  PROVE  LET new == WithLeaps(list, other, leap)
         IN  /\ new \in Seq(Told) /\ DOMAIN new = DOMAIN list /\ Len(new) = Len(list)
             /\ \A n \in DOMAIN list :
                  /\ SameCell(list[n], new[n]) /\ new[n].event = list[n].event
                  /\ new[n].leap = LeapOf(list[n].cell, cells, leap)
<1> DEFINE new == WithLeaps(list, other, leap)
           leaps(n) == list[n].leap # "NoBinding" /\ ~Bound(other)
<1>1. new = [n \in DOMAIN list |-> IF leaps(n) THEN [list[n] EXCEPT !.leap = leap] ELSE list[n]]
  BY DEF WithLeaps
<1>2. \A n \in DOMAIN list :
        new[n] = IF leaps(n) THEN [list[n] EXCEPT !.leap = leap] ELSE list[n]
  BY <1>1
<1>3. new = [n \in DOMAIN list |-> new[n]]
  BY <1>1
<1>4. Bound(other) <=> HasBtc(cells)
  BY BoundIs
<1> HIDE DEF new
<1>5. ASSUME NEW n \in DOMAIN list
      PROVE  /\ new[n] \in Told /\ SameCell(list[n], new[n]) /\ new[n].event = list[n].event
             /\ new[n].leap = LeapOf(list[n].cell, cells, leap)
  <2>1. list[n] \in Told /\ list[n].leap = NoLeap(list[n].cell)
    OBVIOUS
  <2>2. CASE leaps(n)
    <3>1. new[n] = [list[n] EXCEPT !.leap = leap]
      BY <1>2, <2>2
    <3>2. LET f == [list[n] EXCEPT !.leap = leap]
          IN  f \in Told /\ SameCell(list[n], f) /\ f.event = list[n].event /\ f.leap = leap
      BY <2>1, WithLeap
    <3>3. LeapOf(list[n].cell, cells, leap) = leap
      BY <1>4, <2>1, <2>2 DEF LeapOf, NoLeap
    <3> QED
      BY <3>1, <3>2, <3>3
  <2>3. CASE ~leaps(n)
    <3>1. new[n] = list[n]
      BY <1>2, <2>3
    <3>2. LeapOf(list[n].cell, cells, leap) = list[n].leap
      BY <1>4, <2>1, <2>3 DEF LeapOf, NoLeap
    <3> QED
      BY <2>1, <3>1, <3>2 DEF SameCell
  <2> QED
    BY <2>2, <2>3
<1>6. new \in Seq(Told) /\ DOMAIN new = DOMAIN list /\ Len(new) = Len(list)
  BY <1>3, <1>5, MapIsSeq
<1> QED
  BY <1>5, <1>6 DEF new

LEMMA ToldOnceIs ==
  ASSUME NEW cells, NEW list, Tells(list, cells, Positions(cells))
  PROVE  ToldOnce(list, cells)
<1>1. /\ \A n \in DOMAIN list : /\ list[n].index \in Positions(cells)
                                /\ list[n].cell = cells[list[n].index]
      /\ \A i \in Positions(cells) : \E n \in DOMAIN list : list[n].index = i
      /\ Len(list) = Cardinality(Positions(cells))
  BY DEF Tells
<1>2. ASSUME NEW e \in Range(list)
      PROVE  \E i \in Positions(cells) : <<e.index, e.cell>> = <<i, cells[i]>>
  BY <1>1 DEF Range
<1>3. ASSUME NEW i \in Positions(cells)
      PROVE  \E e \in Range(list) : <<e.index, e.cell>> = <<i, cells[i]>>
  BY <1>1 DEF Range
<1>4. {<<e.index, e.cell>> : e \in Range(list)} = {<<i, cells[i]>> : i \in Positions(cells)}
  BY <1>2, <1>3
<1> QED
  BY <1>1, <1>4 DEF ToldOnce

\* What is told of an input and of an output, by the totals and the NFTs.
LEMMA InputEventIs ==
  ASSUME NEW e \in Told, e.event = InEvent(e.cell, Positions(asset.outs))
  PROVE  EventIn(e) \in EventOfInput(e.cell)
<1>1. (\E j \in Positions(asset.outs) : SameNft(e.cell, asset.outs[j])) <=> Among(e.cell, asset.outs)
  BY DEF Among, SameNft, Positions, Listed, IsNft
<1>2. ~IsNft(e.cell) => ~\E j \in Positions(asset.outs) : SameNft(e.cell, asset.outs[j])
  BY DEF SameNft
<1>3. CASE e.cell.mode = "udt"
  <2>1. ~IsNft(e.cell)
    BY <1>3 DEF IsNft
  <2>2. e.event = "Burn"
    BY <1>2, <2>1 DEF InEvent
  <2>3. EventIn(e) = Balance(e.cell.id, "Burn")
    BY <1>3, <2>2 DEF EventIn
  <2>4. EventOfInput(e.cell) = {Balance(e.cell.id, "Burn")}
    BY <1>3, <2>1 DEF EventOfInput
  <2> QED
    BY <1>3, <2>3, <2>4
<1>4. CASE IsNft(e.cell)
  <2>1. e.cell.mode # "udt"
    BY <1>4 DEF IsNft
  <2>2. EventOfInput(e.cell) = {IF Among(e.cell, asset.outs) THEN "Transfer" ELSE "Burn"}
    BY <1>4, <2>1 DEF EventOfInput
  <2>3. EventIn(e) = IF Among(e.cell, asset.outs) THEN "Transfer" ELSE "Burn"
    BY <1>1, <2>1 DEF EventIn, InEvent
  <2> QED
    BY <2>2, <2>3
<1>5. CASE e.cell.mode # "udt" /\ ~IsNft(e.cell)
  BY <1>2, <1>5 DEF EventIn, EventOfInput, InEvent
<1> QED
  BY <1>3, <1>4, <1>5

LEMMA OutputEventIs ==
  ASSUME NEW e \in Told, e.event = OutEvent(e.cell)
  PROVE  /\ EventIn(e) \in EventOfOutput(e.cell)
         /\ e.cell.mode = "unique" => EventIn(e) = "Mint" /\ "Issue" \in EventOfOutput(e.cell)
<1>1. (\E i \in DOMAIN asset.ins : SameNft(asset.ins[i], e.cell)) <=> Among(e.cell, asset.ins)
  BY DEF Among
<1>2. ~IsNft(e.cell) => ~Among(e.cell, asset.ins)
  BY DEF Among, SameNft
<1>3. CASE e.cell.mode = "udt"
  <2>1. ~IsNft(e.cell)
    BY <1>3 DEF IsNft
  <2>2. e.event = "Mint"
    BY <1>1, <1>2, <1>3, <2>1 DEF OutEvent
  <2>3. EventIn(e) = Balance(e.cell.id, "Mint")
    BY <1>3, <2>2 DEF EventIn
  <2>4. EventOfOutput(e.cell) = {Balance(e.cell.id, "Mint")}
    BY <1>3, <2>1 DEF EventOfOutput
  <2> QED
    BY <1>3, <2>3, <2>4
<1>4. CASE IsNft(e.cell)
  <2>1. e.cell.mode # "udt" /\ e.cell.mode # "unique"
    BY <1>4 DEF IsNft
  <2>2. EventOfOutput(e.cell) =
          {IF Among(e.cell, asset.ins) THEN "Transfer"
           ELSE IF e.cell.mode = "cluster" THEN "Issue" ELSE "Mint"}
    BY <1>4, <2>1 DEF EventOfOutput
  <2>3. EventIn(e) = IF Among(e.cell, asset.ins) THEN "Transfer"
                     ELSE IF e.cell.mode = "cluster" THEN "Issue" ELSE "Mint"
    BY <1>1, <2>1 DEF EventIn, OutEvent
  <2> QED
    BY <2>1, <2>2, <2>3
<1>5. CASE e.cell.mode # "udt" /\ ~IsNft(e.cell)
  <2>1. e.event = "Mint"
    BY <1>1, <1>2, <1>5 DEF OutEvent, IsNft
  <2> QED
    BY <1>5, <2>1 DEF EventIn, EventOfOutput
<1> QED
  BY <1>3, <1>4, <1>5

LEMMA AnswerKeeps == AssetInv /\ Answer => AssetInv'
<1> SUFFICES ASSUME AssetInv, Answer PROVE AssetInv'
  OBVIOUS
<1> DEFINE inAt == [g \in DOMAIN groups |-> groups[g].inAt]
           outAt == [g \in DOMAIN groups |-> groups[g].outAt]
           ins == Regrouped(inputs, inAt)
           regrouped == Regrouped(outputs, outAt)
           outs == WithMetadata(regrouped)
<1>1. /\ phase = "outputs" /\ todo = {} /\ phase' = "answered"
      /\ asset' = asset /\ todo' = todo /\ groups' = groups
      /\ inputs' = WithLeaps(ins, outputs, "FromUtxo")
      /\ outputs' = WithLeaps(outs, inputs, "ToUtxo")
  BY DEF Answer
<1>2. /\ AssetOK /\ GroupsOK /\ TokensAreOfTx /\ TokensTold
      /\ inputs \in Seq(Told) /\ outputs \in Seq(Told) /\ groups \in Seq(Groups)
      /\ asset.ins \in Seq(Cells) /\ asset.outs \in Seq(Cells)
  BY DEF AssetInv, AssetOK
<1>3. /\ InsDone = Positions(asset.ins) /\ OutsDone = Positions(asset.outs)
      /\ InsDone' = Positions(asset.ins) /\ OutsDone' = Positions(asset.outs)
  BY <1>1 DEF InsDone, OutsDone
<1>4. /\ Tells(inputs, asset.ins, Positions(asset.ins))
      /\ Tells(outputs, asset.outs, Positions(asset.outs))
  BY <1>1, <1>3 DEF AssetInv, ListsOK, Working
<1>5. /\ \A n \in DOMAIN inputs :
           /\ inputs[n].event = InEvent(inputs[n].cell, Positions(asset.outs))
           /\ inputs[n].leap = NoLeap(inputs[n].cell)
      /\ \A n \in DOMAIN outputs :
           /\ outputs[n].event = OutEvent(outputs[n].cell)
           /\ outputs[n].leap = NoLeap(outputs[n].cell)
  BY <1>1, <1>3 DEF AssetInv, EventsSoFar, Working
<1>6. /\ ins \in Seq(Told) /\ DOMAIN ins = DOMAIN inputs /\ Len(ins) = Len(inputs)
      /\ \A n \in DOMAIN inputs :
           /\ SameCell(inputs[n], ins[n]) /\ ins[n].leap = inputs[n].leap
           /\ ins[n].event = EventIn(inputs[n])
  <2>1. \A g \in DOMAIN groups : inAt[g] = PositionsOf(inputs, groups[g].token)
    BY <1>2 DEF GroupsOK, Grouped
  <2>2. \A n \in DOMAIN inputs : inputs[n].cell.mode = "udt" =>
          \E g \in DOMAIN groups : groups[g].token = inputs[n].cell.id
    BY <1>2 DEF GroupsOK, Grouped
  <2> HIDE DEF inAt
  <2> QED
    BY <1>1, <1>2, <2>1, <2>2, RegroupedIs
<1>7. /\ regrouped \in Seq(Told) /\ DOMAIN regrouped = DOMAIN outputs
      /\ Len(regrouped) = Len(outputs)
      /\ \A n \in DOMAIN outputs :
           /\ SameCell(outputs[n], regrouped[n]) /\ regrouped[n].leap = outputs[n].leap
           /\ regrouped[n].event = EventIn(outputs[n])
  <2>1. \A g \in DOMAIN groups : outAt[g] = PositionsOf(outputs, groups[g].token)
    BY <1>2 DEF GroupsOK, Grouped
  <2>2. \A n \in DOMAIN outputs : outputs[n].cell.mode = "udt" =>
          \E g \in DOMAIN groups : groups[g].token = outputs[n].cell.id
    BY <1>2 DEF GroupsOK, Grouped
  <2> HIDE DEF outAt
  <2> QED
    BY <1>1, <1>2, <2>1, <2>2, RegroupedIs
<1> HIDE DEF ins, regrouped, inAt, outAt
<1>8. /\ outs \in Seq(Told) /\ DOMAIN outs = DOMAIN outputs /\ Len(outs) = Len(outputs)
      /\ \A n \in DOMAIN outputs :
           /\ outs[n].cell = outputs[n].cell /\ outs[n].index = outputs[n].index
           /\ outs[n].leap = outputs[n].leap
           /\ \/ outs[n].event = EventIn(outputs[n]) /\ outs[n].token = outputs[n].token
              \/ /\ outputs[n].cell.mode = "unique" /\ outs[n].event = "Issue"
                 /\ 1 \in DOMAIN groups /\ outs[n].token = groups[1].token
                 /\ outs[n].amount = groups[1].outTotal
  <2>1. /\ outs \in Seq(Told) /\ DOMAIN outs = DOMAIN regrouped /\ Len(outs) = Len(regrouped)
        /\ \A n \in DOMAIN regrouped :
             /\ outs[n].cell = regrouped[n].cell /\ outs[n].index = regrouped[n].index
             /\ outs[n].leap = regrouped[n].leap
             /\ \/ outs[n] = regrouped[n]
                \/ /\ regrouped[n].cell.mode = "unique" /\ outs[n].event = "Issue"
                   /\ 1 \in DOMAIN groups /\ outs[n].token = groups[1].token
                   /\ outs[n].amount = groups[1].outTotal
    BY <1>7, WithMetadataIs
  <2> HIDE DEF outs
  <2> QED
    BY <1>7, <2>1 DEF SameCell
<1> HIDE DEF outs
<1>9. /\ inputs' \in Seq(Told) /\ DOMAIN inputs' = DOMAIN inputs /\ Len(inputs') = Len(inputs)
      /\ \A n \in DOMAIN inputs :
           /\ SameCell(inputs[n], inputs'[n])
           /\ inputs'[n].event = EventIn(inputs[n])
           /\ inputs'[n].leap = LeapOf(inputs[n].cell, asset.outs, "FromUtxo")
  <2>1. \A n \in DOMAIN ins : ins[n].leap = NoLeap(ins[n].cell)
    BY <1>5, <1>6 DEF SameCell
  <2>2. "FromUtxo" \in LeapTypes
    BY DEF LeapTypes
  <2>3. /\ inputs' \in Seq(Told) /\ DOMAIN inputs' = DOMAIN ins /\ Len(inputs') = Len(ins)
        /\ \A n \in DOMAIN ins :
             /\ SameCell(ins[n], inputs'[n]) /\ inputs'[n].event = ins[n].event
             /\ inputs'[n].leap = LeapOf(ins[n].cell, asset.outs, "FromUtxo")
    <3>1. \A n \in DOMAIN outputs : outputs[n].leap = NoLeap(outputs[n].cell)
      BY <1>5
    <3>2. ins \in Seq(Told) /\ inputs' = WithLeaps(ins, outputs, "FromUtxo")
      BY <1>1, <1>6
    <3> QED
      BY <1>4, <2>1, <2>2, <3>1, <3>2, WithLeapsIs
  <2> QED
    BY <1>6, <2>3 DEF SameCell
<1>10. /\ outputs' \in Seq(Told) /\ DOMAIN outputs' = DOMAIN outputs
       /\ Len(outputs') = Len(outputs)
       /\ \A n \in DOMAIN outputs :
            /\ outputs'[n].cell = outputs[n].cell /\ outputs'[n].index = outputs[n].index
            /\ outputs'[n].leap = LeapOf(outputs[n].cell, asset.ins, "ToUtxo")
            /\ \/ outputs'[n].event = EventIn(outputs[n]) /\ outputs'[n].token = outputs[n].token
               \/ /\ outputs[n].cell.mode = "unique" /\ outputs'[n].event = "Issue"
                  /\ 1 \in DOMAIN groups /\ outputs'[n].token = groups[1].token
                  /\ outputs'[n].amount = groups[1].outTotal
  <2>1. \A n \in DOMAIN outs : outs[n].leap = NoLeap(outs[n].cell)
    BY <1>5, <1>8
  <2>2. "ToUtxo" \in LeapTypes
    BY DEF LeapTypes
  <2>3. /\ outputs' \in Seq(Told) /\ DOMAIN outputs' = DOMAIN outs /\ Len(outputs') = Len(outs)
        /\ \A n \in DOMAIN outs :
             /\ SameCell(outs[n], outputs'[n]) /\ outputs'[n].event = outs[n].event
             /\ outputs'[n].leap = LeapOf(outs[n].cell, asset.ins, "ToUtxo")
    <3>1. \A n \in DOMAIN inputs : inputs[n].leap = NoLeap(inputs[n].cell)
      BY <1>5
    <3>2. outs \in Seq(Told) /\ outputs' = WithLeaps(outs, inputs, "ToUtxo")
      BY <1>1, <1>8
    <3> QED
      BY <1>4, <2>1, <2>2, <3>1, <3>2, WithLeapsIs
  <2> QED
    BY <1>8, <2>3 DEF SameCell
<1>11. /\ Tells(inputs', asset.ins, Positions(asset.ins))
       /\ Tells(outputs', asset.outs, Positions(asset.outs))
  <2>1. Tells(inputs', asset.ins, Positions(asset.ins))
    BY <1>4, <1>9, TellsStill DEF SameCell
  <2>2. Tells(outputs', asset.outs, Positions(asset.outs))
    BY <1>4, <1>10, TellsStill
  <2> QED
    BY <2>1, <2>2
<1>12. AssetOK'
  BY <1>1, <1>2, <1>9, <1>10 DEF AssetOK
<1>13. PhasesOK'
  BY <1>1 DEF PhasesOK, Working
<1>14. ListsOK'
  BY <1>1, <1>3, <1>11 DEF ListsOK
<1>15. GroupsOK'
  <2>1. Grouped(groups, inputs, outputs)
    BY <1>2 DEF GroupsOK
  <2>2. /\ \A n \in DOMAIN inputs : inputs'[n].cell = inputs[n].cell
        /\ \A n \in DOMAIN outputs : outputs'[n].cell = outputs[n].cell
    BY <1>9, <1>10 DEF SameCell
  <2>3. Grouped(groups, inputs', outputs')
    BY <1>9, <1>10, <2>1, <2>2, GroupedStill
  <2> QED
    BY <1>1, <2>3 DEF GroupsOK
<1>16. TokensAreOfTx'
  BY <1>1, <1>2 DEF TokensAreOfTx
<1>17. TotalsOK'
  <2>1. Summed(groups, asset.ins, InsDone, asset.outs, OutsDone)
    BY <1>1 DEF AssetInv, TotalsOK, Working
  <2> QED
    BY <1>1, <1>3, <2>1 DEF TotalsOK
<1>18. TokensTold'
  <2>1. \A n \in DOMAIN inputs' :
          inputs'[n].cell.mode = "udt" => inputs'[n].token = inputs'[n].cell.id
    BY <1>2, <1>9 DEF TokensTold, SameCell
  <2>2. \A n \in DOMAIN outputs' :
          outputs'[n].cell.mode = "udt" => outputs'[n].token = outputs'[n].cell.id
    BY <1>2, <1>10 DEF TokensTold
  <2> QED
    BY <2>1, <2>2 DEF TokensTold
<1>19. EventsSoFar'
  BY <1>1 DEF EventsSoFar, Working
<1>20. \A x : /\ EventOfInput(x)' = EventOfInput(x) /\ EventOfOutput(x)' = EventOfOutput(x)
  BY <1>1 DEF EventOfInput, EventOfOutput, Balance
<1>21. \A n \in DOMAIN inputs' :
         /\ inputs'[n].event \in EventOfInput(inputs'[n].cell)
         /\ inputs'[n].leap = LeapOf(inputs'[n].cell, asset.outs, "FromUtxo")
  <2> TAKE n \in DOMAIN inputs'
  <2>1. n \in DOMAIN inputs /\ inputs[n] \in Told
    BY <1>2, <1>9
  <2>2. EventIn(inputs[n]) \in EventOfInput(inputs[n].cell)
    BY <1>5, <2>1, InputEventIs
  <2> QED
    BY <1>9, <2>1, <2>2 DEF SameCell
<1>22. \A n \in DOMAIN outputs' :
         /\ outputs'[n].event \in EventOfOutput(outputs'[n].cell)
         /\ outputs'[n].leap = LeapOf(outputs'[n].cell, asset.ins, "ToUtxo")
         /\ outputs'[n].cell.mode = "unique" /\ outputs'[n].event = "Issue" =>
              /\ 1 \in DOMAIN groups /\ outputs'[n].token = groups[1].token
              /\ outputs'[n].amount = groups[1].outTotal
  <2> TAKE n \in DOMAIN outputs'
  <2>1. n \in DOMAIN outputs /\ outputs[n] \in Told
    BY <1>2, <1>10
  <2>2. /\ EventIn(outputs[n]) \in EventOfOutput(outputs[n].cell)
        /\ outputs[n].cell.mode = "unique" =>
             EventIn(outputs[n]) = "Mint" /\ "Issue" \in EventOfOutput(outputs[n].cell)
    BY <1>5, <2>1, OutputEventIs
  <2> QED
    BY <1>10, <2>1, <2>2
<1>23. EventsAreOfTx'
  <2>1. ToldOnce(inputs', asset.ins) /\ ToldOnce(outputs', asset.outs)
    BY <1>11, ToldOnceIs
  <2>2. \A e \in Range(inputs') :
          /\ e.event \in EventOfInput(e.cell)
          /\ e.leap = LeapOf(e.cell, asset.outs, "FromUtxo")
    BY <1>21 DEF Range
  <2>3. \A e \in Range(outputs') :
          /\ e.event \in EventOfOutput(e.cell)
          /\ e.leap = LeapOf(e.cell, asset.ins, "ToUtxo")
    BY <1>22 DEF Range
  <2> QED
    BY <1>1, <1>20, <2>1, <2>2, <2>3 DEF EventsAreOfTx
<1>24. IssuesAreOfTx'
  <2>1. ASSUME 1 \in DOMAIN groups
        PROVE  /\ \E c \in Range(asset.ins) \cup Range(asset.outs) :
                    c.mode = "udt" /\ c.id = groups[1].token
               /\ groups[1].outTotal = Total(asset.outs, groups[1].token)
    <3>1. groups[1].outTotal = Total(asset.outs, groups[1].token)
      BY <1>1, <2>1, GroupTotals
    <3>2. \E c \in Range(asset.ins) \cup Range(asset.outs) : IsToken(c, groups[1].token)
      BY <1>2, <2>1 DEF TokensAreOfTx
    <3> QED
      BY <3>1, <3>2 DEF IsToken
  <2>2. \A e \in Range(outputs') :
          e.cell.mode = "unique" /\ e.event = "Issue" =>
            /\ \E c \in Range(asset.ins) \cup Range(asset.outs) :
                 c.mode = "udt" /\ c.id = e.token
            /\ e.amount = Total(asset.outs, e.token)
    BY <1>22, <2>1 DEF Range
  <2> QED
    BY <1>1, <2>2 DEF IssuesAreOfTx
<1> QED
  BY <1>12, <1>13, <1>14, <1>15, <1>16, <1>17, <1>18, <1>19, <1>23, <1>24 DEF AssetInv

LEMMA ExtractFailsKeeps == AssetInv /\ ExtractFails => AssetInv'
<1> SUFFICES ASSUME AssetInv, ExtractFails PROVE AssetInv'
  OBVIOUS
<1>1. /\ phase \in {"inputs", "outputs"} /\ phase' = "failed" /\ todo' = {}
      /\ asset' = asset /\ inputs' = inputs /\ outputs' = outputs /\ groups' = groups
  BY DEF ExtractFails
<1>2. AssetOK' /\ GroupsOK' /\ TokensAreOfTx' /\ TokensTold'
  BY <1>1 DEF AssetInv, AssetOK, GroupsOK, TokensAreOfTx, TokensTold
<1>3. PhasesOK'
  BY <1>1 DEF PhasesOK, Working
<1>4. ListsOK' /\ TotalsOK' /\ EventsSoFar' /\ EventsAreOfTx' /\ IssuesAreOfTx'
  BY <1>1 DEF ListsOK, TotalsOK, EventsSoFar, EventsAreOfTx, IssuesAreOfTx, Working
<1> QED
  BY <1>2, <1>3, <1>4 DEF AssetInv

\* The next request starts with empty lists.
LEMMA AssetReplyKeeps == AssetReply => AssetInv'
<1> SUFFICES ASSUME AssetReply PROVE AssetInv'
  OBVIOUS
<1>1. /\ phase' = "none" /\ asset' = [ins |-> <<>>, outs |-> <<>>] /\ todo' = {}
      /\ inputs' = <<>> /\ outputs' = <<>> /\ groups' = <<>>
      /\ asset'.ins = <<>> /\ asset'.outs = <<>>
  BY DEF AssetReply
<1>2. AssetOK' /\ PhasesOK'
  BY <1>1 DEF AssetOK, PhasesOK, Working
<1>3. GroupsOK' /\ TokensAreOfTx' /\ TokensTold'
  BY <1>1 DEF GroupsOK, Grouped, TokensAreOfTx, TokensTold
<1>4. ListsOK' /\ TotalsOK' /\ EventsSoFar' /\ EventsAreOfTx' /\ IssuesAreOfTx'
  BY <1>1 DEF ListsOK, TotalsOK, EventsSoFar, EventsAreOfTx, IssuesAreOfTx, Working
<1> QED
  BY <1>2, <1>3, <1>4 DEF AssetInv

LEMMA AssetSteps == AssetInv /\ [AssetNext]_assetVars => AssetInv'
<1> SUFFICES ASSUME AssetInv, [AssetNext]_assetVars PROVE AssetInv'
  OBVIOUS
<1>1. CASE Ask
  BY <1>1, AskKeeps
<1>2. ASSUME NEW i \in todo, CompleteInput(i)
      PROVE  AssetInv'
  BY <1>2, CompleteInputKeeps
<1>3. ASSUME NEW i \in todo, CompleteOutput(i)
      PROVE  AssetInv'
  BY <1>3, CompleteOutputKeeps
<1>4. CASE InputsAwaited
  BY <1>4, InputsAwaitedKeeps
<1>5. CASE Answer
  BY <1>5, AnswerKeeps
<1>6. CASE ExtractFails
  BY <1>6, ExtractFailsKeeps
<1>7. CASE AssetReply
  BY <1>7, AssetReplyKeeps
<1>8. CASE UNCHANGED assetVars
  <2>1. /\ asset' = asset /\ todo' = todo /\ inputs' = inputs /\ outputs' = outputs
        /\ groups' = groups /\ phase' = phase
    BY <1>8 DEF assetVars
  <2>2. AssetOK' /\ PhasesOK' /\ GroupsOK' /\ TokensAreOfTx' /\ TokensTold'
    BY <2>1 DEF AssetInv, AssetOK, PhasesOK, GroupsOK, TokensAreOfTx, TokensTold, Working
  <2>3. InsDone' = InsDone /\ OutsDone' = OutsDone
    BY <2>1 DEF InsDone, OutsDone
  <2>4. ListsOK' /\ TotalsOK'
    BY <2>1, <2>3 DEF AssetInv, ListsOK, TotalsOK, Working
  <2>5. EventsSoFar'
    BY <2>1, <2>3 DEF AssetInv, EventsSoFar, InEvent, OutEvent, Working
  <2>6. \A x : EventOfInput(x)' = EventOfInput(x) /\ EventOfOutput(x)' = EventOfOutput(x)
    BY <2>1 DEF EventOfInput, EventOfOutput, Balance
  <2>7. EventsAreOfTx' /\ IssuesAreOfTx'
    BY <2>1, <2>6 DEF AssetInv, EventsAreOfTx, IssuesAreOfTx
  <2> QED
    BY <2>2, <2>4, <2>5, <2>7 DEF AssetInv
<1> QED
  BY <1>1, <1>2, <1>3, <1>4, <1>5, <1>6, <1>7, <1>8 DEF AssetNext

\* At every moment of a request, the shared lists and token groups hold what
\* the callbacks completed so far have found, each once, whatever their order.
THEOREM AssetCorrect == AssetSpec => []AssetInv
<1> QED
  BY AssetStarts, AssetSteps, PTL DEF AssetSpec

\* The positions that extractCellsFromTxInputs and extractCellsFromTxOutputs
\* take of the shared lists are those of cells of the group's token.
THEOREM AssetTypesCorrect == AssetSpec => []AssetTypeOK
<1>1. AssetInv => AssetTypeOK
  <2> SUFFICES ASSUME AssetInv PROVE AssetTypeOK
    OBVIOUS
  <2>1. /\ PhasesOK /\ Grouped(groups, inputs, outputs) /\ TokensTold
        /\ asset.ins \in Seq(Cells) /\ asset.outs \in Seq(Cells)
    BY DEF AssetInv, AssetOK, GroupsOK
  <2>2. Positions(asset.ins) \subseteq DOMAIN asset.ins
        /\ Positions(asset.outs) \subseteq DOMAIN asset.outs
    BY <2>1, PositionsAre
  <2>3. todo \subseteq DOMAIN asset.ins \cup DOMAIN asset.outs
    BY <2>1, <2>2 DEF PhasesOK, Working
  <2>4. \A g \in DOMAIN groups : \A n \in groups[g].inAt :
          n \in DOMAIN inputs /\ inputs[n].token = groups[g].token
    BY <2>1 DEF Grouped, PositionsOf, IsToken, TokensTold
  <2>5. \A g \in DOMAIN groups : \A n \in groups[g].outAt :
          n \in DOMAIN outputs /\ outputs[n].token = groups[g].token
    BY <2>1 DEF Grouped, PositionsOf, IsToken, TokensTold
  <2>6. phase \in {"none", "inputs", "outputs", "answered", "failed"}
    BY <2>1 DEF PhasesOK
  <2> QED
    BY <2>3, <2>4, <2>5, <2>6 DEF AssetTypeOK
<1> QED
  BY <1>1, AssetCorrect, PTL

\* What the API answers of a transaction does not depend on the order in which
\* the lookups inside Promise.all complete: every typed cell is told once, with
\* the event its token's totals or its NFT's whereabouts give, and its leap.
THEOREM EventsCorrect == AssetSpec => []EventsAreOfTx
<1>1. AssetInv => EventsAreOfTx
  BY DEF AssetInv
<1> QED
  BY <1>1, AssetCorrect, PTL

\* The token a unique cell is said to issue is one the transaction has cells
\* of, and the amount is all it creates of that token, whichever came up first.
THEOREM IssuesCorrect == AssetSpec => []IssuesAreOfTx
<1>1. AssetInv => IssuesAreOfTx
  BY DEF AssetInv
<1> QED
  BY <1>1, AssetCorrect, PTL

=============================================================================
