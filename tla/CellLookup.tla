------------------------------ MODULE CellLookup ------------------------------
(***************************************************************************)
(* One request of the cell API at a time: where a cell is, who spent it,   *)
(* which cell an isomorphic UTXO stands for, and the cells of a token by   *)
(* pages.  A request first reads the transaction table and then asks the   *)
(* node again and again; between any two of its steps the node's chain may *)
(* grow or be reorganised.                                                 *)
(*                                                                         *)
(* A block's payload is the sequence of its transactions.  A search key is *)
(* a lock and a type, NoType if any cell of the lock is wanted.            *)
(***************************************************************************)
EXTENDS ChainNode, Functions

CONSTANTS
  InputsOf,   \* the outpoints a transaction spends, in order
  OutputsOf,  \* the cells it creates, in order: a lock and a type each
  BtcLocks,   \* the RGB++ locks
  TimeLocks,  \* the RGB++ time locks
  NoType,     \* the type of a cell that has none
  PageLimit,  \* transactions or cells the node returns at once
  Nil         \* undefined

CONSTANT Requests  \* what may be asked for: kind, target, withSpender

ASSUME PageLimitAssumption == PageLimit \in Nat \ {0}
ASSUME BlocksAssumption == Payloads \subseteq Seq(DOMAIN InputsOf)
ASSUME OutputsAssumption ==
  /\ DOMAIN OutputsOf = DOMAIN InputsOf
  /\ \A t \in DOMAIN OutputsOf : OutputsOf[t] \in Seq(Range(OutputsOf[t]))
Txs == DOMAIN InputsOf
ByOutPoint(r) == r.kind \in {"outpoint", "spendInfo"}

ASSUME RequestsAssumption ==
  /\ Nil \notin Requests
  /\ \A r \in Requests :
       /\ r.kind \in {"outpoint", "spendInfo", "utxo", "tokens"}
       /\ ByOutPoint(r) => r.target \in [tx : Txs, index : Nat] /\ r.withSpender \in BOOLEAN

VARIABLES
  pool,     \* transactions the node knows although its chain has them not
  mined,    \* transactions its chain has ever had: the table may hold any of them
  call,     \* the request at work, Nil if there is none
  pc,       \* what it does next
  cell,     \* the outpoint of the cell it has found
  since,    \* cellTx.blockNumber ?? 0
  page,     \* what is left of the page at hand
  cursor,   \* where the next page starts
  more,     \* was the last page full?
  spender,  \* the input that spends the cell
  answer,   \* what is to be answered
  listed,   \* cells, with their places, that the client has been given
  held,     \* ghost: how the cells asked for stood, before the answer
  steady    \* ghost: the cells of the list that have not moved since it began

requestVars == <<call, pc, cell, since, page, cursor, more, spender, answer, listed>>
lookupVars == <<nodeVars, pool, mined, requestVars, held, steady>>

TxsOfBlocks(c) == UNION {Range(c[h]) : h \in 1..Len(c)}

HasOutput(out) == out.index \in DOMAIN OutputsOf[out.tx]
Output(out) == OutputsOf[out.tx][out.index]
Spends(tx, out) == out \in Range(InputsOf[tx])
Matches(out, key) ==
  /\ Output(out).lock = key.lock
  /\ key.type \in {NoType, Output(out).type}

OutPoints == UNION {{[tx |-> t, index |-> i] : i \in DOMAIN OutputsOf[t]} : t \in Txs}

ASSUME InputsAssumption == \A t \in Txs : InputsOf[t] \in Seq(OutPoints)
ASSUME NilAssumption ==
  /\ Nil \notin OutPoints
  /\ Nil \notin [tx : Txs, place : Nat \X Nat, index : Nat, isInput : BOOLEAN]

LiveOn(c, out) ==
  /\ out.tx \in TxsOfBlocks(c)
  /\ HasOutput(out)
  /\ \A t \in TxsOfBlocks(c) : ~Spends(t, out)

\* Where transactions are on a chain: a block, and a place in it.
Places(c) == UNION {{h} \X DOMAIN c[h] : h \in DOMAIN c}
TxAt(c, place) == c[place[1]][place[2]]
PlaceOn(c, tx) == CHOOSE place \in Places(c) : TxAt(c, place) = tx
HeightOn(c, tx) == PlaceOn(c, tx)[1]

Precedes(x, y) == x[1] < y[1] \/ (x[1] = y[1] /\ x[2] < y[2])
EarlierTxs(c, place) == {TxAt(c, x) : x \in {x \in Places(c) : Precedes(x, place)}}

\* What the chain requires of a block: fresh transactions that spend live
\* cells, those of earlier transactions of the block among them.
ValidBlocks(c) ==
  \A place \in Places(c) :
    LET earlier == EarlierTxs(c, place) IN
    /\ TxAt(c, place) \notin earlier
    /\ \A out \in Range(InputsOf[TxAt(c, place)]) :
         out.tx \in earlier /\ \A t \in earlier : ~Spends(t, out)

ASSUME OriginOfNodeAssumption == ValidBlocks(Origin) /\ Len(Origin) <= MaxHeight

\* The entries of the node's transaction index for a search key: the inputs
\* and the outputs that match it, block by block and transaction by transaction.
EntriesAt(c, place, key) ==
  LET t == TxAt(c, place)
      entry(i, in) == [tx |-> t, place |-> place, index |-> i, isInput |-> in]
  IN  {entry(i, TRUE) : i \in {i \in DOMAIN InputsOf[t] : Matches(InputsOf[t][i], key)}}
        \cup
      {entry(i, FALSE) : i \in {i \in DOMAIN OutputsOf[t] :
                                  Matches([tx |-> t, index |-> i], key)}}
Entries(c, key) == UNION {EntriesAt(c, place, key) : place \in Places(c)}

OutPointOf(e) == [tx |-> e.tx, index |-> e.index]

\* Its index of live cells has the same order.
LiveCells(c, key) ==
  {e \in Entries(c, key) : ~e.isInput /\ LiveOn(c, OutPointOf(e))}

Sooner(e, f) ==
  \/ Precedes(e.place, f.place)
  \/ e.place = f.place /\ e.index < f.index
  \/ e.place = f.place /\ e.index = f.index /\ e.isInput /\ ~f.isInput

InOrderOf(e, f, order) == IF order = "desc" THEN Sooner(f, e) ELSE Sooner(e, f)

First(e, entries, order) == \A f \in entries \ {e} : InOrderOf(e, f, order)
LastOf(entries, order) ==
  CHOOSE e \in entries : \A f \in entries \ {e} : InOrderOf(f, e, order)

\* One page: the first PageLimit entries after the cursor.
PageAfter(entries, after, order) ==
  LET rest == {e \in entries : after = Nil \/ InOrderOf(after, e, order)}
  IN  {e \in rest : Cardinality({f \in rest : InOrderOf(f, e, order)}) < PageLimit}

\* client.getTransaction, and client.getCell behind it
Knows(tx) == tx \in pool \cup TxsOfBlocks(chain)

(***************************************************************************)
(* What is asked for                                                       *)
(***************************************************************************)

SearchKey ==
  CASE call.kind = "utxo" -> [lock |-> call.target, type |-> NoType]
    [] call.kind = "tokens" -> call.target
    [] OTHER -> Output(cell)

Watched(r) ==
  IF ByOutPoint(r) THEN {r.target}
  ELSE {out \in OutPoints : r.kind = "utxo" /\ Output(out).lock = r.target}

\* How an outpoint stands on a chain: absent, live, or spent, where and by whom.
Standing(c, out) ==
  LET by == CHOOSE t \in TxsOfBlocks(c) : Spends(t, out)
  IN  IF LiveOn(c, out) THEN [is |-> "live", by |-> Nil, at |-> Nil]
      ELSE IF \E t \in TxsOfBlocks(c) : Spends(t, out)
        THEN [is |-> "spent", by |-> by, at |-> PlaceOn(c, by)]
      ELSE [is |-> "absent", by |-> Nil, at |-> Nil]

Standings(r, c) == {<<out, Standing(c, out)>> : out \in Watched(r)}

Listing(r, c) == IF r.kind = "tokens" THEN LiveCells(c, r.target) ELSE {}

(***************************************************************************)
(* The node and the indexer around the request                             *)
(***************************************************************************)

LookupInit ==
  /\ NodeInit
  /\ pool = {} /\ mined = TxsOfBlocks(chain)
  /\ call = Nil /\ pc = "idle" /\ answer = Nil
  /\ cell = Nil /\ since = 0 /\ spender = Nil
  /\ page = {} /\ cursor = Nil /\ more = TRUE /\ listed = {}
  /\ held = {} /\ steady = {}

\* The ghosts see every chain the request lives through.
Observe ==
  /\ held' = IF call # Nil /\ answer = Nil THEN held \cup Standings(call, chain') ELSE held
  /\ steady' = IF call # Nil THEN steady \cap Listing(call, chain') ELSE steady

\* A transaction of a block that is replaced may stay in the pool or be lost.
ChainMoves ==
  /\ NodeNext
  /\ ValidBlocks(chain')
  /\ pool' \in SUBSET ((pool \cup TxsOfBlocks(chain)) \ TxsOfBlocks(chain'))
  /\ mined' = mined \cup TxsOfBlocks(chain')
  /\ Observe
  /\ UNCHANGED requestVars

Submit ==
  /\ \E t \in Txs \ (pool \cup TxsOfBlocks(chain)) :
       /\ \A out \in Range(InputsOf[t]) : Knows(out.tx)
       /\ pool' = pool \cup {t}
  /\ UNCHANGED <<nodeVars, mined, requestVars, held, steady>>

(***************************************************************************)
(* The request                                                             *)
(***************************************************************************)

Elsewhere == UNCHANGED <<nodeVars, pool, mined, held, steady>>

Begin(r) ==
  /\ pc = "idle"
  /\ call' = r
  /\ pc' = CASE ByOutPoint(r) -> "readCache" [] r.kind = "utxo" -> "findLive" [] OTHER -> "list"
  /\ held' = Standings(r, chain)
  /\ steady' = Listing(r, chain)
  /\ UNCHANGED <<nodeVars, pool, mined, cell, since, page, cursor, more, spender, answer, listed>>

Respond(a) == answer' = a /\ pc' = "done"
Refuse(error) == Respond([is |-> error, leap |-> Nil])

\* A cell is found; spend-info answers at once, the others describe it.
Found(is) ==
  /\ answer' = [is |-> is, leap |-> Nil]
  /\ pc' = IF call.kind = "spendInfo" THEN "done" ELSE "describe"

\* transactionRepo.getCellByOutpoint: sync() has put the transactions of the
\* blocks it indexed into the table, no rollback takes them out, clear() may
\* have.  Throws if a transaction it finds has no such output.
ReadCache ==
  /\ pc = "readCache"
  /\ \/ pc' = "getCell" /\ UNCHANGED <<cell, answer>>
     \/ /\ call.target.tx \in mined /\ HasOutput(call.target)
        /\ cell' = call.target
        /\ pc' = "getCellLive" /\ UNCHANGED answer
     \/ /\ call.target.tx \in mined /\ ~HasOutput(call.target)
        /\ Refuse("Exception") /\ UNCHANGED cell
  /\ UNCHANGED <<call, since, page, cursor, more, spender, listed>> /\ Elsewhere

\* client.getCell
GetCell ==
  /\ pc = "getCell"
  /\ IF Knows(call.target.tx) /\ HasOutput(call.target)
       THEN cell' = call.target /\ pc' = "getCellLive" /\ UNCHANGED answer
       ELSE Refuse("CkbCellNotFound") /\ UNCHANGED cell
  /\ UNCHANGED <<call, since, page, cursor, more, spender, listed>> /\ Elsewhere

\* Mutant: a cell the table or the node has told of is taken for live.
GetCellLiveUnasked ==
  /\ pc = "getCellLive"
  /\ \/ Knows(cell.tx) /\ Found("live")
     \/ ~Knows(cell.tx) /\ ~call.withSpender /\ Found("spent")
     \/ ~Knows(cell.tx) /\ call.withSpender /\ pc' = "getCellTx" /\ UNCHANGED answer
  /\ UNCHANGED <<call, cell, since, page, cursor, more, spender, listed>> /\ Elsewhere

\* client.getCellLive
GetCellLive ==
  /\ pc = "getCellLive"
  /\ \/ LiveOn(chain, cell) /\ Found("live")
     \/ ~LiveOn(chain, cell) /\ ~call.withSpender /\ Found("spent")
     \/ ~LiveOn(chain, cell) /\ call.withSpender /\ pc' = "getCellTx" /\ UNCHANGED answer
  /\ UNCHANGED <<call, cell, since, page, cursor, more, spender, listed>> /\ Elsewhere

\* client.getTransaction(cell.outPoint.txHash)
GetCellTx ==
  /\ pc = "getCellTx"
  /\ IF Knows(cell.tx)
       THEN /\ since' = IF cell.tx \in TxsOfBlocks(chain) THEN HeightOn(chain, cell.tx) ELSE 0
            /\ pc' = "readPage" /\ UNCHANGED answer
       ELSE Refuse("CkbCellNotFound") /\ UNCHANGED since
  /\ UNCHANGED <<call, cell, page, cursor, more, spender, listed>> /\ Elsewhere

Order == IF ByOutPoint(call) THEN "desc" ELSE "asc"

\* client.findTransactions fetches the next page when it is needed.
ReadPage ==
  /\ pc = "readPage" /\ more
  /\ page' = PageAfter(Entries(chain, SearchKey), cursor, Order)
  /\ cursor' = IF page' = {} THEN cursor ELSE LastOf(page', Order)
  /\ more' = (Cardinality(page') = PageLimit)
  /\ pc' = IF page' = {} THEN "readPage" ELSE "entry"
  /\ UNCHANGED <<call, cell, since, spender, answer, listed>> /\ Elsewhere

\* Mutants: any transaction of the same script is taken for the spender; a
\* spender in the block of the cell itself is passed over.
IsSpenderOfScript(e) == e.isInput /\ e.place[1] >= since /\ Knows(e.tx)
IsSpenderAbove(e) ==
  e.isInput /\ e.place[1] > since /\ Knows(e.tx) /\ Spends(e.tx, cell)
IsSpenderAnyEntry(e) == e.place[1] >= since /\ Knows(e.tx) /\ Spends(e.tx, cell)

IsSpender(e) ==
  e.isInput /\ e.place[1] >= since /\ Knows(e.tx) /\ Spends(e.tx, cell)

\* for await (const tx of spentTxs)
CheckEntry ==
  /\ pc = "entry" /\ ByOutPoint(call)
  /\ \E e \in page :
       /\ First(e, page, Order)
       /\ IF IsSpender(e)
            THEN /\ spender' = e
                 /\ Found("spent") /\ UNCHANGED page
            ELSE /\ page' = page \ {e}
                 /\ pc' = IF page' = {} THEN "readPage" ELSE "entry"
                 /\ UNCHANGED <<spender, answer>>
  /\ UNCHANGED <<call, cell, since, cursor, more, listed>> /\ Elsewhere

\* The search is over: without a spender.
NoSpender ==
  /\ pc = "readPage" /\ ~more /\ ByOutPoint(call)
  /\ Found("spent")
  /\ UNCHANGED <<call, cell, since, page, cursor, more, spender, listed>> /\ Elsewhere

\* getRgbppCellByUtxo: the first live cell of the lock, if there is any
FindLive ==
  /\ pc = "findLive"
  /\ LET live == LiveCells(chain, SearchKey) IN
     \/ live = {} /\ pc' = "readPage" /\ UNCHANGED <<cell, answer>>
     \/ \E e \in live : First(e, live, "asc") /\ cell' = OutPointOf(e) /\ Found("live")
  /\ UNCHANGED <<call, since, page, cursor, more, spender, listed>> /\ Elsewhere

\* for await (const tx of rgbppTxs): the last of each kind stays.
ReadUtxoEntry ==
  /\ pc = "entry" /\ call.kind = "utxo"
  /\ \E e \in page :
       /\ First(e, page, Order)
       /\ IF e.isInput THEN spender' = e /\ UNCHANGED cell
          ELSE /\ cell' = IF Knows(e.tx) THEN OutPointOf(e) ELSE Nil
               /\ UNCHANGED spender
       /\ page' = page \ {e}
       /\ pc' = IF page' = {} THEN "readPage" ELSE "entry"
  /\ UNCHANGED <<call, since, cursor, more, answer, listed>> /\ Elsewhere

\* Mutant: the cell is described although none was found.
UtxoEndUnasserted ==
  /\ pc = "readPage" /\ ~more /\ call.kind = "utxo"
  /\ Found("spent")
  /\ UNCHANGED <<call, cell, since, page, cursor, more, spender, listed>> /\ Elsewhere

UtxoEnd ==
  /\ pc = "readPage" /\ ~more /\ call.kind = "utxo"
  /\ IF cell = Nil THEN Refuse("RgbppCellNotFound") ELSE Found("spent")
  /\ UNCHANGED <<call, cell, since, page, cursor, more, spender, listed>> /\ Elsewhere

(***************************************************************************)
(* What the request tells of the cell                                      *)
(***************************************************************************)

\* getScriptByModeFromTxInputs: is there a lock of these among the inputs?
HasBtcInput(tx) ==
  \E out \in Range(InputsOf[tx]) : Knows(out.tx) /\ Output(out).lock \in BtcLocks

\* parseIsomorphicBinding: a leap type, no binding, or why it fails
BindingOf(out) ==
  CASE Output(out).lock \in BtcLocks -> IF HasBtcInput(out.tx) THEN "None" ELSE "ToUtxo"
    [] Output(out).lock \in TimeLocks ->
         IF HasBtcInput(out.tx) THEN "FromUtxo" ELSE "RgbppCellNotFound"
    [] OTHER -> "NoBinding"

\* The assertion on the type, and getTxByCell
Describe ==
  /\ pc = "describe"
  /\ CASE Output(cell).type = NoType -> Refuse("CellNotAsset")
       [] Output(cell).type # NoType /\ ~Knows(cell.tx) -> Refuse("TxNotFound")
       [] OTHER -> pc' = "bind" /\ UNCHANGED answer
  /\ UNCHANGED <<call, cell, since, page, cursor, more, spender, listed>> /\ Elsewhere

Bind ==
  /\ pc = "bind"
  /\ IF BindingOf(cell) = "RgbppCellNotFound" THEN Refuse("RgbppCellNotFound")
     ELSE Respond([answer EXCEPT !.leap = BindingOf(cell)])
  /\ UNCHANGED <<call, cell, since, page, cursor, more, spender, listed>> /\ Elsewhere

(***************************************************************************)
(* The cells of a token under an address, by pages                         *)
(***************************************************************************)

\* Mutant: a page that is just full is taken for the last one.
CursorUnlessFull(cells, last) == IF Cardinality(cells) <= PageLimit THEN Nil ELSE last

\* The cursor answered: empty after a page that is not full
CursorAfter(cells, last) == IF Cardinality(cells) < PageLimit THEN Nil ELSE last

\* client.findCellsPaged
ListPage ==
  /\ pc = "list"
  /\ page' = PageAfter(LiveCells(chain, SearchKey), cursor, "asc")
  /\ cursor' = IF page' = {} THEN Nil ELSE CursorAfter(page', LastOf(page', "asc"))
  /\ pc' = "describePage"
  /\ UNCHANGED <<call, cell, since, more, spender, answer, listed>> /\ Elsewhere

\* cellToTokenCell for each; one failure fails the page.  A client that got
\* a cursor asks for the next page.
DescribePage ==
  /\ pc = "describePage"
  /\ LET cells == {OutPointOf(e) : e \in page} IN
     IF \E out \in cells : ~Knows(out.tx) \/ BindingOf(out) = "RgbppCellNotFound"
       THEN Refuse("Exception") /\ UNCHANGED <<page, listed>>
       ELSE /\ listed' = listed \cup page
            /\ page' = {}
            /\ IF cursor = Nil THEN Respond([is |-> "listed", leap |-> Nil])
               ELSE pc' = "list" /\ UNCHANGED answer
  /\ UNCHANGED <<call, cell, since, cursor, more, spender>> /\ Elsewhere

\* The response leaves; or the node or the database fails, and nothing is told.
Reply ==
  /\ pc # "idle"
  /\ call' = Nil /\ pc' = "idle" /\ answer' = Nil
  /\ cell' = Nil /\ since' = 0 /\ spender' = Nil
  /\ page' = {} /\ cursor' = Nil /\ more' = TRUE /\ listed' = {}
  /\ held' = {} /\ steady' = {}
  /\ UNCHANGED <<nodeVars, pool, mined>>

RequestStep ==
  \/ \E r \in Requests : Begin(r)
  \/ ReadCache \/ GetCell \/ GetCellLive \/ GetCellTx
  \/ ReadPage \/ CheckEntry \/ NoSpender
  \/ FindLive \/ ReadUtxoEntry \/ UtxoEnd
  \/ Describe \/ Bind
  \/ ListPage \/ DescribePage
  \/ Reply

LookupNext == ChainMoves \/ Submit \/ RequestStep

LookupSpec == LookupInit /\ [][LookupNext]_lookupVars

(***************************************************************************)
(* Properties                                                              *)
(***************************************************************************)

Replies ==
  {"live", "spent", "listed", "Exception", "CkbCellNotFound", "RgbppCellNotFound",
   "CellNotAsset", "TxNotFound"}
Leaps == {Nil, "None", "ToUtxo", "FromUtxo", "NoBinding"}
ASSUME AnswersAssumption == Nil \notin [is : Replies, leap : Leaps]

\* What the answer tells is well typed, and each step finds what it works on.
LookupTypeOK ==
  /\ NodeTypeOK
  /\ pool \subseteq Txs /\ mined \subseteq Txs
  /\ pool \cap TxsOfBlocks(chain) = {}
  /\ call \in Requests \cup {Nil}
  /\ (pc = "idle") = (call = Nil)
  /\ answer \in [is : Replies, leap : Leaps] \cup {Nil}
  /\ (pc = "done") => (answer # Nil)
  /\ cell \in OutPoints \cup {Nil}
  /\ pc \in {"getCellLive", "getCellTx", "describe", "bind"} => cell # Nil
  /\ pc = "entry" => page # {}
  /\ since \in 0..MaxHeight
  /\ more \in BOOLEAN

Said(is) == answer # Nil /\ answer.is = is

\* Whatever the node does meanwhile, a cell that is answered to be live was
\* live at some moment of the request, and one answered to be spent was not.
AnswersHeld ==
  /\ Said("live") => \E x \in held : x[1] = cell /\ x[2].is = "live"
  /\ Said("spent") => \E x \in held : x[1] = cell /\ x[2].is # "live"

\* The spender named for an outpoint did spend it, at the place named.
SpenderHeld ==
  Said("spent") /\ ByOutPoint(call) /\ spender # Nil =>
    <<cell, [is |-> "spent", by |-> spender.tx, at |-> spender.place]>> \in held

\* The index named for the spender is that of an input with the cell's
\* scripts, of the cell itself if it is the only one of them.
SpenderNamed ==
  Said("spent") /\ ByOutPoint(call) /\ spender # Nil =>
    LET ins == InputsOf[spender.tx]
        same == {i \in DOMAIN ins : Matches(ins[i], SearchKey)}
    IN  /\ spender.isInput /\ spender.index \in same
        /\ same = {spender.index} => ins[spender.index] = cell

\* A cell that one transaction has spent all the while, at one place of the
\* chain, is found to be spent by it, on whatever page of the lock's
\* transactions it is.
SpenderFound ==
  \A x \in held :
    /\ answer # Nil /\ ByOutPoint(call) /\ call.withSpender
    /\ held = {x} /\ x[2].is = "spent"
    => /\ ~Said("live") /\ ~Said("CkbCellNotFound")
       /\ Said("spent") =>
            spender # Nil /\ spender.tx = x[2].by /\ spender.place = x[2].at

\* A client that follows the cursors is given every cell of the token that
\* was live, and at the same place of the chain, from the first page on.
PagesComplete == Said("listed") => steady \subseteq listed

=============================================================================
