# ckb-indexer in TLA+

A model of the CKB indexer: a service that follows a CKB node block by block,
keeps the history of tokens, balances, spores and clusters in MySQL, rolls that
history back when the node's chain is reorganised, prunes it once it is
confirmed, and answers queries from it.

## 1. Inventory of the system

| Component | Source | State it keeps | Operations |
|---|---|---|---|
| Sync loop | `libs/sync/src/sync.service.ts` 216-512, `repos/syncStatus.repo.ts` | `PENDING` (height), `PENDING_HASH` (block), the `block` table; locals of one call | read the status, ask for the tip, stream blocks, detect a reorganisation, roll one block back, cache transactions, record script codes, commit a block |
| Clear loop | `sync.service.ts` 514-716 | `SYNCED` (height); locals of one call | mark, pick and compact rows table by table, expire cached transactions |
| Block stream | `sync.service.ts` 40-135, `workers/getBlock.ts` | free workers, open queries | hand out chunks, await the oldest, yield, terminate workers |
| Row history | `libs/schemas`, `libs/commons/src/ormUtils` | rows of `udt_info`, `udt_balance`, `spore`, `cluster` by `updatedAtHeight`; `-1` is a compacted row | copy the newest row and change it, delete from a height on, compact |
| UDT parser | `libs/sync/src/udtParser.ts` | none between calls | find the UDT types of a transaction, balance difference per address, owner, save |
| Spore parser | `libs/sync/src/sporeParser.ts` | cache per block | flows of spores and clusters, save |
| UDT queries | `libs/udt` | none | balances of addresses now and at a height, holder count and list |
| Cell queries | `libs/cell`, `repos/transaction.repo.ts` | locals of one request | a cell by outpoint, who spent it, the cell of an isomorphic UTXO, the cells of a token by pages |
| Asset queries | `libs/asset` | lists and token totals shared by the callbacks of one request | look up all inputs and outputs of a transaction at once, classify each as minted, issued, transferred or burnt |
| Block queries | `libs/block`, `syncStatus` tracker | none | headers by number, the tip, tracker info |
| Spore queries | `libs/spore` | none | newest rows of spores and clusters, counts |
| Shell | `src/main.ts`, `src/app.module.ts`, `libs/commons` | configuration | wiring, `autoRun`, `withTransaction` |

**How they interact.** `sync()` and `clear()` are two endless `autoRun` loops in
one process. Nothing but the database connects them and nothing locks one
against the other: they share `PENDING`, `SYNCED` and the four history tables.
The stream reaches `sync()` as an async generator; its workers are threads that
talk to the node on their own, so a block may be fetched long before it is
handled, from a chain the node has left by then. Every change of the indexed
state is one database transaction guarded by conditional updates ("set PENDING
to y where it is x"); the transaction cache and the script codes are written
outside of it. The query services only read, each answer from several reads of
the database and the node that nothing ties together.

**What is hard.** Stale reads across awaits; a stream that mixes branches;
several rollbacks in a row; a failure or restart between any two steps, in
particular between batches that are committed separately; `clear()` compacting
a row by id after `sync()` has deleted it; a second process started before the
first has ended; parallel fetching that must not show; retries that must
terminate; API answers put together from reads of a chain that moves between
them, and from callbacks that complete in any order. Each is listed at its line in `PROJECT.json` under `hazards`.

**What makes each part correct.**
- Sync loop: the three progress markers agree; the rows are exactly what the
  indexed chain makes of them; a settled longer chain is indexed in the end.
- Clear loop: nothing that can still be asked for changes; rollback never needs
  what was deleted; pruning does happen.
- Block stream: in order, exactly once, ends, releases its threads.
- UDT parser: balances are conserved, debits go to the address that was credited.
- Spore parser: the existence and owner of a spore follow its cells.
- Queries: the answer as of a height is the newest row not above it; what is
  said of a cell was so at some moment of the request; pages leave nothing out;
  the events of a transaction do not depend on the order of the lookups.

## 2. Modules

| Module | Models | State and actions against the code |
|---|---|---|
| `ChainNode` | the node (external) | `chain` is the best chain, `final` the prefix the node never replaces. `Grow`, `Reorg`. A block *is* the sequence of payloads up to it, so it is its own hash, `Len` is its height and `Parent` its `parentHash`. |
| `IndexStore` | the tables | `blocks`, `pending`, `pendingHash`, `synced`, `rows`, `txs`, `codes`. `Stamp` is "copy the newest row, change it, save it at this height", `DropFrom` the rollback delete, `InsertIgnore` the cache insert. |
| `SyncService` | `sync()` | one process per loop: `ReadPending`, `GetTip`, `Fetch` (a worker's request), `StreamEnd`, `TakeBlock`, `Rollback`/`RollbackFails`, `SaveBatch`, `SaveTxs`, `SaveCode`, `CommitBlock`/`CommitFails`, `Fail`. |
| `ClearService` | `clear()` | one process per loop: `ClearStart`, `ReadSynced`/`NothingConfirmed`, `MarkSynced`/`MarkFails`, `Pick`, `Compact`, `TableDone`, `ClearTxs`, `ClearFail`. |
| `Indexer` | both on one database | interleaves the steps; a row picked by id is tracked when `sync()` deletes it (`FollowPicked`). |
| `ReorgLedger` | what the indexer promises | an abstract ledger: apply the next block, undo the newest, give old heights up. |
| `BlockStream` | `getBlocks` and its threads | `Open`, `HandOut`, `TurnToOldest`, `Resolve`, `Take`, `ChunkDone`, `RangeDone`, `Leave`; workers `Fetch`, `Answer`, `OldestFails`, `OtherFails`. |
| `UdtParser` | `udtInfoHandleTx`, `saveDiffs`, `parseBtcAddress` | `info`, `balance` are the rows of `udt_info` and `udt_balance`; `ledger` is what the live cells hold after each block. `NewBlock`, `IndexTx` (one transaction of the newest block), `RollBack`. |
| `UdtQueries` | the UDT API's reads | operators over those rows: the balance of one address, of several, of all tokens, at a height; the holder count and list. |
| `SporeParser` | `analyzeTxFlow`, `handleFlows` | `spores`, `clusters` are the rows; `cells` is what the chain holds after each block. `NewBlock`, `IndexTx`, `RollBack`; a transaction that `Throws` cannot be indexed. |
| `SortableInt` | `formatSortableInt`, `parseSortableInt` and the order of the strings | a height is a sequence of digits with a sign, `Below` the comparison the database makes. |
| `BlockQueries` | block API, tracker info, and the height conditions of `sync()` and `clear()` | operators over the state of `Indexer`, all through the strings of `SortableInt`. |
| `CellLookup` | the cell API, one request at a time | `Begin` to `Reply`, one action per read (`ReadCache`, `GetCell`, `GetCellLive`, `GetCellTx`, `ReadPage`, `CheckEntry`, `FindLive`, `ReadUtxoEntry`, `Describe`, `Bind`, `ListPage`, `DescribePage`); around it the node's chain moves (`ChainMoves`) and transactions enter the pool (`Submit`). |
| `AssetEvents` | `extractCellAssetFromTx` and what follows it | `Ask`, `CompleteInput`, `InputsAwaited`, `CompleteOutput`, `Answer`, `ExtractFails`: one action per callback. |
| `MCIndexer`, `MCSyncService`, `MCUdtParser`, `MCSporeParser`, `MCApi` | instances for TLC | constants, and the symmetry of what is interchangeable. `MCApi` runs `CellLookup` and `AssetEvents`. |
| `LedgerProofs`, `BlockQueryProofs`, `BlockStreamProofs`, `UdtParserProofs`, `SporeParserProofs`, `CellLookupProofs`, `AssetEventsProofs` | theorems | see section 5. |
| `FiniteLemmas` | lemmas on finite sets, maxima, minima, counting up and sums | no code of its own. |

**Abstractions.** A payload stands for the transactions of a block; it says
which entities the block changes (`Touched`), which transactions it carries
(`TxsOf`) and which code cells they create (`CodesOf`). An entity (`Keys`) is a
token, an (address, token) pair, a spore or a cluster. The content of a row is
the bag of blocks that were applied to the entity: amounts, owners and names are
functions of that bag, and a block that is missing, foreign or applied twice
shows in it. A database transaction is one step, because `withTransaction`
commits or undoes it as a whole and its conditional updates lock the rows they
test; where the code commits in the middle (`commitTransaction` between two
batches) the model has separate steps. In `SyncService` the stream is just "a
request per height, answered at any time"; what the generator adds is in
`BlockStream`, whose property `InOrder` is what `SyncService` takes from it.

`UdtParser` opens up what a payload does to tokens and balances. A transaction
says how much of each token it spends and creates under each lock, which locks
its inputs and outputs have (a cell may be empty), whether it shows the owner
script (`findOwnerScriptFromIssuanceTx`), and what its unique cell tells of the
token. The address of an RGB++ lock is looked up anew for every cell from Bitcoin
nodes that may answer, fail or not know the transaction; the model lets inputs and
outputs of one lock come out differently. All transactions of a block are parsed
before the block's database transaction, so the row in which `getBalanceDiffInTx`
looks for a token's info is one from before the block, and any of them
(`SeenInfos`), while `saveDiffs` copies the newest one, that of the transaction
before it included. Capacity moves the way balance does and is left out; which
type scripts are tokens is the constant `Tokens`; a block is committed at once
and rolled back newest first, which is what `SyncService` shows. No token has
cells that hold something before the start block.

In `SporeParser` a transaction says which spores and clusters are among its inputs
and to whom its outputs give them. What the chain allows (`Valid`) is the business
of the type scripts: ids are never used twice, a spore is minted into a cluster
that is there, no cluster is burnt. Any spore in a cluster may fail to be parsed,
since that takes requests to the node; its flow is then skipped. Spores and
clusters may be older than the start block, hence known to the chain and not to
the tables.

In `CellLookup` a block's payload is the sequence of its transactions, and the
chain holds only what a node accepts (`ValidBlocks`). The transaction table holds
any part of what the node's chain has ever had: `sync()` fills it, no rollback
empties it, `clear()` may. One request is followed at a time: requests share
nothing but the database and the node, and write neither. How a cell stands on a chain
(`Standing`) includes the place, block and index in it, at which its spender is: a
transaction that a reorganisation moves inside its block may be passed over by the
cursor of a search that goes page by page, so that no spender is named, and
`SpenderFound` promises nothing of it. The cache inside the
client library is not in the repository and is left out. The inputs of one
transaction are looked up in one step (`Bind`). What the ghosts `held` and `steady`
remember, the chains the request has lived through, is used by properties only.

`AssetEvents` takes a transaction with the cells it spends and creates; what
`CellLookup` shows of looking one up is not repeated, it may fail or find nothing.
The list for a whole block does the same for each transaction. Neither shares state
with the other, so `MCApi` explores the two side by side and not their product.

## 3. Runs

| Run | Question | Bounds | Size |
|---|---|---|---|
| `indexer` | safety of both loops, refinement of `ReorgLedger`, block queries | heights to 4, node finality 2, `confirmations` 2, 2 blocks per round, 2 entities in 2 tables, one loop each; heights as strings of 3 binary digits | 186,691 states |
| `two_syncers` | two overlapping `sync()` loops | heights 1 to 3 above a start block, 2 loops, 2 transactions in a block so that batches split, 1 code cell | 1.5 million states |
| `liveness` | does `sync()` get to the tip, and does `clear()` prune? | heights to 2, finality 2, `confirmations` 1, a SYNCED row at 0 | 4,243 states |
| `fresh_database` | does it prune without a SYNCED row? | as `liveness` | violated |
| `block_stream` | order, matching of answers, release, termination | 2 threads, chunks of 2, ranges within 0..5, 2 streams | 52,324 states |
| `worker_threads` | never more threads than configured | as `block_stream` | violated |
| `udt_parser` | are rows and answers those of the live cells? | 2 blocks of 2 transactions, 1 token, a plain and an RGB++ lock, 2 Bitcoin nodes, 2 infos, amounts to 1 | 10,870 states |
| `owner_backfill` | does a token get its owner later? | as `udt_parser`, with an SSRI token | violated |
| `btc_fallback` | is the fallback address fine? | as `udt_parser` | violated |
| `height_query` | balances at a height | as `udt_parser` | violated |
| `spore_parser` | are owners and creators those of the chain? | 3 blocks of 2 transactions, 1 spore in 1 cluster, 2 addresses | 301,643 states |
| `api_requests` | are answers true, whatever happens between two reads? | heights to 3, finality 2, 4 transactions, pages of 1; asset transactions of up to 3 cells a side | 387,917 states |

`PROJECT.json` names the properties of each run, and for each property a mutant:
a plausible bug in one mapped definition with which TLC finds it violated.

- `OneChain`: PENDING, PENDING_HASH and the block table describe one chain.
- `HistoryExact`: every entity, now and at every height not given up, is what
  the indexed chain makes of it.
- `FinalKept`: SYNCED never passes PENDING, so that no rollback reaches the
  heights whose history is gone.
- `KeepsPromise`: refinement of `ReorgLedger`. Of all the steps only a commit, a
  rollback and the mark of SYNCED are visible to readers, each exactly as
  promised; all compactions are stutters.
- `TxsCached`: no block is indexed before all its transactions are cached.
- `CatchesUp`, `PruningHappens`: the liveness of the loops.
- `ServedBlocks`: the block API serves the indexed chain, and no block of a branch
  that was rolled back.
- `SelectedAsNumbers`: the conditions on heights, which compare strings, select
  what comparing numbers would.
- `InOrder`, `EachHasItsWorker`, `ReleasedAtEnd`, `StreamEnds`: the stream.
- `BalancesAreCells`: at every height each balance is what the live cells hold,
  as long as every address was found (`fallback = {}`).
- `SupplyIsCells`: so is the total supply, and the balances add up to it, even
  where addresses were mistaken.
- `InfoIsFirst`: the token info is the first the chain had to show.
- `HoldersServed`: the holder count is right and the list has every holder.
- `BalancesServed`: each address asked for is answered once, with what it holds.
- `SporeOwnersAreCells`, `ClusterOwnersAreCells`: the stored owner at every height
  is that of the cell; for a spore, if its last flow could be parsed.
- `CreatorsStay`: a spore's creator is who owned its cluster when it was minted.
- `NoBlockIsStuck`: no block the chain may hold makes `handleFlows` throw.
- `AnswersHeld`: a cell said to be live was live at some moment of the request, one
  said to be spent was not.
- `SpenderHeld`, `SpenderNamed`, `SpenderFound`: the spender named is one that did
  spend the cell at that place of the chain; the input named has the cell's
  scripts; a cell that stays spent, by a transaction that does not move, has its
  spender found, on whatever page.
- `PagesComplete`: following the cursors misses no cell that stayed where it was.
- `EventsAreOfTx`, `IssuesAreOfTx`: what the asset API says is a function of the
  transaction, not of the order in which its lookups complete.

**Why the bounds are enough.** Height 4 with finality 2 lets the chain fork
twice, roll back two blocks in a row, and confirm heights while later ones are
rolled back. Two payloads give every block a rival; two entities in different
tables let `clear()` be stopped between tables. A run with heights to 5 and three
blocks per round (2.16 million states) found nothing else. Two loops are what an
overlapping restart gives. In `BlockStream` ranges to 5 with chunks of 2 give
full, partial and empty chunks, and more chunks than threads; a second stream is
needed to see what the first one leaves behind. In `UdtParser` two transactions
to a block make the second save over the first one's row, and two blocks give
history and rollbacks to it; three blocks of one transaction (45,707 states)
found nothing else. In `SporeParser` three blocks let a spore be minted, moved and
burnt in blocks of their own, and missed in between. In `CellLookup` pages of
one entry put every entry of a lock on a page of its own, and three blocks hold a
cell, its spender and the spender's, with a rival chain for each. Bounds are the constants
`MaxHeight` (blocks the node mines, or ranges), `MaxSessions` (streams), `MaxTxs`
(transactions of a block) and `MaxAmount` (what a lock holds of a token).
`CHECK_DEADLOCK FALSE` stands only in the `BlockStream` configurations, which
stop at `MaxSessions`.

**Fairness.** `autoRun` calls again whatever happened, hence weak fairness of the
first step of a loop. The later steps have strong fairness: a failure at a step
may repeat any finite number of times, but a step tried again and again
succeeds in the end; without that nothing can be promised. `clear()` needs weak
fairness of its steps and strong fairness of the two that compare SYNCED with what
it read, the read (`ReadSynced`) and the mark (`MarkSynced`); the rest of a round is
finite. Nothing is assumed of
the node, and failures have no fairness. In `BlockStream` requests are answered
or time out, and the consumer comes back.

**Assumed of the environment.** `FinalKept`, and `HistoryExact` beside a `clear()`,
need `confirmations` to cover the depth to which the node reorganises (proved to be
enough, section 5). With a finality
depth of 3 and `confirmations` 2 TLC shows the rollback that reaches compacted
rows. They also need one `clear()` loop, as the one constructor starts: with two,
the second deletes the row the first one has just moved to `-1`, since `-1` is
below the height of the row it has picked itself.

## 4. Where the code and its documents disagree

- **Pruning on a fresh database** (`fresh_database`). `clear()` returns unless
  there is a SYNCED row (`sync.service.ts` 518), and no code creates one.
  `config/config.yaml` 25-27 and `config.mainnet/config.yaml` 29-30 promise automatic
  clearing once `clearInterval` and `confirmations` are set.
- **Number of threads** (`worker_threads`). The `finally` of `getBlocks`
  (132-134) terminates the workers that are free; when `sync()` leaves the stream
  early (after each rollback, for instance) those still fetching live on.
  `config/config.yaml` 13 gives the number of threads.
- **Owner of a token** (`owner_backfill`). `saveDiffs` looks for the owner also
  when there is a record without one (`udtParser.ts` 153), but what it finds is
  only used for a new record (174-182). An empty cell of the token before its
  first issue is enough.
- **Fallback addresses** (`btc_fallback`). `utils/index.ts` 291 calls it fine to
  credit the CKB address of an RGB++ lock whose transaction the Bitcoin node does
  not know. When the cell is spent a node may know it, the Bitcoin address is
  debited, and its balance gets below zero.
- **Balance at a height** (`height_query`). `udtBalance.repo.ts` 32-38 and 62-68
  match only rows of exactly that height, so an address that held something
  before, and did not move it in that block, is answered 0.

Other observations, not runs.

*Sync.* `blockSyncStart` itself is never indexed (the range is `(start, end]`); the
configuration key `txCacheComfirmations` is not the one the code reads; a rejected
query that is not being awaited ends the process; a rollback to the start block
leaves PENDING_HASH on a block that is not in the table, so a reorganisation below
the start block fails for ever; a reorganisation is noticed only once the new chain
is longer than what is indexed.

*Tokens and spores.* The holder list filters zero balances before it takes the
newest row, so it keeps former holders, and it pages without an order; an SSRI token
without decimals is stored with `Number(undefined)`; script codes of a block that is
rolled back stay; a spore burnt in the block that minted or last moved it keeps its
owner, because `save()` skips the undefined `ownerAddress` (`sporeParser.ts` 350;
`SporeOwnersAreCells` excepts these spores and is violated without the exception); a
spore whose mint was missed counts its first sender as its creator;
`spore.controller.ts` 105 tests a response for being a `ClusterInfo`, which it never
is.

*Cells.* A cell of the table whose transaction is in the pool only, or has left the
chain, is answered as spent; where a transaction spends several cells of one lock and
type, the index named for the spender may be that of another of its inputs; an index
out of range on a cached transaction is an internal error, not "not found"; with
several cells under a UTXO's lock the last input and the last output are taken
together although they may belong to different cells; with more than 500 outpoints
`getCellsByOutpoints` writes `undefined` over what earlier batches have found; errors
of the token cell and spend-info requests that are no `ApiError` become internal
errors.

*Assets.* Inputs that cannot be found are left out before they are numbered, which
shifts `index` for the others; a unique cell tells of the token that came up first,
and its place in the list is used as its place in the transaction, so both depend on
which lookup completes first; a token that only goes out, or only comes in, keeps
Burn or Mint; leaps consider the typed cells that are listed, the binding of a cell
all inputs of its transaction; the list of a block is in the order of completion.

*Blocks.* Number 0 asks for the tip; timestamps are seconds in one place and
milliseconds in another.

## 5. Proofs

All theorems hold for any payloads, entities and heights; where a number of loops is
not named, for any number. They rest on the named assumptions of the modules:
payloads exist, the start block is a chain and not above `MaxHeight`, the markers (`None`, `NotFetched`,
`Missing`) are no blocks, `BlockLimit` and `FinalityDepth` are positive,
`Confirmations` is a natural number.

**One chain** (`LedgerProofs`). `SyncInv` is an invariant of
`Spec`, hence `TypeOK` and `OneChain`. `OneChain` alone is not inductive: a commit
makes a new block the tip, and that its parent is the old tip is known only from
what the loop read earlier. `SyncInv` adds
- `Rooted`: node and database share the start block; PENDING exists before
  PENDING_HASH;
- `Consistent(s)`: the height a loop works at is one above the status it read, the
  stream answers each height with a block of that height, and the block about to
  be committed is a child of the PENDING_HASH that was seen, or at the start if
  none was seen.

Only the conditional updates (`CanCommit`, `CanRollback`) then exclude that
another loop has moved on, and the proof uses both of them: their mutants break
the property. `UndoneBlock` and `CommittedBlock` say what a rollback and a commit
do to the indexed chain; all later proofs cite them. `IndexerInv` carries the
result over to `IndexerSpec`: the steps of `clear()` change neither `pending`,
`pendingHash` nor `blocks` (`IndexerTypeCorrect`, `IndexerOneChain`).

**Cached before indexed** (`LedgerProofs!TxsCachedCorrect`). A loop that is at
its commit has all transactions of its block in the cache, since the cache only
grows while no `clear()` runs.

**Histories** (`LedgerProofs!HistoryCorrect`). For any number of `sync()` loops,
`HistoryExact`. The rows of one entity are an `Exact` image of a chain: a commit
stamps above all rows there are (`StampedExact`) or leaves the entity alone
(`UntouchedExact`), a rollback deletes exactly what the undone block stamped
(`DroppedExact`). The strengthening says that no row is above the indexed chain
and that the rows up to any height have a newest one (`Topped`), which is all the
proof needs of their being finitely many.

**Pruning never meets a rollback** (`LedgerProofs`). For one loop of each kind with
`FinalityDepth <= Confirmations` (`OneLoopEach`): `FinalKept`, and `HistoryExact` beside
`clear()`. Neither is inductive. What clear() gives up it computed from an old
PENDING, and the node may have reorganised since. `FinalInv` therefore says of every
height that is given up, or that `clear()` is about to give up, that it is `Kept`: the
indexed chain is there final, and any block in the stream that could still be
handled next agrees with it. A rollback undoes the newest indexed block only for a
block that is not its child; were that newest block at a kept height, the block in
the stream would agree with it at every height and be its child (`NoDeepRollback`).
A new height is given up only that deep below PENDING (`DeepIsKept`), where all that
was ever served is final (`Settled`). `ClearInv` adds that the row about to be
compacted is still there and given up, from which the compaction changes no answer
that can still be asked for (`CompactedExact`).

**Refinement** (`LedgerProofs!PromiseKept`). Under the same condition
`IndexerSpec => KeepsPromise`: with the histories exact, what readers are told before
and after a step is the ledger of the indexed chain, so a commit is `Apply`, a rollback
`Revert`, the mark of SYNCED `Finalise`, and every step that moves neither the indexed
chain nor SYNCED is a stutter.

**Heights as strings** (`BlockQueryProofs`). `SelectedAsNumbers` and `ServedBlocks`, for
any number of loops of either kind. That the database may compare strings is a fact
about numerals (`FormatsInOrder`): for every base and every number of digits, the strings
of the numbers that fit, and of -1, are in the order of the numbers. `Rest(n)[i]` is
what `i` divisions by the base leave of `n`. Two numbers that differ have a last place
where these still differ; one division further they agree, so there the digits that
were taken off are in the numbers' order, and all digits before it are the same
(`NumeralsInOrder`). Zeros in front change nothing since nothing is left of a shorter
number there (`Fits`), and the sign comes before any digit (`MinusIsFirst`). Reading
the digits back undoes the divisions one by one (`ParseIs`). What holds of 0 and goes on
by one holds of every number is proved as `CountUp`, from maxima of finite sets, as the
library's induction theorem is out of reach. The state's part is `HeightsBounded`: no
height of the node, of an answer in the stream, of the indexed chain or of a row is
above `MaxHeight`, so all of them fit (`HeightsFit`: `MaxHeight + 1` has at most `Digits`
digits, as 80 have in the code). With `OneChain` the row of the greatest string is then
the newest indexed block (`TipServed`), and a number names at most one (`NumberServed`).
`Base` is assumed to be at least 2, `Digits` to be positive.

**The stream** (`BlockStreamProofs`). For any number of threads, chunk size and range:
`StreamTypeOK`, `InOrder`, `EachHasItsWorker`, `ReleasedAtEnd`. `StreamInv` adds what the
generator never writes down: while it runs every thread of its session exists and is
either free, once, or at an unanswered query (`PoolInv`, `QueryInv`), so when no query is
open all threads are free and the `finally` block reaches each of them; and what is
delivered, what is ready, the queries in their order and the rest cut the range
without gap or overlap (`CutInv`), whatever order the answers arrive in. A range
whose end is below its start is handed out once and yields nothing (`EmptyInv`).
The proofs also rest on `Threads` and `ChunkSize` being positive.

**Finite sums** (`FiniteLemmas`). Amounts are added up with a fold over a set of locks
or addresses. What a fold computes would be proved by induction over finite sets, but
the library's induction theorems take an operator as parameter, which no installed
prover can instantiate. `SetInduction` therefore says it of a family of sets: one that
has the empty set and is closed under adding an element has every finite set
(`SmallestSubset` finds the smallest counterexample). From it follow that a sum exists
and does not depend on the order (`SumWithout`), that a change of one addend changes
it by that much (`SumOfChanges`), and that it is the sum of the sums over the parts of
a partition (`SumByParts`).

**Tokens** (`UdtParserProofs`). `UdtInv` joins `UdtTypeOK`, `InfoIsFirst`, `SupplyIsCells`
and `BalancesAreCells`, which are inductive with one more conjunct, `InfoStays`: once
the chain has shown a token's info it shows that one. It is needed because the row
that is looked at for the info (`SeenInfos`) may be any row from before the block.
A transaction changes the newest balance of each address by its `Diff` and leaves
those below alone (`IndexedBalances`). The differences of all addresses add up to the
net amount created, since each cell is counted at one address, whichever its lock
resolves to (`AddressSums`), and that is the change of the supply (`IndexedSupply`);
where every address was found, an address's difference is the change of what its own
locks hold (`DiffOfTrue`). A rollback leaves every history below the block as it was
(`BelowCounts`).

**Token queries** (`UdtParserProofs`). `HoldersServed` and `BalancesServed` follow from
`UdtInv`: the newest row is what is held now (`ExistedIsHeld`). That no listing ends
in TokenNotFound needs a second invariant, `TokensKnown`: at the height of a balance
there is a row of the token, as they are saved and rolled back together.
`AnswersCorrect` assumes `ErrorIsNoList`, that TokenNotFound is no list of balances.

**Spores and clusters** (`SporeParserProofs`). `SporeInv` joins the owner properties with
what makes them inductive: a spore that is not created has no row (`SporesBorn`), so
that its mint is never one of a known spore; a spore with a row of a block was moved in
it or is gone (`MovedOrGone`), so that a burn of one that was not moved finds no row
of this height whose owner `save()` would keep; rows that a parsed mint has started all
name its creator (`CreatorsHeld`), which each flow copies from the newest row. The
owner of a cluster that `CreatorOf` reads from the rows is that of the chain, by
`ClusterOwnersAreCells`. `NoBlockIsStuck` needs both: mints find no rows, whatever
flows were missed and whatever was rolled back.

These two rest on the assumptions of their modules: locks are finitely many, RGB++
locks are locks, the SSRI infos are infos, clusters of spores are clusters, the
markers `NoInfo`, `Unborn` and `NoOwner` are no infos or addresses, bounds are natural
numbers.

**Cell queries** (`CellLookupProofs`). `LookupInv` is an invariant of `LookupSpec`, and
the six properties of `CellLookup` follow. It says
- where a request is and what it has not found yet (`Stages`, `CellAsked`);
- that until it answers it has seen how its cells stand now (`Witnessed`), and that
  once it looks for a spender it has seen each of them not live
  (`NoneLive`), from which `AnswersHeld`;
- that an entry of the page at hand which spends the cell was on the chain during the
  request (`PageSeen`), hence the spender named (`SpenderSeen`);
- that a spender which has stayed where it is, is on the page at hand or on one
  that will still be asked for (`SpenderAhead`). It cannot be below the cell's own
  height (`SpenderIsLater`), so the test on `blockNumber` passes it;
- that a cell that has stayed live is listed, or after the cursor (`PagesToCome`).

The last two rest on `PageIs`: the entries of a search are finitely many and
totally ordered (`EntriesFinite`, `EntriesAreOrdered`); a page that leaves an entry
out is full, and that entry comes after the last one of the page. So the cursor,
the last entry of a page that may not even be on the chain any more, never passes an
entry that has stayed, in either order. What the node accepts enters through
`OneSpender` and `OnePlace`: a cell has one spender, a transaction one place.
Assumed besides: the start block's chain is valid, inputs
spend outpoints that some transaction has, requests are of the four kinds, `Nil` is
no outpoint, entry, request or answer, a page holds at least one entry.

**Asset queries** (`AssetEventsProofs`). `AssetInv` is an invariant of `AssetSpec`, and
`AssetTypeOK`, `EventsAreOfTx` and `IssuesAreOfTx` follow. At every moment of a request
it relates what the callbacks share to the set of those that have completed
(`InsDone`, `OutsDone`), so that their order does not matter:
- a list tells of each completed cell once (`Tells`), its event and leap being those of
  the NFTs seen so far (`EventsSoFar`);
- there is one group for each token that has come up; the positions it keeps are those
  of the token's cells in the lists (`Grouped`), and its totals are what the completed
  cells of the token hold (`Summed`), by the lemmas on finite sums.

An output finds the input its NFT comes from only because all inputs are in the list by
then (`NftIndexIs`; the mutant that does not await them breaks `EventsAreOfTx`), and only
one input can be that, since `AssetTxsAssumption` says of the chain that an NFT is in
one live cell. When all have completed the totals are those of the transaction
(`GroupTotals`).

**Only model-checked.** `CatchesUp`, `PruningHappens` and `StreamEnds`: liveness under
fairness, and with it ENABLED, is out of TLAPS's reach. Every invariant and the
refinement that the passing runs check are theorems.

## 6. Plan

Done: every module of section 2. Left:
1. `isTypeUdt` over the rows of `script_code`, which are not rolled back, in
   `UdtParser` in place of the constant `Tokens`.

**Not modelled, and why.**
- Spore queries: each answer is the newest row of one entity, which `SporeParser`'s
  properties are about; the counts rest on what a query builder makes of `getCount`
  over `groupBy`, which is not in the repository.
- Contents of witnesses and data cells beyond what the parsers decide on, and the
  decoding of DOBs: data, and partly of other servers.
- When exactly a cached transaction expires: readers fetch it again from the node.
- Two `clear()` loops: the code starts one, and two do break `HistoryExact` (above).
- The REST types, validation and the application shell have no state.
