------------------------------ MODULE IndexStore -----------------------------
(***************************************************************************)
(* The MySQL tables that sync() and clear() share.                         *)
(*                                                                         *)
(* udt_info, udt_balance, spore and cluster all keep the history of an     *)
(* entity in rows stamped with updatedAtHeight, unique per entity and      *)
(* height; the row compacted by clear() is stamped Permanent.  A key       *)
(* stands for one entity of one of the four tables.  The content of a row  *)
(* is the bag of the blocks applied to the entity: a block that is         *)
(* missing, foreign or applied twice shows.                                *)
(***************************************************************************)
EXTENDS Integers, Sequences, FiniteSetsExt, Bags, Functions

CONSTANTS
  Keys,     \* entities: token, (address, token), spore or cluster
  TableOf,  \* the table of an entity, by its place in Tables
  Touched,  \* the entities a payload changes
  TxsOf,    \* the transactions of a payload
  CodesOf,  \* the script code cells those transactions create
  None      \* an absent row of the sync status table

Tables == <<"udtInfo", "udtBalance", "spore", "cluster">>

ASSUME TableOfAssumption == TableOf \in [Keys -> 1..Len(Tables)]

VARIABLES
  blocks,       \* block: the hashes of its rows
  pending,      \* sync status PENDING: a height, or None
  pendingHash,  \* sync status PENDING_HASH: a block, or None
  synced,       \* sync status SYNCED: a height, or None
  rows,         \* for each entity, its rows by updatedAtHeight
  txs,          \* transaction: the cached transactions, by height
  codes         \* script_code: the known code cells, by height

statusVars == <<blocks, pending, pendingHash>>
storeVars == <<blocks, pending, pendingHash, synced, rows, txs, codes>>

\* updatedAtHeight of a row that clear() has compacted.
Permanent == -1

(***************************************************************************)
(* Operators on the rows of one entity.                                    *)
(***************************************************************************)

\* The row a query as of height h selects: the newest one up to h.
AsOf(history, h) ==
  LET upTo == {x \in DOMAIN history : x <= h}
  IN  IF upTo = {} THEN EmptyBag ELSE history[Max(upTo)]

\* The latest row, whatever its height: what a new row is copied from.
Latest(history) ==
  IF DOMAIN history = {} THEN EmptyBag ELSE history[Max(DOMAIN history)]

\* The change a block makes is added to a copy of the latest row, or to the
\* latest row itself when that already has this height.
Stamp(history, block, height) ==
  [x \in DOMAIN history \cup {height} |->
     IF x = height THEN Latest(history) (+) SetToBag({block}) ELSE history[x]]

\* Mutant: deletes only what is newer than the block.
DropAbove(history, height) ==
  Restrict(history, {x \in DOMAIN history : x <= height})

\* delete where updatedAtHeight >= height
DropFrom(history, height) ==
  Restrict(history, {x \in DOMAIN history : x < height})

\* insert ... on duplicate ignore: the height of the first insertion stays.
InsertIgnore(table, new, height) ==
  [x \in DOMAIN table \cup new |-> IF x \in DOMAIN table THEN table[x] ELSE height]

\* What an entity's row must say once exactly the blocks of a chain above
\* height start are applied.
Ledger(key, chain, start) ==
  SetToBag({SubSeq(chain, 1, n) :
              n \in {m \in (start + 1)..Len(chain) : key \in Touched[chain[m]]}})

=============================================================================
