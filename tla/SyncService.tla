----------------------------- MODULE SyncService -----------------------------
(***************************************************************************)
(* SyncService.sync(): reads the sync status, streams the next blocks of   *)
(* the node and commits each in one database transaction, or finds that    *)
(* the chain was reorganised and rolls the newest indexed block back.      *)
(*                                                                         *)
(* One action per step between two awaits on shared state.  Every Syncer   *)
(* runs sync() in the endless loop of autoRun; a deployment has one, but   *)
(* a restart that overlaps the old process, or a second replica, has two.  *)
(***************************************************************************)
EXTENDS ChainNode, IndexStore

CONSTANTS
  Syncers,     \* the running sync() loops
  BlockLimit,  \* sync.blockLimitPerInterval
  NotFetched,  \* a block query that has no answer yet
  Missing      \* the answer to a query above the node's tip

ASSUME BlockLimitAssumption == BlockLimit \in Nat \ {0}
ASSUME MarkersAssumption ==
  /\ None \notin Seq(Payloads) \cup Int
  /\ Missing \notin Seq(Payloads) \cup {NotFetched}
  /\ NotFetched \notin Seq(Payloads)

VARIABLES
  pc,        \* where each sync() is
  status,    \* its pendingStatus, read at the start and moved by commits
  next,      \* height of the next block it takes from the stream
  queries,   \* the stream: the answer to the query of each height
  seenHash   \* its pendingHash, read before the block is handled

syncVars == <<pc, status, next, queries, seenHash>>
vars == <<nodeVars, storeVars, syncVars>>

Phases == {"idle", "tip", "stream", "rollback", "save", "commit"}
Answers == Seq(Payloads) \cup {NotFetched, Missing}
NoQueries == <<>>

TypeOK ==
  /\ NodeTypeOK
  /\ blocks \in SUBSET Seq(Payloads)
  /\ pending \in Nat \cup {None}
  /\ pendingHash \in Seq(Payloads) \cup {None}
  /\ synced \in Int \cup {None}
  /\ DOMAIN rows = Keys
  /\ \A k \in Keys : DOMAIN rows[k] \subseteq {Permanent} \cup Nat
  /\ \A t \in DOMAIN txs : txs[t] \in Nat
  /\ \A c \in DOMAIN codes : codes[c] \in Nat
  /\ pc \in [Syncers -> Phases]
  /\ status \in [Syncers -> Nat]
  /\ next \in [Syncers -> Nat]
  /\ DOMAIN queries = Syncers
  /\ \A s \in Syncers : /\ DOMAIN queries[s] \subseteq Nat
                        /\ \A h \in DOMAIN queries[s] : queries[s][h] \in Answers
  /\ seenHash \in [Syncers -> Seq(Payloads) \cup {None}]

StoreInit ==
  /\ blocks = {}
  /\ pending = None
  /\ pendingHash = None
  /\ rows = [k \in Keys |-> <<>>]
  /\ txs = <<>>
  /\ codes = <<>>

SyncInit ==
  /\ pc = [s \in Syncers |-> "idle"]
  /\ status = [s \in Syncers |-> 0]
  /\ next = [s \in Syncers |-> 0]
  /\ queries = [s \in Syncers |-> NoQueries]
  /\ seenHash = [s \in Syncers |-> None]

Init == NodeInit /\ StoreInit /\ SyncInit /\ synced = None

(***************************************************************************)
(* sync()                                                                  *)
(***************************************************************************)

\* The block that s is handling.
Current(s) == queries[s][next[s]]

\* Return, throw or break: the locals are gone and autoRun calls again.
Stop(s) ==
  /\ pc' = [pc EXCEPT ![s] = "idle"]
  /\ status' = [status EXCEPT ![s] = 0]
  /\ next' = [next EXCEPT ![s] = 0]
  /\ queries' = [queries EXCEPT ![s] = NoQueries]
  /\ seenHash' = [seenHash EXCEPT ![s] = None]

\* Mutant: starts one lower, to index the start block too.
SyncHeightFromBelow == IF pending = None THEN Start - 1 ELSE pending

\* syncStatusRepo.syncHeight: PENDING is created at the start block.
SyncHeight == IF pending = None THEN Start ELSE pending

ReadPending(s) ==
  /\ pc[s] = "idle"
  /\ pc' = [pc EXCEPT ![s] = "tip"]
  /\ pending' = SyncHeight
  /\ status' = [status EXCEPT ![s] = SyncHeight]
  /\ UNCHANGED <<nodeVars, blocks, pendingHash, synced, rows, txs, codes, next, queries, seenHash>>

\* client.getTip, then query the blocks in (pending, endBlock].
GetTip(s) ==
  LET endBlock == Min({status[s] + BlockLimit, Len(chain)}) IN
  /\ pc[s] = "tip"
  /\ pc' = [pc EXCEPT ![s] = "stream"]
  /\ next' = [next EXCEPT ![s] = status[s] + 1]
  /\ queries' = [queries EXCEPT ![s] = [h \in (status[s] + 1)..endBlock |-> NotFetched]]
  /\ UNCHANGED <<nodeVars, storeVars, status, seenHash>>

\* A worker gets the answer for height h, in any order, at any time.
Fetch(s, h) ==
  /\ h \in DOMAIN queries[s]
  /\ queries[s][h] = NotFetched
  /\ queries' = [queries EXCEPT ![s][h] = BlockAt(h, Missing)]
  /\ UNCHANGED <<nodeVars, storeVars, pc, status, next, seenHash>>

\* The stream has ended, or the node did not have the next block.
StreamEnd(s) ==
  /\ pc[s] = "stream"
  /\ next[s] \in DOMAIN queries[s] => Current(s) = Missing
  /\ Stop(s)
  /\ UNCHANGED <<nodeVars, storeVars>>

\* Mutant: takes any block of the next height for a child.
ReorgedByHeight(s) == pendingHash # None /\ Len(pendingHash) # Len(Current(s)) - 1

\* The block is not a child of PENDING_HASH.
Reorged(s) == pendingHash # None /\ pendingHash # Parent(Current(s))

\* Take the next block and read PENDING_HASH: is the block its child?
TakeBlock(s) ==
  /\ pc[s] = "stream"
  /\ next[s] \in DOMAIN queries[s]
  /\ Current(s) \notin {NotFetched, Missing}
  /\ pc' = [pc EXCEPT ![s] = IF Reorged(s) THEN "rollback" ELSE "save"]
  /\ seenHash' = [seenHash EXCEPT ![s] = pendingHash]
  /\ UNCHANGED <<nodeVars, storeVars, status, next, queries>>

\* Mutant: expects PENDING at the height of the fetched block.
CanRollbackFetched(s) ==
  /\ seenHash[s] \in blocks
  /\ pendingHash = seenHash[s]
  /\ pending = next[s]

\* What the rollback transaction finds in the database when it succeeds:
\* the block's row, and both conditional updates affect a row.
CanRollback(s) ==
  /\ seenHash[s] \in blocks
  /\ pendingHash = seenHash[s]
  /\ pending = status[s]

\* Remove the newest indexed block and every row stamped from its height.
Rollback(s) ==
  LET height == Len(seenHash[s]) IN
  /\ pc[s] = "rollback"
  /\ CanRollback(s)
  /\ blocks' = blocks \ {seenHash[s]}
  /\ pendingHash' = Parent(seenHash[s])
  /\ pending' = height - 1
  /\ rows' = [k \in Keys |-> DropFrom(rows[k], height)]
  /\ Stop(s)
  /\ UNCHANGED <<nodeVars, synced, txs, codes>>

\* The transaction throws and is undone.
RollbackFails(s) ==
  /\ pc[s] = "rollback"
  /\ ~CanRollback(s)
  /\ Stop(s)
  /\ UNCHANGED <<nodeVars, storeVars>>

\* A batch of a big block's transactions is committed before the last one.
SaveBatch(s) ==
  /\ pc[s] = "save"
  /\ \E batch \in SUBSET TxsOf[Content(Current(s))] :
       /\ batch \notin {{}, TxsOf[Content(Current(s))]}
       /\ txs' = InsertIgnore(txs, batch, next[s])
  /\ UNCHANGED <<nodeVars, statusVars, synced, rows, codes, syncVars>>

\* Mutant: a retry that finds some of the transactions skips the others.
SaveTxsUnlessSome(s) ==
  LET all == TxsOf[Content(Current(s))] IN
  /\ pc[s] = "save"
  /\ pc' = [pc EXCEPT ![s] = "commit"]
  /\ txs' = IF all \cap DOMAIN txs = {} THEN InsertIgnore(txs, all, next[s]) ELSE txs
  /\ UNCHANGED <<nodeVars, statusVars, synced, rows, codes, status, next, queries, seenHash>>

\* The last batch: all transactions of the block are cached.
SaveTxs(s) ==
  /\ pc[s] = "save"
  /\ pc' = [pc EXCEPT ![s] = "commit"]
  /\ txs' = InsertIgnore(txs, TxsOf[Content(Current(s))], next[s])
  /\ UNCHANGED <<nodeVars, statusVars, synced, rows, codes, status, next, queries, seenHash>>

\* One code cell of the block is recorded if it is not known yet.
SaveCode(s) ==
  /\ pc[s] = "commit"
  /\ \E c \in CodesOf[Content(Current(s))] \ DOMAIN codes :
       codes' = InsertIgnore(codes, {c}, next[s])
  /\ UNCHANGED <<nodeVars, statusVars, synced, rows, txs, syncVars>>

\* Mutant: moves PENDING_HASH whatever it is.
CanCommitAnyHash(s) == Current(s) \notin blocks /\ pending = status[s]

\* Mutant: does not look at how many rows the updates affected.
CanCommitBlindly(s) == Current(s) \notin blocks

\* The block's hash is new, PENDING_HASH is inserted if there was none (its
\* key is unique), and the conditional updates affect a row.
CanCommit(s) ==
  /\ Current(s) \notin blocks
  /\ pendingHash = seenHash[s]
  /\ pending = status[s]

\* Insert the block, apply it to every entity it touches, move the status.
CommitBlock(s) ==
  LET block == Current(s)
      touched == Touched[Content(block)]
  IN
  /\ pc[s] = "commit"
  /\ CodesOf[Content(block)] \subseteq DOMAIN codes
  /\ CanCommit(s)
  /\ blocks' = blocks \cup {block}
  /\ pendingHash' = block
  /\ rows' = [k \in Keys |-> IF k \in touched THEN Stamp(rows[k], block, next[s]) ELSE rows[k]]
  /\ pending' = next[s]
  /\ status' = [status EXCEPT ![s] = next[s]]
  /\ next' = [next EXCEPT ![s] = next[s] + 1]
  /\ pc' = [pc EXCEPT ![s] = "stream"]
  /\ seenHash' = [seenHash EXCEPT ![s] = None]
  /\ UNCHANGED <<nodeVars, synced, txs, codes, queries>>

\* The transaction throws and is undone.
CommitFails(s) ==
  /\ pc[s] = "commit"
  /\ CodesOf[Content(Current(s))] \subseteq DOMAIN codes
  /\ ~CanCommit(s)
  /\ Stop(s)
  /\ UNCHANGED <<nodeVars, storeVars>>

\* A failed request, a lost connection, a deadlock, or the process dies:
\* open transactions are undone and autoRun, or the restart, calls again.
Fail(s) ==
  /\ pc[s] # "idle"
  /\ Stop(s)
  /\ UNCHANGED <<nodeVars, storeVars>>

SyncStep(s) ==
  \/ ReadPending(s)
  \/ GetTip(s)
  \/ \E h \in DOMAIN queries[s] : Fetch(s, h)
  \/ StreamEnd(s)
  \/ TakeBlock(s)
  \/ Rollback(s)
  \/ RollbackFails(s)
  \/ SaveBatch(s)
  \/ SaveTxs(s)
  \/ SaveCode(s)
  \/ CommitBlock(s)
  \/ CommitFails(s)

NodeStep == NodeNext /\ UNCHANGED <<storeVars, syncVars>>

Next ==
  \/ NodeStep
  \/ \E s \in Syncers : SyncStep(s) \/ Fail(s)

Spec == Init /\ [][Next]_vars

(***************************************************************************)
(* Properties                                                              *)
(***************************************************************************)

\* The chain the database is an index of: Origin until a block is committed.
Indexed == IF pendingHash = None THEN Origin ELSE pendingHash

\* The three places sync() keeps its progress agree: PENDING is the height of
\* PENDING_HASH, and the block table holds exactly its ancestors from the
\* start on, whatever fails between two steps and whoever else is syncing.
OneChain ==
  /\ pending # None => pending = Len(Indexed)
  /\ blocks = {Prefix(Indexed, n) : n \in (Start + 1)..Len(Indexed)}

\* What OneChain rests on.  The node and the database share the start block,
\* and PENDING is there before PENDING_HASH.
Rooted ==
  /\ Prefix(chain, Start) = Origin
  /\ Len(Indexed) >= Start
  /\ Prefix(Indexed, Start) = Origin
  /\ pending = None => pendingHash = None

\* A loop that has not seen a PENDING_HASH starts from the start block; the
\* stream answers each height with a block of that height; what is about to
\* be committed is a child of the hash that was seen.
Consistent(s) ==
  /\ pc[s] # "idle" => /\ pending # None
                       /\ status[s] >= Start
                       /\ pendingHash = None => status[s] = Start
  /\ pc[s] \notin {"idle", "tip"} => next[s] = status[s] + 1
  /\ \A h \in DOMAIN queries[s] :
       /\ h > Start
       /\ queries[s][h] \notin {NotFetched, Missing} =>
            /\ Len(queries[s][h]) = h
            /\ Prefix(queries[s][h], Start) = Origin
  /\ pc[s] = "rollback" => seenHash[s] # None
  /\ pc[s] \in {"save", "commit"} =>
       /\ next[s] \in DOMAIN queries[s]
       /\ Current(s) \notin {NotFetched, Missing}
       /\ IF seenHash[s] = None THEN status[s] = Start ELSE seenHash[s] = Parent(Current(s))

SyncInv == TypeOK /\ Rooted /\ OneChain /\ \A s \in Syncers : Consistent(s)

\* The heights that clear() has given up.
Floor == IF synced = None THEN Start ELSE synced

\* Every entity, at every height that has not been given up and now, is what
\* the indexed chain makes of it: no block of a branch that was left, none
\* missing and none applied twice, while clear() is between any two steps.
HistoryExact ==
  \A k \in Keys :
    /\ Latest(rows[k]) = Ledger(k, Indexed, Start)
    /\ \A h \in Floor..Len(Indexed) :
         AsOf(rows[k], h) = Ledger(k, Prefix(Indexed, h), Start)

\* No block is indexed before all its transactions are in the cache, although
\* they are committed apart from it, in batches that a failure may cut short.
TxsCached == \A block \in blocks : TxsOf[Content(block)] \subseteq DOMAIN txs

=============================================================================
