----------------------------- MODULE ClearService ----------------------------
(***************************************************************************)
(* SyncService.clear(): marks the history up to the confirmed height as    *)
(* cleared, then, table by table, picks the newest confirmed row that is   *)
(* not yet permanent, deletes the older rows of its entity and stamps it   *)
(* Permanent; at last it drops old cached transactions.                    *)
(*                                                                         *)
(* A row is picked outside the transaction that compacts it.  The code     *)
(* compacts it by its id, so picked keeps where the row with that id is    *)
(* now: at its height, moved to Permanent, or deleted.                     *)
(***************************************************************************)
EXTENDS IndexStore

CONSTANTS
  Clearers,         \* the running clear() loops
  Confirmations,    \* sync.confirmations
  TxConfirmations   \* sync.txCacheConfirmations, or None when not set

ASSUME ConfirmationsAssumption == Confirmations \in Nat
ASSUME TxConfirmationsAssumption == TxConfirmations \in Nat \cup {None}

VARIABLES
  clearPc,      \* where each clear() is
  seenPending,  \* its pendingHeight
  seenSynced,   \* its syncedStatus
  table,        \* the table it is clearing
  picked        \* the row it is about to compact, or None

clearVars == <<clearPc, seenPending, seenSynced, table, picked>>

ClearPhases == {"idle", "read", "mark", "pick", "compact", "txs"}

\* at: the updatedAtHeight of the row now, None once it is deleted.
PickedRows == [key : Keys, height : Nat, at : Nat \cup {Permanent, None}]

ClearTypeOK ==
  /\ clearPc \in [Clearers -> ClearPhases]
  /\ seenPending \in [Clearers -> Nat]
  /\ seenSynced \in [Clearers -> Int]
  /\ table \in [Clearers -> 1..Len(Tables)]
  /\ picked \in [Clearers -> PickedRows \cup {None}]

ClearInit ==
  /\ clearPc = [c \in Clearers |-> "idle"]
  /\ seenPending = [c \in Clearers |-> 0]
  /\ seenSynced = [c \in Clearers |-> 0]
  /\ table = [c \in Clearers |-> 1]
  /\ picked = [c \in Clearers |-> None]

\* Mutant: takes every indexed block for confirmed.
ConfirmedAll(c) == seenPending[c]

\* confirmedHeight
Confirmed(c) == seenPending[c] - Confirmations

\* Return or throw: the locals are gone.
ClearStop(c) ==
  /\ clearPc' = [clearPc EXCEPT ![c] = "idle"]
  /\ seenPending' = [seenPending EXCEPT ![c] = 0]
  /\ seenSynced' = [seenSynced EXCEPT ![c] = 0]
  /\ table' = [table EXCEPT ![c] = 1]
  /\ picked' = [picked EXCEPT ![c] = None]

\* Mutant: a SYNCED row that says 0 counts as none.
ClearStartUnlessZero(c) ==
  /\ clearPc[c] = "idle"
  /\ synced \notin {None, 0}
  /\ pending # None
  /\ clearPc' = [clearPc EXCEPT ![c] = "read"]
  /\ seenPending' = [seenPending EXCEPT ![c] = pending]
  /\ UNCHANGED <<storeVars, seenSynced, table, picked>>

\* hasKeys, then read PENDING.  Without both rows clear() returns.
ClearStart(c) ==
  /\ clearPc[c] = "idle"
  /\ synced # None
  /\ pending # None
  /\ clearPc' = [clearPc EXCEPT ![c] = "read"]
  /\ seenPending' = [seenPending EXCEPT ![c] = pending]
  /\ UNCHANGED <<storeVars, seenSynced, table, picked>>

\* Read SYNCED: is there anything newly confirmed?
ReadSynced(c) ==
  /\ clearPc[c] = "read"
  /\ synced < Confirmed(c)
  /\ clearPc' = [clearPc EXCEPT ![c] = "mark"]
  /\ seenSynced' = [seenSynced EXCEPT ![c] = synced]
  /\ UNCHANGED <<storeVars, seenPending, table, picked>>

NothingConfirmed(c) ==
  /\ clearPc[c] = "read"
  /\ synced >= Confirmed(c)
  /\ ClearStop(c)
  /\ UNCHANGED storeVars

\* updateSyncHeight(SYNCED): the conditional update.
MarkSynced(c) ==
  /\ clearPc[c] = "mark"
  /\ synced = seenSynced[c]
  /\ synced' = Confirmed(c)
  /\ clearPc' = [clearPc EXCEPT ![c] = "pick"]
  /\ UNCHANGED <<statusVars, rows, txs, codes, seenPending, seenSynced, table, picked>>

MarkFails(c) ==
  /\ clearPc[c] = "mark"
  /\ synced # seenSynced[c]
  /\ ClearStop(c)
  /\ UNCHANGED storeVars

\* The confirmed rows of the current table that are not permanent yet.
Clearable(c) ==
  {r \in [key : {k \in Keys : TableOf[k] = table[c]}, height : 0..Confirmed(c)] :
     r.height \in DOMAIN rows[r.key]}

\* findOne, newest first; rows of equal height come in any order.
Pick(c) ==
  /\ clearPc[c] = "pick"
  /\ \E r \in Clearable(c) :
       /\ \A other \in Clearable(c) : other.height <= r.height
       /\ picked' = [picked EXCEPT ![c] = [key |-> r.key, height |-> r.height, at |-> r.height]]
  /\ clearPc' = [clearPc EXCEPT ![c] = "compact"]
  /\ UNCHANGED <<storeVars, seenPending, seenSynced, table>>

\* Mutant: deletes the history of the entity from the row on, not before it.
CompactedNewer(history, row) ==
  LET kept == {x \in DOMAIN history : x <= row.height}
  IN  IF row.at \in kept
        THEN [x \in (kept \ {row.at}) \cup {Permanent} |->
                IF x = Permanent THEN history[row.at] ELSE history[x]]
        ELSE Restrict(history, kept)

\* delete where updatedAtHeight < height, then update the row by its id.
Compacted(history, row) ==
  LET kept == {x \in DOMAIN history : x >= row.height}
  IN  IF row.at \in kept
        THEN [x \in (kept \ {row.at}) \cup {Permanent} |->
                IF x = Permanent THEN history[row.at] ELSE history[x]]
        ELSE Restrict(history, kept)

\* Where the row another clear() has picked is after row is compacted.
Moved(other, row) ==
  IF other = None \/ other.key # row.key \/ other.at \in {None} THEN other
  ELSE IF other.at < row.height THEN [other EXCEPT !.at = None]
  ELSE IF other.at = row.at THEN [other EXCEPT !.at = Permanent]
  ELSE other

\* The compaction transaction of the picked row.
Compact(c) ==
  LET row == picked[c] IN
  /\ clearPc[c] = "compact"
  /\ rows' = [rows EXCEPT ![row.key] = Compacted(@, row)]
  /\ picked' = [d \in Clearers |-> IF d = c THEN None ELSE Moved(picked[d], row)]
  /\ clearPc' = [clearPc EXCEPT ![c] = "pick"]
  /\ UNCHANGED <<statusVars, synced, txs, codes, seenPending, seenSynced, table>>

\* No more confirmed rows: on to the next table, at last to transactions.
TableDone(c) ==
  /\ clearPc[c] = "pick"
  /\ Clearable(c) = {}
  /\ IF table[c] < Len(Tables)
       THEN table' = [table EXCEPT ![c] = @ + 1] /\ UNCHANGED clearPc
       ELSE clearPc' = [clearPc EXCEPT ![c] = "txs"] /\ UNCHANGED table
  /\ UNCHANGED <<storeVars, seenPending, seenSynced, picked>>

\* Drop the transactions cached long enough ago, if so configured.
ClearTxs(c) ==
  /\ clearPc[c] = "txs"
  /\ txs' = IF TxConfirmations = None THEN txs
            ELSE RestrictValues(txs, LAMBDA h : h >= seenPending[c] - TxConfirmations)
  /\ ClearStop(c)
  /\ UNCHANGED <<statusVars, synced, rows, codes>>

\* The database fails, or the process dies.
ClearFail(c) ==
  /\ clearPc[c] # "idle"
  /\ ClearStop(c)
  /\ UNCHANGED storeVars

ClearStep(c) ==
  \/ ClearStart(c)
  \/ ReadSynced(c)
  \/ NothingConfirmed(c)
  \/ MarkSynced(c)
  \/ MarkFails(c)
  \/ Pick(c)
  \/ Compact(c)
  \/ TableDone(c)
  \/ ClearTxs(c)

=============================================================================
