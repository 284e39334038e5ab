------------------------------- MODULE Indexer -------------------------------
(***************************************************************************)
(* sync() and clear() at work on the same database, each in its own        *)
(* autoRun loop, without any lock between them.                            *)
(***************************************************************************)
EXTENDS SyncService, ClearService

CONSTANT
  InitialSynced  \* the SYNCED row found in the database, or None: no code creates it

ASSUME InitialSyncedAssumption == InitialSynced \in {None, Start}

indexerVars == <<vars, clearVars>>

IndexerTypeOK == TypeOK /\ ClearTypeOK

IndexerInit ==
  /\ NodeInit /\ StoreInit /\ SyncInit /\ ClearInit
  /\ synced = InitialSynced

\* A row that clear() has picked by id may be deleted under it.
FollowPicked ==
  /\ UNCHANGED <<clearPc, seenPending, seenSynced, table>>
  /\ picked' = [c \in Clearers |->
                  IF picked[c] # None /\ picked[c].at \notin DOMAIN rows'[picked[c].key]
                    THEN [picked[c] EXCEPT !.at = None] ELSE picked[c]]

SyncSide == \E s \in Syncers : (SyncStep(s) \/ Fail(s)) /\ FollowPicked
ClearSide == \E c \in Clearers : (ClearStep(c) \/ ClearFail(c)) /\ UNCHANGED <<nodeVars, syncVars>>
NodeSide == NodeStep /\ UNCHANGED clearVars

IndexerNext == NodeSide \/ SyncSide \/ ClearSide

IndexerSpec == IndexerInit /\ [][IndexerNext]_indexerVars

\* autoRun never gives up, so a step that keeps being retried is taken in the
\* end.  Nothing makes the node move, and nothing makes a step fail.
SyncFairness ==
  \A s \in Syncers :
    /\ WF_indexerVars(ReadPending(s) /\ FollowPicked)
    /\ SF_indexerVars(GetTip(s) /\ FollowPicked)
    /\ \A h \in 1..MaxHeight : SF_indexerVars(Fetch(s, h) /\ FollowPicked)
    /\ SF_indexerVars(StreamEnd(s) /\ FollowPicked)
    /\ SF_indexerVars(TakeBlock(s) /\ FollowPicked)
    /\ SF_indexerVars((Rollback(s) \/ RollbackFails(s)) /\ FollowPicked)
    /\ SF_indexerVars(SaveTxs(s) /\ FollowPicked)
    /\ SF_indexerVars(SaveCode(s) /\ FollowPicked)
    /\ SF_indexerVars((CommitBlock(s) \/ CommitFails(s)) /\ FollowPicked)

ClearFairness ==
  \A c \in Clearers :
    /\ WF_indexerVars(ClearStep(c) /\ UNCHANGED <<nodeVars, syncVars>>)
    /\ SF_indexerVars((ReadSynced(c) \/ NothingConfirmed(c)) /\ UNCHANGED <<nodeVars, syncVars>>)
    /\ SF_indexerVars((MarkSynced(c) \/ MarkFails(c)) /\ UNCHANGED <<nodeVars, syncVars>>)

FairIndexerSpec == IndexerSpec /\ SyncFairness /\ ClearFairness

(***************************************************************************)
(* Properties                                                              *)
(***************************************************************************)

\* A rollback never reaches the heights whose history clear() has deleted.
FinalKept == synced # None /\ pending # None => synced <= pending

\* What readers see is the promised ledger: committing a block applies it in
\* one step, a rollback undoes exactly that, marking SYNCED gives old heights
\* up, and every other step, all of clear()'s deletions among them, changes
\* nothing that can still be asked for.
Promise == INSTANCE ReorgLedger WITH
  indexed <- Indexed,
  floor <- Floor,
  at <- [h \in Floor..Len(Indexed) |-> [k \in Keys |-> AsOf(rows[k], h)]]

KeepsPromise == Promise!Spec

\* Once the node stays on a chain that is longer than what is indexed, or is
\* the indexed one, all of it gets indexed, through any number of rollbacks.
\* A chain that is not longer leaves the indexer where it is.
CatchesUp ==
  <>[][FALSE]_chain =>
    <>[](pending # None /\ (Indexed = chain \/ Len(chain) <= pending))

\* With confirmations and clearInterval configured, history is given up once
\* it is confirmed.
PruningHappens ==
  <>[](pending # None /\ pending > Start + Confirmations) =>
    <>(synced # None /\ synced > Start)

=============================================================================
