----------------------------- MODULE LedgerProofs -----------------------------
(***************************************************************************)
(* Proofs about sync() and clear() on one database.                        *)
(*                                                                         *)
(* First sync() alone, for any number of loops, payloads and heights: the  *)
(* progress markers describe one chain, and at every height the rows are   *)
(* the ledger of that chain.  Then what holds for any number of loops of   *)
(* both.  Last one sync() loop and one clear() loop, with confirmations    *)
(* that cover the depth to which the node reorganises: no rollback reaches *)
(* what clear() has given up, so every history it has not given up stays   *)
(* exact, and the two loops implement ReorgLedger: the commit of a block   *)
(* applies it, a rollback reverts it, marking SYNCED finalises, and every  *)
(* other step is invisible.                                                *)
(***************************************************************************)
EXTENDS Indexer, SequenceTheorems, TLAPS

(***************************************************************************)
(* Prefixes of a block.                                                    *)
(***************************************************************************)

\* A prefix of a block is a block of the asked height with the same payloads.
LEMMA PrefixType ==
  ASSUME NEW b \in Seq(Payloads), NEW n \in 0..Len(b)
  PROVE  /\ Prefix(b, n) \in Seq(Payloads)
         /\ Len(Prefix(b, n)) = n
         /\ \A i \in 1..n : Prefix(b, n)[i] = b[i]
  BY SubSeqProperties DEF Prefix

\* The ancestors of an ancestor are ancestors.
LEMMA PrefixOfPrefix ==
  ASSUME NEW b \in Seq(Payloads), NEW n \in 0..Len(b), NEW m \in 0..n
  PROVE  Prefix(Prefix(b, n), m) = Prefix(b, m)
  <1>1. Prefix(b, n) \in Seq(Payloads) /\ Len(Prefix(b, n)) = n
    BY PrefixType
  <1>2. m \in 0..Len(Prefix(b, n)) /\ m \in 0..Len(b)
    BY <1>1
  <1>3. /\ Prefix(Prefix(b, n), m) \in Seq(Payloads)
        /\ Len(Prefix(Prefix(b, n), m)) = m
        /\ \A i \in 1..m : Prefix(Prefix(b, n), m)[i] = Prefix(b, n)[i]
    BY <1>1, <1>2, PrefixType
  <1>4. /\ Prefix(b, m) \in Seq(Payloads)
        /\ Len(Prefix(b, m)) = m
        /\ \A i \in 1..m : Prefix(b, m)[i] = b[i]
    BY <1>2, PrefixType
  <1>5. \A i \in 1..m : Prefix(b, n)[i] = b[i]
    BY PrefixType
  <1> QED
    BY <1>3, <1>4, <1>5, SeqEqual

\* A block is its own prefix.
LEMMA PrefixFull ==
  ASSUME NEW b \in Seq(Payloads)
  PROVE  Prefix(b, Len(b)) = b
  BY SubSeqFull DEF Prefix

\* The parent of a block above the first is one lower, on the same chain.
LEMMA ParentType ==
  ASSUME NEW b \in Seq(Payloads), Len(b) > 0
  PROVE  /\ Parent(b) \in Seq(Payloads)
         /\ Len(Parent(b)) = Len(b) - 1
         /\ \A m \in 0..(Len(b) - 1) : Prefix(Parent(b), m) = Prefix(b, m)
  <1>1. Len(b) \in Nat /\ Len(b) - 1 \in 0..Len(b)
    BY LenProperties
  <1> QED
    BY <1>1, PrefixType, PrefixOfPrefix DEF Parent

\* Growing a chain keeps its prefixes.
LEMMA PrefixOfAppend ==
  ASSUME NEW b \in Seq(Payloads), NEW p \in Payloads, NEW n \in 0..Len(b)
  PROVE  Prefix(Append(b, p), n) = Prefix(b, n)
  <1>1. Append(b, p) \in Seq(Payloads) /\ Len(Append(b, p)) = Len(b) + 1
    BY AppendProperties
  <1>2. n \in 0..Len(Append(b, p))
    BY <1>1, LenProperties
  <1>3. \A i \in 1..n : Append(b, p)[i] = b[i]
    BY AppendProperties, LenProperties
  <1>4. /\ Prefix(Append(b, p), n) \in Seq(Payloads)
        /\ Len(Prefix(Append(b, p), n)) = n
        /\ \A i \in 1..n : Prefix(Append(b, p), n)[i] = Append(b, p)[i]
    BY <1>1, <1>2, PrefixType
  <1>5. /\ Prefix(b, n) \in Seq(Payloads)
        /\ Len(Prefix(b, n)) = n
        /\ \A i \in 1..n : Prefix(b, n)[i] = b[i]
    BY PrefixType
  <1> QED
    BY <1>3, <1>4, <1>5, SeqEqual

(***************************************************************************)
(* The lowest and the highest of two heights.                              *)
(***************************************************************************)

LEMMA MinOfTwo ==
  ASSUME NEW x \in Int, NEW y \in Int
  PROVE  Min({x, y}) \in {x, y}
  BY DEF Min

LEMMA MaxOfTwo ==
  ASSUME NEW x \in Int, NEW y \in Int
  PROVE  Max({x, y}) \in {x, y} /\ Max({x, y}) >= x
  BY DEF Max

(***************************************************************************)
(* Every step keeps the invariant: one lemma per kind of step.             *)
(***************************************************************************)

\* A block fetched from the node has the height asked for and the root.
LEMMA FetchedBlock ==
  ASSUME NodeTypeOK, Rooted, NEW h \in Nat, h > Start, BlockAt(h, Missing) # Missing
  PROVE  /\ BlockAt(h, Missing) \in Seq(Payloads)
         /\ Len(BlockAt(h, Missing)) = h
         /\ Prefix(BlockAt(h, Missing), Start) = Origin
  <1>1. Start \in Nat
    BY OriginAssumption, LenProperties DEF Start
  <1>2. h \in 1..Len(chain) /\ BlockAt(h, Missing) = Prefix(chain, h)
    BY DEF BlockAt
  <1>3. chain \in Seq(Payloads) /\ h \in 0..Len(chain) /\ Start \in 0..h
    BY <1>1, <1>2, LenProperties DEF NodeTypeOK
  <1>4. Prefix(chain, h) \in Seq(Payloads) /\ Len(Prefix(chain, h)) = h
    BY <1>3, PrefixType
  <1>5. Prefix(Prefix(chain, h), Start) = Prefix(chain, Start)
    BY <1>3, PrefixOfPrefix
  <1> QED
    BY <1>2, <1>4, <1>5 DEF Rooted

\* The node adopts a chain that keeps the final prefix.
LEMMA NodeKeepsInv ==
  ASSUME SyncInv, NodeStep
  PROVE  SyncInv'
  <1> USE DEF SyncInv
  <1>1. Start \in Nat /\ chain \in Seq(Payloads) /\ Len(chain) \in Nat /\ final \in Start..Len(chain)
    BY OriginAssumption, LenProperties DEF Start, TypeOK, NodeTypeOK
  <1>2. ASSUME NEW best \in Seq(Payloads), Adopt(best), final <= Len(best), Prefix(best, Start) = Origin
        PROVE  NodeTypeOK' /\ Prefix(chain', Start) = Origin
    <2>1. Len(best) \in Nat /\ Len(best) - FinalityDepth \in Int /\ Len(best) - FinalityDepth <= Len(best)
      BY LenProperties, FinalityDepthAssumption
    <2>2. final' \in {final, Len(best) - FinalityDepth} /\ final' >= final
      <3>1. final' = Max({final, Len(best) - FinalityDepth})
        BY <1>2 DEF Adopt
      <3>2. final \in Int
        BY <1>1
      <3> QED
        BY <2>1, <3>1, <3>2, MaxOfTwo
    <2>3. chain' = best /\ final' \in Start..Len(best)
      <3>1. chain' = best
        BY <1>2 DEF Adopt
      <3>2. final' \in Int /\ Start <= final' /\ final' <= Len(best)
        BY <1>1, <1>2, <2>1, <2>2
      <3> QED
        BY <1>1, <2>1, <3>1, <3>2
    <2> QED
      BY <1>2, <2>3 DEF NodeTypeOK
  <1>3. ASSUME Grow PROVE NodeTypeOK' /\ Prefix(chain', Start) = Origin
    <2>1. PICK p \in Payloads : Adopt(Append(chain, p))
      BY <1>3 DEF Grow
    <2>2. Append(chain, p) \in Seq(Payloads) /\ Len(Append(chain, p)) = Len(chain) + 1
      BY <1>1, AppendProperties
    <2>3. Prefix(Append(chain, p), Start) = Origin
      BY <1>1, PrefixOfAppend DEF Rooted
    <2>4. final <= Len(Append(chain, p))
      BY <1>1, <2>2
    <2> QED
      BY <1>2, <2>1, <2>2, <2>3, <2>4
  <1>4. ASSUME Reorg PROVE NodeTypeOK' /\ Prefix(chain', Start) = Origin
    <2>1. PICK n \in final..(Len(chain) - 1), p \in Payloads : Adopt(Append(Prefix(chain, n), p))
      BY <1>4 DEF Reorg
    <2>2. n \in 0..Len(chain) /\ Start \in 0..n
      BY <1>1
    <2>3. Prefix(chain, n) \in Seq(Payloads) /\ Len(Prefix(chain, n)) = n
      BY <1>1, <2>2, PrefixType
    <2>4. Prefix(Prefix(chain, n), Start) = Origin
      BY <1>1, <2>2, PrefixOfPrefix DEF Rooted
    <2>5. /\ Append(Prefix(chain, n), p) \in Seq(Payloads)
          /\ Len(Append(Prefix(chain, n), p)) = n + 1
      BY <2>3, AppendProperties
    <2>6. Prefix(Append(Prefix(chain, n), p), Start) = Origin
      BY <2>2, <2>3, <2>4, PrefixOfAppend
    <2>7. final <= Len(Append(Prefix(chain, n), p))
      BY <1>1, <2>5
    <2> QED
      BY <1>2, <2>1, <2>5, <2>6, <2>7
  <1>5. NodeTypeOK' /\ Prefix(chain', Start) = Origin
    BY <1>3, <1>4 DEF NodeStep, NodeNext
  <1>6. UNCHANGED <<storeVars, syncVars>>
    BY DEF NodeStep
  <1>7. TypeOK'
    BY <1>5, <1>6 DEF TypeOK, storeVars, syncVars
  <1>8. Rooted' /\ OneChain'
    BY <1>5, <1>6 DEF Rooted, OneChain, Indexed, storeVars
  <1>9. ASSUME NEW s \in Syncers PROVE Consistent(s)'
    BY <1>6 DEF Consistent, Current, storeVars, syncVars
  <1> QED
    BY <1>7, <1>8, <1>9

\* A loop that stops, without a change to the node or the database.
LEMMA StopKeepsInv ==
  ASSUME SyncInv, NEW s \in Syncers, Stop(s), UNCHANGED <<nodeVars, storeVars>>
  PROVE  SyncInv'
  <1> USE DEF SyncInv
  <1>1. TypeOK'
    BY DEF TypeOK, NodeTypeOK, Stop, NoQueries, Phases, Answers, nodeVars, storeVars
  <1>2. Rooted' /\ OneChain'
    BY DEF Rooted, OneChain, Indexed, nodeVars, storeVars
  <1>3. ASSUME NEW r \in Syncers PROVE Consistent(r)'
    BY DEF Consistent, Current, Stop, NoQueries, TypeOK, nodeVars, storeVars
  <1> QED
    BY <1>1, <1>2, <1>3

\* PENDING is read, or created at the start block.
LEMMA ReadPendingKeepsInv ==
  ASSUME SyncInv, NEW s \in Syncers, ReadPending(s)
  PROVE  SyncInv'
  <1> USE DEF SyncInv
  <1>1. Start \in Nat
    BY OriginAssumption, LenProperties DEF Start
  <1>2. /\ pending' \in Nat /\ pending' >= Start
        /\ pending' = Len(Indexed)
        /\ pendingHash = None => pending' = Start
    BY <1>1, LenProperties, MarkersAssumption
    DEF ReadPending, SyncHeight, TypeOK, Rooted, OneChain, Indexed, Start
  <1>3. TypeOK'
    BY <1>2, MarkersAssumption DEF ReadPending, TypeOK, NodeTypeOK, Phases, nodeVars
  <1>4. Rooted' /\ OneChain'
    BY <1>2, MarkersAssumption DEF ReadPending, Rooted, OneChain, Indexed, nodeVars
  <1>5. ASSUME NEW r \in Syncers PROVE Consistent(r)'
    BY <1>2, MarkersAssumption DEF ReadPending, Consistent, Current, TypeOK
  <1> QED
    BY <1>3, <1>4, <1>5

\* The queries of a new stream have no answers yet.
LEMMA GetTipKeepsInv ==
  ASSUME SyncInv, NEW s \in Syncers, GetTip(s)
  PROVE  SyncInv'
  <1> USE DEF SyncInv
  <1> DEFINE endBlock == Min({status[s] + BlockLimit, Len(chain)})
  <1>1. Start \in Nat /\ status[s] \in Nat /\ status[s] >= Start
    BY OriginAssumption, LenProperties DEF Start, TypeOK, GetTip, Consistent
  <1>2. endBlock \in Int
    <2>1. status[s] + BlockLimit \in Int /\ Len(chain) \in Int
      BY <1>1, LenProperties, BlockLimitAssumption DEF TypeOK, NodeTypeOK
    <2>2. endBlock \in {status[s] + BlockLimit, Len(chain)}
      BY <2>1, MinOfTwo
    <2> QED
      BY <2>1, <2>2
  <1> HIDE DEF endBlock
  <1>3. queries' = [queries EXCEPT ![s] = [h \in (status[s] + 1)..endBlock |-> NotFetched]]
    BY DEF GetTip, endBlock
  <1>4. TypeOK'
    BY <1>1, <1>2, <1>3 DEF GetTip, TypeOK, NodeTypeOK, Phases, Answers, nodeVars, storeVars
  <1>5. Rooted' /\ OneChain'
    BY DEF GetTip, Rooted, OneChain, Indexed, nodeVars, storeVars
  <1>6. ASSUME NEW r \in Syncers PROVE Consistent(r)'
    BY <1>1, <1>2, <1>3 DEF GetTip, Consistent, Current, TypeOK, nodeVars, storeVars
  <1> QED
    BY <1>4, <1>5, <1>6

\* An answer arrives.
LEMMA FetchKeepsInv ==
  ASSUME SyncInv, NEW s \in Syncers, NEW h \in DOMAIN queries[s], Fetch(s, h)
  PROVE  SyncInv'
  <1> USE DEF SyncInv
  <1> DEFINE answer == BlockAt(h, Missing)
  <1>1. h \in Nat /\ h > Start
    BY DEF TypeOK, Consistent
  <1>2. answer \in Answers
    BY <1>1, FetchedBlock DEF TypeOK, Answers
  <1>3. answer \notin {NotFetched, Missing} => Len(answer) = h /\ Prefix(answer, Start) = Origin
    BY <1>1, FetchedBlock DEF TypeOK
  <1> HIDE DEF answer
  <1>4. queries' = [queries EXCEPT ![s] = [@ EXCEPT ![h] = answer]] /\ queries[s][h] = NotFetched
    BY DEF Fetch, answer
  <1>5. TypeOK'
    BY <1>2, <1>4 DEF Fetch, TypeOK, NodeTypeOK, nodeVars, storeVars
  <1>6. Rooted' /\ OneChain'
    BY DEF Fetch, Rooted, OneChain, Indexed, nodeVars, storeVars
  <1>7. ASSUME NEW r \in Syncers PROVE Consistent(r)'
    <2>1. DOMAIN queries'[r] = DOMAIN queries[r]
      BY <1>4 DEF TypeOK
    <2>2. \A x \in DOMAIN queries[r] :
            \/ queries'[r][x] = queries[r][x]
            \/ r = s /\ x = h /\ queries'[r][x] = answer
      BY <1>4 DEF TypeOK
    <2>3. ASSUME pc[r] \in {"save", "commit"}
          PROVE  queries'[r][next[r]] = queries[r][next[r]]
      BY <1>4, <2>2, <2>3 DEF Consistent, Current
    <2>4. /\ UNCHANGED <<pending, pendingHash, pc, status, next, seenHash>>
      BY DEF Fetch, storeVars
    <2> QED
      BY <1>3, <2>1, <2>2, <2>3, <2>4 DEF Consistent, Current
  <1> QED
    BY <1>5, <1>6, <1>7

\* The next block is checked against the PENDING_HASH that is seen.
LEMMA TakeBlockKeepsInv ==
  ASSUME SyncInv, NEW s \in Syncers, TakeBlock(s)
  PROVE  SyncInv'
  <1> USE DEF SyncInv
  <1>1. TypeOK'
    BY DEF TakeBlock, TypeOK, NodeTypeOK, Phases, nodeVars, storeVars
  <1>2. Rooted' /\ OneChain'
    BY DEF TakeBlock, Rooted, OneChain, Indexed, nodeVars, storeVars
  <1>3. ASSUME NEW r \in Syncers PROVE Consistent(r)'
    <2>1. CASE r = s
      BY <2>1 DEF TakeBlock, Reorged, Consistent, Current, TypeOK, storeVars
    <2>2. CASE r # s
      BY <2>2 DEF TakeBlock, Consistent, Current, TypeOK, storeVars
    <2> QED
      BY <2>1, <2>2
  <1> QED
    BY <1>1, <1>2, <1>3, Zenon

\* Transactions and code cells are cached outside the commit.
LEMMA SaveKeepsInv ==
  ASSUME SyncInv, NEW s \in Syncers, SaveBatch(s) \/ SaveTxs(s) \/ SaveCode(s)
  PROVE  SyncInv'
  <1> USE DEF SyncInv
  <1>1. next[s] \in Nat
    BY DEF TypeOK
  <1>2. ASSUME NEW old, \A x \in DOMAIN old : old[x] \in Nat
        PROVE  \A new : \A x \in DOMAIN InsertIgnore(old, new, next[s]) :
                 InsertIgnore(old, new, next[s])[x] \in Nat
    BY <1>1, <1>2 DEF InsertIgnore
  <1>3. \A t \in DOMAIN txs' : txs'[t] \in Nat
    <2>1. txs' = txs \/ \E new : txs' = InsertIgnore(txs, new, next[s])
      BY DEF SaveBatch, SaveTxs, SaveCode
    <2> QED
      BY <1>2, <2>1 DEF TypeOK
  <1>4. \A c \in DOMAIN codes' : codes'[c] \in Nat
    <2>1. codes' = codes \/ \E new : codes' = InsertIgnore(codes, new, next[s])
      BY DEF SaveBatch, SaveTxs, SaveCode
    <2> QED
      BY <1>2, <2>1 DEF TypeOK
  <1>5. /\ UNCHANGED <<nodeVars, blocks, pending, pendingHash, synced, rows, status, next, queries, seenHash>>
        /\ \/ pc' = pc
           \/ pc[s] = "save" /\ pc' = [pc EXCEPT ![s] = "commit"]
    BY DEF SaveBatch, SaveTxs, SaveCode, statusVars, syncVars
  <1>6. TypeOK'
    BY <1>3, <1>4, <1>5 DEF TypeOK, NodeTypeOK, Phases, nodeVars
  <1>7. Rooted' /\ OneChain'
    BY <1>5 DEF Rooted, OneChain, Indexed, nodeVars
  <1>8. ASSUME NEW r \in Syncers PROVE Consistent(r)'
    BY <1>5 DEF Consistent, Current, TypeOK
  <1> QED
    BY <1>6, <1>7, <1>8, Zenon

\* The block that is undone is the newest indexed one, above the start block;
\* what is left is its parent's chain.
LEMMA UndoneBlock ==
  ASSUME SyncInv, NEW s \in Syncers, Rollback(s)
  PROVE  /\ pendingHash \in Seq(Payloads) /\ pendingHash \in blocks
         /\ pendingHash = Indexed /\ seenHash[s] = pendingHash
         /\ Len(pendingHash) \in Nat /\ Len(pendingHash) = pending /\ Len(pendingHash) > Start
         /\ Indexed' = Parent(pendingHash) /\ pendingHash' = Parent(pendingHash)
         /\ Parent(pendingHash) # None
  <1> USE DEF SyncInv
  <1>1. Start \in Nat
    BY OriginAssumption, LenProperties DEF Start
  <1>2. /\ pendingHash \in Seq(Payloads) /\ pendingHash \in blocks /\ pendingHash = Indexed
        /\ seenHash[s] = pendingHash
        /\ Len(pendingHash) \in Nat /\ Len(pendingHash) = pending
    <2>1. seenHash[s] \in blocks /\ pendingHash = seenHash[s] /\ seenHash[s] # None
      BY DEF Rollback, CanRollback, Consistent
    <2>2. pendingHash \in Seq(Payloads) /\ pending # None
      BY <2>1 DEF TypeOK, Rooted
    <2> QED
      BY <2>1, <2>2, LenProperties DEF OneChain, Indexed
  <1>3. Len(pendingHash) > Start
    <2>1. PICK n \in (Start + 1)..Len(pendingHash) : pendingHash = Prefix(pendingHash, n)
      BY <1>2 DEF OneChain
    <2> QED
      BY <1>1, <1>2, <2>1
  <1>4. Parent(pendingHash) \in Seq(Payloads)
    BY <1>1, <1>2, <1>3, ParentType
  <1> QED
    BY <1>2, <1>3, <1>4, MarkersAssumption DEF Rollback, Indexed

\* What is left after a rollback agrees with the three progress markers.
LEMMA RollbackKeepsInv ==
  ASSUME SyncInv, NEW s \in Syncers, Rollback(s)
  PROVE  SyncInv'
  <1> USE DEF SyncInv
  <1> DEFINE old == pendingHash
  <1>1. Start \in Nat
    BY OriginAssumption, LenProperties DEF Start
  <1>2. /\ old \in Seq(Payloads) /\ old \in blocks /\ old = Indexed /\ seenHash[s] = old
        /\ Len(old) \in Nat /\ Len(old) = pending
    BY UndoneBlock
  <1>3. Len(old) > Start
    BY UndoneBlock
  <1>4. /\ Parent(old) \in Seq(Payloads)
        /\ Len(Parent(old)) = Len(old) - 1
        /\ \A m \in 0..(Len(old) - 1) : Prefix(Parent(old), m) = Prefix(old, m)
    BY <1>1, <1>2, <1>3, ParentType
  <1>5. Parent(old) # None /\ Indexed' = Parent(old) /\ pendingHash' = Parent(old)
    BY UndoneBlock
  <1>6. pending' = Len(old) - 1 /\ pending' \in Nat /\ pending' # None
    BY <1>1, <1>2, <1>3, MarkersAssumption DEF Rollback
  <1>7. TypeOK'
    <2>1. \A k \in Keys : DOMAIN rows'[k] \subseteq {Permanent} \cup Nat
      BY DEF Rollback, TypeOK, DropFrom, Restrict
    <2>2. DOMAIN rows' = Keys
      BY DEF Rollback
    <2>3. blocks' \in SUBSET Seq(Payloads) /\ pendingHash' \in Seq(Payloads) /\ pending' \in Nat
      BY <1>4, <1>5, <1>6 DEF Rollback, TypeOK
    <2>4. UNCHANGED <<nodeVars, synced, txs, codes>> /\ Stop(s)
      BY DEF Rollback
    <2> QED
      BY <2>1, <2>2, <2>3, <2>4 DEF TypeOK, NodeTypeOK, Stop, NoQueries, Phases, Answers, nodeVars
  <1>8. Rooted'
    <2>1. Prefix(old, Start) = Origin /\ Start \in 0..(Len(old) - 1)
      BY <1>1, <1>2, <1>3 DEF Rooted
    <2>2. UNCHANGED chain
      BY DEF Rollback, nodeVars
    <2> QED
      BY <1>3, <1>4, <1>5, <1>6, <2>1, <2>2 DEF Rooted
  <1>9. OneChain'
    <2>1. pending' = Len(Indexed')
      BY <1>4, <1>5, <1>6
    <2>2. blocks = {Prefix(old, n) : n \in (Start + 1)..Len(old)}
      BY <1>2 DEF OneChain
    <2>3. blocks' = blocks \ {old}
      BY <1>2 DEF Rollback
    <2>4. Prefix(old, Len(old)) = old
      BY <1>2, PrefixFull
    <2>5. \A n \in (Start + 1)..(Len(old) - 1) : Prefix(old, n) # old /\ Prefix(old, n) = Prefix(Parent(old), n)
      <3> TAKE n \in (Start + 1)..(Len(old) - 1)
      <3>1. n \in 0..Len(old) /\ n \in 0..(Len(old) - 1)
        BY <1>1, <1>2
      <3>2. Len(Prefix(old, n)) = n
        BY <1>2, <3>1, PrefixType
      <3> QED
        BY <1>2, <1>4, <3>1, <3>2
    <2>6. blocks' = {Prefix(Parent(old), n) : n \in (Start + 1)..(Len(old) - 1)}
      <3>1. \A n \in (Start + 1)..Len(old) : n = Len(old) \/ n \in (Start + 1)..(Len(old) - 1)
        BY <1>1, <1>2
      <3>2. \A n \in (Start + 1)..(Len(old) - 1) : n \in (Start + 1)..Len(old)
        BY <1>1, <1>2
      <3> QED
        BY <2>2, <2>3, <2>4, <2>5, <3>1, <3>2
    <2> QED
      BY <1>4, <1>5, <2>1, <2>6 DEF OneChain
  <1>10. ASSUME NEW r \in Syncers PROVE Consistent(r)'
    BY <1>1, <1>5, <1>6 DEF Rollback, Consistent, Current, Stop, NoQueries, TypeOK
  <1> QED
    BY <1>7, <1>8, <1>9, <1>10

\* The block that is committed is a child of the newest indexed one.
LEMMA CommittedBlock ==
  ASSUME SyncInv, NEW s \in Syncers, CommitBlock(s)
  PROVE  /\ next[s] \in DOMAIN queries[s] /\ next[s] = status[s] + 1
         /\ next[s] \in Nat /\ next[s] > Start
         /\ pending = status[s] /\ pending # None
         /\ Current(s) \notin {NotFetched, Missing}
         /\ Current(s) \in Seq(Payloads) /\ Len(Current(s)) = next[s]
         /\ Prefix(Current(s), Start) = Origin
         /\ Indexed \in Seq(Payloads) /\ Len(Indexed) = Len(Current(s)) - 1
         /\ Indexed = Parent(Current(s))
         /\ pendingHash' = Current(s) /\ pendingHash' # None /\ Indexed' = Current(s)
  <1> USE DEF SyncInv
  <1> DEFINE block == Current(s)
  <1>1. Start \in Nat
    BY OriginAssumption, LenProperties DEF Start
  <1>2. /\ next[s] \in DOMAIN queries[s] /\ next[s] = status[s] + 1 /\ next[s] \in Nat
        /\ block \notin {NotFetched, Missing}
        /\ pending = status[s] /\ pending # None
    BY DEF CommitBlock, CanCommit, Consistent, TypeOK
  <1>3. /\ block \in Seq(Payloads) /\ Len(block) = next[s] /\ next[s] > Start
        /\ Prefix(block, Start) = Origin
    BY <1>2 DEF Current, Consistent, TypeOK, Answers
  <1>4. Len(Indexed) = Len(block) - 1 /\ Indexed \in Seq(Payloads)
    BY <1>2, <1>3, OriginAssumption DEF OneChain, Indexed, TypeOK
  <1>5. Indexed = Parent(block)
    <2>1. CASE seenHash[s] # None
      BY <2>1, <1>2 DEF CommitBlock, CanCommit, Consistent, Indexed
    <2>2. CASE seenHash[s] = None
      <3>1. Len(Indexed) = Start /\ Len(block) - 1 = Start
        BY <2>2, <1>1, <1>2, <1>3, <1>4 DEF CommitBlock, Consistent
      <3>2. Indexed = Origin
        BY <3>1, <1>4, PrefixFull DEF Rooted
      <3> QED
        BY <3>1, <3>2, <1>3 DEF Parent
    <2> QED
      BY <2>1, <2>2
  <1> QED
    BY <1>2, <1>3, <1>4, <1>5, MarkersAssumption DEF CommitBlock, Indexed

\* A block whose parent is the newest indexed one is added on top.
LEMMA CommitKeepsInv ==
  ASSUME SyncInv, NEW s \in Syncers, CommitBlock(s)
  PROVE  SyncInv'
  <1> USE DEF SyncInv
  <1> DEFINE block == Current(s)
  <1>1. Start \in Nat
    BY OriginAssumption, LenProperties DEF Start
  <1>2. /\ next[s] \in DOMAIN queries[s] /\ next[s] = status[s] + 1 /\ next[s] \in Nat
        /\ block \notin {NotFetched, Missing}
        /\ pending = status[s] /\ pending # None
    BY CommittedBlock
  <1>3. /\ block \in Seq(Payloads) /\ Len(block) = next[s] /\ next[s] > Start
        /\ Prefix(block, Start) = Origin
    BY CommittedBlock
  <1>4. Len(Indexed) = Len(block) - 1 /\ Indexed \in Seq(Payloads)
    BY CommittedBlock
  <1>5. Indexed = Parent(block)
    BY CommittedBlock
  <1>6. \A m \in 0..(Len(block) - 1) : Prefix(Indexed, m) = Prefix(block, m)
    BY <1>1, <1>3, <1>5, ParentType
  <1>7. /\ pendingHash' = block /\ pendingHash' # None /\ Indexed' = block
        /\ pending' = Len(block) /\ pending' # None /\ pending' \in Nat
        /\ blocks' = blocks \cup {block}
    <2>1. pendingHash' = block /\ pendingHash' # None /\ Indexed' = block
      BY CommittedBlock
    <2>2. pending' = next[s] /\ blocks' = blocks \cup {block}
      BY DEF CommitBlock
    <2> QED
      BY <1>2, <1>3, <2>1, <2>2, MarkersAssumption
  <1>8. /\ status' = [status EXCEPT ![s] = next[s]]
        /\ next' = [next EXCEPT ![s] = next[s] + 1]
        /\ pc' = [pc EXCEPT ![s] = "stream"]
        /\ seenHash' = [seenHash EXCEPT ![s] = None]
        /\ UNCHANGED <<nodeVars, synced, txs, codes, queries>>
    BY DEF CommitBlock
  <1>9. TypeOK'
    <2>1. \A k \in Keys : DOMAIN rows'[k] \subseteq {Permanent} \cup Nat
      BY <1>2 DEF CommitBlock, TypeOK, Stamp
    <2>2. DOMAIN rows' = Keys
      BY DEF CommitBlock
    <2>3. blocks' \in SUBSET Seq(Payloads) /\ pendingHash' \in Seq(Payloads)
      BY <1>3, <1>7 DEF TypeOK
    <2> QED
      BY <1>2, <1>7, <1>8, <2>1, <2>2, <2>3 DEF TypeOK, NodeTypeOK, Phases, nodeVars
  <1>10. Rooted'
    BY <1>1, <1>3, <1>7, <1>8 DEF Rooted, nodeVars
  <1>11. OneChain'
    <2>1. blocks = {Prefix(Indexed, n) : n \in (Start + 1)..(Len(block) - 1)}
      BY <1>4 DEF OneChain
    <2>2. Prefix(block, Len(block)) = block
      BY <1>3, PrefixFull
    <2>3. \A n \in (Start + 1)..(Len(block) - 1) : Prefix(Indexed, n) = Prefix(block, n)
      BY <1>1, <1>3, <1>6
    <2>4. \A n \in (Start + 1)..Len(block) : n = Len(block) \/ n \in (Start + 1)..(Len(block) - 1)
      BY <1>1, <1>3
    <2>5. Len(block) \in (Start + 1)..Len(block)
      BY <1>1, <1>3
    <2>6. \A n \in (Start + 1)..(Len(block) - 1) : n \in (Start + 1)..Len(block)
      BY <1>1, <1>3
    <2>7. blocks' = {Prefix(block, n) : n \in (Start + 1)..Len(block)}
      BY <1>7, <2>1, <2>2, <2>3, <2>4, <2>5, <2>6
    <2> QED
      BY <1>7, <2>7 DEF OneChain
  <1>12. ASSUME NEW r \in Syncers PROVE Consistent(r)'
    <2>1. CASE r = s
      BY <2>1, <1>1, <1>2, <1>3, <1>7, <1>8 DEF Consistent, Current, TypeOK
    <2>2. CASE r # s
      BY <2>2, <1>7, <1>8 DEF Consistent, Current, TypeOK
    <2> QED
      BY <2>1, <2>2
  <1> QED
    BY <1>9, <1>10, <1>11, <1>12

(***************************************************************************)
(* The theorems.                                                           *)
(***************************************************************************)

LEMMA InitInv == Init => SyncInv
  <1> SUFFICES ASSUME Init PROVE SyncInv
    OBVIOUS
  <1>1. Start \in Nat /\ Len(Origin) = Start /\ Origin \in Seq(Payloads)
    BY OriginAssumption, LenProperties DEF Start
  <1>2. TypeOK
    BY <1>1 DEF Init, NodeInit, StoreInit, SyncInit, TypeOK, NodeTypeOK, Phases, Answers, NoQueries
  <1>3. Rooted
    BY <1>1, PrefixFull DEF Init, NodeInit, StoreInit, Rooted, Indexed, Start
  <1>4. OneChain
    BY <1>1 DEF Init, StoreInit, OneChain, Indexed
  <1>5. \A s \in Syncers : Consistent(s)
    BY DEF Init, SyncInit, Consistent, NoQueries
  <1> QED
    BY <1>2, <1>3, <1>4, <1>5 DEF SyncInv

\* A step of one loop keeps the invariant.
LEMMA SyncStepKeepsInv ==
  ASSUME SyncInv, NEW s \in Syncers, SyncStep(s) \/ Fail(s)
  PROVE  SyncInv'
  <1>1. CASE ReadPending(s)
    BY <1>1, ReadPendingKeepsInv
  <1>2. CASE GetTip(s)
    BY <1>2, GetTipKeepsInv
  <1>3. CASE \E h \in DOMAIN queries[s] : Fetch(s, h)
    BY <1>3, FetchKeepsInv
  <1>4. CASE StreamEnd(s) \/ RollbackFails(s) \/ CommitFails(s) \/ Fail(s)
    BY <1>4, StopKeepsInv DEF StreamEnd, RollbackFails, CommitFails, Fail
  <1>5. CASE TakeBlock(s)
    BY <1>5, TakeBlockKeepsInv
  <1>6. CASE Rollback(s)
    BY <1>6, RollbackKeepsInv
  <1>7. CASE SaveBatch(s) \/ SaveTxs(s) \/ SaveCode(s)
    BY <1>7, SaveKeepsInv
  <1>8. CASE CommitBlock(s)
    BY <1>8, CommitKeepsInv
  <1> QED
    BY <1>1, <1>2, <1>3, <1>4, <1>5, <1>6, <1>7, <1>8 DEF SyncStep

LEMMA NextInv == SyncInv /\ [Next]_vars => SyncInv'
  <1> SUFFICES ASSUME SyncInv, [Next]_vars PROVE SyncInv'
    OBVIOUS
  <1>1. CASE NodeStep
    BY <1>1, NodeKeepsInv
  <1>2. CASE \E s \in Syncers : SyncStep(s) \/ Fail(s)
    BY <1>2, SyncStepKeepsInv
  <1>3. CASE UNCHANGED vars
    BY <1>3 DEF SyncInv, TypeOK, NodeTypeOK, Rooted, OneChain, Indexed, Consistent, Current,
                vars, nodeVars, storeVars, syncVars
  <1> QED
    BY <1>1, <1>2, <1>3 DEF Next

\* The inductive invariant holds for any number of sync() loops.
THEOREM SyncCorrect == Spec => []SyncInv
  BY InitInv, NextInv, PTL DEF Spec

\* Every variable has its type in every reachable state.
THEOREM TypeCorrect == Spec => []TypeOK
  <1>1. SyncInv => TypeOK
    BY DEF SyncInv
  <1> QED
    BY <1>1, SyncCorrect, PTL

\* PENDING, PENDING_HASH and the block table always tell of the same chain.
THEOREM OneChainCorrect == Spec => []OneChain
  <1>1. SyncInv => OneChain
    BY DEF SyncInv
  <1> QED
    BY <1>1, SyncCorrect, PTL

(***************************************************************************)
(* The cache of transactions.                                              *)
(***************************************************************************)

\* A loop that is about to commit has cached every transaction of its block.
CachedFirst ==
  \A s \in Syncers : pc[s] = "commit" => TxsOf[Content(Current(s))] \subseteq DOMAIN txs

CacheInv == TxsCached /\ CachedFirst

\* sync() only ever adds to the cache.
LEMMA CacheGrows ==
  ASSUME NEW s \in Syncers, SyncStep(s) \/ Fail(s)
  PROVE  DOMAIN txs \subseteq DOMAIN txs'
  BY DEF SyncStep, Fail, ReadPending, GetTip, Fetch, StreamEnd, TakeBlock, Rollback, RollbackFails,
         SaveBatch, SaveTxs, SaveCode, CommitBlock, CommitFails, InsertIgnore, storeVars

\* What is indexed is cached, and stays so.
LEMMA IndexedIsCached ==
  ASSUME SyncInv, CacheInv, NEW s \in Syncers, SyncStep(s) \/ Fail(s)
  PROVE  TxsCached'
  <1>1. DOMAIN txs \subseteq DOMAIN txs'
    BY CacheGrows
  <1>2. CASE CommitBlock(s)
    BY <1>1, <1>2 DEF CommitBlock, CacheInv, TxsCached, CachedFirst
  <1>3. CASE ~CommitBlock(s)
    <2>1. blocks' \subseteq blocks
      BY <1>3 DEF SyncStep, Fail, ReadPending, GetTip, Fetch, StreamEnd, TakeBlock, Rollback,
                  RollbackFails, SaveBatch, SaveTxs, SaveCode, CommitFails, storeVars, statusVars
    <2> QED
      BY <1>1, <2>1 DEF CacheInv, TxsCached
  <1> QED
    BY <1>2, <1>3

\* The last batch of a block is cached before the loop goes on to commit, and
\* the block it is handling stays the same until then.
LEMMA CommitsAreCached ==
  ASSUME SyncInv, CacheInv, NEW s \in Syncers, SyncStep(s) \/ Fail(s)
  PROVE  CachedFirst'
  <1> SUFFICES ASSUME NEW r \in Syncers, pc'[r] = "commit"
               PROVE  TxsOf[Content(Current(r)')] \subseteq DOMAIN txs'
    BY DEF CachedFirst
  <1>1. DOMAIN txs \subseteq DOMAIN txs'
    BY CacheGrows
  <1>2. CASE \E h \in DOMAIN queries[s] : Fetch(s, h)
    <2>1. PICK h \in DOMAIN queries[s] : Fetch(s, h)
      BY <1>2
    <2>2. pc[r] = "commit" /\ next'[r] = next[r]
      BY <2>1 DEF Fetch
    <2>3. Current(r) # NotFetched
      BY <2>2 DEF SyncInv, Consistent
    <2>4. queries'[r][next[r]] = queries[r][next[r]]
      BY <2>1, <2>3 DEF Fetch, Current, SyncInv, TypeOK
    <2> QED
      BY <1>1, <2>2, <2>4 DEF CacheInv, CachedFirst, Current
  <1>3. CASE SaveTxs(s)
    <2>1. UNCHANGED <<next, queries>> /\ TxsOf[Content(Current(s))] \subseteq DOMAIN txs'
      BY <1>3 DEF SaveTxs, InsertIgnore
    <2>2. r = s \/ pc[r] = "commit"
      BY <1>3 DEF SaveTxs, SyncInv, TypeOK
    <2> QED
      BY <1>1, <2>1, <2>2 DEF CacheInv, CachedFirst, Current
  <1>4. CASE ~SaveTxs(s) /\ ~\E h \in DOMAIN queries[s] : Fetch(s, h)
    <2>1. pc[r] = "commit" /\ next'[r] = next[r] /\ queries'[r] = queries[r]
      BY <1>4 DEF SyncStep, Fail, ReadPending, GetTip, StreamEnd, TakeBlock, Rollback, RollbackFails,
                  SaveBatch, SaveCode, CommitBlock, CommitFails, Stop, syncVars, SyncInv, TypeOK
    <2> QED
      BY <1>1, <2>1 DEF CacheInv, CachedFirst, Current
  <1> QED
    BY <1>2, <1>3, <1>4

\* No block is indexed before all its transactions are in the cache, whichever
\* loop put them there and whatever failed in between.
THEOREM TxsCachedCorrect == Spec => []TxsCached
  <1> DEFINE Inv == SyncInv /\ CacheInv
  <1>1. Init => Inv
    BY InitInv DEF Init, StoreInit, SyncInit, CacheInv, TxsCached, CachedFirst
  <1>2. Inv /\ [Next]_vars => Inv'
    <2> SUFFICES ASSUME Inv, [Next]_vars PROVE CacheInv'
      BY NextInv
    <2>1. CASE NodeStep \/ UNCHANGED vars
      BY <2>1 DEF NodeStep, CacheInv, TxsCached, CachedFirst, Current, vars, storeVars, syncVars
    <2>2. CASE \E s \in Syncers : SyncStep(s) \/ Fail(s)
      BY <2>2, IndexedIsCached, CommitsAreCached DEF CacheInv
    <2> QED
      BY <2>1, <2>2 DEF Next
  <1>3. Inv => TxsCached
    BY DEF CacheInv
  <1> QED
    BY <1>1, <1>2, <1>3, PTL DEF Spec

(***************************************************************************)
(* The rows of one entity.                                                 *)
(***************************************************************************)

\* What Max chooses is the greatest element where there is one.
LEMMA MaxIsTop ==
  ASSUME NEW S \in SUBSET Int, NEW m \in S, \A x \in S : x <= m
  PROVE  Max(S) = m
  <1>1. m \in Int /\ \A x \in S : x \in Int /\ m >= x
    OBVIOUS
  <1>2. Max(S) \in S /\ \A y \in S : Max(S) >= y
    BY <1>1, Zenon DEF Max
  <1>3. Max(S) \in Int /\ Max(S) >= m /\ m >= Max(S)
    BY <1>1, <1>2
  <1> QED
    BY <1>1, <1>3

\* A set of heights is topped if what it has up to any height has a greatest
\* element.  Every finite set is; the proofs only need that rows stay so.
Topped(S) ==
  \A h \in Int : (\E x \in S : x <= h) =>
    \E m \in S : m <= h /\ \A x \in S : x <= h => x <= m

\* Two histories with the same rows up to a height agree as of that height.
LEMMA AsOfSame ==
  ASSUME NEW f, NEW g, NEW h \in Int, DOMAIN f \subseteq Int, DOMAIN g \subseteq Int,
         Topped(DOMAIN f),
         {x \in DOMAIN f : x <= h} = {x \in DOMAIN g : x <= h},
         \A x \in DOMAIN f : x <= h => f[x] = g[x]
  PROVE  AsOf(f, h) = AsOf(g, h)
  <1> DEFINE upTo == {x \in DOMAIN f : x <= h}
  <1>1. CASE upTo = {}
    BY <1>1 DEF AsOf
  <1>2. CASE upTo # {}
    <2>1. PICK m \in DOMAIN f : m <= h /\ \A x \in DOMAIN f : x <= h => x <= m
      BY <1>2 DEF Topped
    <2>2. Max(upTo) = m /\ f[m] = g[m]
      BY <2>1, MaxIsTop
    <2> QED
      BY <1>2, <2>2 DEF AsOf
  <1> QED
    BY <1>1, <1>2

\* The row as of a height is the newest one that is not above it.
LEMMA AsOfTop ==
  ASSUME NEW f, NEW h \in Int, DOMAIN f \subseteq Int,
         NEW m \in DOMAIN f, m <= h, \A x \in DOMAIN f : x <= h => x <= m
  PROVE  AsOf(f, h) = f[m]
  <1> DEFINE upTo == {x \in DOMAIN f : x <= h}
  <1>1. Max(upTo) = m /\ upTo # {}
    BY MaxIsTop
  <1> QED
    BY <1>1 DEF AsOf

\* The latest row is the one as of any height that none exceeds.
LEMMA LatestIsAsOf ==
  ASSUME NEW f, NEW h \in Int, \A x \in DOMAIN f : x <= h
  PROVE  Latest(f) = AsOf(f, h)
  <1>1. {x \in DOMAIN f : x <= h} = DOMAIN f
    OBVIOUS
  <1> QED
    BY <1>1 DEF Latest, AsOf

\* A row stamped above all others is the newest, and adds to what was.
LEMMA StampedNewest ==
  ASSUME NEW f, NEW block, NEW height \in Int, DOMAIN f \subseteq Int,
         \A x \in DOMAIN f : x < height
  PROVE  AsOf(Stamp(f, block, height), height) = Latest(f) (+) SetToBag({block})
  <1> DEFINE g == Stamp(f, block, height)
  <1>1. /\ DOMAIN g = DOMAIN f \cup {height}
        /\ g[height] = Latest(f) (+) SetToBag({block})
    BY DEF Stamp
  <1> HIDE DEF g
  <1>2. height \in DOMAIN g /\ DOMAIN g \subseteq Int /\ \A x \in DOMAIN g : x <= height => x <= height
    BY <1>1
  <1>3. AsOf(g, height) = g[height]
    BY <1>2, AsOfTop
  <1> QED
    BY <1>1, <1>3 DEF g

\* A row stamped above all others hides none of them.
LEMMA StampedHistory ==
  ASSUME NEW f, NEW block, NEW height \in Int, DOMAIN f \subseteq Int,
         Topped(DOMAIN f), \A x \in DOMAIN f : x < height
  PROVE  /\ DOMAIN Stamp(f, block, height) = DOMAIN f \cup {height}
         /\ Topped(DOMAIN Stamp(f, block, height))
         /\ \A h \in Int : h < height => AsOf(Stamp(f, block, height), h) = AsOf(f, h)
  <1> DEFINE g == Stamp(f, block, height)
  <1>1. /\ DOMAIN g = DOMAIN f \cup {height}
        /\ \A x \in DOMAIN f : g[x] = f[x]
    BY DEF Stamp
  <1> HIDE DEF g
  <1>2. Topped(DOMAIN g)
    <2> SUFFICES ASSUME NEW h \in Int, \E x \in DOMAIN g : x <= h
                 PROVE  \E m \in DOMAIN g : m <= h /\ \A x \in DOMAIN g : x <= h => x <= m
      BY DEF Topped
    <2>1. CASE height <= h
      BY <1>1, <2>1
    <2>2. CASE ~(height <= h)
      <3>1. \E x \in DOMAIN f : x <= h
        BY <1>1, <2>2
      <3>2. PICK m \in DOMAIN f : m <= h /\ \A x \in DOMAIN f : x <= h => x <= m
        BY <3>1 DEF Topped
      <3> QED
        BY <1>1, <2>2, <3>2
    <2> QED
      BY <2>1, <2>2
  <1>3. ASSUME NEW h \in Int, h < height PROVE AsOf(g, h) = AsOf(f, h)
    <2>1. {x \in DOMAIN f : x <= h} = {x \in DOMAIN g : x <= h}
      BY <1>1, <1>3
    <2>2. DOMAIN g \subseteq Int /\ \A x \in DOMAIN f : x <= h => f[x] = g[x]
      BY <1>1
    <2> QED
      BY <2>1, <2>2, AsOfSame
  <1> QED
    BY <1>1, <1>2, <1>3 DEF g

\* Deleting the rows from a height on changes nothing below it.
LEMMA DroppedHistory ==
  ASSUME NEW f, NEW height \in Int, DOMAIN f \subseteq Int, Topped(DOMAIN f)
  PROVE  /\ DOMAIN DropFrom(f, height) = {x \in DOMAIN f : x < height}
         /\ Topped(DOMAIN DropFrom(f, height))
         /\ \A h \in Int : h < height => AsOf(DropFrom(f, height), h) = AsOf(f, h)
  <1> DEFINE g == DropFrom(f, height)
  <1>1. /\ DOMAIN g = {x \in DOMAIN f : x < height}
        /\ \A x \in DOMAIN g : g[x] = f[x]
    BY DEF DropFrom, Restrict
  <1> HIDE DEF g
  <1>2. Topped(DOMAIN g)
    <2> SUFFICES ASSUME NEW h \in Int, NEW y \in DOMAIN g, y <= h
                 PROVE  \E m \in DOMAIN g : m <= h /\ \A x \in DOMAIN g : x <= h => x <= m
      BY DEF Topped
    <2>1. PICK l \in Int : l <= h /\ l < height /\ \A x \in Int : x <= l <=> (x <= h /\ x < height)
      <3>1. CASE h < height
        BY <3>1
      <3>2. CASE ~(h < height)
        <4>1. height - 1 \in Int /\ \A x \in Int : x <= height - 1 <=> (x <= h /\ x < height)
          BY <3>2
        <4> QED
          BY <3>2, <4>1
      <3> QED
        BY <3>1, <3>2
    <2>2. y \in DOMAIN f /\ y <= l
      BY <1>1, <2>1
    <2>3. PICK m \in DOMAIN f : m <= l /\ \A x \in DOMAIN f : x <= l => x <= m
      BY <2>2 DEF Topped
    <2> QED
      BY <1>1, <2>1, <2>3
  <1>3. ASSUME NEW h \in Int, h < height PROVE AsOf(g, h) = AsOf(f, h)
    <2>1. {x \in DOMAIN g : x <= h} = {x \in DOMAIN f : x <= h}
      BY <1>1, <1>3
    <2>2. DOMAIN g \subseteq Int /\ \A x \in DOMAIN g : x <= h => g[x] = f[x]
      BY <1>1
    <2> QED
      BY <1>2, <2>1, <2>2, AsOfSame
  <1> QED
    BY <1>1, <1>2, <1>3 DEF g

(***************************************************************************)
(* The ledger of a chain.                                                  *)
(***************************************************************************)

\* Adding a block to a bag of others is the bag of them all.
LEMMA BagOfOneMore ==
  ASSUME NEW S, NEW b, b \notin S
  PROVE  SetToBag(S) (+) SetToBag({b}) = SetToBag(S \cup {b})
  BY DEF SetToBag, (+)

\* The blocks of a chain, from the start on, that change an entity.
Applied(k, block) ==
  {Prefix(block, n) : n \in {m \in (Start + 1)..Len(block) : k \in Touched[block[m]]}}

\* A child changes an entity of its parent's chain once, or not at all.
LEMMA LedgerOfChild ==
  ASSUME NEW k, NEW block \in Seq(Payloads), Len(block) > Start
  PROVE  Ledger(k, block, Start) =
           IF k \in Touched[Content(block)]
             THEN Ledger(k, Parent(block), Start) (+) SetToBag({block})
             ELSE Ledger(k, Parent(block), Start)
  <1> DEFINE parent == Parent(block)
             last == Len(block)
  <1>1. Start \in Nat /\ last \in Nat /\ last > 0 /\ last - 1 \in 0..last
    BY OriginAssumption, LenProperties DEF Start
  <1>2. /\ parent \in Seq(Payloads) /\ Len(parent) = last - 1
        /\ \A m \in 0..(last - 1) : Prefix(parent, m) = Prefix(block, m)
    BY <1>1, ParentType
  <1>3. \A m \in 1..(last - 1) : parent[m] = block[m]
    BY <1>1, PrefixType DEF Parent
  <1>4. Prefix(block, last) = block /\ Content(block) = block[last]
    BY PrefixFull DEF Content
  <1>5. /\ Ledger(k, block, Start) = SetToBag(Applied(k, block))
        /\ Ledger(k, parent, Start) = SetToBag(Applied(k, parent))
    BY DEF Ledger, Applied, Prefix
  <1>6. block \notin Applied(k, parent)
    <2> SUFFICES ASSUME NEW n \in (Start + 1)..Len(parent) PROVE Prefix(parent, n) # block
      BY DEF Applied
    <2>1. n \in 0..Len(parent) /\ n # last
      BY <1>1, <1>2
    <2> QED
      BY <1>2, <2>1, PrefixType
  <1>7. \A n \in (Start + 1)..(last - 1) :
          Prefix(parent, n) = Prefix(block, n) /\ parent[n] = block[n]
    BY <1>1, <1>2, <1>3
  <1>8. /\ (Start + 1)..last = ((Start + 1)..(last - 1)) \cup {last}
        /\ (Start + 1)..Len(parent) = (Start + 1)..(last - 1)
    BY <1>1, <1>2
  <1> HIDE DEF parent, last
  <1>9. Applied(k, block) = IF k \in Touched[block[last]] THEN Applied(k, parent) \cup {block}
                            ELSE Applied(k, parent)
    <2>1. Applied(k, block) =
            {Prefix(block, n) : n \in {m \in (Start + 1)..(last - 1) : k \in Touched[block[m]]}}
              \cup (IF k \in Touched[block[last]] THEN {block} ELSE {})
      BY <1>4, <1>8 DEF Applied, last
    <2>2. Applied(k, parent) =
            {Prefix(block, n) : n \in {m \in (Start + 1)..(last - 1) : k \in Touched[block[m]]}}
      BY <1>7, <1>8 DEF Applied
    <2> QED
      BY <2>1, <2>2
  <1> QED
    BY <1>4, <1>5, <1>6, <1>9, BagOfOneMore DEF parent

\* Nothing is applied up to the start block.
LEMMA LedgerOfOrigin ==
  ASSUME NEW k
  PROVE  Ledger(k, Origin, Start) = EmptyBag
  <1>1. (Start + 1)..Len(Origin) = {}
    BY OriginAssumption, LenProperties DEF Start
  <1> QED
    BY <1>1 DEF Ledger, EmptyBag

(***************************************************************************)
(* The histories of all entities.                                          *)
(***************************************************************************)

\* No row is from above the newest indexed block.
RowsBounded ==
  \A k \in Keys : /\ DOMAIN rows[k] \subseteq {Permanent} \cup (Start + 1)..Len(Indexed)
                  /\ Topped(DOMAIN rows[k])

HistoryInv == RowsBounded /\ HistoryExact

\* The indexed chain is one of payloads, as high as PENDING.
LEMMA IndexedType ==
  ASSUME SyncInv
  PROVE  /\ Indexed \in Seq(Payloads) /\ Len(Indexed) \in Nat /\ Len(Indexed) >= Start
         /\ Start \in Nat /\ Floor \in Int
  <1>1. Start \in Nat
    BY OriginAssumption, LenProperties DEF Start
  <1>2. Indexed \in Seq(Payloads) /\ Len(Indexed) >= Start
    BY OriginAssumption DEF SyncInv, TypeOK, Rooted, Indexed
  <1>3. Floor \in Int
    BY <1>1 DEF SyncInv, TypeOK, Floor
  <1> QED
    BY <1>1, <1>2, <1>3, LenProperties

\* The rows of one entity are the ledger of a chain: now, and at every height
\* from low on.
Exact(k, f, block, low) ==
  /\ DOMAIN f \subseteq {Permanent} \cup (Start + 1)..Len(block)
  /\ Topped(DOMAIN f)
  /\ Latest(f) = Ledger(k, block, Start)
  /\ \A h \in low..Len(block) : AsOf(f, h) = Ledger(k, Prefix(block, h), Start)

LEMMA HistoryIsExact ==
  HistoryInv <=> \A k \in Keys : Exact(k, rows[k], Indexed, Floor)
  BY DEF HistoryInv, RowsBounded, HistoryExact, Exact

\* Applied to the rows of an entity it changes, a block is in its ledger.
LEMMA StampedExact ==
  ASSUME NEW k, NEW f, NEW block \in Seq(Payloads), NEW low \in Start..(Len(block) - 1),
         Exact(k, f, Parent(block), low), k \in Touched[Content(block)]
  PROVE  Exact(k, Stamp(f, block, Len(block)), block, low)
  <1> DEFINE height == Len(block)
             g == Stamp(f, block, height)
  <1>1. Start \in Nat /\ height \in Nat /\ height > Start /\ height - 1 \in low..height
    BY OriginAssumption, LenProperties DEF Start
  <1>2. /\ Len(Parent(block)) = height - 1
        /\ \A m \in 0..(height - 1) : Prefix(Parent(block), m) = Prefix(block, m)
    BY <1>1, ParentType
  <1> HIDE DEF height
  <1>3. /\ DOMAIN f \subseteq Int /\ Topped(DOMAIN f) /\ \A x \in DOMAIN f : x < height
        /\ DOMAIN f \cup {height} \subseteq {Permanent} \cup (Start + 1)..height
    BY <1>1, <1>2 DEF Exact, Permanent
  <1>4. /\ DOMAIN g = DOMAIN f \cup {height}
        /\ Topped(DOMAIN g)
        /\ AsOf(g, height) = Latest(f) (+) SetToBag({block})
        /\ \A h \in Int : h < height => AsOf(g, h) = AsOf(f, h)
    <2>1. height \in Int
      BY <1>1
    <2>2. DOMAIN g = DOMAIN f \cup {height}
      BY <1>3, <2>1, StampedHistory
    <2>3. Topped(DOMAIN g)
      BY <1>3, <2>1, StampedHistory
    <2>4. AsOf(g, height) = Latest(f) (+) SetToBag({block})
      BY <1>3, <2>1, StampedNewest
    <2>5. \A h \in Int : h < height => AsOf(g, h) = AsOf(f, h)
      BY <1>3, <2>1, StampedHistory
    <2> QED
      BY <2>2, <2>3, <2>4, <2>5
  <1> HIDE DEF g
  <1>5. AsOf(g, height) = Ledger(k, block, Start)
    BY <1>1, <1>4, LedgerOfChild DEF Exact, height
  <1>6. Latest(g) = AsOf(g, height)
    <2>1. \A x \in DOMAIN g : x <= height
      BY <1>1, <1>3, <1>4
    <2> QED
      BY <1>1, <2>1, LatestIsAsOf
  <1>7. ASSUME NEW h \in low..height PROVE AsOf(g, h) = Ledger(k, Prefix(block, h), Start)
    <2>1. CASE h = height
      BY <1>5, <2>1, PrefixFull DEF height
    <2>2. CASE h # height
      <3>1. h \in low..(height - 1) /\ h \in 0..(height - 1)
        BY <1>1, <2>2
      <3> QED
        BY <1>1, <1>2, <1>4, <3>1 DEF Exact
    <2> QED
      BY <2>1, <2>2
  <1> QED
    BY <1>3, <1>4, <1>5, <1>6, <1>7 DEF Exact, g, height

\* The rows of an entity it does not change are left as they are.
LEMMA UntouchedExact ==
  ASSUME NEW k, NEW f, NEW block \in Seq(Payloads), NEW low \in Start..(Len(block) - 1),
         Exact(k, f, Parent(block), low), k \notin Touched[Content(block)]
  PROVE  Exact(k, f, block, low)
  <1> DEFINE height == Len(block)
  <1>1. Start \in Nat /\ height \in Nat /\ height > Start /\ height - 1 \in low..height
    BY OriginAssumption, LenProperties DEF Start
  <1>2. /\ Len(Parent(block)) = height - 1
        /\ \A m \in 0..(height - 1) : Prefix(Parent(block), m) = Prefix(block, m)
    BY <1>1, ParentType
  <1>3. Ledger(k, block, Start) = Ledger(k, Parent(block), Start)
    BY <1>1, LedgerOfChild
  <1> HIDE DEF height
  <1>4. DOMAIN f \subseteq {Permanent} \cup (Start + 1)..height /\ \A x \in DOMAIN f : x <= height
    BY <1>1, <1>2 DEF Exact, Permanent
  <1>5. ASSUME NEW h \in low..height PROVE AsOf(f, h) = Ledger(k, Prefix(block, h), Start)
    <2>1. CASE h = height
      BY <1>1, <1>3, <1>4, <2>1, PrefixFull, LatestIsAsOf DEF Exact, height
    <2>2. CASE h # height
      <3>1. h \in low..(height - 1) /\ h \in 0..(height - 1)
        BY <1>1, <2>2
      <3> QED
        BY <1>2, <3>1 DEF Exact
    <2> QED
      BY <2>1, <2>2
  <1> QED
    BY <1>3, <1>4, <1>5 DEF Exact, height

\* Without the rows of the newest block, they are the ledger of its parent.
LEMMA DroppedExact ==
  ASSUME NEW k, NEW f, NEW block \in Seq(Payloads), NEW low \in Start..(Len(block) - 1),
         Exact(k, f, block, low)
  PROVE  Exact(k, DropFrom(f, Len(block)), Parent(block), low)
  <1> DEFINE height == Len(block)
             g == DropFrom(f, height)
  <1>1. Start \in Nat /\ height \in Nat /\ height > Start /\ height - 1 \in low..height
    BY OriginAssumption, LenProperties DEF Start
  <1>2. /\ Parent(block) \in Seq(Payloads) /\ Len(Parent(block)) = height - 1
        /\ \A m \in 0..(height - 1) : Prefix(Parent(block), m) = Prefix(block, m)
    BY <1>1, ParentType
  <1>3. Prefix(Parent(block), height - 1) = Parent(block)
    BY <1>2, PrefixFull
  <1> HIDE DEF height
  <1>4. DOMAIN f \subseteq Int /\ Topped(DOMAIN f)
    BY <1>1 DEF Exact, Permanent, height
  <1>5. /\ DOMAIN g = {x \in DOMAIN f : x < height}
        /\ Topped(DOMAIN g)
        /\ \A h \in Int : h < height => AsOf(g, h) = AsOf(f, h)
    <2>1. height \in Int
      BY <1>1
    <2> QED
      BY <1>4, <2>1, DroppedHistory
  <1> HIDE DEF g
  <1>6. ASSUME NEW h \in low..(height - 1)
        PROVE  AsOf(g, h) = Ledger(k, Prefix(Parent(block), h), Start)
    <2>1. h \in low..height /\ h \in 0..(height - 1) /\ h \in Int /\ h < height
      BY <1>1
    <2> QED
      BY <1>2, <1>5, <2>1 DEF Exact, height
  <1>7. Latest(g) = AsOf(g, height - 1)
    <2>1. \A x \in DOMAIN g : x <= height - 1
      BY <1>1, <1>4, <1>5
    <2> QED
      BY <1>1, <2>1, LatestIsAsOf
  <1>8. Latest(g) = Ledger(k, Parent(block), Start)
    <2>1. height - 1 \in low..(height - 1)
      BY <1>1
    <2> QED
      BY <1>3, <1>6, <1>7, <2>1
  <1>9. DOMAIN g \subseteq {Permanent} \cup (Start + 1)..(height - 1)
    BY <1>1, <1>4, <1>5 DEF Exact, height
  <1> QED
    BY <1>2, <1>5, <1>6, <1>8, <1>9 DEF Exact, g, height

\* A commit adds a row to the history of each entity the block changes.
LEMMA CommitKeepsHistory ==
  ASSUME SyncInv, HistoryInv, Floor \in Start..Len(Indexed), NEW s \in Syncers, CommitBlock(s)
  PROVE  HistoryInv'
  <1> DEFINE block == Current(s)
  <1>1. /\ block \in Seq(Payloads) /\ Len(block) = next[s] /\ Indexed = Parent(block)
        /\ Len(Indexed) = Len(block) - 1 /\ Indexed' = block
    BY CommittedBlock
  <1>2. Floor' = Floor
    BY DEF CommitBlock, Floor
  <1>3. rows' = [k \in Keys |-> IF k \in Touched[Content(block)]
                                  THEN Stamp(rows[k], block, Len(block)) ELSE rows[k]]
    BY <1>1 DEF CommitBlock
  <1> HIDE DEF block
  <1>4. ASSUME NEW k \in Keys PROVE Exact(k, rows'[k], block, Floor)
    <2>1. Exact(k, rows[k], Parent(block), Floor) /\ Floor \in Start..(Len(block) - 1)
      BY <1>1, HistoryIsExact
    <2>2. CASE k \in Touched[Content(block)]
      <3>1. Exact(k, Stamp(rows[k], block, Len(block)), block, Floor)
        BY <1>1, <2>1, <2>2, StampedExact
      <3> QED
        BY <1>3, <2>2, <3>1
    <2>3. CASE k \notin Touched[Content(block)]
      <3>1. Exact(k, rows[k], block, Floor)
        BY <1>1, <2>1, <2>3, UntouchedExact
      <3> QED
        BY <1>3, <2>3, <3>1
    <2> QED
      BY <2>2, <2>3
  <1> QED
    BY <1>1, <1>2, <1>4 DEF HistoryInv, RowsBounded, HistoryExact, Exact

\* A rollback deletes the rows the undone block has stamped.
LEMMA RollbackKeepsHistory ==
  ASSUME SyncInv, HistoryInv, Floor \in Start..(Len(Indexed) - 1), NEW s \in Syncers, Rollback(s)
  PROVE  HistoryInv'
  <1>1. /\ Indexed \in Seq(Payloads) /\ seenHash[s] = Indexed
        /\ Indexed' = Parent(Indexed)
    BY UndoneBlock
  <1>2. Floor' = Floor
    BY DEF Rollback, Floor
  <1>3. rows' = [k \in Keys |-> DropFrom(rows[k], Len(Indexed))]
    BY <1>1 DEF Rollback
  <1>4. ASSUME NEW k \in Keys PROVE Exact(k, rows'[k], Parent(Indexed), Floor)
    <2>1. Exact(k, DropFrom(rows[k], Len(Indexed)), Parent(Indexed), Floor)
      BY <1>1, HistoryIsExact, DroppedExact
    <2> QED
      BY <1>3, <2>1
  <1> QED
    BY <1>1, <1>2, <1>4 DEF HistoryInv, RowsBounded, HistoryExact, Exact

\* All other steps of sync() leave the indexed chain and its rows alone.
LEMMA OthersKeepHistory ==
  ASSUME HistoryInv, NEW s \in Syncers, SyncStep(s) \/ Fail(s), ~CommitBlock(s), ~Rollback(s)
  PROVE  HistoryInv'
  <1>1. UNCHANGED <<rows, pendingHash, synced>>
    BY DEF SyncStep, Fail, ReadPending, GetTip, Fetch, StreamEnd, TakeBlock, RollbackFails,
           SaveBatch, SaveTxs, SaveCode, CommitFails, storeVars, statusVars
  <1> QED
    BY <1>1 DEF HistoryInv, RowsBounded, HistoryExact, Indexed, Floor

\* At first there are no rows, and nothing is applied.
LEMMA InitHistory ==
  ASSUME SyncInv, pendingHash = None, synced \in {None, Start}, rows = [k \in Keys |-> <<>>]
  PROVE  HistoryInv
  <1>1. Indexed = Origin /\ Floor = Start /\ Len(Indexed) = Start /\ Start \in Nat
    BY IndexedType DEF Indexed, Floor, Start
  <1>2. Prefix(Origin, Start) = Origin
    BY OriginAssumption, PrefixFull DEF Start
  <1>3. \A h \in Start..Start : h = Start
    BY <1>1
  <1>4. \A k \in Keys : DOMAIN rows[k] = {}
    OBVIOUS
  <1>5. \A k \in Keys : Latest(rows[k]) = EmptyBag /\ AsOf(rows[k], Start) = EmptyBag
    BY <1>4 DEF Latest, AsOf
  <1> QED
    BY <1>1, <1>2, <1>3, <1>4, <1>5, LedgerOfOrigin
    DEF HistoryInv, RowsBounded, HistoryExact, Topped

(***************************************************************************)
(* The theorem.                                                            *)
(***************************************************************************)

\* However many sync() loops run and whatever fails between their steps, every
\* entity is at every height what the indexed chain makes of it.
THEOREM HistoryCorrect == Spec => []HistoryExact
  <1> DEFINE Inv == SyncInv /\ HistoryInv /\ synced = None
  <1>1. Init => Inv
    <2> SUFFICES ASSUME Init PROVE Inv
      OBVIOUS
    <2>1. SyncInv
      BY InitInv
    <2> QED
      BY <2>1, InitHistory DEF Init, StoreInit
  <1>2. Inv /\ [Next]_vars => Inv'
    <2> SUFFICES ASSUME Inv, [Next]_vars PROVE HistoryInv' /\ synced' = None
      BY NextInv
    <2>1. Floor = Start /\ Floor \in Start..Len(Indexed)
      BY IndexedType DEF Floor
    <2>2. CASE NodeStep \/ UNCHANGED vars
      BY <2>2 DEF NodeStep, HistoryInv, RowsBounded, HistoryExact, Indexed, Floor, vars, storeVars
    <2>3. ASSUME NEW s \in Syncers, SyncStep(s) \/ Fail(s) PROVE HistoryInv' /\ synced' = None
      <3>1. synced' = None
        BY <2>3 DEF SyncStep, Fail, ReadPending, GetTip, Fetch, StreamEnd, TakeBlock, Rollback,
                    RollbackFails, SaveBatch, SaveTxs, SaveCode, CommitBlock, CommitFails, storeVars
      <3>2. CASE CommitBlock(s)
        BY <2>1, <3>1, <3>2, CommitKeepsHistory
      <3>3. CASE Rollback(s)
        <4>1. Len(Indexed) > Start
          BY <3>3, UndoneBlock
        <4>2. Floor \in Start..(Len(Indexed) - 1)
          BY <2>1, <4>1, IndexedType
        <4> QED
          BY <3>1, <3>3, <4>2, RollbackKeepsHistory
      <3> QED
        BY <2>3, <3>1, <3>2, <3>3, OthersKeepHistory
    <2> QED
      BY <2>2, <2>3 DEF Next
  <1>3. Inv => HistoryExact
    BY DEF HistoryInv
  <1> QED
    BY <1>1, <1>2, <1>3, PTL DEF Spec

(***************************************************************************)
(* sync() and clear(): any number of loops.                                *)
(***************************************************************************)

\* clear() only goes on when it has found the SYNCED row, which is never
\* deleted.
SyncedFound == \A c \in Clearers : clearPc[c] # "idle" => synced # None

IndexerInv == SyncInv /\ ClearTypeOK /\ SyncedFound

\* The compaction of a row leaves rows of the same kind.
LEMMA CompactedRows ==
  ASSUME NEW history, NEW row, DOMAIN history \subseteq {Permanent} \cup Nat
  PROVE  DOMAIN Compacted(history, row) \subseteq {Permanent} \cup Nat
  BY DEF Compacted, Restrict

\* clear() keeps its own types whatever it finds.
LEMMA ClearStepTypes ==
  ASSUME IndexerInv, NEW c \in Clearers, ClearStep(c) \/ ClearFail(c)
  PROVE  ClearTypeOK'
  <1> USE DEF IndexerInv, SyncInv, ClearTypeOK
  <1>1. ASSUME ClearStop(c) PROVE ClearTypeOK'
    BY <1>1 DEF ClearStop, ClearPhases, Tables
  <1>2. CASE NothingConfirmed(c) \/ MarkFails(c) \/ ClearTxs(c) \/ ClearFail(c)
    BY <1>1, <1>2 DEF NothingConfirmed, MarkFails, ClearTxs, ClearFail
  <1>3. CASE ClearStart(c)
    BY <1>3 DEF ClearStart, ClearPhases, TypeOK
  <1>4. CASE ReadSynced(c)
    <2>1. synced # None
      BY <1>4 DEF ReadSynced, SyncedFound
    <2> QED
      BY <1>4, <2>1 DEF ReadSynced, ClearPhases, TypeOK
  <1>5. CASE MarkSynced(c)
    BY <1>5 DEF MarkSynced, ClearPhases
  <1>6. CASE Pick(c)
    BY <1>6 DEF Pick, ClearPhases, Clearable, PickedRows
  <1>7. CASE Compact(c)
    BY <1>7 DEF Compact, ClearPhases, Moved, PickedRows
  <1>8. CASE TableDone(c)
    BY <1>8 DEF TableDone, ClearPhases, Tables
  <1> QED
    BY <1>2, <1>3, <1>4, <1>5, <1>6, <1>7, <1>8 DEF ClearStep

\* clear() marks SYNCED with a height and never removes it.
LEMMA ClearStepSynced ==
  ASSUME IndexerInv, NEW c \in Clearers, ClearStep(c) \/ ClearFail(c)
  PROVE  /\ synced' \in Int \cup {None}
         /\ SyncedFound'
  <1> USE DEF IndexerInv, SyncInv, ClearTypeOK, SyncedFound
  <1>1. CASE MarkSynced(c)
    <2>1. synced' \in Int
      BY <1>1, ConfirmationsAssumption DEF MarkSynced, Confirmed
    <2> QED
      BY <2>1, MarkersAssumption
  <1>2. CASE ClearStart(c)
    BY <1>2 DEF ClearStart, storeVars, TypeOK
  <1>3. CASE ReadSynced(c) \/ Pick(c) \/ Compact(c) \/ TableDone(c)
    BY <1>3 DEF ReadSynced, Pick, Compact, TableDone, storeVars, TypeOK
  <1>4. CASE NothingConfirmed(c) \/ MarkFails(c) \/ ClearTxs(c) \/ ClearFail(c)
    BY <1>4 DEF NothingConfirmed, MarkFails, ClearTxs, ClearFail, ClearStop, storeVars, TypeOK
  <1> QED
    BY <1>1, <1>2, <1>3, <1>4 DEF ClearStep

\* clear() touches rows, SYNCED and the cache, and nothing sync() relies on.
LEMMA ClearStepKeepsSyncInv ==
  ASSUME IndexerInv, NEW c \in Clearers, ClearStep(c) \/ ClearFail(c),
         UNCHANGED <<nodeVars, syncVars>>
  PROVE  SyncInv'
  <1> USE DEF IndexerInv, SyncInv
  <1>1. UNCHANGED <<blocks, pending, pendingHash, codes>>
    BY DEF ClearStep, ClearFail, ClearStart, ReadSynced, NothingConfirmed, MarkSynced, MarkFails,
           Pick, Compact, TableDone, ClearTxs, storeVars, statusVars
  <1>2. DOMAIN rows' = Keys /\ \A k \in Keys : DOMAIN rows'[k] \subseteq {Permanent} \cup Nat
    <2>1. CASE Compact(c)
      BY <2>1, CompactedRows DEF Compact, TypeOK
    <2>2. CASE ~Compact(c)
      BY <2>2 DEF ClearStep, ClearFail, ClearStart, ReadSynced, NothingConfirmed, MarkSynced, MarkFails,
                  Pick, TableDone, ClearTxs, storeVars, TypeOK
    <2> QED
      BY <2>1, <2>2
  <1>3. \A t \in DOMAIN txs' : txs'[t] \in Nat
    <2>1. CASE ClearTxs(c)
      BY <2>1 DEF ClearTxs, RestrictValues, Restrict, TypeOK
    <2>2. CASE ~ClearTxs(c)
      BY <2>2 DEF ClearStep, ClearFail, ClearStart, ReadSynced, NothingConfirmed, MarkSynced, MarkFails,
                  Pick, Compact, TableDone, storeVars, TypeOK
    <2> QED
      BY <2>1, <2>2
  <1>4. synced' \in Int \cup {None}
    BY ClearStepSynced
  <1>5. TypeOK'
    BY <1>1, <1>2, <1>3, <1>4 DEF TypeOK, NodeTypeOK, nodeVars, syncVars
  <1>6. Rooted' /\ OneChain'
    BY <1>1 DEF Rooted, OneChain, Indexed, nodeVars
  <1>7. ASSUME NEW r \in Syncers PROVE Consistent(r)'
    BY <1>1 DEF Consistent, Current, syncVars
  <1> QED
    BY <1>5, <1>6, <1>7

\* Following the picked rows keeps the types of clear().
LEMMA FollowPickedTypes ==
  ASSUME ClearTypeOK, FollowPicked
  PROVE  ClearTypeOK'
  BY DEF ClearTypeOK, FollowPicked, PickedRows

\* No step of sync() writes SYNCED.
LEMMA SyncStepSynced ==
  ASSUME NEW s \in Syncers, SyncStep(s) \/ Fail(s)
  PROVE  synced' = synced
  BY DEF SyncStep, Fail, ReadPending, GetTip, Fetch, StreamEnd, TakeBlock, Rollback, RollbackFails,
         SaveBatch, SaveTxs, SaveCode, CommitBlock, CommitFails, storeVars

LEMMA IndexerInitInv == IndexerInit => IndexerInv
  <1> SUFFICES ASSUME IndexerInit PROVE IndexerInv
    OBVIOUS
  <1>1. Start \in Nat /\ Len(Origin) = Start /\ Origin \in Seq(Payloads)
    BY OriginAssumption, LenProperties DEF Start
  <1>2. synced \in Int \cup {None}
    BY <1>1, InitialSyncedAssumption DEF IndexerInit
  <1>3. TypeOK
    BY <1>1, <1>2 DEF IndexerInit, NodeInit, StoreInit, SyncInit, TypeOK, NodeTypeOK, Phases, Answers, NoQueries
  <1>4. Rooted
    BY <1>1, PrefixFull DEF IndexerInit, NodeInit, StoreInit, Rooted, Indexed, Start
  <1>5. OneChain
    BY <1>1 DEF IndexerInit, StoreInit, OneChain, Indexed
  <1>6. \A s \in Syncers : Consistent(s)
    BY DEF IndexerInit, SyncInit, Consistent, NoQueries
  <1>7. ClearTypeOK /\ SyncedFound
    BY DEF IndexerInit, ClearInit, ClearTypeOK, ClearPhases, Tables, SyncedFound
  <1> QED
    BY <1>3, <1>4, <1>5, <1>6, <1>7 DEF IndexerInv, SyncInv

LEMMA IndexerNextInv == IndexerInv /\ [IndexerNext]_indexerVars => IndexerInv'
  <1> SUFFICES ASSUME IndexerInv, [IndexerNext]_indexerVars PROVE IndexerInv'
    OBVIOUS
  <1>1. CASE NodeSide
    <2>1. SyncInv'
      BY <1>1, NodeKeepsInv DEF NodeSide, IndexerInv
    <2>2. ClearTypeOK' /\ SyncedFound'
      BY <1>1 DEF NodeSide, NodeStep, IndexerInv, ClearTypeOK, SyncedFound, clearVars, storeVars
    <2> QED
      BY <2>1, <2>2 DEF IndexerInv
  <1>2. CASE SyncSide
    <2>1. PICK s \in Syncers : (SyncStep(s) \/ Fail(s)) /\ FollowPicked
      BY <1>2 DEF SyncSide
    <2>2. SyncInv'
      BY <2>1, SyncStepKeepsInv DEF IndexerInv
    <2>3. ClearTypeOK'
      BY <2>1, FollowPickedTypes DEF IndexerInv
    <2>4. SyncedFound'
      BY <2>1, SyncStepSynced DEF SyncedFound, FollowPicked, IndexerInv
    <2> QED
      BY <2>2, <2>3, <2>4 DEF IndexerInv
  <1>3. CASE ClearSide
    <2>1. PICK c \in Clearers : (ClearStep(c) \/ ClearFail(c)) /\ UNCHANGED <<nodeVars, syncVars>>
      BY <1>3 DEF ClearSide
    <2> QED
      BY <2>1, ClearStepTypes, ClearStepSynced, ClearStepKeepsSyncInv DEF IndexerInv
  <1>4. CASE UNCHANGED indexerVars
    BY <1>4 DEF IndexerInv, SyncInv, TypeOK, NodeTypeOK, Rooted, OneChain, Indexed, Consistent, Current,
                ClearTypeOK, SyncedFound, indexerVars, vars, nodeVars, storeVars, syncVars, clearVars
  <1> QED
    BY <1>1, <1>2, <1>3, <1>4 DEF IndexerNext

THEOREM IndexerInvCorrect == IndexerSpec => []IndexerInv
  BY IndexerInitInv, IndexerNextInv, PTL DEF IndexerSpec

\* Every variable of sync() and clear() has its type in every reachable state.
THEOREM IndexerTypeCorrect == IndexerSpec => []IndexerTypeOK
  <1>1. IndexerInv => IndexerTypeOK
    BY DEF IndexerInv, SyncInv, IndexerTypeOK
  <1> QED
    BY <1>1, IndexerInvCorrect, PTL

\* However many sync() and clear() loops run, and whichever of their steps
\* fail, PENDING, PENDING_HASH and the block table tell of the same chain.
THEOREM IndexerOneChain == IndexerSpec => []OneChain
  <1>1. IndexerInv => OneChain
    BY DEF IndexerInv, SyncInv
  <1> QED
    BY <1>1, IndexerInvCorrect, PTL

(***************************************************************************)
(* sync() and clear(): one loop each.                                      *)
(***************************************************************************)

\* What a deployment has, and how it has to be configured.
OneLoopEach ==
  /\ \A r, s \in Syncers : r = s
  /\ \A c, d \in Clearers : c = d
  /\ FinalityDepth <= Confirmations

(***************************************************************************)
(* The invariant.                                                          *)
(***************************************************************************)

\* A block is that of the node's chain up to a height.
Agrees(block, h) == h <= Len(block) /\ \A i \in 1..h : block[i] = chain[i]

\* What the node has ever served is final but for its newest blocks.
Settled(block) ==
  Len(block) - FinalityDepth <= final /\ Agrees(block, Len(block) - FinalityDepth)

Answered(s) == {h \in DOMAIN queries[s] : queries[s][h] \notin {NotFetched, Missing}}

\* A loop is where PENDING is; what it streams was served by the node; and it
\* rolls back for a block it has seen not to be a child.
InStep(s) ==
  /\ IF pc[s] = "idle" THEN DOMAIN queries[s] = {} ELSE pending = status[s]
  /\ \A x \in Answered(s) : Settled(queries[s][x])
  /\ pc[s] = "rollback" => next[s] \in Answered(s) /\ seenHash[s] # Parent(Current(s))

\* The heights clear() has given up, or will once it marks SYNCED
Given(h) == h <= Floor \/ \E c \in Clearers : h <= Confirmed(c)

\* The indexed chain is final up to a height, and a block in the stream that
\* could be the next one agrees.
Kept(h) ==
  /\ h <= final
  /\ Agrees(Indexed, h)
  /\ \A s \in Syncers :
       \/ status[s] > h
       \/ \A x \in Answered(s) : \A i \in 1..h : i <= x => queries[s][x][i] = chain[i]

FinalInv ==
  /\ Len(chain) - FinalityDepth <= final
  /\ Settled(Indexed)
  /\ \A s \in Syncers : InStep(s)
  /\ Floor >= Start
  /\ \A h \in Int : Given(h) => Kept(h)

\* clear() marks upwards, then compacts rows that are there and given up.
ClearInv ==
  \A c \in Clearers :
    /\ clearPc[c] = "mark" => seenSynced[c] < Confirmed(c)
    /\ clearPc[c] \in {"pick", "compact", "txs"} => synced = Confirmed(c)
    /\ clearPc[c] = "compact" =>
         /\ picked[c].at = picked[c].height
         /\ picked[c].height \in 0..Confirmed(c)
         /\ picked[c].height \in DOMAIN rows[picked[c].key]
         /\ picked[c].key \in Keys

LedgerInv == IndexerInv /\ FinalInv /\ ClearInv /\ HistoryInv

(***************************************************************************)
(* The node.                                                               *)
(***************************************************************************)

\* The numbers the invariant is about are integers.
LEMMA Heights ==
  ASSUME IndexerInv
  PROVE  /\ Start \in Nat /\ final \in Nat /\ final >= Start
         /\ chain \in Seq(Payloads) /\ Len(chain) \in Nat /\ final <= Len(chain)
         /\ Indexed \in Seq(Payloads) /\ Len(Indexed) \in Nat /\ Floor \in Int
         /\ FinalityDepth \in Nat /\ FinalityDepth > 0 /\ Confirmations \in Nat
         /\ \A c \in Clearers : Confirmed(c) \in Int /\ seenPending[c] \in Nat
  <1>1. SyncInv /\ NodeTypeOK /\ ClearTypeOK
    BY DEF IndexerInv, SyncInv, TypeOK
  <1>2. Start \in Nat /\ Len(chain) \in Nat
    BY <1>1, OriginAssumption, LenProperties DEF Start, NodeTypeOK
  <1>3. Indexed \in Seq(Payloads) /\ Len(Indexed) \in Nat /\ Floor \in Int
    BY <1>1, IndexedType
  <1>4. \A c \in Clearers : Confirmed(c) \in Int /\ seenPending[c] \in Nat
    BY <1>1, ConfirmationsAssumption DEF ClearTypeOK, Confirmed
  <1> QED
    BY <1>1, <1>2, <1>3, <1>4, FinalityDepthAssumption, ConfirmationsAssumption DEF NodeTypeOK

\* The node's chain changes above what is final, and more becomes final.
LEMMA FinalStays ==
  ASSUME IndexerInv, NodeStep, Len(chain) - FinalityDepth <= final
  PROVE  /\ final' \in Nat /\ final' >= final
         /\ Len(chain') - FinalityDepth <= final'
         /\ \A i \in 1..final : chain'[i] = chain[i]
  <1>1. ASSUME NEW best \in Seq(Payloads), Adopt(best), \A i \in 1..final : best[i] = chain[i]
        PROVE  /\ final' \in Nat /\ final' >= final
               /\ Len(chain') - FinalityDepth <= final'
               /\ \A i \in 1..final : chain'[i] = chain[i]
    <2>1. Len(best) \in Nat /\ final \in Nat /\ FinalityDepth \in Nat
      BY Heights, LenProperties
    <2> DEFINE deep == Len(best) - FinalityDepth
    <2>2. deep \in Int /\ chain' = best /\ final' = Max({final, deep})
      BY <1>1, <2>1 DEF Adopt
    <2>3. final' \in {final, deep} /\ final' >= final /\ final' >= deep
      <3> HIDE DEF deep
      <3>1. Max({final, deep}) \in {final, deep} /\ Max({final, deep}) >= final
        BY <2>1, <2>2, MaxOfTwo
      <3>2. Max({deep, final}) >= deep
        BY <2>1, <2>2, MaxOfTwo
      <3>3. {final, deep} = {deep, final}
        OBVIOUS
      <3> QED
        BY <2>2, <3>1, <3>2, <3>3
    <2> QED
      BY <1>1, <2>1, <2>2, <2>3
  <1>2. CASE Grow
    <2>1. PICK p \in Payloads : Adopt(Append(chain, p))
      BY <1>2 DEF Grow
    <2>2. Append(chain, p) \in Seq(Payloads) /\ \A i \in 1..Len(chain) : Append(chain, p)[i] = chain[i]
      BY Heights, AppendProperties
    <2>3. \A i \in 1..final : Append(chain, p)[i] = chain[i]
      BY <2>2, Heights
    <2> QED
      BY <1>1, <2>1, <2>2, <2>3
  <1>3. CASE Reorg
    <2>1. PICK n \in final..(Len(chain) - 1), p \in Payloads : Adopt(Append(Prefix(chain, n), p))
      BY <1>3 DEF Reorg
    <2>2. n \in 0..Len(chain)
      BY Heights
    <2>3. /\ Prefix(chain, n) \in Seq(Payloads) /\ Len(Prefix(chain, n)) = n
          /\ \A i \in 1..n : Prefix(chain, n)[i] = chain[i]
      BY <2>2, Heights, PrefixType
    <2>4. /\ Append(Prefix(chain, n), p) \in Seq(Payloads)
          /\ \A i \in 1..n : Append(Prefix(chain, n), p)[i] = Prefix(chain, n)[i]
      BY <2>3, AppendProperties
    <2>5. \A i \in 1..final : i \in 1..n
      BY <2>2, Heights
    <2> QED
      BY <1>1, <2>1, <2>3, <2>4, <2>5
  <1> QED
    BY <1>2, <1>3 DEF NodeStep, NodeNext

LEMMA NodeKeepsFinal ==
  ASSUME IndexerInv, FinalInv, NodeSide
  PROVE  FinalInv'
  <1>1. /\ UNCHANGED <<pending, pendingHash, synced, pc, status, next, queries, seenHash, seenPending>>
        /\ NodeStep
    BY DEF NodeSide, NodeStep, storeVars, syncVars, clearVars
  <1>2. /\ final' \in Nat /\ final' >= final
        /\ Len(chain') - FinalityDepth <= final'
        /\ \A i \in 1..final : chain'[i] = chain[i]
    BY <1>1, FinalStays DEF FinalInv
  <1>3. Indexed' = Indexed /\ Floor' = Floor /\ \A h : Given(h)' <=> Given(h)
    BY <1>1 DEF Indexed, Floor, Given, Confirmed
  <1>4. ASSUME NEW block, Settled(block), Len(block) \in Nat
        PROVE  /\ Len(block) - FinalityDepth <= final'
               /\ Len(block) - FinalityDepth <= Len(block)
               /\ \A i \in 1..(Len(block) - FinalityDepth) : block[i] = chain'[i]
    BY <1>2, <1>4, Heights DEF Settled, Agrees
  <1>5. Settled(Indexed)'
    BY <1>3, <1>4, Heights DEF FinalInv, Settled, Agrees
  <1>6. ASSUME NEW s \in Syncers PROVE InStep(s)'
    <2>1. InStep(s) /\ Answered(s)' = Answered(s)
      BY <1>1 DEF FinalInv, Answered
    <2>2. ASSUME NEW x \in Answered(s) PROVE Settled(queries[s][x])'
      <3>1. Settled(queries[s][x]) /\ Len(queries[s][x]) \in Nat
        BY <2>1, LenProperties DEF InStep, Answered, IndexerInv, SyncInv, TypeOK, Answers
      <3>2. /\ Len(queries[s][x]) - FinalityDepth <= final'
            /\ Len(queries[s][x]) - FinalityDepth <= Len(queries[s][x])
            /\ \A i \in 1..(Len(queries[s][x]) - FinalityDepth) : queries[s][x][i] = chain'[i]
        BY <1>4, <3>1
      <3>3. queries' = queries
        BY <1>1
      <3> QED
        BY <3>2, <3>3 DEF Settled, Agrees
    <2> QED
      BY <1>1, <2>1, <2>2 DEF InStep, Current
  <1>7. ASSUME NEW h \in Int, Kept(h) PROVE Kept(h)'
    <2>1. h <= final /\ \A i \in 1..h : chain'[i] = chain[i]
      BY <1>2, <1>7, Heights DEF Kept
    <2>2. \A s \in Syncers : Answered(s)' = Answered(s)
      BY <1>1 DEF Answered
    <2>3. h <= final'
      BY <1>2, <2>1, Heights
    <2>4. Agrees(Indexed, h)'
      BY <1>3, <1>7, <2>1 DEF Kept, Agrees
    <2>5. ASSUME NEW s \in Syncers
          PROVE  \/ status'[s] > h
                 \/ \A x \in Answered(s) : \A i \in 1..h : i <= x => queries'[s][x][i] = chain'[i]
      BY <1>1, <1>7, <2>1 DEF Kept
    <2> QED
      BY <2>2, <2>3, <2>4, <2>5 DEF Kept
  <1> QED
    BY <1>2, <1>3, <1>5, <1>6, <1>7 DEF FinalInv

(***************************************************************************)
(* The steps of sync().                                                    *)
(***************************************************************************)

\* A rollback stays above what is kept: the only block that could be next on a
\* kept chain is a child of it.
LEMMA NoDeepRollback ==
  ASSUME IndexerInv, FinalInv, NEW s \in Syncers, Rollback(s), NEW h \in Int, Kept(h)
  PROVE  h < Len(Indexed)
  <1> DEFINE block == Current(s)
  <1>1. /\ Indexed \in Seq(Payloads) /\ Len(Indexed) \in Nat /\ Len(Indexed) = pending
        /\ seenHash[s] = Indexed
    BY UndoneBlock DEF IndexerInv
  <1>2. /\ pending = status[s] /\ next[s] \in Answered(s) /\ Indexed # Parent(block)
        /\ next[s] = status[s] + 1
    BY <1>1 DEF FinalInv, InStep, Rollback, IndexerInv, SyncInv, Consistent
  <1>3. block \in Seq(Payloads) /\ Len(block) = next[s]
    BY <1>2 DEF Answered, Current, IndexerInv, SyncInv, Consistent, TypeOK, Answers
  <1>4. h <= Len(Indexed) /\ \A i \in 1..h : Indexed[i] = chain[i]
    BY DEF Kept, Agrees
  <1>5. CASE status[s] > h
    BY <1>1, <1>2, <1>5
  <1>6. CASE ~(status[s] > h)
    <2>1. h = Len(Indexed) /\ next[s] = h + 1 /\ h \in Nat
      BY <1>1, <1>2, <1>4, <1>6
    <2>2. \A i \in 1..h : block[i] = chain[i]
      BY <1>2, <1>6, <2>1 DEF Kept, Current
    <2>3. /\ Parent(block) \in Seq(Payloads) /\ Len(Parent(block)) = h
          /\ \A i \in 1..h : Parent(block)[i] = block[i]
      <3>1. h \in 0..Len(block) /\ Len(block) - 1 = h
        BY <1>3, <2>1
      <3> QED
        BY <1>3, <3>1, PrefixType DEF Parent
    <2>4. Parent(block) = Indexed
      BY <1>1, <1>4, <2>1, <2>2, <2>3, SeqEqual
    <2> QED
      BY <1>2, <2>4
  <1> QED
    BY <1>5, <1>6

\* The chain that is left by a rollback, and the one a commit makes, agree with
\* the node wherever the indexed one does.
LEMMA RollbackKeeps ==
  ASSUME IndexerInv, FinalInv, NEW s \in Syncers, Rollback(s), NEW h \in Int, Kept(h)
  PROVE  h <= Len(Indexed') /\ \A i \in 1..h : Indexed'[i] = chain[i]
  <1>1. /\ Indexed \in Seq(Payloads) /\ Len(Indexed) \in Nat /\ Indexed' = Parent(Indexed)
        /\ Len(Indexed) > Start /\ Start \in Nat
    BY UndoneBlock, Heights DEF IndexerInv
  <1>2. h < Len(Indexed)
    BY NoDeepRollback
  <1>3. Len(Indexed) - 1 \in 0..Len(Indexed)
    BY <1>1
  <1>4. /\ Len(Parent(Indexed)) = Len(Indexed) - 1
        /\ \A i \in 1..(Len(Indexed) - 1) : Parent(Indexed)[i] = Indexed[i]
    BY <1>1, <1>3, PrefixType DEF Parent
  <1> QED
    BY <1>1, <1>2, <1>4 DEF Kept, Agrees

LEMMA CommitKeeps ==
  ASSUME IndexerInv, FinalInv, NEW s \in Syncers, CommitBlock(s), NEW h \in Int, Kept(h)
  PROVE  h < Len(Indexed') /\ \A i \in 1..h : Indexed'[i] = chain[i]
  <1>1. /\ Indexed' \in Seq(Payloads) /\ Indexed = Parent(Indexed')
        /\ Len(Indexed) = Len(Indexed') - 1 /\ Len(Indexed') \in Nat
    BY CommittedBlock, LenProperties DEF IndexerInv
  <1>2. Len(Indexed) \in Nat /\ Len(Indexed') - 1 \in 0..Len(Indexed')
    BY <1>1, Heights
  <1>3. \A i \in 1..(Len(Indexed') - 1) : Indexed[i] = Indexed'[i]
    BY <1>1, <1>2, PrefixType DEF Parent
  <1> QED
    BY <1>1, <1>2, <1>3 DEF Kept, Agrees

\* The node serves blocks of its chain.
LEMMA FetchedAgrees ==
  ASSUME IndexerInv, NEW x, BlockAt(x, Missing) # Missing
  PROVE  /\ BlockAt(x, Missing) \in Seq(Payloads) /\ Len(BlockAt(x, Missing)) = x
         /\ x \in Nat /\ x <= Len(chain)
         /\ \A i \in 1..x : BlockAt(x, Missing)[i] = chain[i]
  <1>1. x \in 1..Len(chain) /\ BlockAt(x, Missing) = Prefix(chain, x)
    BY DEF BlockAt
  <1>2. x \in 0..Len(chain) /\ chain \in Seq(Payloads)
    BY <1>1, Heights
  <1>3. /\ Prefix(chain, x) \in Seq(Payloads) /\ Len(Prefix(chain, x)) = x
        /\ \A i \in 1..x : Prefix(chain, x)[i] = chain[i]
    BY <1>2, PrefixType
  <1> QED
    BY <1>1, <1>3, Heights

\* What is kept stays so in every step of sync().
LEMMA SyncStepKeeps ==
  ASSUME OneLoopEach, IndexerInv, FinalInv, NEW s \in Syncers, SyncStep(s) \/ Fail(s),
         NEW h \in Int, Kept(h)
  PROVE  Kept(h)'
  <1>1. chain' = chain /\ final' = final
    BY DEF SyncStep, Fail, ReadPending, GetTip, Fetch, StreamEnd, TakeBlock, Rollback, RollbackFails,
           SaveBatch, SaveTxs, SaveCode, CommitBlock, CommitFails, nodeVars
  <1>2. Agrees(Indexed, h)'
    <2>1. CASE Rollback(s)
      BY <1>1, <2>1, RollbackKeeps DEF Agrees
    <2>2. CASE CommitBlock(s)
      BY <1>1, <2>2, CommitKeeps, CommittedBlock, LenProperties DEF Agrees, IndexerInv
    <2>3. CASE ~Rollback(s) /\ ~CommitBlock(s)
      <3>1. Indexed' = Indexed
        BY <2>3 DEF SyncStep, Fail, ReadPending, GetTip, Fetch, StreamEnd, TakeBlock, RollbackFails,
                    SaveBatch, SaveTxs, SaveCode, CommitFails, storeVars, statusVars, Indexed
      <3> QED
        BY <1>1, <3>1 DEF Kept, Agrees
    <2> QED
      BY <2>1, <2>2, <2>3
  <1>3. ASSUME NEW r \in Syncers
        PROVE  \/ status'[r] > h
               \/ \A x \in Answered(r)' : \A i \in 1..h : i <= x => queries'[r][x][i] = chain[i]
    <2>1. r = s
      BY DEF OneLoopEach
    <2>2. CASE Stop(s)
      BY <2>1, <2>2 DEF Stop, Answered, NoQueries, IndexerInv, SyncInv, TypeOK
    <2>3. CASE GetTip(s)
      BY <2>1, <2>3 DEF GetTip, Answered, IndexerInv, SyncInv, TypeOK
    <2>4. CASE ReadPending(s)
      BY <2>1, <2>4 DEF ReadPending, FinalInv, InStep, Answered
    <2>5. CASE \E x \in DOMAIN queries[s] : Fetch(s, x)
      <3>1. PICK x \in DOMAIN queries[s] : Fetch(s, x)
        BY <2>5
      <3>2. status' = status /\ DOMAIN queries'[r] = DOMAIN queries[r]
        BY <2>1, <3>1 DEF Fetch, IndexerInv, SyncInv, TypeOK
      <3>3. \A y \in DOMAIN queries[r] :
              queries'[r][y] = IF y = x THEN BlockAt(x, Missing) ELSE queries[r][y]
        BY <2>1, <3>1 DEF Fetch, IndexerInv, SyncInv, TypeOK
      <3>4. BlockAt(x, Missing) # Missing => \A i \in 1..x : BlockAt(x, Missing)[i] = chain[i]
        BY FetchedAgrees
      <3> QED
        BY <3>2, <3>3, <3>4 DEF Kept, Answered
    <2>6. CASE CommitBlock(s)
      <3>1. status'[s] = next[s] /\ next[s] = Len(Indexed')
        BY <2>6, CommittedBlock DEF CommitBlock, IndexerInv, SyncInv, TypeOK
      <3> QED
        BY <2>1, <2>6, <3>1, CommitKeeps
    <2>7. CASE TakeBlock(s) \/ SaveBatch(s) \/ SaveTxs(s) \/ SaveCode(s)
      BY <2>7 DEF TakeBlock, SaveBatch, SaveTxs, SaveCode, syncVars, Kept, Answered
    <2> QED
      BY <2>2, <2>3, <2>4, <2>5, <2>6, <2>7
      DEF SyncStep, Fail, StreamEnd, Rollback, RollbackFails, CommitFails
  <1> QED
    BY <1>1, <1>2, <1>3 DEF Kept

\* What has been served is final but for its newest blocks: a new answer, the
\* block that is committed, and the parent of the one that is rolled back.
LEMMA SyncStepSettled ==
  ASSUME OneLoopEach, IndexerInv, FinalInv, NEW s \in Syncers, SyncStep(s) \/ Fail(s)
  PROVE  Settled(Indexed)' /\ \A r \in Syncers : \A x \in Answered(r)' : Settled(queries[r][x])'
  <1>1. chain' = chain /\ final' = final
    BY DEF SyncStep, Fail, ReadPending, GetTip, Fetch, StreamEnd, TakeBlock, Rollback, RollbackFails,
           SaveBatch, SaveTxs, SaveCode, CommitBlock, CommitFails, nodeVars
  <1>2. \A block : Settled(block)' <=> Settled(block)
    BY <1>1 DEF Settled, Agrees
  <1>3. Settled(Indexed')
    <2>1. CASE Rollback(s)
      <3>1. /\ Indexed \in Seq(Payloads) /\ Len(Indexed) \in Nat /\ Len(Indexed) > Start
            /\ Indexed' = Parent(Indexed) /\ Start \in Nat
        BY <2>1, UndoneBlock, Heights DEF IndexerInv
      <3>2. Len(Indexed) - 1 \in 0..Len(Indexed)
        BY <3>1
      <3>3. /\ Len(Parent(Indexed)) = Len(Indexed) - 1
            /\ \A i \in 1..(Len(Indexed) - 1) : Parent(Indexed)[i] = Indexed[i]
        BY <3>1, <3>2, PrefixType DEF Parent
      <3>4. /\ Len(Indexed) - FinalityDepth <= final
            /\ \A i \in 1..(Len(Indexed) - FinalityDepth) : Indexed[i] = chain[i]
        BY DEF FinalInv, Settled, Agrees
      <3>5. /\ Len(Parent(Indexed)) - FinalityDepth <= final
            /\ Len(Parent(Indexed)) - FinalityDepth <= Len(Parent(Indexed))
            /\ \A i \in 1..(Len(Parent(Indexed)) - FinalityDepth) :
                 i \in 1..(Len(Indexed) - 1) /\ i \in 1..(Len(Indexed) - FinalityDepth)
        BY <3>1, <3>3, <3>4, Heights
      <3> QED
        BY <3>1, <3>3, <3>4, <3>5 DEF Settled, Agrees
    <2>2. CASE CommitBlock(s)
      BY <2>2, CommittedBlock DEF IndexerInv, FinalInv, InStep, Answered, Current
    <2>3. CASE ~Rollback(s) /\ ~CommitBlock(s)
      <3>1. Indexed' = Indexed
        BY <2>3 DEF SyncStep, Fail, ReadPending, GetTip, Fetch, StreamEnd, TakeBlock, RollbackFails,
                    SaveBatch, SaveTxs, SaveCode, CommitFails, storeVars, statusVars, Indexed
      <3> QED
        BY <3>1 DEF FinalInv
    <2> QED
      BY <2>1, <2>2, <2>3
  <1>4. ASSUME NEW x \in Answered(s)' PROVE Settled(queries'[s][x])
    <2>1. CASE Stop(s)
      BY <2>1, <1>4 DEF Stop, Answered, NoQueries, IndexerInv, SyncInv, TypeOK
    <2>2. CASE GetTip(s)
      BY <2>2, <1>4 DEF GetTip, Answered, IndexerInv, SyncInv, TypeOK
    <2>3. CASE \E y \in DOMAIN queries[s] : Fetch(s, y)
      <3>1. PICK y \in DOMAIN queries[s] : Fetch(s, y)
        BY <2>3
      <3>2. /\ DOMAIN queries'[s] = DOMAIN queries[s]
            /\ \A z \in DOMAIN queries[s] :
                 queries'[s][z] = IF z = y THEN BlockAt(y, Missing) ELSE queries[s][z]
        BY <3>1 DEF Fetch, IndexerInv, SyncInv, TypeOK
      <3>3. BlockAt(y, Missing) # Missing => Settled(BlockAt(y, Missing))
        BY FetchedAgrees, Heights DEF Settled, Agrees, FinalInv
      <3> QED
        BY <1>4, <3>2, <3>3 DEF Answered, FinalInv, InStep
    <2>4. CASE queries' = queries
      BY <1>4, <2>4 DEF Answered, FinalInv, InStep
    <2> QED
      BY <2>1, <2>2, <2>3, <2>4
      DEF SyncStep, Fail, ReadPending, StreamEnd, TakeBlock, Rollback, RollbackFails,
          SaveBatch, SaveTxs, SaveCode, CommitBlock, CommitFails, syncVars
  <1>5. \A r \in Syncers : r = s
    BY DEF OneLoopEach
  <1> QED
    BY <1>1, <1>3, <1>4, <1>5 DEF Settled, Agrees

LEMMA SyncSideKeepsFinal ==
  ASSUME OneLoopEach, IndexerInv, FinalInv, NEW s \in Syncers, SyncStep(s) \/ Fail(s), FollowPicked
  PROVE  FinalInv'
  <1>1. chain' = chain /\ final' = final
    BY DEF SyncStep, Fail, ReadPending, GetTip, Fetch, StreamEnd, TakeBlock, Rollback, RollbackFails,
           SaveBatch, SaveTxs, SaveCode, CommitBlock, CommitFails, nodeVars
  <1>2. Floor' = Floor /\ \A h : Given(h)' <=> Given(h)
    BY SyncStepSynced DEF Floor, Given, Confirmed, FollowPicked
  <1>3. /\ Settled(Indexed)'
        /\ \A r \in Syncers : \A x \in Answered(r)' : Settled(queries[r][x])'
    BY SyncStepSettled
  <1>4. ASSUME NEW h \in Int, Given(h)' PROVE Kept(h)'
    BY <1>2, <1>4, SyncStepKeeps DEF FinalInv
  <1>5. /\ IF pc'[s] = "idle" THEN DOMAIN queries'[s] = {} ELSE pending' = status'[s]
        /\ pc'[s] = "rollback" => next'[s] \in Answered(s)' /\ seenHash'[s] # Parent(Current(s)')
    <2> USE DEF IndexerInv, SyncInv, TypeOK
    <2>1. InStep(s)
      BY DEF FinalInv
    <2>2. CASE Stop(s)
      BY <2>2 DEF Stop, NoQueries
    <2>3. CASE ReadPending(s)
      BY <2>3 DEF ReadPending
    <2>4. CASE GetTip(s)
      BY <2>1, <2>4 DEF GetTip, InStep, storeVars
    <2>5. CASE \E x \in DOMAIN queries[s] : Fetch(s, x)
      <3>1. PICK x \in DOMAIN queries[s] : Fetch(s, x)
        BY <2>5
      <3>2. /\ UNCHANGED <<pc, status, next, seenHash, pending>>
            /\ DOMAIN queries'[s] = DOMAIN queries[s] /\ queries[s][x] = NotFetched
            /\ \A y \in DOMAIN queries[s] : y # x => queries'[s][y] = queries[s][y]
        BY <3>1 DEF Fetch, storeVars
      <3> QED
        BY <2>1, <3>2 DEF InStep, Answered, Current
    <2>6. CASE TakeBlock(s)
      BY <2>1, <2>6 DEF TakeBlock, Reorged, InStep, Answered, Current, storeVars
    <2>7. CASE SaveBatch(s) \/ SaveTxs(s) \/ SaveCode(s)
      BY <2>1, <2>7 DEF SaveBatch, SaveTxs, SaveCode, InStep, Answered, Current, statusVars, syncVars
    <2>8. CASE CommitBlock(s)
      BY <2>8 DEF CommitBlock
    <2> QED
      BY <2>2, <2>3, <2>4, <2>5, <2>6, <2>7, <2>8
      DEF SyncStep, Fail, StreamEnd, Rollback, RollbackFails, CommitFails
  <1>6. \A r \in Syncers : r = s
    BY DEF OneLoopEach
  <1>7. \A r \in Syncers : InStep(r)'
    BY <1>3, <1>5, <1>6 DEF InStep
  <1> QED
    BY <1>1, <1>2, <1>3, <1>4, <1>7 DEF FinalInv

(***************************************************************************)
(* The steps of clear().                                                   *)
(***************************************************************************)

\* What clear() reads and never writes.
LEMMA ClearLeaves ==
  ASSUME NEW c \in Clearers, ClearStep(c) \/ ClearFail(c)
  PROVE  UNCHANGED <<pending, pendingHash, blocks, codes>>
  BY DEF ClearStep, ClearFail, ClearStart, ReadSynced, NothingConfirmed, MarkSynced, MarkFails,
         Pick, Compact, TableDone, ClearTxs, storeVars, statusVars

\* A height is kept that lies as deep below PENDING as the node reorganises.
LEMMA DeepIsKept ==
  ASSUME OneLoopEach, IndexerInv, FinalInv, pending # None,
         NEW h \in Int, h <= pending - Confirmations
  PROVE  Kept(h)
  <1>1. pending = Len(Indexed)
    BY DEF IndexerInv, SyncInv, OneChain
  <1>2. /\ Len(Indexed) \in Nat /\ FinalityDepth \in Nat /\ FinalityDepth > 0
        /\ Confirmations \in Nat /\ FinalityDepth <= Confirmations /\ final \in Nat
    BY Heights DEF OneLoopEach
  <1>3. /\ Len(Indexed) - FinalityDepth <= final
        /\ \A i \in 1..(Len(Indexed) - FinalityDepth) : Indexed[i] = chain[i]
    BY DEF FinalInv, Settled, Agrees
  <1>4. h < pending /\ h <= final /\ Agrees(Indexed, h)
    BY <1>1, <1>2, <1>3 DEF Agrees
  <1>5. ASSUME NEW s \in Syncers PROVE status[s] > h \/ Answered(s) = {}
    BY <1>1, <1>2, <1>4 DEF FinalInv, InStep, Answered
  <1> QED
    BY <1>4, <1>5 DEF Kept

\* So is a height that no chain has.
LEMMA LowIsKept ==
  ASSUME IndexerInv, NEW h \in Int, h <= 0
  PROVE  Kept(h)
  BY Heights DEF Kept, Agrees

\* clear() gives up what is kept, and marks SYNCED upwards.
LEMMA ClearSideKeepsFinal ==
  ASSUME OneLoopEach, IndexerInv, FinalInv, ClearInv,
         NEW c \in Clearers, ClearStep(c) \/ ClearFail(c), UNCHANGED <<nodeVars, syncVars>>
  PROVE  FinalInv'
  <1>1. /\ UNCHANGED <<pending, pendingHash, chain, final>>
        /\ UNCHANGED <<pc, status, next, queries, seenHash>>
    BY ClearLeaves DEF nodeVars, syncVars
  <1>2. Indexed' = Indexed /\ \A s \in Syncers : Answered(s)' = Answered(s)
    BY <1>1 DEF Indexed, Answered
  <1>3. \A h : Kept(h)' <=> Kept(h)
    BY <1>1, <1>2 DEF Kept, Agrees
  <1>4. Floor' >= Floor /\ Floor' \in Int /\ (Floor' = Floor \/ (Floor' = Confirmed(c)))
    <2>1. CASE MarkSynced(c)
      <3>1. synced = seenSynced[c] /\ seenSynced[c] < Confirmed(c) /\ synced' = Confirmed(c)
        BY <2>1 DEF MarkSynced, ClearInv
      <3>2. synced # None /\ Confirmed(c) \in Int
        BY <2>1, Heights DEF MarkSynced, IndexerInv, SyncedFound
      <3>3. synced' # None
        BY <3>1, <3>2, MarkersAssumption
      <3>4. Floor = synced /\ Floor' = Confirmed(c)
        BY <3>1, <3>2, <3>3 DEF Floor
      <3>5. Floor \in Int
        BY Heights
      <3> QED
        BY <3>1, <3>2, <3>4, <3>5
    <2>2. CASE ~MarkSynced(c)
      <3>1. synced' = synced
        BY <2>2 DEF ClearStep, ClearFail, ClearStart, ReadSynced, NothingConfirmed, MarkFails,
                    Pick, Compact, TableDone, ClearTxs, storeVars
      <3> QED
        BY <3>1, Heights DEF Floor
    <2> QED
      BY <2>1, <2>2
  <1>5. \/ seenPending'[c] = seenPending[c]
        \/ seenPending'[c] = 0
        \/ pending # None /\ seenPending'[c] = pending
    BY DEF ClearStep, ClearFail, ClearStart, ReadSynced, NothingConfirmed, MarkSynced, MarkFails,
           Pick, Compact, TableDone, ClearTxs, ClearStop, IndexerInv, ClearTypeOK
  <1>6. \A d \in Clearers : d = c
    BY DEF OneLoopEach
  <1>7. ASSUME NEW h \in Int, Given(h)' PROVE Kept(h)
    <2>1. CASE h <= Floor'
      BY <1>4, <2>1, Heights DEF FinalInv, Given
    <2>2. CASE h <= seenPending'[c] - Confirmations
      <3>1. CASE seenPending'[c] = seenPending[c]
        BY <2>2, <3>1 DEF FinalInv, Given, Confirmed
      <3>2. CASE seenPending'[c] = 0
        <4>1. h <= 0
          BY <2>2, <3>2, Heights
        <4> QED
          BY <4>1, LowIsKept
      <3>3. CASE pending # None /\ seenPending'[c] = pending
        BY <2>2, <3>3, DeepIsKept
      <3> QED
        BY <1>5, <3>1, <3>2, <3>3
    <2> QED
      BY <1>6, <1>7, <2>1, <2>2 DEF Given, Confirmed
  <1>8. ASSUME NEW s \in Syncers PROVE InStep(s)'
    <2>1. InStep(s)
      BY DEF FinalInv
    <2> QED
      BY <1>1, <1>2, <2>1 DEF InStep, Settled, Agrees, Current
  <1>9. Settled(Indexed)'
    BY <1>1, <1>2 DEF FinalInv, Settled, Agrees
  <1>10. Floor' >= Start
    BY <1>4, Heights DEF FinalInv
  <1>11. \A h \in Int : Given(h)' => Kept(h)'
    BY <1>3, <1>7
  <1> QED
    BY <1>1, <1>8, <1>9, <1>10, <1>11 DEF FinalInv

(***************************************************************************)
(* The row that clear() is about to compact.                               *)
(***************************************************************************)

\* A step of sync() leaves the rows up to what is given up where they are.
LEMMA SyncStepLeavesRows ==
  ASSUME IndexerInv, FinalInv, NEW s \in Syncers, SyncStep(s) \/ Fail(s),
         NEW h \in Int, Kept(h), NEW k \in Keys, NEW x \in DOMAIN rows[k], x \in Int, x <= h
  PROVE  x \in DOMAIN rows'[k] /\ rows'[k][x] = rows[k][x]
  <1>1. CASE Rollback(s)
    <2>1. /\ rows' = [e \in Keys |-> DropFrom(rows[e], Len(Indexed))]
          /\ h < Len(Indexed) /\ Len(Indexed) \in Nat
      BY <1>1, UndoneBlock, NoDeepRollback DEF Rollback, IndexerInv
    <2>2. x < Len(Indexed)
      BY <2>1
    <2> QED
      BY <2>1, <2>2 DEF DropFrom, Restrict
  <1>2. CASE CommitBlock(s)
    <2>1. /\ x \in DOMAIN Stamp(rows[k], Current(s), next[s])
          /\ x # next[s] => Stamp(rows[k], Current(s), next[s])[x] = rows[k][x]
      BY DEF Stamp
    <2>2. next[s] = Len(Indexed') /\ h < Len(Indexed') /\ Len(Indexed') \in Nat
      <3>1. /\ Indexed' = Current(s) /\ next[s] = Len(Current(s)) /\ Current(s) \in Seq(Payloads)
        BY <1>2, CommittedBlock DEF IndexerInv
      <3> QED
        BY <1>2, <3>1, CommitKeeps, LenProperties
    <2>3. x # next[s]
      BY <2>2
    <2>4. rows'[k] = rows[k] \/ rows'[k] = Stamp(rows[k], Current(s), next[s])
      BY <1>2 DEF CommitBlock
    <2> QED
      BY <2>1, <2>3, <2>4
  <1>3. CASE ~Rollback(s) /\ ~CommitBlock(s)
    <2>1. rows' = rows
      BY <1>3 DEF SyncStep, Fail, ReadPending, GetTip, Fetch, StreamEnd, TakeBlock, RollbackFails,
                  SaveBatch, SaveTxs, SaveCode, CommitFails, storeVars, statusVars
    <2> QED
      BY <2>1
  <1> QED
    BY <1>1, <1>2, <1>3

LEMMA SyncSideKeepsClear ==
  ASSUME IndexerInv, FinalInv, ClearInv, NEW s \in Syncers, SyncStep(s) \/ Fail(s), FollowPicked
  PROVE  ClearInv'
  <1>1. UNCHANGED <<clearPc, seenPending, seenSynced, synced>>
    BY SyncStepSynced DEF FollowPicked
  <1>2. ASSUME NEW c \in Clearers, clearPc[c] = "compact"
        PROVE  picked'[c] = picked[c] /\ picked[c].height \in DOMAIN rows'[picked[c].key]
    <2> DEFINE row == picked[c]
    <2>1. /\ row.at = row.height /\ row.height \in 0..Confirmed(c)
          /\ row.height \in DOMAIN rows[row.key] /\ row.key \in Keys
      BY <1>2 DEF ClearInv
    <2>2. Kept(Confirmed(c)) /\ Confirmed(c) \in Int
      BY Heights DEF FinalInv, Given
    <2>3. row.height \in Int /\ row.height <= Confirmed(c)
      BY <2>1
    <2>4. row.height \in DOMAIN rows'[row.key]
      BY <2>1, <2>2, <2>3, SyncStepLeavesRows
    <2> QED
      BY <2>1, <2>4 DEF FollowPicked
  <1>3. \A c \in Clearers : Confirmed(c)' = Confirmed(c)
    BY <1>1 DEF Confirmed
  <1> QED
    BY <1>1, <1>2, <1>3 DEF ClearInv

LEMMA ClearSideKeepsClear ==
  ASSUME OneLoopEach, IndexerInv, ClearInv, NEW c \in Clearers, ClearStep(c) \/ ClearFail(c)
  PROVE  ClearInv'
  <1> USE DEF IndexerInv, ClearTypeOK
  <1>1. \A d \in Clearers : d = c
    BY DEF OneLoopEach
  <1>2. CASE ClearStop(c)
    BY <1>1, <1>2 DEF ClearStop, ClearInv
  <1>3. CASE ClearStart(c)
    BY <1>1, <1>3 DEF ClearStart, ClearInv
  <1>4. CASE ReadSynced(c)
    BY <1>1, <1>4 DEF ReadSynced, ClearInv, Confirmed
  <1>5. CASE MarkSynced(c)
    BY <1>1, <1>5 DEF MarkSynced, ClearInv, Confirmed
  <1>6. CASE Pick(c)
    <2>1. PICK r \in Clearable(c) :
            picked' = [picked EXCEPT ![c] = [key |-> r.key, height |-> r.height, at |-> r.height]]
      BY <1>6 DEF Pick
    <2>2. /\ UNCHANGED <<synced, rows, seenPending>>
          /\ clearPc' = [clearPc EXCEPT ![c] = "compact"] /\ clearPc[c] = "pick"
      BY <1>6 DEF Pick, storeVars
    <2>3. r.key \in Keys /\ r.height \in 0..Confirmed(c) /\ r.height \in DOMAIN rows[r.key]
      BY DEF Clearable
    <2>4. picked'[c] = [key |-> r.key, height |-> r.height, at |-> r.height] /\ clearPc'[c] = "compact"
      BY <2>1, <2>2
    <2> QED
      BY <1>1, <2>2, <2>3, <2>4 DEF ClearInv, Confirmed
  <1>7. CASE Compact(c)
    BY <1>1, <1>7 DEF Compact, ClearInv, Confirmed
  <1>8. CASE TableDone(c)
    BY <1>1, <1>8 DEF TableDone, ClearInv, Confirmed, storeVars
  <1> QED
    BY <1>2, <1>3, <1>4, <1>5, <1>6, <1>7, <1>8
    DEF ClearStep, ClearFail, NothingConfirmed, MarkFails, ClearTxs

(***************************************************************************)
(* The histories.                                                          *)
(***************************************************************************)

\* After compaction the row it was made from is the oldest one.
LEMMA CompactedHistory ==
  ASSUME NEW f, NEW row, DOMAIN f \subseteq Int, Topped(DOMAIN f),
         NEW r \in DOMAIN f, r >= 0, row.height = r, row.at = r
  PROVE  /\ DOMAIN Compacted(f, row) = {Permanent} \cup {x \in DOMAIN f : x > r}
         /\ Topped(DOMAIN Compacted(f, row))
         /\ \A h \in Int : h >= r => AsOf(Compacted(f, row), h) = AsOf(f, h)
  <1> DEFINE g == Compacted(f, row)
  <1>1. /\ DOMAIN g = {Permanent} \cup {x \in DOMAIN f : x > r}
        /\ g[Permanent] = f[r]
        /\ \A x \in DOMAIN f : x > r => g[x] = f[x]
    <2> DEFINE kept == {x \in DOMAIN f : x >= row.height}
    <2>1. row.at \in kept
      OBVIOUS
    <2>2. g = [x \in (kept \ {row.at}) \cup {Permanent} |->
                 IF x = Permanent THEN f[row.at] ELSE f[x]]
      BY <2>1 DEF Compacted
    <2>3. (kept \ {row.at}) \cup {Permanent} = {Permanent} \cup {x \in DOMAIN f : x > r}
      OBVIOUS
    <2>4. \A x \in DOMAIN f : x > r => x # Permanent
      BY DEF Permanent
    <2> QED
      BY <2>2, <2>3, <2>4
  <1> HIDE DEF g
  <1>2. Permanent \in Int /\ Permanent < r /\ r \in Int
    BY DEF Permanent
  <1>3. ASSUME NEW h \in Int, Permanent <= h, \A x \in DOMAIN f : x <= h => x <= r
        PROVE  \A x \in DOMAIN g : x <= h => x <= Permanent
    BY <1>1, <1>2, <1>3
  <1>4. ASSUME NEW h \in Int, NEW y \in DOMAIN f, y <= h, y > r
        PROVE  \E m \in DOMAIN f : /\ m <= h /\ m > r /\ m \in DOMAIN g
                                   /\ \A x \in DOMAIN f : x <= h => x <= m
                                   /\ \A x \in DOMAIN g : x <= h => x <= m
    <2>1. PICK m \in DOMAIN f : m <= h /\ \A x \in DOMAIN f : x <= h => x <= m
      BY <1>4 DEF Topped
    <2>2. m > r
      BY <1>2, <1>4, <2>1
    <2> QED
      BY <1>1, <1>2, <2>1, <2>2
  <1>5. Topped(DOMAIN g)
    <2> SUFFICES ASSUME NEW h \in Int, NEW x \in DOMAIN g, x <= h
                 PROVE  \E m \in DOMAIN g : m <= h /\ \A z \in DOMAIN g : z <= h => z <= m
      BY DEF Topped
    <2>1. Permanent <= h
      BY <1>1, <1>2
    <2>2. CASE \E y \in DOMAIN f : y <= h /\ y > r
      BY <1>4, <2>2
    <2>3. CASE \A y \in DOMAIN f : y <= h => y <= r
      <3>1. \A z \in DOMAIN g : z <= h => z <= Permanent
        BY <1>3, <2>1, <2>3
      <3> QED
        BY <1>1, <2>1, <3>1
    <2> QED
      BY <1>2, <2>2, <2>3
  <1>6. ASSUME NEW h \in Int, h >= r PROVE AsOf(g, h) = AsOf(f, h)
    <2>1. Permanent <= h /\ DOMAIN g \subseteq Int
      BY <1>1, <1>2, <1>6
    <2>2. CASE \E y \in DOMAIN f : y <= h /\ y > r
      <3>1. PICK m \in DOMAIN f : /\ m <= h /\ m > r /\ m \in DOMAIN g
                                  /\ \A x \in DOMAIN f : x <= h => x <= m
                                  /\ \A x \in DOMAIN g : x <= h => x <= m
        BY <1>4, <2>2
      <3>2. AsOf(g, h) = g[m]
        BY <2>1, <3>1, AsOfTop
      <3>3. AsOf(f, h) = f[m]
        BY <3>1, AsOfTop
      <3> QED
        BY <1>1, <3>1, <3>2, <3>3
    <2>3. CASE \A y \in DOMAIN f : y <= h => y <= r
      <3>1. \A x \in DOMAIN g : x <= h => x <= Permanent
        BY <1>3, <2>1, <2>3
      <3>2. AsOf(g, h) = g[Permanent]
        BY <1>1, <2>1, <3>1, AsOfTop
      <3>3. AsOf(f, h) = f[r]
        BY <1>6, <2>3, AsOfTop
      <3> QED
        BY <1>1, <3>2, <3>3
    <2> QED
      BY <1>2, <2>2, <2>3
  <1> QED
    BY <1>1, <1>5, <1>6 DEF g

\* Compacting a row that is given up changes nothing above it.
LEMMA CompactedExact ==
  ASSUME NEW k, NEW f, NEW block \in Seq(Payloads), NEW low \in Int, low <= Len(block),
         Exact(k, f, block, low),
         NEW row, NEW r \in DOMAIN f, r >= 0, r <= low, row.height = r, row.at = r
  PROVE  Exact(k, Compacted(f, row), block, low)
  <1> DEFINE g == Compacted(f, row)
  <1>1. Start \in Nat /\ Len(block) \in Nat
    BY OriginAssumption, LenProperties DEF Start
  <1>2. DOMAIN f \subseteq Int /\ Topped(DOMAIN f) /\ \A x \in DOMAIN f : x <= Len(block)
    BY <1>1 DEF Exact, Permanent
  <1>3. /\ DOMAIN g = {Permanent} \cup {x \in DOMAIN f : x > r}
        /\ Topped(DOMAIN g)
        /\ \A h \in Int : h >= r => AsOf(g, h) = AsOf(f, h)
    BY <1>2, CompactedHistory
  <1>4. Topped(DOMAIN g)
    BY <1>3
  <1>5. \A h \in Int : h >= r => AsOf(g, h) = AsOf(f, h)
    BY <1>3
  <1> HIDE DEF g
  <1>6. r \in Int /\ Len(block) >= r
    BY <1>1, <1>2
  <1>7. Latest(f) = AsOf(f, Len(block))
    BY <1>1, <1>2, LatestIsAsOf
  <1>8. Latest(g) = AsOf(g, Len(block))
    <2>1. \A x \in DOMAIN g : x <= Len(block)
      BY <1>1, <1>2, <1>3 DEF Permanent
    <2> QED
      BY <1>1, <2>1, LatestIsAsOf
  <1>9. Latest(g) = Latest(f)
    BY <1>1, <1>5, <1>6, <1>7, <1>8
  <1>10. \A h \in low..Len(block) : AsOf(g, h) = AsOf(f, h)
    BY <1>1, <1>5, <1>6
  <1>11. DOMAIN g \subseteq {Permanent} \cup (Start + 1)..Len(block)
    BY <1>3 DEF Exact
  <1> QED
    BY <1>4, <1>9, <1>10, <1>11 DEF Exact, g

\* What is given up is indexed.
LEMMA FloorIsIndexed ==
  ASSUME IndexerInv, FinalInv
  PROVE  Floor \in Start..Len(Indexed)
  <1>1. Floor \in Int /\ Len(Indexed) \in Nat /\ Start \in Nat
    BY Heights
  <1>2. Kept(Floor) /\ Floor >= Start
    BY <1>1 DEF FinalInv, Given
  <1> QED
    BY <1>1, <1>2 DEF Kept, Agrees

LEMMA SyncSideKeepsHistory ==
  ASSUME IndexerInv, FinalInv, HistoryInv, NEW s \in Syncers, SyncStep(s) \/ Fail(s)
  PROVE  HistoryInv'
  <1>1. Floor \in Start..Len(Indexed) /\ SyncInv
    BY FloorIsIndexed DEF IndexerInv
  <1>2. CASE CommitBlock(s)
    BY <1>1, <1>2, CommitKeepsHistory
  <1>3. CASE Rollback(s)
    <2>1. Floor \in Int /\ Len(Indexed) \in Nat /\ Start \in Nat
      BY Heights
    <2>2. Kept(Floor)
      BY <2>1 DEF FinalInv, Given
    <2>3. Floor < Len(Indexed)
      BY <1>3, <2>1, <2>2, NoDeepRollback
    <2>4. Floor \in Start..(Len(Indexed) - 1)
      BY <1>1, <2>1, <2>3
    <2> QED
      BY <1>1, <1>3, <2>4, RollbackKeepsHistory
  <1> QED
    BY <1>2, <1>3, OthersKeepHistory

\* The compaction of the picked row changes nothing that can be asked for.
LEMMA CompactKeepsExact ==
  ASSUME IndexerInv, FinalInv, ClearInv, HistoryInv, NEW c \in Clearers, Compact(c),
         NEW k \in Keys
  PROVE  Exact(k, rows'[k], Indexed, Floor)
  <1> DEFINE row == picked[c]
  <1>1. /\ row.at = row.height /\ row.height \in 0..Confirmed(c)
        /\ row.height \in DOMAIN rows[row.key] /\ row.key \in Keys
        /\ synced = Confirmed(c)
    BY DEF ClearInv, Compact
  <1>2. /\ Floor \in Int /\ Floor <= Len(Indexed) /\ Indexed \in Seq(Payloads)
        /\ Confirmed(c) \in Int
    BY Heights, FloorIsIndexed
  <1>3. Floor = Confirmed(c)
    BY <1>1, <1>2, MarkersAssumption DEF Floor
  <1>4. Exact(k, rows[k], Indexed, Floor)
    BY HistoryIsExact
  <1>5. rows' = [rows EXCEPT ![row.key] = Compacted(@, row)] /\ DOMAIN rows = Keys
    BY DEF Compact, IndexerInv, SyncInv, TypeOK
  <1>6. CASE k = row.key
    <2> DEFINE r == row.height
    <2>1. r \in DOMAIN rows[k] /\ r >= 0 /\ r <= Floor /\ row.height = r /\ row.at = r
      BY <1>1, <1>3, <1>6
    <2>2. Exact(k, Compacted(rows[k], row), Indexed, Floor)
      <3> HIDE DEF row, r
      <3> QED
        BY <1>2, <1>4, <2>1, CompactedExact
    <2> QED
      BY <1>5, <1>6, <2>2
  <1>7. CASE k # row.key
    BY <1>4, <1>5, <1>7
  <1> QED
    BY <1>6, <1>7

LEMMA ClearSideKeepsHistory ==
  ASSUME OneLoopEach, IndexerInv, FinalInv, ClearInv, HistoryInv,
         NEW c \in Clearers, ClearStep(c) \/ ClearFail(c)
  PROVE  HistoryInv'
  <1>1. Indexed' = Indexed
    BY ClearLeaves DEF Indexed
  <1>2. CASE Compact(c)
    <2>1. Floor' = Floor
      BY <1>2 DEF Compact, Floor
    <2>2. \A k \in Keys : Exact(k, rows'[k], Indexed, Floor)
      BY <1>2, CompactKeepsExact
    <2> QED
      BY <1>1, <2>1, <2>2 DEF HistoryInv, RowsBounded, HistoryExact, Exact
  <1>3. CASE MarkSynced(c)
    <2>1. synced = seenSynced[c] /\ seenSynced[c] < Confirmed(c) /\ synced' = Confirmed(c)
      BY <1>3 DEF MarkSynced, ClearInv
    <2>2. synced # None /\ Confirmed(c) \in Int /\ Floor \in Int /\ Len(Indexed) \in Nat
      BY <1>3, Heights DEF MarkSynced, IndexerInv, SyncedFound
    <2>3. synced' # None
      BY <2>1, <2>2, MarkersAssumption
    <2>4. Floor = synced /\ Floor' = Confirmed(c)
      BY <2>1, <2>2, <2>3 DEF Floor
    <2>5. Floor'..Len(Indexed) \subseteq Floor..Len(Indexed)
      BY <2>1, <2>2, <2>4
    <2>6. rows' = rows
      BY <1>3 DEF MarkSynced
    <2> QED
      BY <1>1, <2>5, <2>6 DEF HistoryInv, RowsBounded, HistoryExact
  <1>4. CASE ~Compact(c) /\ ~MarkSynced(c)
    <2>1. UNCHANGED <<rows, synced>>
      BY <1>4 DEF ClearStep, ClearFail, ClearStart, ReadSynced, NothingConfirmed, MarkFails,
                  Pick, TableDone, ClearTxs, storeVars
    <2> QED
      BY <1>1, <2>1 DEF HistoryInv, RowsBounded, HistoryExact, Floor
  <1> QED
    BY <1>2, <1>3, <1>4

(***************************************************************************)
(* The invariant is inductive.                                             *)
(***************************************************************************)

LEMMA LedgerInit == ASSUME IndexerInit PROVE LedgerInv
  <1>1. IndexerInv
    BY IndexerInitInv
  <1>2. /\ chain = Origin /\ final = Start /\ pending = None /\ pendingHash = None
        /\ synced \in {None, Start} /\ rows = [k \in Keys |-> <<>>]
        /\ queries = [s \in Syncers |-> NoQueries] /\ pc = [s \in Syncers |-> "idle"]
        /\ clearPc = [c \in Clearers |-> "idle"] /\ seenPending = [c \in Clearers |-> 0]
    BY InitialSyncedAssumption DEF IndexerInit, NodeInit, StoreInit, SyncInit, ClearInit
  <1>3. /\ Indexed = Origin /\ Floor = Start /\ Len(Origin) = Start
        /\ Start \in Nat /\ FinalityDepth \in Nat /\ Confirmations \in Nat
    BY <1>1, <1>2, Heights DEF Indexed, Floor, Start
  <1>4. HistoryInv
    BY <1>1, <1>2, InitHistory DEF IndexerInv
  <1>5. ClearInv
    BY <1>2 DEF ClearInv
  <1>6. Settled(Indexed)
    BY <1>2, <1>3 DEF Settled, Agrees
  <1>7. \A s \in Syncers : Answered(s) = {} /\ DOMAIN queries[s] = {}
    BY <1>2 DEF Answered, NoQueries
  <1>8. \A s \in Syncers : InStep(s)
    BY <1>2, <1>7 DEF InStep
  <1>9. ASSUME NEW h \in Int, Given(h) PROVE Kept(h)
    <2>1. h <= Start
      BY <1>2, <1>3, <1>9 DEF Given, Confirmed
    <2> QED
      BY <1>2, <1>3, <1>7, <2>1 DEF Kept, Agrees
  <1>10. FinalInv
    BY <1>2, <1>3, <1>6, <1>8, <1>9 DEF FinalInv
  <1> QED
    BY <1>1, <1>4, <1>5, <1>10 DEF LedgerInv

LEMMA LedgerNext ==
  ASSUME OneLoopEach, LedgerInv, [IndexerNext]_indexerVars
  PROVE  LedgerInv'
  <1>1. IndexerInv /\ FinalInv /\ ClearInv /\ HistoryInv
    BY DEF LedgerInv
  <1>2. IndexerInv'
    BY <1>1, IndexerNextInv
  <1>3. CASE NodeSide
    <2>1. UNCHANGED <<storeVars, clearVars>>
      BY <1>3 DEF NodeSide, NodeStep
    <2>2. ClearInv' /\ HistoryInv'
      BY <1>1, <2>1
      DEF ClearInv, Confirmed, HistoryInv, RowsBounded, HistoryExact, Indexed, Floor, storeVars, clearVars
    <2> QED
      BY <1>1, <1>2, <1>3, <2>2, NodeKeepsFinal DEF LedgerInv
  <1>4. CASE SyncSide
    <2>1. PICK s \in Syncers : (SyncStep(s) \/ Fail(s)) /\ FollowPicked
      BY <1>4 DEF SyncSide
    <2>2. FinalInv'
      BY <1>1, <2>1, SyncSideKeepsFinal
    <2>3. ClearInv'
      BY <1>1, <2>1, SyncSideKeepsClear
    <2>4. HistoryInv'
      BY <1>1, <2>1, SyncSideKeepsHistory
    <2> QED
      BY <1>2, <2>2, <2>3, <2>4 DEF LedgerInv
  <1>5. CASE ClearSide
    <2>1. PICK c \in Clearers : (ClearStep(c) \/ ClearFail(c)) /\ UNCHANGED <<nodeVars, syncVars>>
      BY <1>5 DEF ClearSide
    <2>2. FinalInv'
      BY <1>1, <2>1, ClearSideKeepsFinal
    <2>3. ClearInv'
      BY <1>1, <2>1, ClearSideKeepsClear
    <2>4. HistoryInv'
      BY <1>1, <2>1, ClearSideKeepsHistory
    <2> QED
      BY <1>2, <2>2, <2>3, <2>4 DEF LedgerInv
  <1>6. CASE UNCHANGED indexerVars
    <2>1. UNCHANGED <<nodeVars, storeVars, syncVars, clearVars>>
      BY <1>6 DEF indexerVars, vars
    <2>2. ClearInv' /\ HistoryInv'
      BY <1>1, <2>1
      DEF ClearInv, Confirmed, HistoryInv, RowsBounded, HistoryExact, Indexed, Floor, storeVars, clearVars
    <2>3. FinalInv'
      BY <1>1, <2>1
      DEF FinalInv, Settled, Agrees, InStep, Answered, Current, Given, Kept, Confirmed, Indexed, Floor,
          nodeVars, storeVars, syncVars, clearVars
    <2> QED
      BY <1>2, <2>2, <2>3 DEF LedgerInv
  <1> QED
    BY <1>3, <1>4, <1>5, <1>6 DEF IndexerNext

(***************************************************************************)
(* The theorems.                                                           *)
(***************************************************************************)

THEOREM LedgerCorrect == ASSUME OneLoopEach PROVE IndexerSpec => []LedgerInv
  <1>1. IndexerInit => LedgerInv
    BY LedgerInit
  <1>2. LedgerInv /\ [IndexerNext]_indexerVars => LedgerInv'
    BY LedgerNext
  <1> QED
    BY <1>1, <1>2, PTL DEF IndexerSpec

\* With as many confirmations as the node reorganises blocks, no rollback ever
\* reaches a height whose history clear() has deleted.
THEOREM FinalKeptCorrect == ASSUME OneLoopEach PROVE IndexerSpec => []FinalKept
  <1>1. ASSUME LedgerInv PROVE FinalKept
    <2> SUFFICES ASSUME synced # None, pending # None PROVE synced <= pending
      BY DEF FinalKept
    <2>1. pending = Len(Indexed) /\ synced = Floor
      BY <1>1 DEF LedgerInv, IndexerInv, SyncInv, OneChain, Floor
    <2>2. Floor \in Start..Len(Indexed) /\ Start \in Nat
      BY <1>1, FloorIsIndexed, Heights DEF LedgerInv
    <2> QED
      BY <2>1, <2>2
  <1> QED
    BY <1>1, LedgerCorrect, PTL

\* While clear() deletes history beside sync(), every entity stays at every
\* height that is not given up what the indexed chain makes of it.
THEOREM PrunedHistoryCorrect == ASSUME OneLoopEach PROVE IndexerSpec => []HistoryExact
  <1>1. LedgerInv => HistoryExact
    BY DEF LedgerInv, HistoryInv
  <1> QED
    BY <1>1, LedgerCorrect, PTL

(***************************************************************************)
(* The refinement of ReorgLedger.                                          *)
(***************************************************************************)

\* The instance has its own copy of the operators on bags.
LEMMA SameBags ==
  ASSUME NEW a, NEW S
  PROVE  Promise!(+)(a, Promise!SetToBag(S)) = a (+) SetToBag(S)
  BY DEF Promise!(+), (+), Promise!SetToBag, SetToBag

\* What readers are told, by entity, of a height that is not given up.
LEMMA Told ==
  ASSUME HistoryInv, NEW k \in Keys, NEW h \in Floor..Len(Indexed)
  PROVE  AsOf(rows[k], h) = Ledger(k, Prefix(Indexed, h), Start)
  BY DEF HistoryInv, HistoryExact

\* A block is what is appended to its parent.
LEMMA ChildOfParent ==
  ASSUME NEW b \in Seq(Payloads), Len(b) > 0
  PROVE  Content(b) \in Payloads /\ Append(Parent(b), Content(b)) = b
  <1>1. Len(b) \in Nat /\ Len(b) - 1 \in 0..Len(b) /\ Len(b) \in 1..Len(b)
    BY LenProperties
  <1>2. Content(b) \in Payloads
    BY <1>1, ElementOfSeq DEF Content
  <1>3. /\ Parent(b) \in Seq(Payloads) /\ Len(Parent(b)) = Len(b) - 1
        /\ \A i \in 1..(Len(b) - 1) : Parent(b)[i] = b[i]
    BY <1>1, PrefixType DEF Parent
  <1> DEFINE child == Append(Parent(b), Content(b))
  <1>4. /\ child \in Seq(Payloads) /\ Len(child) = Len(b)
        /\ \A i \in 1..(Len(b) - 1) : child[i] = Parent(b)[i]
        /\ child[Len(b)] = Content(b)
    <2>1. Len(Parent(b)) + 1 = Len(b)
      BY <1>1, <1>3
    <2> QED
      BY <1>2, <1>3, <2>1, AppendProperties
  <1> HIDE DEF child
  <1>5. \A i \in 1..Len(b) : child[i] = b[i]
    <2>1. \A i \in 1..Len(b) : i \in 1..(Len(b) - 1) \/ i = Len(b)
      BY <1>1
    <2> QED
      BY <1>3, <1>4, <2>1 DEF Content
  <1>6. child = b
    BY <1>4, <1>5, SeqEqual
  <1> QED
    BY <1>2, <1>6 DEF child

(***************************************************************************)
(* Each kind of step as a step of the ledger.                              *)
(***************************************************************************)

\* A row that says what the parent's says, with the block added where the
\* block changes the entity, is what Apply promises.
LEMMA Applies ==
  ASSUME NEW p \in Payloads, Indexed' = Append(Indexed, p),
         Len(Indexed') \in Int, Len(Indexed) = Len(Indexed') - 1,
         Floor' = Floor, Floor \in Int, Floor <= Len(Indexed),
         \A h \in Floor..Len(Indexed) : \A k \in Keys : AsOf(rows'[k], h) = AsOf(rows[k], h),
         \A k \in Keys : AsOf(rows'[k], Len(Indexed')) =
                           IF k \in Touched[p]
                             THEN AsOf(rows[k], Len(Indexed)) (+) SetToBag({Indexed'})
                             ELSE AsOf(rows[k], Len(Indexed))
  PROVE  Promise!Apply
  <1> DEFINE block == Append(Indexed, p)
             height == Len(block)
             at == [h \in Floor..Len(Indexed) |-> [k \in Keys |-> AsOf(rows[k], h)]]
             newest == [k \in Keys |->
                          IF k \in Touched[p]
                            THEN Promise!(+)(at[height - 1][k], Promise!SetToBag({block}))
                            ELSE at[height - 1][k]]
             new == [h \in Floor..height |-> IF h < height THEN at[h] ELSE newest]
  <1>0. /\ height \in Int /\ Len(Indexed) = height - 1 /\ Floor <= height - 1
        /\ Indexed' = block /\ Len(Indexed') = height
        /\ \A h \in Floor..(height - 1) : \A k \in Keys : AsOf(rows'[k], h) = AsOf(rows[k], h)
        /\ \A k \in Keys : AsOf(rows'[k], height) =
                              IF k \in Touched[p]
                                THEN AsOf(rows[k], height - 1) (+) SetToBag({block})
                                ELSE AsOf(rows[k], height - 1)
    OBVIOUS
  <1> HIDE DEF block, height
  <1>1. at' = [h \in Floor..height |-> [k \in Keys |-> AsOf(rows'[k], h)]]
    BY <1>0
  <1>2. \A h \in Floor..(height - 1) : at[h] = [k \in Keys |-> AsOf(rows[k], h)]
    BY <1>0
  <1>3. \A k \in Keys : at[height - 1][k] = AsOf(rows[k], height - 1)
    BY <1>0
  <1>4. ASSUME NEW h \in Floor..(height - 1) PROVE at'[h] = new[h]
    <2>1. new[h] = at[h]
      BY <1>0, <1>4
    <2>2. at'[h] = [k \in Keys |-> AsOf(rows'[k], h)]
      BY <1>0, <1>1
    <2> QED
      BY <1>0, <1>2, <1>4, <2>1, <2>2
  <1>5. at'[height] = new[height]
    <2>1. new[height] = newest /\ at'[height] = [k \in Keys |-> AsOf(rows'[k], height)]
      BY <1>0, <1>1
    <2>2. \A a : Promise!(+)(a, Promise!SetToBag({block})) = a (+) SetToBag({block})
      BY SameBags
    <2> HIDE DEF at, new
    <2>3. \A k \in Keys : AsOf(rows'[k], height) =
                            IF k \in Touched[p]
                              THEN Promise!(+)(AsOf(rows[k], height - 1), Promise!SetToBag({block}))
                              ELSE AsOf(rows[k], height - 1)
      BY <1>0, <2>2, Zenon
    <2>4. [k \in Keys |-> AsOf(rows'[k], height)] = newest
      BY <1>3, <2>3
    <2> QED
      BY <2>1, <2>4
  <1>6. at' = new
    <2>1. new = [h \in Floor..height |-> new[h]] /\ at' = [h \in Floor..height |-> at'[h]]
      BY <1>1
    <2>2. \A h \in Floor..height : h \in Floor..(height - 1) \/ h = height
      BY <1>0
    <2> HIDE DEF new, at
    <2> QED
      BY <1>4, <1>5, <2>1, <2>2
  <1> SUFFICES
        \E q \in Payloads :
          /\ Indexed' = Append(Indexed, q)
          /\ at' = [h \in Floor..Len(Append(Indexed, q)) |->
                      IF h < Len(Append(Indexed, q)) THEN at[h]
                      ELSE [k \in Keys |->
                              IF k \in Touched[q]
                                THEN Promise!(+)(at[Len(Append(Indexed, q)) - 1][k],
                                                 Promise!SetToBag({Append(Indexed, q)}))
                                ELSE at[Len(Append(Indexed, q)) - 1][k]]]
          /\ Floor' = Floor
    BY Zenon DEF Promise!Apply
  <1> WITNESS p \in Payloads
  <1> HIDE DEF at
  <1> QED
    BY <1>6 DEF block, height

LEMMA CommitApplies ==
  ASSUME LedgerInv, HistoryInv', NEW s \in Syncers, CommitBlock(s)
  PROVE  Promise!Apply
  <1> DEFINE block == Current(s)
             height == Len(block)
             p == Content(block)
  <1>1. /\ block \in Seq(Payloads) /\ Indexed = Parent(block) /\ Indexed' = block
        /\ Len(Indexed) = height - 1 /\ height = next[s]
    BY CommittedBlock DEF LedgerInv, IndexerInv
  <1>2. /\ Floor \in Start..Len(Indexed) /\ Floor \in Int /\ Start \in Nat
        /\ Len(Indexed) \in Nat /\ HistoryInv
    BY FloorIsIndexed, Heights DEF LedgerInv
  <1>3. Floor' = Floor
    BY DEF CommitBlock, Floor
  <1> HIDE DEF block
  <1>4. height \in Nat /\ height > 0 /\ height > Start /\ Floor <= height - 1
    BY <1>1, <1>2, LenProperties
  <1>5. p \in Payloads /\ block = Append(Indexed, p)
    BY <1>1, <1>4, ChildOfParent
  <1>6. /\ Prefix(block, height) = block /\ Prefix(Indexed, height - 1) = Indexed
        /\ \A h \in 0..(height - 1) : Prefix(Indexed, h) = Prefix(block, h)
    BY <1>1, <1>2, <1>4, PrefixFull, ParentType, Heights DEF LedgerInv
  <1>7. ASSUME NEW h \in Floor..(height - 1), NEW k \in Keys
        PROVE  AsOf(rows'[k], h) = AsOf(rows[k], h)
    <2>1. h \in 0..(height - 1) /\ h \in Floor..Len(Indexed) /\ h \in Floor'..Len(Indexed')
      BY <1>1, <1>2, <1>3, <1>4
    <2>2. AsOf(rows'[k], h) = Ledger(k, Prefix(Indexed', h), Start)
      BY <2>1 DEF HistoryInv, HistoryExact
    <2>3. AsOf(rows[k], h) = Ledger(k, Prefix(Indexed, h), Start)
      BY <1>2, <2>1, Told
    <2> QED
      BY <1>1, <1>6, <2>1, <2>2, <2>3
  <1>8. ASSUME NEW k \in Keys
        PROVE  AsOf(rows'[k], height) =
                 IF k \in Touched[p] THEN AsOf(rows[k], height - 1) (+) SetToBag({block})
                 ELSE AsOf(rows[k], height - 1)
    <2>1. height - 1 \in Floor..Len(Indexed) /\ height \in Floor'..Len(Indexed')
      BY <1>1, <1>2, <1>3, <1>4
    <2>2. AsOf(rows'[k], height) = Ledger(k, Prefix(Indexed', height), Start)
      BY <2>1 DEF HistoryInv, HistoryExact
    <2>3. AsOf(rows[k], height - 1) = Ledger(k, Indexed, Start)
      BY <1>2, <1>6, <2>1, Told
    <2>4. Ledger(k, block, Start) = IF k \in Touched[p]
                                      THEN Ledger(k, Indexed, Start) (+) SetToBag({block})
                                      ELSE Ledger(k, Indexed, Start)
      BY <1>1, <1>4, LedgerOfChild
    <2> QED
      BY <1>1, <1>6, <2>2, <2>3, <2>4
  <1>9. \A k \in Keys : AsOf(rows'[k], Len(Indexed')) =
                           IF k \in Touched[p]
                             THEN AsOf(rows[k], Len(Indexed)) (+) SetToBag({Indexed'})
                             ELSE AsOf(rows[k], Len(Indexed))
    BY <1>1, <1>8
  <1>10. \A h \in Floor..Len(Indexed) : \A k \in Keys : AsOf(rows'[k], h) = AsOf(rows[k], h)
    BY <1>1, <1>7
  <1> HIDE DEF height, p
  <1>11. /\ p \in Payloads /\ Indexed' = Append(Indexed, p)
         /\ Len(Indexed') \in Int /\ Len(Indexed) = Len(Indexed') - 1
         /\ Floor' = Floor /\ Floor \in Int /\ Floor <= Len(Indexed)
    BY <1>1, <1>2, <1>3, <1>4, <1>5 DEF height
  <1> QED
    BY <1>9, <1>10, <1>11, Applies

\* What has been told of the heights that stay is told still.
LEMMA StillTold ==
  ASSUME HistoryInv, HistoryInv', NEW low \in Int, NEW high \in Int,
         Floor' = low, Len(Indexed') = high,
         Floor \in Int, Len(Indexed) \in Int, low >= Floor, high <= Len(Indexed),
         \A h \in low..high : Prefix(Indexed', h) = Prefix(Indexed, h)
  PROVE  [h \in Floor..Len(Indexed) |-> [k \in Keys |-> AsOf(rows[k], h)]]'
           = [h \in low..high |->
                [x \in Floor..Len(Indexed) |-> [k \in Keys |-> AsOf(rows[k], x)]][h]]
  <1>1. ASSUME NEW h \in low..high, NEW k \in Keys PROVE AsOf(rows'[k], h) = AsOf(rows[k], h)
    <2>1. h \in Floor..Len(Indexed) /\ h \in Floor'..Len(Indexed')
      OBVIOUS
    <2>2. AsOf(rows'[k], h) = Ledger(k, Prefix(Indexed', h), Start)
      BY <2>1 DEF HistoryInv, HistoryExact
    <2>3. AsOf(rows[k], h) = Ledger(k, Prefix(Indexed, h), Start)
      BY <2>1, Told
    <2> QED
      BY <2>2, <2>3
  <1>2. \A h \in low..high :
          [x \in Floor..Len(Indexed) |-> [k \in Keys |-> AsOf(rows[k], x)]][h]
            = [k \in Keys |-> AsOf(rows[k], h)]
    OBVIOUS
  <1>3. [h \in Floor..Len(Indexed) |-> [k \in Keys |-> AsOf(rows[k], h)]]'
          = [h \in low..high |-> [k \in Keys |-> AsOf(rows'[k], h)]]
    OBVIOUS
  <1>4. \A h \in low..high : [k \in Keys |-> AsOf(rows'[k], h)] = [k \in Keys |-> AsOf(rows[k], h)]
    BY <1>1
  <1> QED
    BY <1>2, <1>3, <1>4

LEMMA RollbackReverts ==
  ASSUME LedgerInv, HistoryInv', NEW s \in Syncers, Rollback(s)
  PROVE  Promise!Revert
  <1>1. /\ Indexed \in Seq(Payloads) /\ Len(Indexed) \in Nat /\ Indexed' = Parent(Indexed)
        /\ Floor \in Int /\ Floor < Len(Indexed) /\ Start \in Nat /\ Len(Indexed) > Start
    <2>1. Floor \in Int /\ Start \in Nat
      BY Heights DEF LedgerInv
    <2>2. Kept(Floor)
      BY <2>1 DEF LedgerInv, FinalInv, Given
    <2> QED
      BY <2>1, <2>2, UndoneBlock, NoDeepRollback DEF LedgerInv, IndexerInv
  <1>2. Floor' = Floor
    BY DEF Rollback, Floor
  <1>3. /\ Len(Parent(Indexed)) = Len(Indexed) - 1
        /\ \A h \in 0..(Len(Indexed) - 1) : Prefix(Parent(Indexed), h) = Prefix(Indexed, h)
    BY <1>1, ParentType
  <1>4. Floor >= 0
    BY <1>1, FloorIsIndexed DEF LedgerInv
  <1>5. \A h \in Floor..(Len(Indexed) - 1) : Prefix(Indexed', h) = Prefix(Indexed, h)
    BY <1>1, <1>3, <1>4
  <1>6. [h \in Floor..Len(Indexed) |-> [k \in Keys |-> AsOf(rows[k], h)]]'
          = [h \in Floor..(Len(Indexed) - 1) |->
               [x \in Floor..Len(Indexed) |-> [k \in Keys |-> AsOf(rows[k], x)]][h]]
    <2>1. HistoryInv /\ Len(Indexed') = Len(Indexed) - 1 /\ Len(Indexed) - 1 \in Int
      BY <1>1, <1>3 DEF LedgerInv
    <2>2. Len(Indexed) \in Int /\ Floor >= Floor /\ Len(Indexed) - 1 <= Len(Indexed)
      BY <1>1
    <2> QED
      BY <1>1, <1>2, <1>5, <2>1, <2>2, StillTold
  <1>7. Indexed' = SubSeq(Indexed, 1, Len(Indexed) - 1)
    BY <1>1 DEF Parent, Prefix
  <1> QED
    BY <1>1, <1>2, <1>6, <1>7, Zenon DEF Promise!Revert

LEMMA MarkFinalises ==
  ASSUME LedgerInv, LedgerInv', NEW c \in Clearers, MarkSynced(c)
  PROVE  Promise!Finalise
  <1>1. Indexed' = Indexed
    BY DEF MarkSynced, statusVars, Indexed
  <1>2. /\ Floor \in Int /\ Len(Indexed) \in Nat /\ Confirmed(c) \in Int
        /\ synced # None /\ synced = seenSynced[c] /\ seenSynced[c] < Confirmed(c)
        /\ synced' = Confirmed(c)
    BY Heights DEF MarkSynced, LedgerInv, IndexerInv, SyncedFound, ClearInv
  <1>3. Floor = synced /\ Floor' = Confirmed(c)
    BY <1>2, MarkersAssumption DEF Floor
  <1>4. Confirmed(c) <= Len(Indexed)
    <2>1. Kept(Confirmed(c))
      BY <1>2 DEF LedgerInv, FinalInv, Given
    <2> QED
      BY <2>1 DEF Kept, Agrees
  <1>5. Floor' \in (Floor + 1)..Len(Indexed)
    BY <1>2, <1>3, <1>4
  <1>6. [h \in Floor..Len(Indexed) |-> [k \in Keys |-> AsOf(rows[k], h)]]'
          = [h \in Floor'..Len(Indexed) |->
               [x \in Floor..Len(Indexed) |-> [k \in Keys |-> AsOf(rows[k], x)]][h]]
    <2>1. /\ HistoryInv /\ HistoryInv' /\ Len(Indexed') = Len(Indexed)
          /\ \A h \in Floor'..Len(Indexed) : Prefix(Indexed', h) = Prefix(Indexed, h)
      BY <1>1 DEF LedgerInv
    <2>2. Floor' \in Int /\ Floor' >= Floor /\ Len(Indexed) \in Int /\ Len(Indexed) <= Len(Indexed)
      BY <1>2, <1>3
    <2> QED
      BY <1>2, <2>1, <2>2, StillTold
  <1> QED
    BY <1>1, <1>5, <1>6, Zenon DEF Promise!Finalise

\* A step that moves neither the indexed chain nor the floor is invisible.
LEMMA Unseen ==
  ASSUME LedgerInv, LedgerInv', Indexed' = Indexed, Floor' = Floor
  PROVE  UNCHANGED Promise!ledgerVars
  <1>1. Floor \in Int /\ Len(Indexed) \in Int
    BY Heights DEF LedgerInv
  <1>2. [h \in Floor..Len(Indexed) |-> [k \in Keys |-> AsOf(rows[k], h)]]'
          = [h \in Floor..Len(Indexed) |->
               [x \in Floor..Len(Indexed) |-> [k \in Keys |-> AsOf(rows[k], x)]][h]]
    BY <1>1, StillTold DEF LedgerInv
  <1>3. [h \in Floor..Len(Indexed) |->
           [x \in Floor..Len(Indexed) |-> [k \in Keys |-> AsOf(rows[k], x)]][h]]
          = [h \in Floor..Len(Indexed) |-> [k \in Keys |-> AsOf(rows[k], h)]]
    OBVIOUS
  <1>4. [h \in Floor..Len(Indexed) |-> [k \in Keys |-> AsOf(rows[k], h)]]'
          = [h \in Floor..Len(Indexed) |-> [k \in Keys |-> AsOf(rows[k], h)]]
    BY <1>2, <1>3, Zenon
  <1> QED
    BY <1>4, Zenon DEF Promise!ledgerVars

(***************************************************************************)
(* The refinement.                                                         *)
(***************************************************************************)

LEMMA InitRefined == ASSUME IndexerInit PROVE Promise!Init
  <1>1. Indexed = Origin /\ rows = [k \in Keys |-> <<>>] /\ synced \in {None, Start}
    BY InitialSyncedAssumption DEF IndexerInit, StoreInit, Indexed
  <1>2. Floor = Len(Origin) /\ Start = Len(Origin) /\ Start \in Nat
    BY <1>1, OriginAssumption, LenProperties DEF Floor, Start
  <1>3. \A h : \A k \in Keys : AsOf(rows[k], h) = EmptyBag
    BY <1>1 DEF AsOf
  <1>4. EmptyBag = Promise!EmptyBag
    BY DEF EmptyBag, Promise!EmptyBag, SetToBag, Promise!SetToBag
  <1>5. Floor..Len(Indexed) = {Len(Origin)}
    BY <1>1, <1>2
  <1>6. [h \in Floor..Len(Indexed) |-> [k \in Keys |-> AsOf(rows[k], h)]]
          = [h \in {Len(Origin)} |-> [k \in Keys |-> Promise!EmptyBag]]
    BY <1>3, <1>4, <1>5
  <1> QED
    BY <1>1, <1>2, <1>6, Zenon DEF Promise!Init, Promise!Nothing

LEMMA NextRefined ==
  ASSUME OneLoopEach, LedgerInv, [IndexerNext]_indexerVars
  PROVE  [Promise!Next]_(Promise!ledgerVars)
  <1>1. LedgerInv' /\ HistoryInv'
    BY LedgerNext DEF LedgerInv
  <1>2. ASSUME UNCHANGED <<pendingHash, synced>> PROVE UNCHANGED Promise!ledgerVars
    BY <1>1, <1>2, Unseen DEF Indexed, Floor
  <1>3. CASE NodeSide \/ UNCHANGED indexerVars
    <2>1. UNCHANGED <<pendingHash, synced>>
      BY <1>3 DEF NodeSide, NodeStep, indexerVars, vars, storeVars
    <2> QED
      BY <1>2, <2>1
  <1>4. ASSUME NEW s \in Syncers, SyncStep(s) \/ Fail(s)
        PROVE  [Promise!Next]_(Promise!ledgerVars)
    <2>1. CASE CommitBlock(s)
      BY <1>1, <2>1, CommitApplies DEF Promise!Next
    <2>2. CASE Rollback(s)
      BY <1>1, <2>2, RollbackReverts DEF Promise!Next
    <2>3. CASE ~CommitBlock(s) /\ ~Rollback(s)
      <3>1. UNCHANGED <<pendingHash, synced>>
        BY <1>4, <2>3 DEF SyncStep, Fail, ReadPending, GetTip, Fetch, StreamEnd, TakeBlock,
                          RollbackFails, SaveBatch, SaveTxs, SaveCode, CommitFails,
                          storeVars, statusVars
      <3> QED
        BY <1>2, <3>1
    <2> QED
      BY <2>1, <2>2, <2>3
  <1>5. ASSUME NEW c \in Clearers, ClearStep(c) \/ ClearFail(c)
        PROVE  [Promise!Next]_(Promise!ledgerVars)
    <2>1. CASE MarkSynced(c)
      BY <1>1, <2>1, MarkFinalises DEF Promise!Next
    <2>2. CASE ~MarkSynced(c)
      <3>1. UNCHANGED <<pendingHash, synced>>
        BY <1>5, <2>2, ClearLeaves
        DEF ClearStep, ClearFail, ClearStart, ReadSynced, NothingConfirmed, MarkFails,
            Pick, Compact, TableDone, ClearTxs, storeVars
      <3> QED
        BY <1>2, <3>1
    <2> QED
      BY <2>1, <2>2
  <1> QED
    BY <1>3, <1>4, <1>5 DEF IndexerNext, SyncSide, ClearSide

\* What readers see is the promised ledger, whatever fails between two steps
\* and however clear()'s deletions fall between those of sync().
THEOREM PromiseKept == ASSUME OneLoopEach PROVE IndexerSpec => KeepsPromise
  <1>1. IndexerInit => Promise!Init
    BY InitRefined
  <1>2. LedgerInv /\ [IndexerNext]_indexerVars => [Promise!Next]_(Promise!ledgerVars)
    BY NextRefined
  <1> QED
    BY <1>1, <1>2, LedgerCorrect, PTL DEF IndexerSpec, KeepsPromise, Promise!Spec

=============================================================================
