------------------------------ MODULE UdtParser ------------------------------
(***************************************************************************)
(* UdtParser: what the transactions of a block do to the token and balance *)
(* rows.  udtInfoHandleTx works out the differences of a transaction       *)
(* before the block's database transaction, saveDiffs applies them in it.  *)
(*                                                                         *)
(* The node's side is the ledger: how much of each token each lock holds   *)
(* in live cells, after every block.  capacity goes the way of balance and *)
(* is left out.  Blocks are committed and rolled back as in SyncService.   *)
(***************************************************************************)
EXTENDS Integers, Sequences, FiniteSets, FiniteSetsExt, Functions

CONSTANTS
  Tokens,      \* type scripts that isTypeUdt accepts
  SsriInfo,    \* for those whose code is an SSRI script: what it answers
  Locks,       \* lock scripts; a lock is its own CKB address
  BtcAddress,  \* the Bitcoin address behind each RGB++ lock
  Requesters,  \* how many Bitcoin nodes are configured
  Replies,     \* how they may answer: "found", "dropped", "skip"
  Infos,       \* name, symbol, decimals and icon of a token
  NoInfo,
  MaxHeight,   \* bound: blocks
  MaxTxs,      \* bound: transactions of a block
  MaxAmount    \* bound: amount of a token that one lock holds

ASSUME LocksAssumption == IsFiniteSet(Locks)
ASSUME BtcAddressAssumption == DOMAIN BtcAddress \subseteq Locks
ASSUME RepliesAssumption == Replies \subseteq {"found", "dropped", "skip"}
ASSUME RequestersAssumption == Requesters \in Nat
ASSUME InfosAssumption == NoInfo \notin Infos
ASSUME SsriAssumption ==
  /\ DOMAIN SsriInfo \subseteq Tokens
  /\ \A t \in DOMAIN SsriInfo : SsriInfo[t] \in Infos
ASSUME BoundsAssumption == MaxHeight \in Nat /\ MaxTxs \in Nat /\ MaxAmount \in Nat

VARIABLES
  ledger,    \* by height: what the chain says
  open,      \* how many more transactions the newest block may have
  info,      \* udt_info: for each token its rows by height
  balance,   \* udt_balance: for each token and address the rows by height
  fallback   \* the RGB++ locks that were once taken for CKB addresses

udtVars == <<ledger, open, info, balance, fallback>>

RgbppLocks == DOMAIN BtcAddress
UnionRange(f) == UNION Range(f)
Addresses == Locks \cup Range(BtcAddress)
Amounts == 0..MaxAmount
Holdings == [Tokens -> [Locks -> Amounts]]

\* spent, created: amounts in the cells of inputs and outputs.  inputs,
\* outputs: the locks of these cells; a cell may be empty.  owners: the tokens
\* whose owner script an input or a witness shows.  info: of the unique cell,
\* if any.  The type scripts of the tokens let a transaction without the
\* owner create no more than it spends.
Txs == {tx \in [spent : Holdings, created : Holdings,
                inputs : [Tokens -> SUBSET Locks], outputs : [Tokens -> SUBSET Locks],
                owners : SUBSET Tokens, info : Infos \cup {NoInfo}] :
          \A t \in Tokens :
            /\ {l \in Locks : tx.spent[t][l] > 0} \subseteq tx.inputs[t]
            /\ {l \in Locks : tx.created[t][l] > 0} \subseteq tx.outputs[t]
            /\ SumFunction(tx.created[t]) > SumFunction(tx.spent[t]) => t \in tx.owners}

Height == Max(DOMAIN ledger)
Now == ledger[Height]

\* What a transaction spends is there to be spent.
Valid(tx) ==
  \A t \in Tokens, l \in Locks :
    /\ tx.spent[t][l] <= Now.held[t][l]
    /\ Now.held[t][l] - tx.spent[t][l] + tx.created[t][l] <= MaxAmount

(***************************************************************************)
(* udtInfoHandleTx: the differences a transaction makes.                   *)
(***************************************************************************)

\* parseBtcAddress: the first node that answers decides.  A node that cannot
\* be reached is skipped; one that does not know the transaction, or finds no
\* address in it, makes it the CKB address.
ParseBtcAddress(lock, replies) ==
  LET heard == SelectSeq(replies, LAMBDA reply : reply # "skip")
  IN  IF Head(heard) = "found" THEN BtcAddress[lock] ELSE lock

\* The nodes' answers with which there is an address at all.
Heard == {replies \in [1..Requesters -> Replies] : \E i \in 1..Requesters : replies[i] # "skip"}

\* scriptToAddress: what may come out for a lock.
ScriptToAddress == [l \in Locks |->
  IF l \in RgbppLocks THEN {ParseBtcAddress(l, replies) : replies \in Heard} ELSE {l}]

\* The addresses of the locks of a transaction's inputs, or outputs.
Resolutions(locks) ==
  {f \in [locks -> Addresses] : \A l \in locks : f[l] \in ScriptToAddress[l]}

\* getUdtTypesInTx
UdtTypesIn(tx) == {t \in Tokens : tx.inputs[t] \cup tx.outputs[t] # {}}

\* Mutant: forgets the inputs.
DiffOutputsOnly(tx, token, from, to, address) ==
  SumFunctionOnSet(tx.created[token], {l \in tx.outputs[token] : to[l] = address})

\* getBalanceDiffInTx: what an address gets and gives.  Each cell's lock is
\* looked up on its own, so inputs and outputs may come out differently.
Diff(tx, token, from, to, address) ==
  SumFunctionOnSet(tx.created[token], {l \in tx.outputs[token] : to[l] = address})
    - SumFunctionOnSet(tx.spent[token], {l \in tx.inputs[token] : from[l] = address})

NetBalance(tx, token) == SumFunction(tx.created[token]) - SumFunction(tx.spent[token])

\* The token's info as the transaction or the token's script tells it; only
\* looked for if the row that was read has none.
InfoInTx(tx, token, seen) ==
  IF seen # NoInfo THEN NoInfo
  ELSE IF token \in DOMAIN SsriInfo THEN SsriInfo[token]
  ELSE IF NetBalance(tx, token) > 0 THEN tx.info
  ELSE NoInfo

\* That row is any row of the token, read before the block's transaction.
SeenInfos(token) ==
  LET before == {h \in DOMAIN info[token] : h < Height}
  IN  IF before = {} THEN {NoInfo} ELSE {info[token][h].info : h \in before}

(***************************************************************************)
(* saveDiffs                                                               *)
(***************************************************************************)

\* Mutant: copies what was there before the block.
ExistedBefore(history, none) ==
  LET before == {h \in DOMAIN history : h < Height}
  IN  IF before = {} THEN none ELSE history[Max(before)]

\* existedUdtInfo, existedUdtBalance: the newest row.
Existed(history, none) ==
  IF DOMAIN history = {} THEN none ELSE history[Max(DOMAIN history)]

\* Saved over the row of this height, or as a new one.
Saved(history, row) ==
  [h \in DOMAIN history \cup {Height} |-> IF h = Height THEN row ELSE history[h]]

\* Mutant: the last info wins.
InfoToKeepLast(old, new) == IF new = NoInfo THEN old ELSE new

\* The first info stays.
InfoToKeep(old, new) == IF old = NoInfo THEN new ELSE old

\* The owner is stored with the first row of a token only, whatever later
\* transactions show.
NewRecord(tx, token, isIssued) ==
  [supply |-> 0, info |-> NoInfo, owner |-> isIssued /\ token \in tx.owners]

InfoRow(tx, token, from, to, seen) ==
  LET issued == \E a \in Addresses : Diff(tx, token, from, to, a) > 0
      row == Existed(info[token], NewRecord(tx, token, issued))
  IN  [row EXCEPT !.supply = @ + NetBalance(tx, token),
                  !.info = InfoToKeep(@, InfoInTx(tx, token, seen))]

\* The addresses diffs has an entry for.
Affected(tx, token, from, to) == {from[l] : l \in tx.inputs[token]} \cup {to[l] : l \in tx.outputs[token]}

SaveDiffs(tx, from, to, seen) ==
  /\ info' = [t \in Tokens |->
                IF t \in UdtTypesIn(tx)
                  THEN Saved(info[t], InfoRow(tx, t, from, to, seen[t])) ELSE info[t]]
  /\ balance' = [t \in Tokens |-> [a \in Addresses |->
                   IF t \in UdtTypesIn(tx) /\ a \in Affected(tx, t, from, to)
                     THEN Saved(balance[t][a],
                                Existed(balance[t][a], 0) + Diff(tx, t, from, to, a))
                     ELSE balance[t][a]]]

(***************************************************************************)
(* The chain, block by block, and the indexer with it.                     *)
(***************************************************************************)

\* The chain after a transaction.  issued: the tokens an issuing transaction
\* has shown the owner of.  info: the first one that was to be seen.
After(tx) ==
  [held |-> [t \in Tokens |-> [l \in Locks |->
               Now.held[t][l] - tx.spent[t][l] + tx.created[t][l]]],
   issued |-> Now.issued \cup {t \in tx.owners : NetBalance(tx, t) > 0},
   info |-> [t \in Tokens |->
               IF Now.info[t] # NoInfo \/ t \notin UdtTypesIn(tx) THEN Now.info[t]
               ELSE InfoInTx(tx, t, NoInfo)]]

UdtInit ==
  /\ ledger = [h \in {0} |-> [held |-> [t \in Tokens |-> [l \in Locks |-> 0]],
                              issued |-> {},
                              info |-> [t \in Tokens |-> NoInfo]]]
  /\ open = 0
  /\ info = [t \in Tokens |-> <<>>]
  /\ balance = [t \in Tokens |-> [a \in Addresses |-> <<>>]]
  /\ fallback = {}

NewBlock ==
  /\ Height < MaxHeight
  /\ ledger' = [h \in 0..(Height + 1) |-> IF h > Height THEN Now ELSE ledger[h]]
  /\ open' = MaxTxs
  /\ UNCHANGED <<info, balance, fallback>>

\* The next transaction of the block.
IndexTx ==
  /\ open > 0
  /\ \E tx \in {x \in Txs : Valid(x)} :
     \E from \in Resolutions(UnionRange(tx.inputs)), to \in Resolutions(UnionRange(tx.outputs)),
        seen \in {x \in [Tokens -> Infos \cup {NoInfo}] : \A t \in Tokens : x[t] \in SeenInfos(t)} :
       /\ SaveDiffs(tx, from, to, seen)
       /\ ledger' = [ledger EXCEPT ![Height] = After(tx)]
       /\ fallback' = fallback \cup {l \in RgbppLocks :
                         \/ l \in DOMAIN from /\ from[l] # BtcAddress[l]
                         \/ l \in DOMAIN to /\ to[l] # BtcAddress[l]}
  /\ open' = open - 1

\* Mutant: forgets the balances.
RollBackInfoOnly ==
  LET below == 0..(Height - 1) IN
  /\ Height > 0
  /\ ledger' = Restrict(ledger, below)
  /\ info' = [t \in Tokens |-> Restrict(info[t], DOMAIN info[t] \cap below)]
  /\ open' = 0
  /\ UNCHANGED <<balance, fallback>>

\* sync() rolls the newest block back.
RollBack ==
  LET below == 0..(Height - 1) IN
  /\ Height > 0
  /\ ledger' = Restrict(ledger, below)
  /\ info' = [t \in Tokens |-> Restrict(info[t], DOMAIN info[t] \cap below)]
  /\ balance' = [t \in Tokens |-> [a \in Addresses |->
                   Restrict(balance[t][a], DOMAIN balance[t][a] \cap below)]]
  /\ open' = 0
  /\ UNCHANGED fallback

UdtNext == NewBlock \/ IndexTx \/ RollBack

UdtSpec == UdtInit /\ [][UdtNext]_udtVars

(***************************************************************************)
(* Properties                                                              *)
(***************************************************************************)

InfoRows == [supply : Int, info : Infos \cup {NoInfo}, owner : BOOLEAN]

UdtTypeOK ==
  /\ DOMAIN ledger = 0..Height /\ Height <= MaxHeight
  /\ \A h \in 0..Height : /\ ledger[h].held \in Holdings
                          /\ ledger[h].issued \subseteq Tokens
                          /\ ledger[h].info \in [Tokens -> Infos \cup {NoInfo}]
  /\ open \in 0..MaxTxs
  /\ \A t \in Tokens :
       /\ DOMAIN info[t] \subseteq 0..Height /\ Range(info[t]) \subseteq InfoRows
       /\ \A a \in Addresses : /\ DOMAIN balance[t][a] \subseteq 0..Height
                               /\ Range(balance[t][a]) \subseteq Int
  /\ fallback \subseteq RgbppLocks

\* The row that is valid at a height.
AsOfHeight(history, height, none) ==
  LET upTo == {h \in DOMAIN history : h <= height}
  IN  IF upTo = {} THEN none ELSE history[Max(upTo)]

TrueAddress(lock) == IF lock \in RgbppLocks THEN BtcAddress[lock] ELSE lock

\* At every height the balance of each address is what its live cells hold,
\* after any rollbacks and with several transactions to a block, as long as
\* the address of each lock was found.
BalancesAreCells ==
  fallback = {} =>
    \A t \in Tokens, a \in Addresses, h \in 0..Height :
      AsOfHeight(balance[t][a], h, 0) =
        SumFunctionOnSet(ledger[h].held[t], {l \in Locks : TrueAddress(l) = a})

\* At every height the total supply is what all live cells hold, and what all
\* balances add up to, even when addresses were mistaken.
SupplyIsCells ==
  \A t \in Tokens, h \in 0..Height :
    LET supply == AsOfHeight(info[t], h, [supply |-> 0]).supply IN
    /\ supply = SumFunction(ledger[h].held[t])
    /\ supply = SumFunction([a \in Addresses |-> AsOfHeight(balance[t][a], h, 0)])

\* A token's info is the first one the chain has to show, although whether
\* there already is one was looked up before the block's transaction, in any
\* row of the token.
InfoIsFirst ==
  \A t \in Tokens, h \in 0..Height :
    AsOfHeight(info[t], h, [info |-> NoInfo]).info = ledger[h].info[t]

\* It is fine to take the CKB address of an RGB++ lock whose Bitcoin
\* transaction is not known: nobody's balance gets below zero by that.
NoDebt ==
  \A t \in Tokens, a \in Addresses : Existed(balance[t][a], 0) >= 0

\* If the owner of a token is not set, an issuing transaction that shows the
\* owner script sets it.
OwnerKnown ==
  \A t \in Now.issued : Existed(info[t], [owner |-> FALSE]).owner

=============================================================================
