--------------------------- MODULE UdtParserProofs ---------------------------
(***************************************************************************)
(* Proofs about UdtParser for all tokens, locks, amounts and blocks: the   *)
(* rows of a token add up to what the chain holds, and its info is the     *)
(* first one the chain shows.  What UdtQueries answers from the newest     *)
(* rows follows.                                                           *)
(***************************************************************************)
EXTENDS UdtQueries, FiniteLemmas

(***************************************************************************)
(* The inductive invariant                                                 *)
(***************************************************************************)

\* Once the chain has shown a token's info it stays the same.
InfoStays ==
  \A t \in Tokens, h \in 0..Height, k \in 0..Height :
    h <= k /\ ledger[h].info[t] # NoInfo => ledger[k].info[t] = ledger[h].info[t]

UdtInv ==
  /\ Height \in Nat
  /\ UdtTypeOK
  /\ InfoStays
  /\ InfoIsFirst
  /\ SupplyIsCells
  /\ BalancesAreCells

(***************************************************************************)
(* Histories                                                               *)
(***************************************************************************)

\* Rows above a height do not count at that height.
LEMMA AsOfSameRows ==
  ASSUME NEW n \in Nat, NEW history, NEW other, NEW none, NEW h \in 0..n,
         DOMAIN history \subseteq 0..n,
         {k \in DOMAIN other : k <= h} = {k \in DOMAIN history : k <= h},
         \A k \in DOMAIN history : k <= h => other[k] = history[k]
  PROVE  AsOfHeight(other, h, none) = AsOfHeight(history, h, none)
<1> DEFINE S == {k \in DOMAIN history : k <= h}
<1>1. CASE S = {}
  BY <1>1 DEF AsOfHeight
<1>2. CASE S # {}
  <2>1. S \in SUBSET (0..n)
    OBVIOUS
  <2>2. Max(S) \in S
    <3> HIDE DEF S
    <3> QED
      BY <1>2, <2>1, MaxExists
  <2>3. other[Max(S)] = history[Max(S)]
    BY <2>2
  <2> QED
    BY <1>2, <2>3 DEF AsOfHeight
<1> QED
  BY <1>1, <1>2

\* The newest row is the one as of the newest height, and of any above it.
LEMMA AsOfNewest ==
  ASSUME NEW n \in Nat, NEW history, NEW none, NEW h \in Nat, n <= h,
         DOMAIN history \subseteq 0..n
  PROVE  AsOfHeight(history, h, none) = Existed(history, none)
<1>1. {k \in DOMAIN history : k <= h} = DOMAIN history
  OBVIOUS
<1> QED
  BY <1>1 DEF AsOfHeight, Existed

\* The newest row is one of the rows.
LEMMA ExistedIsRow ==
  ASSUME NEW n \in Nat, NEW history, NEW none, DOMAIN history \subseteq 0..n
  PROVE  \/ DOMAIN history = {} /\ Existed(history, none) = none
         \/ \E k \in DOMAIN history : Existed(history, none) = history[k]
<1>1. CASE DOMAIN history = {}
  BY <1>1 DEF Existed
<1>2. CASE DOMAIN history # {}
  <2>1. Max(DOMAIN history) \in DOMAIN history
    BY <1>2, MaxExists
  <2> QED
    BY <1>2, <2>1 DEF Existed
<1> QED
  BY <1>1, <1>2

\* So is the one as of any height.
LEMMA AsOfIsRow ==
  ASSUME NEW n \in Nat, NEW history, NEW none, DOMAIN history \subseteq 0..n, NEW h \in 0..n
  PROVE  \/ AsOfHeight(history, h, none) = none
         \/ \E k \in DOMAIN history : AsOfHeight(history, h, none) = history[k]
<1> DEFINE S == {k \in DOMAIN history : k <= h}
<1>1. CASE S = {}
  BY <1>1 DEF AsOfHeight
<1>2. CASE S # {}
  <2>1. S \in SUBSET (0..n)
    OBVIOUS
  <2>2. Max(S) \in S
    <3> HIDE DEF S
    <3> QED
      BY <1>2, <2>1, MaxExists
  <2>3. AsOfHeight(history, h, none) = history[Max(S)] /\ Max(S) \in DOMAIN history
    BY <1>2, <2>2 DEF AsOfHeight
  <2> QED
    BY <2>3
<1> QED
  BY <1>1, <1>2

\* A row counts from its own height on.
LEMMA AsOfRow ==
  ASSUME NEW n \in Nat, NEW history, NEW none, DOMAIN history \subseteq 0..n,
         NEW h \in DOMAIN history
  PROVE  AsOfHeight(history, h, none) = history[h]
<1> DEFINE S == {k \in DOMAIN history : k <= h}
<1>1. h \in S /\ S \in SUBSET Int /\ \A k \in S : k <= h
  OBVIOUS
<1>2. Max(S) = h
  <2> HIDE DEF S
  <2> QED
    BY <1>1, MaxIs
<1> QED
  BY <1>1, <1>2 DEF AsOfHeight

\* A row saved at the newest height counts there and nowhere below.
LEMMA SavedDomain ==
  \A history, row :
    /\ DOMAIN Saved(history, row) = DOMAIN history \cup {Height}
    /\ Saved(history, row)[Height] = row
    /\ \A k \in DOMAIN history : k # Height => Saved(history, row)[k] = history[k]
BY DEF Saved

LEMMA SavedAtNewest ==
  ASSUME Height \in Nat, NEW history, NEW row, NEW none, DOMAIN history \subseteq 0..Height
  PROVE  AsOfHeight(Saved(history, row), Height, none) = row
<1> DEFINE new == Saved(history, row)
<1>1. DOMAIN new \subseteq 0..Height /\ Height \in DOMAIN new /\ new[Height] = row
  BY DEF Saved
<1> HIDE DEF new
<1>2. AsOfHeight(new, Height, none) = row
  BY <1>1, AsOfRow
<1> QED
  BY <1>2 DEF new

LEMMA SavedBelow ==
  ASSUME Height \in Nat, NEW history, NEW row, NEW none, DOMAIN history \subseteq 0..Height,
         NEW h \in 0..Height, h # Height
  PROVE  AsOfHeight(Saved(history, row), h, none) = AsOfHeight(history, h, none)
<1> DEFINE new == Saved(history, row)
<1>1. {k \in DOMAIN new : k <= h} = {k \in DOMAIN history : k <= h}
  BY DEF Saved
<1>2. \A k \in DOMAIN history : k <= h => new[k] = history[k]
  BY DEF Saved
<1> HIDE DEF new
<1>3. AsOfHeight(new, h, none) = AsOfHeight(history, h, none)
  BY <1>1, <1>2, AsOfSameRows
<1> QED
  BY <1>3 DEF new

\* What a rollback leaves: the rows below a height.
Below(history, n) == Restrict(history, DOMAIN history \cap (0..(n - 1)))

LEMMA BelowIsPart ==
  \A history, n : /\ DOMAIN Below(history, n) = DOMAIN history \cap (0..(n - 1))
                  /\ \A k \in DOMAIN Below(history, n) : Below(history, n)[k] = history[k]
BY DEF Below, Restrict

LEMMA BelowRange ==
  \A history, n : Range(Below(history, n)) \subseteq Range(history)
BY BelowIsPart DEF Range

\* It says the same of every height that is left.
LEMMA BelowCounts ==
  ASSUME NEW n \in Nat, n > 0, NEW history, NEW none, DOMAIN history \subseteq 0..n,
         NEW h \in 0..(n - 1)
  PROVE  AsOfHeight(Below(history, n), h, none) = AsOfHeight(history, h, none)
<1> DEFINE rest == Below(history, n)
<1>1. {k \in DOMAIN rest : k <= h} = {k \in DOMAIN history : k <= h}
  BY DEF Below, Restrict
<1>2. \A k \in DOMAIN history : k <= h => rest[k] = history[k]
  BY DEF Below, Restrict
<1>3. h \in 0..n
  OBVIOUS
<1> HIDE DEF rest
<1>4. AsOfHeight(rest, h, none) = AsOfHeight(history, h, none)
  BY <1>1, <1>2, <1>3, AsOfSameRows
<1> QED
  BY <1>4 DEF rest

(***************************************************************************)
(* Addresses                                                               *)
(***************************************************************************)

LEMMA AddressesAreFinite == IsFiniteSet(Addresses)
<1> DEFINE f == [l \in RgbppLocks |-> BtcAddress[l]]
<1>1. IsFiniteSet(Locks) /\ IsFiniteSet(RgbppLocks)
  BY LocksAssumption, BtcAddressAssumption, FS_Subset DEF RgbppLocks
<1>2. f \in Surjection(RgbppLocks, Range(BtcAddress))
  BY DEF Surjection, Range, RgbppLocks
<1>3. IsFiniteSet(Range(BtcAddress))
  <2> HIDE DEF f
  <2> QED
    BY <1>1, <1>2, FS_Surjection
<1> QED
  BY <1>1, <1>3, FS_Union DEF Addresses

\* A lock comes out as its Bitcoin address or as itself.
LEMMA ScriptToAddressIs ==
  ASSUME NEW l \in Locks, NEW a \in ScriptToAddress[l]
  PROVE  /\ a \in Addresses
         /\ (l \in RgbppLocks /\ a # BtcAddress[l]) \/ a = TrueAddress(l)
<1>1. CASE l \in RgbppLocks
  <2>1. \A replies : ParseBtcAddress(l, replies) \in {BtcAddress[l], l}
    BY Zenon DEF ParseBtcAddress
  <2>2. a \in {BtcAddress[l], l}
    BY <1>1, <2>1 DEF ScriptToAddress
  <2>3. BtcAddress[l] \in Range(BtcAddress)
    BY <1>1 DEF Range, RgbppLocks
  <2> QED
    BY <1>1, <2>2, <2>3 DEF Addresses, TrueAddress
<1>2. CASE l \notin RgbppLocks
  BY <1>2 DEF ScriptToAddress, Addresses, TrueAddress
<1> QED
  BY <1>1, <1>2

LEMMA TrueAddressIsAddress == \A l \in Locks : TrueAddress(l) \in Addresses
BY DEF TrueAddress, Addresses, Range, RgbppLocks

(***************************************************************************)
(* Transactions                                                            *)
(***************************************************************************)

LEMMA AmountsAreNumbers == Amounts \subseteq Nat
BY BoundsAssumption DEF Amounts

\* Where a transaction spends and creates.
LEMMA TxFacts ==
  ASSUME NEW tx \in Txs, NEW t \in Tokens
  PROVE  /\ tx.inputs[t] \in SUBSET Locks /\ tx.outputs[t] \in SUBSET Locks
         /\ tx.spent[t] \in [Locks -> Amounts] /\ tx.created[t] \in [Locks -> Amounts]
         /\ \A l \in Locks : /\ tx.spent[t][l] \in Int /\ tx.created[t][l] \in Int
                             /\ l \notin tx.inputs[t] => tx.spent[t][l] = 0
                             /\ l \notin tx.outputs[t] => tx.created[t][l] = 0
         /\ tx.info \in Infos \cup {NoInfo}
<1>1. /\ tx.inputs[t] \in SUBSET Locks /\ tx.outputs[t] \in SUBSET Locks
      /\ tx.spent[t] \in [Locks -> Amounts] /\ tx.created[t] \in [Locks -> Amounts]
      /\ tx.info \in Infos \cup {NoInfo}
      /\ {l \in Locks : tx.spent[t][l] > 0} \subseteq tx.inputs[t]
      /\ {l \in Locks : tx.created[t][l] > 0} \subseteq tx.outputs[t]
  BY DEF Txs, Holdings
<1>2. \A l \in Locks : tx.spent[t][l] \in Nat /\ tx.created[t][l] \in Nat
  BY <1>1, AmountsAreNumbers
<1>3. \A l \in Locks : /\ l \notin tx.inputs[t] => tx.spent[t][l] = 0
                       /\ l \notin tx.outputs[t] => tx.created[t][l] = 0
  BY <1>1, <1>2
<1> QED
  BY <1>1, <1>2, <1>3

LEMMA NetBalanceIs ==
  ASSUME NEW tx \in Txs, NEW t \in Tokens
  PROVE  /\ NetBalance(tx, t) = SumFunctionOnSet(tx.created[t], Locks)
                                  - SumFunctionOnSet(tx.spent[t], Locks)
         /\ SumFunctionOnSet(tx.created[t], Locks) \in Int
         /\ SumFunctionOnSet(tx.spent[t], Locks) \in Int
         /\ NetBalance(tx, t) \in Int
<1>1. DOMAIN tx.created[t] = Locks /\ DOMAIN tx.spent[t] = Locks
  BY TxFacts
<1>2. NetBalance(tx, t) = SumFunctionOnSet(tx.created[t], Locks)
                            - SumFunctionOnSet(tx.spent[t], Locks)
  BY <1>1 DEF NetBalance, SumFunction
<1>3. /\ SumFunctionOnSet(tx.created[t], Locks) \in Int
      /\ SumFunctionOnSet(tx.spent[t], Locks) \in Int
  BY TxFacts, SumType, LocksAssumption
<1> QED
  BY <1>2, <1>3

\* A sum over the inputs, or outputs, of a token that go to an address.
AddressSum(amounts, cells, address, resolved) ==
  SumFunctionOnSet(amounts, {l \in cells : resolved[l] = address})

LEMMA DiffIs ==
  \A tx, t, from, to, a :
    Diff(tx, t, from, to, a) = AddressSum(tx.created[t], tx.outputs[t], a, to)
                                 - AddressSum(tx.spent[t], tx.inputs[t], a, from)
BY DEF Diff, AddressSum

\* What the addresses get of the outputs is all that is created, and so with
\* the inputs.
LEMMA AddressSums ==
  ASSUME NEW amounts, NEW cells \in SUBSET Locks, NEW resolved,
         \A l \in Locks : amounts[l] \in Int /\ (l \notin cells => amounts[l] = 0),
         \A l \in cells : resolved[l] \in Addresses
  PROVE  /\ \A a \in Addresses : AddressSum(amounts, cells, a, resolved) \in Int
         /\ \A a \in Addresses : a \notin {resolved[l] : l \in cells} =>
              AddressSum(amounts, cells, a, resolved) = 0
         /\ SumFunctionOnSet([a \in Addresses |-> AddressSum(amounts, cells, a, resolved)], Addresses)
              = SumFunctionOnSet(amounts, Locks)
<1> DEFINE Part(a) == {l \in cells : resolved[l] = a}
<1>1. IsFiniteSet(cells) /\ IsFiniteSet(Locks)
  BY LocksAssumption, FS_Subset
<1>2. ASSUME NEW a \in Addresses PROVE AddressSum(amounts, cells, a, resolved) \in Int
  <2>1. Part(a) \in SUBSET cells /\ \A l \in Part(a) : amounts[l] \in Int
    OBVIOUS
  <2>2. IsFiniteSet(Part(a))
    BY <1>1, <2>1, FS_Subset
  <2>3. SumFunctionOnSet(amounts, Part(a)) \in Int
    <3> HIDE DEF Part
    <3> QED
      BY <2>1, <2>2, SumType
  <2> QED
    BY <2>3 DEF AddressSum
<1>3. ASSUME NEW a \in Addresses, a \notin {resolved[l] : l \in cells}
      PROVE  AddressSum(amounts, cells, a, resolved) = 0
  <2>1. Part(a) = {}
    BY <1>3
  <2> QED
    BY <2>1, SumOfNone DEF AddressSum
<1>4. SumFunctionOnSet(amounts, Locks) = SumFunctionOnSet(amounts, cells)
  <2>1. \A l \in Locks \ cells : amounts[l] = 0
    OBVIOUS
  <2> QED
    BY <1>1, <2>1, SumOfSupport
<1>5. SumFunctionOnSet(amounts, cells) =
        SumFunctionOnSet([a \in Addresses |->
          SumFunctionOnSet(amounts, {l \in cells : resolved[l] = a})], Addresses)
  <2>1. \A l \in cells : amounts[l] \in Int /\ resolved[l] \in Addresses
    OBVIOUS
  <2> QED
    BY <1>1, <2>1, AddressesAreFinite, SumByParts
<1>6. SumFunctionOnSet([a \in Addresses |-> AddressSum(amounts, cells, a, resolved)], Addresses)
        = SumFunctionOnSet(amounts, Locks)
  BY <1>4, <1>5 DEF AddressSum
<1> QED
  BY <1>2, <1>3, <1>6

\* The differences of a transaction: none for an address it does not affect,
\* and together what it creates over what it spends.
LEMMA DiffFacts ==
  ASSUME NEW tx \in Txs, NEW t \in Tokens, NEW from, NEW to,
         \A l \in tx.inputs[t] : from[l] \in Addresses,
         \A l \in tx.outputs[t] : to[l] \in Addresses
  PROVE  /\ \A a \in Addresses : Diff(tx, t, from, to, a) \in Int
         /\ \A a \in Addresses : a \notin Affected(tx, t, from, to) =>
              Diff(tx, t, from, to, a) = 0
         /\ SumFunctionOnSet([a \in Addresses |-> Diff(tx, t, from, to, a)], Addresses)
              = NetBalance(tx, t)
<1> DEFINE in(a) == AddressSum(tx.spent[t], tx.inputs[t], a, from)
           out(a) == AddressSum(tx.created[t], tx.outputs[t], a, to)
           zero == [a \in Addresses |-> 0]
           ins == [a \in Addresses |-> in(a)]
           outs == [a \in Addresses |-> out(a)]
           diffs == [a \in Addresses |-> Diff(tx, t, from, to, a)]
<1>1. /\ \A a \in Addresses : in(a) \in Int
      /\ \A a \in Addresses : a \notin {from[l] : l \in tx.inputs[t]} => in(a) = 0
      /\ SumFunctionOnSet(ins, Addresses) = SumFunctionOnSet(tx.spent[t], Locks)
  BY TxFacts, AddressSums
<1>2. /\ \A a \in Addresses : out(a) \in Int
      /\ \A a \in Addresses : a \notin {to[l] : l \in tx.outputs[t]} => out(a) = 0
      /\ SumFunctionOnSet(outs, Addresses) = SumFunctionOnSet(tx.created[t], Locks)
  BY TxFacts, AddressSums
<1>3. \A a \in Addresses : Diff(tx, t, from, to, a) = out(a) - in(a)
  BY DiffIs
<1>4. \A a \in Addresses : a \notin Affected(tx, t, from, to) => in(a) = 0 /\ out(a) = 0
  BY <1>1, <1>2 DEF Affected
<1>5. \A a \in Addresses : zero[a] = 0 /\ ins[a] = in(a) /\ outs[a] = out(a)
                           /\ diffs[a] = out(a) - in(a)
  BY <1>3
<1> HIDE DEF in, out, zero, ins, outs, diffs
<1>6. \A a \in Addresses : /\ outs[a] \in Int /\ ins[a] \in Int /\ zero[a] \in Int
                           /\ diffs[a] = outs[a] - ins[a] + zero[a]
  BY <1>1, <1>2, <1>5
<1>7. SumFunctionOnSet(zero, Addresses) = 0
  <2>1. SumFunctionOnSet(zero, Addresses) = SumFunctionOnSet(zero, {})
    <3>1. {} \in SUBSET Addresses /\ \A a \in Addresses : zero[a] \in Int /\ zero[a] = 0
      BY <1>5
    <3> QED
      BY <3>1, AddressesAreFinite, SumOfSupport
  <2> QED
    BY <2>1, SumOfNone
<1>8. SumFunctionOnSet(diffs, Addresses) =
        SumFunctionOnSet(outs, Addresses) - SumFunctionOnSet(ins, Addresses)
          + SumFunctionOnSet(zero, Addresses)
  BY <1>6, AddressesAreFinite, SumOfChanges
<1>9. SumFunctionOnSet(diffs, Addresses) = NetBalance(tx, t)
  BY <1>1, <1>2, <1>7, <1>8, NetBalanceIs
<1> QED
  BY <1>1, <1>2, <1>3, <1>4, <1>9 DEF diffs

\* The locks an address stands for.
LocksOf(a) == {l \in Locks : TrueAddress(l) = a}

\* If every address is found, the difference of an address is that of the
\* locks it is the address of.
LEMMA DiffOfTrue ==
  ASSUME NEW tx \in Txs, NEW t \in Tokens, NEW from, NEW to, NEW a,
         \A l \in tx.inputs[t] : from[l] = TrueAddress(l),
         \A l \in tx.outputs[t] : to[l] = TrueAddress(l)
  PROVE  Diff(tx, t, from, to, a) =
           SumFunctionOnSet(tx.created[t], LocksOf(a)) - SumFunctionOnSet(tx.spent[t], LocksOf(a))
<1> DEFINE theirs == {l \in Locks : TrueAddress(l) = a}
           ins == {l \in tx.inputs[t] : from[l] = a}
           outs == {l \in tx.outputs[t] : to[l] = a}
<1>1. /\ ins \in SUBSET theirs /\ outs \in SUBSET theirs
      /\ \A l \in theirs \ ins : tx.spent[t][l] = 0
      /\ \A l \in theirs \ outs : tx.created[t][l] = 0
      /\ \A l \in theirs : tx.spent[t][l] \in Int /\ tx.created[t][l] \in Int
  BY TxFacts
<1>2. IsFiniteSet(theirs)
  BY LocksAssumption, FS_Subset
<1>3. Diff(tx, t, from, to, a) = SumFunctionOnSet(tx.created[t], outs)
                                   - SumFunctionOnSet(tx.spent[t], ins)
  BY DEF Diff
<1> HIDE DEF theirs, ins, outs
<1>4. /\ SumFunctionOnSet(tx.created[t], theirs) = SumFunctionOnSet(tx.created[t], outs)
      /\ SumFunctionOnSet(tx.spent[t], theirs) = SumFunctionOnSet(tx.spent[t], ins)
  BY <1>1, <1>2, SumOfSupport
<1> QED
  BY <1>3, <1>4 DEF theirs, LocksOf

(***************************************************************************)
(* The first state and new blocks                                          *)
(***************************************************************************)

NoSupply == [supply |-> 0]
NotSeen == [info |-> NoInfo]

\* The rows of nothing say what there is without rows.
LEMMA NoRows ==
  \A h, none : DOMAIN <<>> = {} /\ AsOfHeight(<<>>, h, none) = none
BY DEF AsOfHeight

LEMMA SumOfZeros ==
  ASSUME NEW S, IsFiniteSet(S), NEW f, \A x \in S : f[x] = 0
  PROVE  SumFunctionOnSet(f, S) = 0
<1>1. {} \in SUBSET S /\ \A x \in S : f[x] \in Int
  OBVIOUS
<1>2. SumFunctionOnSet(f, S) = SumFunctionOnSet(f, {})
  BY <1>1, SumOfSupport
<1> QED
  BY <1>2, SumOfNone

LEMMA SumOfIncrease ==
  ASSUME NEW S, IsFiniteSet(S), NEW f, NEW g, NEW k,
         \A x \in S : f[x] \in Int /\ g[x] \in Int /\ k[x] = f[x] + g[x]
  PROVE  SumFunctionOnSet(k, S) = SumFunctionOnSet(f, S) + SumFunctionOnSet(g, S)
<1> DEFINE zero == [x \in S |-> 0]
<1>1. \A x \in S : zero[x] = 0
  OBVIOUS
<1> HIDE DEF zero
<1>2. SumFunctionOnSet(zero, S) = 0
  BY <1>1, SumOfZeros
<1>3. \A x \in S : /\ f[x] \in Int /\ zero[x] \in Int /\ g[x] \in Int
                   /\ k[x] = f[x] - zero[x] + g[x]
  BY <1>1
<1>4. SumFunctionOnSet(k, S) =
        SumFunctionOnSet(f, S) - SumFunctionOnSet(zero, S) + SumFunctionOnSet(g, S)
  BY <1>3, SumOfChanges
<1>5. SumFunctionOnSet(f, S) \in Int /\ SumFunctionOnSet(g, S) \in Int
  BY SumType
<1> QED
  BY <1>2, <1>4, <1>5

\* SupplyIsCells with its sums written over Locks and Addresses.
SupplyAdds(t, h) ==
  /\ AsOfHeight(info[t], h, NoSupply).supply = SumFunctionOnSet(ledger[h].held[t], Locks)
  /\ AsOfHeight(info[t], h, NoSupply).supply =
       SumFunctionOnSet([a \in Addresses |-> AsOfHeight(balance[t][a], h, 0)], Addresses)

SupplyAddsUp == \A t \in Tokens, h \in 0..Height : SupplyAdds(t, h)

LEMMA SupplyIsSum == UdtTypeOK => (SupplyIsCells <=> SupplyAddsUp)
<1> SUFFICES ASSUME UdtTypeOK PROVE SupplyIsCells <=> SupplyAddsUp
  OBVIOUS
<1>1. ASSUME NEW t \in Tokens, NEW h \in 0..Height
      PROVE  SumFunction(ledger[h].held[t]) = SumFunctionOnSet(ledger[h].held[t], Locks)
  <2>1. DOMAIN ledger[h].held[t] = Locks
    BY DEF UdtTypeOK, Holdings
  <2> QED
    BY <2>1 DEF SumFunction
<1>2. \A t, h : SumFunction([a \in Addresses |-> AsOfHeight(balance[t][a], h, 0)]) =
        SumFunctionOnSet([a \in Addresses |-> AsOfHeight(balance[t][a], h, 0)], Addresses)
  BY DEF SumFunction
<1> QED
  BY <1>1, <1>2 DEF SupplyIsCells, SupplyAddsUp, SupplyAdds, NoSupply

\* A balance as of a height is a number.
LEMMA BalanceType ==
  ASSUME Height \in Nat, UdtTypeOK, NEW t \in Tokens, NEW a \in Addresses, NEW h \in 0..Height
  PROVE  AsOfHeight(balance[t][a], h, 0) \in Int
<1>1. DOMAIN balance[t][a] \subseteq 0..Height /\ Range(balance[t][a]) \subseteq Int
  BY DEF UdtTypeOK
<1>2. \A k \in DOMAIN balance[t][a] : balance[t][a][k] \in Int
  BY <1>1 DEF Range
<1> QED
  BY <1>1, <1>2, AsOfIsRow

LEMMA UdtStarts == UdtInit => UdtInv
<1> SUFFICES ASSUME UdtInit PROVE UdtInv
  OBVIOUS
<1> DEFINE start == [held |-> [t \in Tokens |-> [l \in Locks |-> 0]],
                     issued |-> {}, info |-> [t \in Tokens |-> NoInfo]]
<1>1. /\ DOMAIN ledger = {0} /\ ledger[0] = start
      /\ info = [t \in Tokens |-> <<>>]
      /\ balance = [t \in Tokens |-> [a \in Addresses |-> <<>>]]
      /\ open = 0 /\ fallback = {}
  BY DEF UdtInit
<1>2. Height = 0 /\ 0..Height = {0}
  <2>1. Max({0}) = 0
    BY MaxIs
  <2> QED
    BY <1>1, <2>1 DEF Height
<1>3. UdtTypeOK
  <2>1. /\ start.held \in Holdings /\ start.issued \subseteq Tokens
        /\ start.info \in [Tokens -> Infos \cup {NoInfo}]
    BY BoundsAssumption DEF Holdings, Amounts
  <2>2. Range(<<>>) = {} /\ DOMAIN <<>> = {}
    BY DEF Range
  <2> QED
    BY <1>1, <1>2, <2>1, <2>2, BoundsAssumption DEF UdtTypeOK
<1>4. InfoStays
  BY <1>1, <1>2 DEF InfoStays
<1>5. InfoIsFirst
  BY <1>1, <1>2, NoRows DEF InfoIsFirst
<1>6. SupplyIsCells
  <2>1. ASSUME NEW t \in Tokens PROVE SupplyAdds(t, 0)
    <3>1. AsOfHeight(info[t], 0, NoSupply).supply = 0
      BY <1>1, NoRows DEF NoSupply
    <3>2. SumFunctionOnSet(ledger[0].held[t], Locks) = 0
      <4>1. \A l \in Locks : ledger[0].held[t][l] = 0
        BY <1>1
      <4> QED
        BY <4>1, LocksAssumption, SumOfZeros
    <3>3. SumFunctionOnSet([a \in Addresses |-> AsOfHeight(balance[t][a], 0, 0)], Addresses) = 0
      <4> DEFINE f == [a \in Addresses |-> AsOfHeight(balance[t][a], 0, 0)]
      <4>1. \A a \in Addresses : f[a] = 0
        BY <1>1, NoRows
      <4> HIDE DEF f
      <4>2. SumFunctionOnSet(f, Addresses) = 0
        BY <4>1, AddressesAreFinite, SumOfZeros
      <4> QED
        BY <4>2 DEF f
    <3> QED
      BY <3>1, <3>2, <3>3 DEF SupplyAdds
  <2> QED
    BY <1>2, <1>3, <2>1, SupplyIsSum DEF SupplyAddsUp
<1>7. BalancesAreCells
  <2>1. ASSUME NEW t \in Tokens, NEW a \in Addresses
        PROVE  AsOfHeight(balance[t][a], 0, 0) =
                 SumFunctionOnSet(ledger[0].held[t], {l \in Locks : TrueAddress(l) = a})
    <3> DEFINE theirs == {l \in Locks : TrueAddress(l) = a}
    <3>1. IsFiniteSet(theirs) /\ \A l \in theirs : ledger[0].held[t][l] = 0
      BY <1>1, LocksAssumption, FS_Subset
    <3>2. AsOfHeight(balance[t][a], 0, 0) = 0
      BY <1>1, NoRows
    <3> HIDE DEF theirs
    <3>3. SumFunctionOnSet(ledger[0].held[t], theirs) = 0
      BY <3>1, SumOfZeros
    <3> QED
      BY <3>2, <3>3 DEF theirs
  <2> QED
    BY <1>2, <2>1 DEF BalancesAreCells
<1> QED
  BY <1>2, <1>3, <1>4, <1>5, <1>6, <1>7 DEF UdtInv

\* A new block starts with what the chain was; no row is of its height yet.
LEMMA NewBlockFacts ==
  ASSUME UdtInv, NewBlock
  PROVE  /\ Height' = Height + 1 /\ Height' \in Nat /\ Height' <= MaxHeight
         /\ DOMAIN ledger' = 0..(Height + 1)
         /\ \A h \in 0..Height : ledger'[h] = ledger[h]
         /\ ledger'[Height + 1] = ledger[Height]
         /\ info' = info /\ balance' = balance /\ fallback' = fallback /\ open' = MaxTxs
         /\ Height \in Nat
<1>1. Height \in Nat /\ Height < MaxHeight /\ MaxHeight \in Nat
  BY BoundsAssumption DEF UdtInv, NewBlock
<1>2. ledger' = [h \in 0..(Height + 1) |-> IF h > Height THEN Now ELSE ledger[h]]
  BY DEF NewBlock
<1>3. Height' = Height + 1
  <2>1. Max(0..(Height + 1)) = Height + 1
    BY <1>1, MaxOfRange
  <2> QED
    BY <1>2, <2>1 DEF Height
<1> QED
  BY <1>1, <1>2, <1>3 DEF NewBlock, Now

\* What a history says at the new height is what it said at the one before.
LEMMA NewBlockAsOf ==
  ASSUME Height \in Nat, NEW history, DOMAIN history \subseteq 0..Height, NEW none
  PROVE  AsOfHeight(history, Height + 1, none) = AsOfHeight(history, Height, none)
BY AsOfNewest

LEMMA NewBlockKeeps == UdtInv /\ NewBlock => UdtInv'
<1> SUFFICES ASSUME UdtInv, NewBlock PROVE UdtInv'
  OBVIOUS
<1>1. /\ Height' = Height + 1 /\ Height' \in Nat /\ Height' <= MaxHeight
      /\ DOMAIN ledger' = 0..(Height + 1)
      /\ \A h \in 0..Height : ledger'[h] = ledger[h]
      /\ ledger'[Height + 1] = ledger[Height]
      /\ info' = info /\ balance' = balance /\ fallback' = fallback /\ open' = MaxTxs
      /\ Height \in Nat
  BY NewBlockFacts
<1>2. UdtTypeOK /\ InfoStays /\ InfoIsFirst /\ SupplyIsCells /\ BalancesAreCells
  BY DEF UdtInv
\* Each height there is now looks like one there was.
<1> DEFINE Before(h) == IF h = Height + 1 THEN Height ELSE h
<1>3. ASSUME NEW h \in 0..Height'
      PROVE  /\ Before(h) \in 0..Height /\ ledger'[h] = ledger[Before(h)]
             /\ \A t \in Tokens : \A none :
                  /\ AsOfHeight(info'[t], h, none) = AsOfHeight(info[t], Before(h), none)
                  /\ \A a \in Addresses : AsOfHeight(balance'[t][a], h, none) =
                                          AsOfHeight(balance[t][a], Before(h), none)
  <2>1. Before(h) \in 0..Height /\ ledger'[h] = ledger[Before(h)]
    BY <1>1
  <2>2. \A t \in Tokens : /\ DOMAIN info[t] \subseteq 0..Height
                          /\ \A a \in Addresses : DOMAIN balance[t][a] \subseteq 0..Height
    BY <1>2 DEF UdtTypeOK
  <2>3. \A t \in Tokens : \A none :
          /\ AsOfHeight(info[t], h, none) = AsOfHeight(info[t], Before(h), none)
          /\ \A a \in Addresses : AsOfHeight(balance[t][a], h, none) =
                                  AsOfHeight(balance[t][a], Before(h), none)
    BY <1>1, <2>2, NewBlockAsOf
  <2> QED
    BY <1>1, <2>1, <2>3
<1>4. \A h, k \in 0..Height' : h <= k => Before(h) <= Before(k)
  BY <1>1
<1> HIDE DEF Before
<1>5. UdtTypeOK'
  <2>1. \A h \in 0..Height' : /\ ledger'[h].held \in Holdings /\ ledger'[h].issued \subseteq Tokens
                              /\ ledger'[h].info \in [Tokens -> Infos \cup {NoInfo}]
    BY <1>2, <1>3 DEF UdtTypeOK
  <2>2. open' \in 0..MaxTxs
    BY <1>1, BoundsAssumption
  <2>3. \A t \in Tokens :
          /\ DOMAIN info'[t] \subseteq 0..Height' /\ Range(info'[t]) \subseteq InfoRows
          /\ \A a \in Addresses : /\ DOMAIN balance'[t][a] \subseteq 0..Height'
                                  /\ Range(balance'[t][a]) \subseteq Int
    <3>1. 0..Height \subseteq 0..Height'
      BY <1>1
    <3> QED
      BY <1>1, <1>2, <3>1 DEF UdtTypeOK
  <2>4. DOMAIN ledger' = 0..Height' /\ fallback' \subseteq RgbppLocks
    BY <1>1, <1>2 DEF UdtTypeOK
  <2> QED
    BY <1>1, <2>1, <2>2, <2>3, <2>4 DEF UdtTypeOK
<1>6. InfoStays'
  BY <1>2, <1>3, <1>4 DEF InfoStays
<1>7. InfoIsFirst'
  <2>1. ASSUME NEW t \in Tokens, NEW h \in 0..Height'
        PROVE  AsOfHeight(info'[t], h, [info |-> NoInfo]).info = ledger'[h].info[t]
    <3>1. AsOfHeight(info[t], Before(h), [info |-> NoInfo]).info = ledger[Before(h)].info[t]
      BY <1>2, <1>3 DEF InfoIsFirst
    <3>2. AsOfHeight(info'[t], h, [info |-> NoInfo]) =
          AsOfHeight(info[t], Before(h), [info |-> NoInfo])
      BY <1>3
    <3> QED
      BY <1>3, <3>1, <3>2
  <2> QED
    BY <2>1 DEF InfoIsFirst
<1>8. SupplyIsCells'
  <2>1. ASSUME NEW t \in Tokens, NEW h \in 0..Height' PROVE SupplyAdds(t, h)'
    <3>1. SupplyAdds(t, Before(h))
      BY <1>2, <1>3, SupplyIsSum DEF SupplyAddsUp
    <3>2. [a \in Addresses |-> AsOfHeight(balance'[t][a], h, 0)] =
          [a \in Addresses |-> AsOfHeight(balance[t][a], Before(h), 0)]
      BY <1>3
    <3> QED
      BY <1>3, <3>1, <3>2 DEF SupplyAdds
  <2>2. UdtTypeOK' => (SupplyIsCells' <=> SupplyAddsUp')
    BY SupplyIsSum, PTL
  <2> QED
    BY <1>5, <2>1, <2>2 DEF SupplyAddsUp
<1>9. BalancesAreCells'
  <2> SUFFICES ASSUME fallback' = {}, NEW t \in Tokens, NEW a \in Addresses, NEW h \in 0..Height'
               PROVE  AsOfHeight(balance'[t][a], h, 0) =
                        SumFunctionOnSet(ledger'[h].held[t], {l \in Locks : TrueAddress(l) = a})
    BY DEF BalancesAreCells
  <2>1. AsOfHeight(balance[t][a], Before(h), 0) =
          SumFunctionOnSet(ledger[Before(h)].held[t], {l \in Locks : TrueAddress(l) = a})
    BY <1>1, <1>2, <1>3 DEF BalancesAreCells
  <2> QED
    BY <1>3, <2>1
<1> QED
  BY <1>1, <1>5, <1>6, <1>7, <1>8, <1>9 DEF UdtInv

(***************************************************************************)
(* Rolling back                                                            *)
(***************************************************************************)

LEMMA RollBackFacts ==
  ASSUME UdtInv, RollBack
  PROVE  /\ Height \in Nat /\ Height > 0 /\ Height' = Height - 1 /\ Height' \in Nat
         /\ 0..Height' \subseteq 0..Height
         /\ DOMAIN ledger' = 0..(Height - 1)
         /\ \A h \in 0..(Height - 1) : ledger'[h] = ledger[h]
<1>1. Height \in Nat /\ Height > 0
  BY DEF UdtInv, RollBack
<1>2. ledger' = [h \in 0..(Height - 1) |-> ledger[h]]
  BY DEF RollBack, Restrict
<1>3. Height' = Height - 1
  <2>1. Max(0..(Height - 1)) = Height - 1
    BY <1>1, MaxOfRange
  <2> QED
    BY <1>2, <2>1 DEF Height
<1> QED
  BY <1>1, <1>2, <1>3

\* The rows that are left are some of those there were, and say the same.
LEMMA RollBackRows ==
  ASSUME UdtInv, RollBack, NEW t \in Tokens
  PROVE  /\ DOMAIN info'[t] \subseteq 0..Height' /\ Range(info'[t]) \subseteq Range(info[t])
         /\ \A h \in 0..Height' : \A none :
              AsOfHeight(info'[t], h, none) = AsOfHeight(info[t], h, none)
         /\ \A a \in Addresses :
              /\ DOMAIN balance'[t][a] \subseteq 0..Height'
              /\ Range(balance'[t][a]) \subseteq Range(balance[t][a])
              /\ \A h \in 0..Height' :
                   AsOfHeight(balance'[t][a], h, 0) = AsOfHeight(balance[t][a], h, 0)
<1>1. /\ Height \in Nat /\ Height > 0 /\ Height' = Height - 1
  BY RollBackFacts
<1>2. /\ DOMAIN info[t] \subseteq 0..Height
      /\ \A a \in Addresses : DOMAIN balance[t][a] \subseteq 0..Height
  BY DEF UdtInv, UdtTypeOK
<1>3. /\ info'[t] = Below(info[t], Height)
      /\ \A a \in Addresses : balance'[t][a] = Below(balance[t][a], Height)
  BY DEF RollBack, Below
<1>4. DOMAIN info'[t] \subseteq 0..(Height - 1) /\ Range(info'[t]) \subseteq Range(info[t])
  BY <1>3, BelowIsPart, BelowRange
<1>5. \A a \in Addresses : /\ DOMAIN balance'[t][a] \subseteq 0..(Height - 1)
                           /\ Range(balance'[t][a]) \subseteq Range(balance[t][a])
  <2>1. ASSUME NEW a \in Addresses
        PROVE  /\ DOMAIN balance'[t][a] \subseteq 0..(Height - 1)
               /\ Range(balance'[t][a]) \subseteq Range(balance[t][a])
    <3>1. balance'[t][a] = Below(balance[t][a], Height)
      BY <1>3
    <3>2. DOMAIN balance[t][a] \subseteq 0..Height
      BY <1>2
    <3>3. DOMAIN Below(balance[t][a], Height) \subseteq 0..(Height - 1)
      BY <1>1, <3>2, BelowIsPart
    <3>4. Range(Below(balance[t][a], Height)) \subseteq Range(balance[t][a])
      BY <1>1, <3>2, BelowRange
    <3> QED
      BY <3>1, <3>3, <3>4
  <2> QED
    BY <2>1
<1>6. \A h \in 0..(Height - 1) : \A none :
        AsOfHeight(info'[t], h, none) = AsOfHeight(info[t], h, none)
  BY <1>1, <1>2, <1>3, BelowCounts
<1>7. \A a \in Addresses, h \in 0..(Height - 1) : \A none :
        AsOfHeight(balance'[t][a], h, none) = AsOfHeight(balance[t][a], h, none)
  BY <1>1, <1>2, <1>3, BelowCounts
<1> QED
  BY <1>1, <1>4, <1>5, <1>6, <1>7

LEMMA RollBackKeeps == UdtInv /\ RollBack => UdtInv'
<1> SUFFICES ASSUME UdtInv, RollBack PROVE UdtInv'
  OBVIOUS
<1>1. /\ Height \in Nat /\ Height' = Height - 1 /\ Height' \in Nat
      /\ 0..Height' \subseteq 0..Height /\ DOMAIN ledger' = 0..Height'
      /\ \A h \in 0..Height' : ledger'[h] = ledger[h]
      /\ fallback' = fallback /\ open' = 0
  BY RollBackFacts DEF RollBack
<1>2. UdtTypeOK /\ InfoStays /\ InfoIsFirst /\ SupplyIsCells /\ BalancesAreCells
  BY DEF UdtInv
<1>3. \A t \in Tokens :
        /\ DOMAIN info'[t] \subseteq 0..Height' /\ Range(info'[t]) \subseteq Range(info[t])
        /\ \A h \in 0..Height' : \A none :
             AsOfHeight(info'[t], h, none) = AsOfHeight(info[t], h, none)
        /\ \A a \in Addresses :
             /\ DOMAIN balance'[t][a] \subseteq 0..Height'
             /\ Range(balance'[t][a]) \subseteq Range(balance[t][a])
             /\ \A h \in 0..Height' :
                  AsOfHeight(balance'[t][a], h, 0) = AsOfHeight(balance[t][a], h, 0)
  BY RollBackRows
<1>4. UdtTypeOK'
  <2>1. Height' <= MaxHeight
    BY <1>1, <1>2, BoundsAssumption DEF UdtTypeOK
  <2>2. \A h \in 0..Height' : /\ ledger'[h].held \in Holdings /\ ledger'[h].issued \subseteq Tokens
                              /\ ledger'[h].info \in [Tokens -> Infos \cup {NoInfo}]
    BY <1>1, <1>2 DEF UdtTypeOK
  <2>3. \A t \in Tokens :
          /\ DOMAIN info'[t] \subseteq 0..Height' /\ Range(info'[t]) \subseteq InfoRows
          /\ \A a \in Addresses : /\ DOMAIN balance'[t][a] \subseteq 0..Height'
                                  /\ Range(balance'[t][a]) \subseteq Int
    BY <1>2, <1>3 DEF UdtTypeOK
  <2>4. open' \in 0..MaxTxs /\ fallback' \subseteq RgbppLocks
    BY <1>1, <1>2, BoundsAssumption DEF UdtTypeOK
  <2> QED
    BY <1>1, <2>1, <2>2, <2>3, <2>4 DEF UdtTypeOK
<1>5. InfoStays'
  BY <1>1, <1>2 DEF InfoStays
<1>6. InfoIsFirst'
  BY <1>1, <1>2, <1>3 DEF InfoIsFirst
<1>7. SupplyIsCells'
  <2>1. ASSUME NEW t \in Tokens, NEW h \in 0..Height' PROVE SupplyAdds(t, h)'
    <3>1. SupplyAdds(t, h)
      BY <1>1, <1>2, SupplyIsSum DEF SupplyAddsUp
    <3>2. [a \in Addresses |-> AsOfHeight(balance'[t][a], h, 0)] =
          [a \in Addresses |-> AsOfHeight(balance[t][a], h, 0)]
      BY <1>3
    <3>3. ledger'[h] = ledger[h] /\ AsOfHeight(info'[t], h, NoSupply) = AsOfHeight(info[t], h, NoSupply)
      BY <1>1, <1>3
    <3> QED
      BY <3>1, <3>2, <3>3 DEF SupplyAdds
  <2>2. UdtTypeOK' => (SupplyIsCells' <=> SupplyAddsUp')
    BY SupplyIsSum, PTL
  <2> QED
    BY <1>4, <2>1, <2>2 DEF SupplyAddsUp
<1>8. BalancesAreCells'
  <2> SUFFICES ASSUME fallback' = {}, NEW t \in Tokens, NEW a \in Addresses, NEW h \in 0..Height'
               PROVE  AsOfHeight(balance'[t][a], h, 0) =
                        SumFunctionOnSet(ledger'[h].held[t], {l \in Locks : TrueAddress(l) = a})
    BY DEF BalancesAreCells
  <2>1. AsOfHeight(balance[t][a], h, 0) =
          SumFunctionOnSet(ledger[h].held[t], {l \in Locks : TrueAddress(l) = a})
    BY <1>1, <1>2 DEF BalancesAreCells
  <2> QED
    BY <1>1, <1>3, <2>1
<1> QED
  BY <1>1, <1>4, <1>5, <1>6, <1>7, <1>8 DEF UdtInv

(***************************************************************************)
(* A transaction                                                           *)
(***************************************************************************)

\* IndexTx of this transaction, with its locks taken for these addresses and
\* this info seen of each token.
Indexed(tx, from, to, seen) ==
  /\ tx \in Txs /\ Valid(tx)
  /\ from \in Resolutions(UnionRange(tx.inputs))
  /\ to \in Resolutions(UnionRange(tx.outputs))
  /\ \A t \in Tokens : seen[t] \in SeenInfos(t)
  /\ SaveDiffs(tx, from, to, seen)
  /\ ledger' = [ledger EXCEPT ![Height] = After(tx)]
  /\ fallback' = fallback \cup {l \in RgbppLocks :
                    \/ l \in DOMAIN from /\ from[l] # BtcAddress[l]
                    \/ l \in DOMAIN to /\ to[l] # BtcAddress[l]}
  /\ open > 0 /\ open' = open - 1

LEMMA IndexTxIs == IndexTx => \E tx, from, to, seen : Indexed(tx, from, to, seen)
BY DEF IndexTx, Indexed

LEMMA ResolutionsCover ==
  ASSUME NEW tx \in Txs, NEW t \in Tokens, NEW from \in Resolutions(UnionRange(tx.inputs)),
         NEW to \in Resolutions(UnionRange(tx.outputs))
  PROVE  /\ \A l \in tx.inputs[t] : l \in DOMAIN from /\ from[l] \in ScriptToAddress[l]
         /\ \A l \in tx.outputs[t] : l \in DOMAIN to /\ to[l] \in ScriptToAddress[l]
<1>1. DOMAIN tx.inputs = Tokens /\ DOMAIN tx.outputs = Tokens
  BY DEF Txs
<1>2. /\ \A l \in tx.inputs[t] : l \in UnionRange(tx.inputs)
      /\ \A l \in tx.outputs[t] : l \in UnionRange(tx.outputs)
  BY <1>1 DEF UnionRange, Range
<1> QED
  BY <1>2 DEF Resolutions

\* The chain after the transaction.
LEMMA IndexedLedger ==
  ASSUME UdtInv, NEW tx, NEW from, NEW to, NEW seen, Indexed(tx, from, to, seen)
  PROVE  /\ Height' = Height /\ Height \in Nat
         /\ DOMAIN ledger' = 0..Height
         /\ ledger'[Height] = After(tx)
         /\ \A h \in 0..Height : h # Height => ledger'[h] = ledger[h]
<1>1. Height \in Nat /\ DOMAIN ledger = 0..Height
  BY DEF UdtInv, UdtTypeOK
<1>2. ledger' = [ledger EXCEPT ![Height] = After(tx)]
  BY DEF Indexed
<1>3. DOMAIN ledger' = DOMAIN ledger
  BY <1>2
<1>4. Height' = Height
  BY <1>3 DEF Height
<1>5. Height \in DOMAIN ledger
  BY <1>1
<1> HIDE DEF Height
<1> QED
  BY <1>1, <1>2, <1>3, <1>4, <1>5

\* The balances after it: for every address, affected or not, as of the newest
\* height what there was and the difference; below, what there was.
LEMMA IndexedBalances ==
  ASSUME UdtInv, NEW tx, NEW from, NEW to, NEW seen, Indexed(tx, from, to, seen),
         NEW t \in Tokens, NEW a \in Addresses
  PROVE  /\ DOMAIN balance'[t][a] \subseteq 0..Height /\ Range(balance'[t][a]) \subseteq Int
         /\ AsOfHeight(balance[t][a], Height, 0) \in Int /\ Diff(tx, t, from, to, a) \in Int
         /\ AsOfHeight(balance'[t][a], Height, 0) =
              AsOfHeight(balance[t][a], Height, 0) + Diff(tx, t, from, to, a)
         /\ \A h \in 0..Height : h # Height =>
              AsOfHeight(balance'[t][a], h, 0) = AsOfHeight(balance[t][a], h, 0)
<1> DEFINE rows == balance[t][a]
           new == Existed(rows, 0) + Diff(tx, t, from, to, a)
<1>1. /\ Height \in Nat /\ DOMAIN rows \subseteq 0..Height /\ \A k \in DOMAIN rows : rows[k] \in Int
      /\ tx \in Txs
  BY DEF UdtInv, UdtTypeOK, Range, Indexed
<1>2. balance'[t][a] = IF t \in UdtTypesIn(tx) /\ a \in Affected(tx, t, from, to)
                         THEN Saved(rows, new) ELSE rows
  BY DEF Indexed, SaveDiffs
<1>3. /\ Diff(tx, t, from, to, a) \in Int
      /\ a \notin Affected(tx, t, from, to) => Diff(tx, t, from, to, a) = 0
  <2>1. /\ \A l \in tx.inputs[t] : from[l] \in ScriptToAddress[l] /\ l \in Locks
        /\ \A l \in tx.outputs[t] : to[l] \in ScriptToAddress[l] /\ l \in Locks
    BY <1>1, ResolutionsCover, TxFacts DEF Indexed
  <2>2. /\ \A l \in tx.inputs[t] : from[l] \in Addresses
        /\ \A l \in tx.outputs[t] : to[l] \in Addresses
    BY <2>1, ScriptToAddressIs
  <2> QED
    BY <1>1, <2>2, DiffFacts
<1>4. t \notin UdtTypesIn(tx) => a \notin Affected(tx, t, from, to)
  BY DEF UdtTypesIn, Affected
<1>5. AsOfHeight(rows, Height, 0) = Existed(rows, 0) /\ AsOfHeight(rows, Height, 0) \in Int
  <2>1. AsOfHeight(rows, Height, 0) = Existed(rows, 0)
    <3> HIDE DEF rows
    <3> QED
      BY <1>1, AsOfNewest
  <2>2. AsOfHeight(rows, Height, 0) \in Int
    <3>1. Height \in 0..Height
      BY <1>1
    <3> QED
      BY <3>1, BalanceType DEF UdtInv
  <2> QED
    BY <2>1, <2>2
<1> HIDE DEF rows
<1>6. CASE t \in UdtTypesIn(tx) /\ a \in Affected(tx, t, from, to)
  <2>1. new \in Int /\ new = AsOfHeight(rows, Height, 0) + Diff(tx, t, from, to, a)
    BY <1>3, <1>5
  <2> HIDE DEF new
  <2>2. balance'[t][a] = Saved(rows, new)
    BY <1>2, <1>6
  <2>3. /\ DOMAIN Saved(rows, new) = DOMAIN rows \cup {Height}
        /\ \A none : AsOfHeight(Saved(rows, new), Height, none) = new
        /\ \A none : \A h \in 0..Height : h # Height =>
             AsOfHeight(Saved(rows, new), h, none) = AsOfHeight(rows, h, none)
    <3>1. DOMAIN Saved(rows, new) = DOMAIN rows \cup {Height}
      BY Zenon, SavedDomain
    <3>2. \A none : AsOfHeight(Saved(rows, new), Height, none) = new
      BY <1>1, SavedAtNewest
    <3>3. \A none : \A h \in 0..Height : h # Height =>
            AsOfHeight(Saved(rows, new), h, none) = AsOfHeight(rows, h, none)
      BY <1>1, SavedBelow
    <3> QED
      BY <3>1, <3>2, <3>3
  <2>4. Range(Saved(rows, new)) \subseteq Int
    BY <1>1, <2>1 DEF Saved, Range
  <2>5. Height \in 0..Height
    BY <1>1
  <2> QED
    BY <1>1, <1>3, <1>5, <2>1, <2>2, <2>3, <2>4, <2>5 DEF rows
<1>7. CASE ~(t \in UdtTypesIn(tx) /\ a \in Affected(tx, t, from, to))
  <2>1. balance'[t][a] = rows
    BY <1>2, <1>7
  <2>2. Diff(tx, t, from, to, a) = 0
    BY <1>3, <1>4, <1>7
  <2>3. Range(rows) \subseteq Int
    BY <1>1 DEF Range
  <2> QED
    BY <1>1, <1>5, <2>1, <2>2, <2>3 DEF rows
<1> QED
  BY <1>6, <1>7

\* The row that is read, whether there is one or not.
LEMMA ExistedInfo ==
  ASSUME UdtInv, NEW t \in Tokens, NEW tx, NEW issued \in BOOLEAN
  PROVE  LET row == Existed(info[t], NewRecord(tx, t, issued)) IN
         /\ row \in InfoRows
         /\ row.supply = AsOfHeight(info[t], Height, NoSupply).supply
         /\ row.info = AsOfHeight(info[t], Height, NotSeen).info
<1> DEFINE row == Existed(info[t], NewRecord(tx, t, issued))
<1>1. /\ Height \in Nat /\ DOMAIN info[t] \subseteq 0..Height
      /\ \A k \in DOMAIN info[t] : info[t][k] \in InfoRows
  BY DEF UdtInv, UdtTypeOK, Range
<1>2. \A none : AsOfHeight(info[t], Height, none) = Existed(info[t], none)
  BY <1>1, AsOfNewest
<1>3. CASE DOMAIN info[t] = {}
  <2>1. \A none : Existed(info[t], none) = none
    BY <1>3 DEF Existed
  <2>2. NewRecord(tx, t, issued) \in InfoRows
    BY DEF NewRecord, InfoRows
  <2>3. NewRecord(tx, t, issued).supply = NoSupply.supply /\ NewRecord(tx, t, issued).info = NotSeen.info
    BY DEF NewRecord, NoSupply, NotSeen
  <2> QED
    BY <1>2, <2>1, <2>2, <2>3
<1>4. CASE DOMAIN info[t] # {}
  <2>1. \A none : Existed(info[t], none) = info[t][Max(DOMAIN info[t])]
    BY <1>4 DEF Existed
  <2>2. Max(DOMAIN info[t]) \in DOMAIN info[t]
    BY <1>1, <1>4, MaxExists
  <2> QED
    BY <1>1, <1>2, <2>1, <2>2
<1> QED
  BY <1>3, <1>4

\* What InfoInTx finds.
LEMMA InfoInTxType ==
  ASSUME NEW tx \in Txs, NEW t \in Tokens, NEW seen
  PROVE  InfoInTx(tx, t, seen) \in Infos \cup {NoInfo}
BY TxFacts, SsriAssumption DEF InfoInTx

\* As long as the chain has shown no info, no row has any: it does not matter
\* which one was read.
LEMMA SeenNothing ==
  ASSUME UdtInv, NEW t \in Tokens, Now.info[t] = NoInfo, NEW seen \in SeenInfos(t)
  PROVE  seen = NoInfo
<1>1. /\ Height \in Nat /\ DOMAIN info[t] \subseteq 0..Height /\ InfoStays /\ InfoIsFirst
  BY DEF UdtInv, UdtTypeOK
<1>2. ASSUME NEW h \in DOMAIN info[t] PROVE info[t][h].info = NoInfo
  <2>1. h \in 0..Height /\ Height \in 0..Height /\ h <= Height
    BY <1>1
  <2>2. AsOfHeight(info[t], h, NotSeen) = info[t][h]
    BY <1>1, AsOfRow
  <2>3. AsOfHeight(info[t], h, NotSeen).info = ledger[h].info[t]
    BY <1>1, <2>1 DEF InfoIsFirst, NotSeen
  <2>4. ledger[h].info[t] # NoInfo => ledger[Height].info[t] = ledger[h].info[t]
    BY <1>1, <2>1 DEF InfoStays
  <2> QED
    BY <2>2, <2>3, <2>4 DEF Now
<1>3. \A x \in {info[t][h].info : h \in {k \in DOMAIN info[t] : k < Height}} : x = NoInfo
  BY <1>2
<1> QED
  BY <1>3 DEF SeenInfos

\* The info rows after it, likewise; its info is the first the chain shows.
LEMMA IndexedInfo ==
  ASSUME UdtInv, NEW tx, NEW from, NEW to, NEW seen, Indexed(tx, from, to, seen),
         NEW t \in Tokens
  PROVE  /\ DOMAIN info'[t] \subseteq 0..Height /\ Range(info'[t]) \subseteq InfoRows
         /\ AsOfHeight(info[t], Height, NoSupply).supply \in Int
         /\ AsOfHeight(info'[t], Height, NoSupply).supply =
              AsOfHeight(info[t], Height, NoSupply).supply + NetBalance(tx, t)
         /\ AsOfHeight(info'[t], Height, NotSeen).info = After(tx).info[t]
         /\ \A h \in 0..Height : \A none : h # Height =>
              AsOfHeight(info'[t], h, none) = AsOfHeight(info[t], h, none)
<1> DEFINE rows == info[t]
           issued == \E a \in Addresses : Diff(tx, t, from, to, a) > 0
           row == Existed(rows, NewRecord(tx, t, issued))
           found == InfoInTx(tx, t, seen[t])
           new == InfoRow(tx, t, from, to, seen[t])
<1>1. /\ Height \in Nat /\ Height \in 0..Height /\ DOMAIN rows \subseteq 0..Height
      /\ \A k \in DOMAIN rows : rows[k] \in InfoRows
      /\ tx \in Txs /\ seen[t] \in SeenInfos(t) /\ InfoIsFirst
  BY DEF UdtInv, UdtTypeOK, Range, Indexed
<1>2. info'[t] = IF t \in UdtTypesIn(tx) THEN Saved(rows, new) ELSE rows
  BY DEF Indexed, SaveDiffs
<1>3. /\ row \in InfoRows
      /\ row.supply = AsOfHeight(rows, Height, NoSupply).supply
      /\ row.info = AsOfHeight(rows, Height, NotSeen).info
  <2>1. issued \in BOOLEAN
    OBVIOUS
  <2> HIDE DEF issued
  <2> QED
    BY <1>1, <2>1, ExistedInfo
<1>4. row.info = Now.info[t] /\ row.supply \in Int /\ row.info \in Infos \cup {NoInfo}
  BY <1>1, <1>3 DEF InfoIsFirst, NotSeen, Now, InfoRows
<1>5. After(tx).info[t] = IF Now.info[t] # NoInfo \/ t \notin UdtTypesIn(tx) THEN Now.info[t]
                          ELSE InfoInTx(tx, t, NoInfo)
  BY DEF After
<1>6. NetBalance(tx, t) \in Int /\ found \in Infos \cup {NoInfo}
  BY <1>1, NetBalanceIs, InfoInTxType
<1>7. CASE t \in UdtTypesIn(tx)
  <2>1. new = [row EXCEPT !.supply = row.supply + NetBalance(tx, t),
                          !.info = InfoToKeep(row.info, found)]
    BY DEF InfoRow
  <2>2. /\ new.supply = row.supply + NetBalance(tx, t)
        /\ new.info = InfoToKeep(row.info, found)
        /\ new \in InfoRows
    <3> DEFINE supply == row.supply + NetBalance(tx, t)
               keep == InfoToKeep(row.info, found)
    <3>1. new = [row EXCEPT !.supply = supply, !.info = keep]
      BY <2>1
    <3> HIDE DEF row, found, new
    <3>2. keep \in Infos \cup {NoInfo}
      BY <1>4, <1>6 DEF InfoToKeep
    <3>3. supply \in Int
      BY <1>4, <1>6
    <3>4. row \in [supply : Int, info : Infos \cup {NoInfo}, owner : BOOLEAN]
      BY <1>3 DEF InfoRows
    <3> HIDE DEF supply, keep
    <3>5. new.supply = supply /\ new.info = keep /\ new \in InfoRows
      BY <3>1, <3>2, <3>3, <3>4 DEF InfoRows
    <3> QED
      BY <3>5 DEF supply, keep
  <2>3. new.info = After(tx).info[t]
    <3>1. CASE Now.info[t] # NoInfo
      BY <1>4, <1>5, <2>2, <3>1 DEF InfoToKeep
    <3>2. CASE Now.info[t] = NoInfo
      <4>1. seen[t] = NoInfo
        BY <1>1, <3>2, SeenNothing
      <4> QED
        BY <1>4, <1>5, <1>7, <2>2, <3>2, <4>1 DEF InfoToKeep
    <3> QED
      BY <3>1, <3>2
  <2> HIDE DEF new, row, rows, found
  <2>4. info'[t] = Saved(rows, new)
    BY <1>2, <1>7
  <2>5. DOMAIN Saved(rows, new) \subseteq 0..Height /\ Range(Saved(rows, new)) \subseteq InfoRows
    BY <1>1, <2>2 DEF Saved, Range
  <2>6. \A none : AsOfHeight(Saved(rows, new), Height, none) = new
    BY <1>1, SavedAtNewest
  <2>7. \A h \in 0..Height : \A none : h # Height =>
          AsOfHeight(Saved(rows, new), h, none) = AsOfHeight(rows, h, none)
    BY <1>1, SavedBelow
  <2>8. /\ AsOfHeight(info'[t], Height, NoSupply) = new
        /\ AsOfHeight(info'[t], Height, NotSeen) = new
    BY <2>4, <2>6
  <2>9. /\ AsOfHeight(info'[t], Height, NoSupply).supply =
             AsOfHeight(rows, Height, NoSupply).supply + NetBalance(tx, t)
        /\ AsOfHeight(rows, Height, NoSupply).supply \in Int
    BY <1>3, <1>4, <2>2, <2>8
  <2>10. AsOfHeight(info'[t], Height, NotSeen).info = After(tx).info[t]
    BY <2>3, <2>8
  <2> QED
    BY <2>4, <2>5, <2>7, <2>9, <2>10 DEF rows
<1>8. CASE t \notin UdtTypesIn(tx)
  <2>1. info'[t] = rows
    BY <1>2, <1>8
  <2>2. NetBalance(tx, t) = 0
    <3>1. tx.inputs[t] = {} /\ tx.outputs[t] = {}
      BY <1>8 DEF UdtTypesIn
    <3>2. \A l \in Locks : tx.spent[t][l] = 0 /\ tx.created[t][l] = 0
      BY <1>1, <3>1, TxFacts
    <3>3. SumFunctionOnSet(tx.spent[t], Locks) = 0 /\ SumFunctionOnSet(tx.created[t], Locks) = 0
      BY <3>2, LocksAssumption, SumOfZeros
    <3> QED
      BY <1>1, <3>3, NetBalanceIs
  <2>3. Range(rows) \subseteq InfoRows
    BY <1>1 DEF Range
  <2>4. After(tx).info[t] = row.info
    BY <1>4, <1>5, <1>8
  <2> HIDE DEF row, rows
  <2>5. /\ AsOfHeight(info'[t], Height, NoSupply).supply =
             AsOfHeight(rows, Height, NoSupply).supply + NetBalance(tx, t)
        /\ AsOfHeight(rows, Height, NoSupply).supply \in Int
    BY <1>3, <1>4, <2>1, <2>2
  <2>6. AsOfHeight(info'[t], Height, NotSeen).info = After(tx).info[t]
    BY <1>3, <2>1, <2>4
  <2> QED
    BY <1>1, <2>1, <2>3, <2>5, <2>6 DEF rows
<1> QED
  BY <1>7, <1>8

\* The chain says of each lock what it held, less what is spent, and more what
\* is created.
LEMMA AfterFacts ==
  ASSUME UdtInv, NEW tx \in Txs, Valid(tx)
  PROVE  /\ After(tx).held \in Holdings /\ After(tx).issued \subseteq Tokens
         /\ After(tx).info \in [Tokens -> Infos \cup {NoInfo}]
         /\ \A t \in Tokens : Now.info[t] # NoInfo => After(tx).info[t] = Now.info[t]
         /\ \A t \in Tokens, l \in Locks :
              /\ Now.held[t][l] \in Int /\ tx.spent[t][l] \in Int /\ tx.created[t][l] \in Int
              /\ After(tx).held[t][l] = Now.held[t][l] - tx.spent[t][l] + tx.created[t][l]
<1>1. Height \in 0..Height
  BY DEF UdtInv
<1>2. /\ Now.held \in Holdings /\ Now.issued \subseteq Tokens
      /\ Now.info \in [Tokens -> Infos \cup {NoInfo}]
  BY <1>1 DEF UdtInv, UdtTypeOK, Now
<1>3. ASSUME NEW t \in Tokens, NEW l \in Locks
      PROVE  /\ Now.held[t][l] \in Nat /\ tx.spent[t][l] \in Nat /\ tx.created[t][l] \in Nat
             /\ tx.spent[t][l] <= Now.held[t][l]
             /\ Now.held[t][l] - tx.spent[t][l] + tx.created[t][l] <= MaxAmount
  <2>1. Now.held[t][l] \in Amounts /\ tx.spent[t][l] \in Amounts /\ tx.created[t][l] \in Amounts
    BY <1>2, TxFacts DEF Holdings
  <2> QED
    BY <2>1, AmountsAreNumbers DEF Valid
<1>4. ASSUME NEW t \in Tokens, NEW l \in Locks
      PROVE  Now.held[t][l] - tx.spent[t][l] + tx.created[t][l] \in Amounts
  <2> DEFINE x == Now.held[t][l]
             y == tx.spent[t][l]
             z == tx.created[t][l]
  <2>1. x \in Nat /\ y \in Nat /\ z \in Nat /\ y <= x /\ x - y + z <= MaxAmount
    BY <1>3
  <2> HIDE DEF x, y, z
  <2>2. x - y + z \in Amounts
    BY <2>1, BoundsAssumption DEF Amounts
  <2> QED
    BY <2>2 DEF x, y, z
<1>5. After(tx).held = [t \in Tokens |-> [l \in Locks |->
                          Now.held[t][l] - tx.spent[t][l] + tx.created[t][l]]]
  BY DEF After
<1>6. After(tx).held \in Holdings
  BY <1>4, <1>5 DEF Holdings
<1>7. \A t \in Tokens, l \in Locks :
        /\ Now.held[t][l] \in Int /\ tx.spent[t][l] \in Int /\ tx.created[t][l] \in Int
        /\ After(tx).held[t][l] = Now.held[t][l] - tx.spent[t][l] + tx.created[t][l]
  BY <1>3, <1>5
<1>8. After(tx).issued \subseteq Tokens
  BY <1>2 DEF After, Txs
<1>9. /\ After(tx).info \in [Tokens -> Infos \cup {NoInfo}]
      /\ \A t \in Tokens : Now.info[t] # NoInfo => After(tx).info[t] = Now.info[t]
  BY <1>2, InfoInTxType DEF After
<1> QED
  BY <1>6, <1>7, <1>8, <1>9

\* If no address was mistaken, now or before, each was the right one.
LEMMA AddressesFound ==
  ASSUME NEW tx, NEW from, NEW to, NEW seen, Indexed(tx, from, to, seen), fallback' = {},
         NEW t \in Tokens
  PROVE  /\ fallback = {}
         /\ \A l \in tx.inputs[t] : from[l] = TrueAddress(l)
         /\ \A l \in tx.outputs[t] : to[l] = TrueAddress(l)
<1>1. /\ tx \in Txs /\ fallback = {}
      /\ \A l \in RgbppLocks : /\ l \in DOMAIN from => from[l] = BtcAddress[l]
                               /\ l \in DOMAIN to => to[l] = BtcAddress[l]
  BY DEF Indexed
<1>2. /\ \A l \in tx.inputs[t] : l \in DOMAIN from /\ from[l] \in ScriptToAddress[l] /\ l \in Locks
      /\ \A l \in tx.outputs[t] : l \in DOMAIN to /\ to[l] \in ScriptToAddress[l] /\ l \in Locks
  BY <1>1, ResolutionsCover, TxFacts DEF Indexed
<1> QED
  BY <1>1, <1>2, ScriptToAddressIs

\* The sums of a token after the transaction.
LEMMA IndexedSupply ==
  ASSUME UdtInv, NEW tx, NEW from, NEW to, NEW seen, Indexed(tx, from, to, seen),
         NEW t \in Tokens
  PROVE  /\ AsOfHeight(info'[t], Height, NoSupply).supply =
              SumFunctionOnSet(ledger'[Height].held[t], Locks)
         /\ AsOfHeight(info'[t], Height, NoSupply).supply =
              SumFunctionOnSet([a \in Addresses |-> AsOfHeight(balance'[t][a], Height, 0)], Addresses)
<1> DEFINE supply == AsOfHeight(info[t], Height, NoSupply).supply
           old == [a \in Addresses |-> AsOfHeight(balance[t][a], Height, 0)]
           new == [a \in Addresses |-> AsOfHeight(balance'[t][a], Height, 0)]
           diffs == [a \in Addresses |-> Diff(tx, t, from, to, a)]
           cells == Now.held[t]
           after == After(tx).held[t]
<1>1. Height \in 0..Height /\ tx \in Txs /\ Valid(tx) /\ ledger'[Height] = After(tx)
  <2>1. Height \in Nat /\ ledger'[Height] = After(tx)
    BY IndexedLedger
  <2> QED
    BY <2>1 DEF Indexed
<1>2. /\ supply \in Int
      /\ AsOfHeight(info'[t], Height, NoSupply).supply = supply + NetBalance(tx, t)
  BY IndexedInfo
<1>3. SupplyAdds(t, Height)
  BY <1>1, SupplyIsSum DEF UdtInv, SupplyAddsUp
<1>4. supply = SumFunctionOnSet(cells, Locks) /\ supply = SumFunctionOnSet(old, Addresses)
  BY <1>3 DEF SupplyAdds, Now
<1>5. \A l \in Locks : /\ cells[l] \in Int /\ tx.spent[t][l] \in Int /\ tx.created[t][l] \in Int
                       /\ after[l] = cells[l] - tx.spent[t][l] + tx.created[t][l]
  BY <1>1, AfterFacts
<1>6. \A a \in Addresses : old[a] \in Int /\ diffs[a] \in Int /\ new[a] = old[a] + diffs[a]
  BY IndexedBalances
<1>7. SumFunctionOnSet(diffs, Addresses) = NetBalance(tx, t)
  <2>1. /\ \A l \in tx.inputs[t] : from[l] \in ScriptToAddress[l] /\ l \in Locks
        /\ \A l \in tx.outputs[t] : to[l] \in ScriptToAddress[l] /\ l \in Locks
    BY <1>1, ResolutionsCover, TxFacts DEF Indexed
  <2>2. /\ \A l \in tx.inputs[t] : from[l] \in Addresses
        /\ \A l \in tx.outputs[t] : to[l] \in Addresses
    BY <2>1, ScriptToAddressIs
  <2> QED
    BY <1>1, <2>2, DiffFacts
<1> HIDE DEF supply, old, new, diffs, cells, after
<1>8. SumFunctionOnSet(new, Addresses) =
        SumFunctionOnSet(old, Addresses) + SumFunctionOnSet(diffs, Addresses)
  BY <1>6, AddressesAreFinite, SumOfIncrease
<1>9. SumFunctionOnSet(after, Locks) =
        SumFunctionOnSet(cells, Locks) - SumFunctionOnSet(tx.spent[t], Locks)
          + SumFunctionOnSet(tx.created[t], Locks)
  BY <1>5, LocksAssumption, SumOfChanges
<1>10. SumFunctionOnSet(after, Locks) = supply + NetBalance(tx, t)
  <2>1. /\ NetBalance(tx, t) = SumFunctionOnSet(tx.created[t], Locks)
                                 - SumFunctionOnSet(tx.spent[t], Locks)
        /\ SumFunctionOnSet(tx.created[t], Locks) \in Int
        /\ SumFunctionOnSet(tx.spent[t], Locks) \in Int
    BY <1>1, NetBalanceIs
  <2> DEFINE x == SumFunctionOnSet(tx.created[t], Locks)
             y == SumFunctionOnSet(tx.spent[t], Locks)
             net == NetBalance(tx, t)
             sum == SumFunctionOnSet(after, Locks)
  <2>2. net = x - y /\ x \in Int /\ y \in Int /\ sum = supply - y + x /\ supply \in Int
    BY <1>2, <1>4, <1>9, <2>1
  <2> HIDE DEF x, y, net, sum
  <2>3. sum = supply + net
    BY <2>2
  <2> QED
    BY <2>3 DEF sum, net
<1>11. SumFunctionOnSet(new, Addresses) = supply + NetBalance(tx, t)
  BY <1>4, <1>7, <1>8
<1> QED
  BY <1>1, <1>2, <1>10, <1>11 DEF new, after

\* The cells of an address after the transaction, if every address was found.
LEMMA IndexedCells ==
  ASSUME UdtInv, NEW tx, NEW from, NEW to, NEW seen, Indexed(tx, from, to, seen),
         fallback' = {}, NEW t \in Tokens, NEW a \in Addresses
  PROVE  AsOfHeight(balance'[t][a], Height, 0) =
           SumFunctionOnSet(ledger'[Height].held[t], {l \in Locks : TrueAddress(l) = a})
<1> DEFINE theirs == {l \in Locks : TrueAddress(l) = a}
           cells == Now.held[t]
           after == After(tx).held[t]
           old == AsOfHeight(balance[t][a], Height, 0)
           diff == Diff(tx, t, from, to, a)
<1>1. Height \in 0..Height /\ tx \in Txs /\ Valid(tx) /\ ledger'[Height] = After(tx)
  <2>1. Height \in Nat /\ ledger'[Height] = After(tx)
    BY IndexedLedger
  <2> QED
    BY <2>1 DEF Indexed
<1>2. old \in Int /\ diff \in Int /\ AsOfHeight(balance'[t][a], Height, 0) = old + diff
  BY IndexedBalances
<1>3. /\ fallback = {}
      /\ \A l \in tx.inputs[t] : from[l] = TrueAddress(l)
      /\ \A l \in tx.outputs[t] : to[l] = TrueAddress(l)
  BY AddressesFound
<1>4. old = SumFunctionOnSet(cells, theirs)
  <2>1. BalancesAreCells
    BY DEF UdtInv
  <2> QED
    BY <1>1, <1>3, <2>1, Zenon DEF BalancesAreCells, Now
<1>5. diff = SumFunctionOnSet(tx.created[t], theirs) - SumFunctionOnSet(tx.spent[t], theirs)
  <2>1. Diff(tx, t, from, to, a) = SumFunctionOnSet(tx.created[t], LocksOf(a))
                                     - SumFunctionOnSet(tx.spent[t], LocksOf(a))
    BY <1>1, <1>3, DiffOfTrue
  <2> QED
    BY <2>1 DEF LocksOf
<1>6. \A l \in theirs : /\ cells[l] \in Int /\ tx.spent[t][l] \in Int /\ tx.created[t][l] \in Int
                        /\ after[l] = cells[l] - tx.spent[t][l] + tx.created[t][l]
  BY <1>1, AfterFacts
<1>7. IsFiniteSet(theirs)
  BY LocksAssumption, FS_Subset
<1> HIDE DEF theirs, cells, after, old, diff
<1>8. SumFunctionOnSet(after, theirs) =
        SumFunctionOnSet(cells, theirs) - SumFunctionOnSet(tx.spent[t], theirs)
          + SumFunctionOnSet(tx.created[t], theirs)
  BY <1>6, <1>7, SumOfChanges
<1>9. SumFunctionOnSet(tx.spent[t], theirs) \in Int /\ SumFunctionOnSet(tx.created[t], theirs) \in Int
      /\ SumFunctionOnSet(cells, theirs) \in Int
  BY <1>6, <1>7, SumType
<1>10. AsOfHeight(balance'[t][a], Height, 0) = SumFunctionOnSet(after, theirs)
  BY <1>2, <1>4, <1>5, <1>8, <1>9
<1> QED
  BY <1>1, <1>10 DEF after, theirs

LEMMA IndexTxKeeps == UdtInv /\ IndexTx => UdtInv'
<1> SUFFICES ASSUME UdtInv, IndexTx PROVE UdtInv'
  OBVIOUS
<1>1. PICK tx, from, to, seen : Indexed(tx, from, to, seen)
  BY IndexTxIs
<1>2. /\ Height' = Height /\ Height \in Nat /\ Height \in 0..Height
      /\ DOMAIN ledger' = 0..Height /\ ledger'[Height] = After(tx)
      /\ \A h \in 0..Height : h # Height => ledger'[h] = ledger[h]
  BY <1>1, IndexedLedger
<1>3. UdtTypeOK /\ InfoStays /\ InfoIsFirst /\ SupplyIsCells /\ BalancesAreCells
  BY DEF UdtInv
<1>4. tx \in Txs /\ Valid(tx)
  BY <1>1 DEF Indexed
<1>5. /\ After(tx).held \in Holdings /\ After(tx).issued \subseteq Tokens
      /\ After(tx).info \in [Tokens -> Infos \cup {NoInfo}]
      /\ \A t \in Tokens : Now.info[t] # NoInfo => After(tx).info[t] = Now.info[t]
  BY <1>4, AfterFacts
<1>6. \A t \in Tokens : /\ DOMAIN info'[t] \subseteq 0..Height /\ Range(info'[t]) \subseteq InfoRows
                        /\ AsOfHeight(info'[t], Height, NotSeen).info = After(tx).info[t]
  BY <1>1, IndexedInfo
<1>7. \A t \in Tokens : \A h \in 0..Height : \A none : h # Height =>
        AsOfHeight(info'[t], h, none) = AsOfHeight(info[t], h, none)
  BY <1>1, IndexedInfo
<1>8. \A t \in Tokens, a \in Addresses :
        /\ DOMAIN balance'[t][a] \subseteq 0..Height /\ Range(balance'[t][a]) \subseteq Int
        /\ \A h \in 0..Height : h # Height =>
             AsOfHeight(balance'[t][a], h, 0) = AsOfHeight(balance[t][a], h, 0)
  BY <1>1, IndexedBalances
<1>9. UdtTypeOK'
  <2>1. \A h \in 0..Height' : /\ ledger'[h].held \in Holdings /\ ledger'[h].issued \subseteq Tokens
                              /\ ledger'[h].info \in [Tokens -> Infos \cup {NoInfo}]
    BY <1>2, <1>3, <1>5 DEF UdtTypeOK
  <2>2. open' \in 0..MaxTxs
    <3>1. open \in 0..MaxTxs /\ open > 0 /\ open' = open - 1
      BY <1>1, <1>3 DEF UdtTypeOK, Indexed
    <3> QED
      BY <3>1, BoundsAssumption
  <2>3. fallback' \subseteq RgbppLocks
    BY <1>1, <1>3 DEF UdtTypeOK, Indexed
  <2>4. Height' <= MaxHeight
    BY <1>2, <1>3 DEF UdtTypeOK
  <2> QED
    BY <1>2, <1>6, <1>8, <2>1, <2>2, <2>3, <2>4 DEF UdtTypeOK
<1>10. InfoStays'
  <2> SUFFICES ASSUME NEW t \in Tokens, NEW h \in 0..Height, NEW k \in 0..Height,
                      h <= k, ledger'[h].info[t] # NoInfo
               PROVE  ledger'[k].info[t] = ledger'[h].info[t]
    BY <1>2 DEF InfoStays
  <2>1. CASE h = Height
    <3>1. k = Height
      BY <1>2, <2>1
    <3> QED
      BY <2>1, <3>1
  <2>2. CASE h # Height
    <3>1. ledger'[h] = ledger[h] /\ ledger[k].info[t] = ledger[h].info[t]
      BY <1>2, <1>3, <2>2 DEF InfoStays
    <3>2. CASE k = Height
      BY <1>2, <1>5, <3>1, <3>2 DEF Now
    <3>3. CASE k # Height
      BY <1>2, <3>1, <3>3
    <3> QED
      BY <3>2, <3>3
  <2> QED
    BY <2>1, <2>2
<1>11. InfoIsFirst'
  <2> SUFFICES ASSUME NEW t \in Tokens, NEW h \in 0..Height
               PROVE  AsOfHeight(info'[t], h, NotSeen).info = ledger'[h].info[t]
    BY <1>2 DEF InfoIsFirst, NotSeen
  <2>1. CASE h = Height
    BY <1>2, <1>6, <2>1
  <2>2. CASE h # Height
    <3>1. AsOfHeight(info[t], h, NotSeen).info = ledger[h].info[t]
      BY <1>3 DEF InfoIsFirst, NotSeen
    <3> QED
      BY <1>2, <1>7, <2>2, <3>1
  <2> QED
    BY <2>1, <2>2
<1>12. SupplyIsCells'
  <2>1. ASSUME NEW t \in Tokens, NEW h \in 0..Height PROVE SupplyAdds(t, h)'
    <3>1. CASE h = Height
      BY <1>1, <3>1, IndexedSupply DEF SupplyAdds
    <3>2. CASE h # Height
      <4>1. SupplyAdds(t, h)
        BY <1>3, SupplyIsSum DEF SupplyAddsUp
      <4>2. [a \in Addresses |-> AsOfHeight(balance'[t][a], h, 0)] =
            [a \in Addresses |-> AsOfHeight(balance[t][a], h, 0)]
        BY <1>8, <3>2
      <4>3. /\ ledger'[h] = ledger[h]
            /\ AsOfHeight(info'[t], h, NoSupply) = AsOfHeight(info[t], h, NoSupply)
        BY <1>2, <1>7, <3>2
      <4> QED
        BY <4>1, <4>2, <4>3 DEF SupplyAdds
    <3> QED
      BY <3>1, <3>2
  <2>2. UdtTypeOK' => (SupplyIsCells' <=> SupplyAddsUp')
    BY SupplyIsSum, PTL
  <2> QED
    BY <1>2, <1>9, <2>1, <2>2 DEF SupplyAddsUp
<1>13. BalancesAreCells'
  <2> SUFFICES ASSUME fallback' = {}, NEW t \in Tokens, NEW a \in Addresses, NEW h \in 0..Height
               PROVE  AsOfHeight(balance'[t][a], h, 0) =
                        SumFunctionOnSet(ledger'[h].held[t], {l \in Locks : TrueAddress(l) = a})
    BY <1>2 DEF BalancesAreCells
  <2>1. CASE h = Height
    BY <1>1, <2>1, IndexedCells
  <2>2. CASE h # Height
    <3>1. fallback = {}
      BY <1>1, AddressesFound
    <3>2. AsOfHeight(balance[t][a], h, 0) =
            SumFunctionOnSet(ledger[h].held[t], {l \in Locks : TrueAddress(l) = a})
      BY <1>3, <3>1 DEF BalancesAreCells
    <3> QED
      BY <1>2, <1>8, <2>2, <3>2
  <2> QED
    BY <2>1, <2>2
<1> QED
  BY <1>2, <1>9, <1>10, <1>11, <1>12, <1>13 DEF UdtInv

LEMMA UdtInvStutters == UdtInv /\ UNCHANGED udtVars => UdtInv'
<1> SUFFICES ASSUME UdtInv, UNCHANGED udtVars PROVE UdtInv'
  OBVIOUS
<1>1. /\ ledger' = ledger /\ open' = open /\ info' = info /\ balance' = balance
      /\ fallback' = fallback
  BY DEF udtVars
<1>2. Height' = Height
  BY <1>1 DEF Height
<1>3. UdtTypeOK' /\ InfoStays' /\ InfoIsFirst'
  BY <1>1, <1>2 DEF UdtInv, UdtTypeOK, InfoStays, InfoIsFirst
<1>4. SupplyIsCells' /\ BalancesAreCells'
  BY <1>1, <1>2 DEF UdtInv, SupplyIsCells, BalancesAreCells
<1> QED
  BY <1>2, <1>3, <1>4 DEF UdtInv

(***************************************************************************)
(* Queries                                                                 *)
(***************************************************************************)

\* What an address holds of a token in live cells
Held(t, a) == SumFunctionOnSet(Now.held[t], {l \in Locks : TrueAddress(l) = a})

\* As long as every address was found, the newest row says it.
LEMMA ExistedIsHeld ==
  ASSUME UdtInv, fallback = {}, NEW t \in Tokens, NEW a \in Addresses
  PROVE  Existed(balance[t][a], 0) = Held(t, a)
<1>1. /\ Height \in Nat /\ Height \in 0..Height
      /\ DOMAIN balance[t][a] \subseteq 0..Height
      /\ BalancesAreCells
  BY DEF UdtInv, UdtTypeOK
<1>2. AsOfHeight(balance[t][a], Height, 0) = Held(t, a)
  BY <1>1 DEF BalancesAreCells, Held, Now
<1>3. ASSUME NEW history, DOMAIN history \subseteq 0..Height
      PROVE  AsOfHeight(history, Height, 0) = Existed(history, 0)
  <2>1. Height <= Height
    BY <1>1
  <2> QED
    BY <1>1, <1>3, <2>1, AsOfNewest
<1> QED
  BY <1>1, <1>2, <1>3

\* A balance that is not zero is in a row, the newest one.
LEMMA NewestRow ==
  ASSUME UdtInv, NEW t \in Tokens, NEW a \in Addresses, DOMAIN balance[t][a] # {}
  PROVE  /\ Max(DOMAIN balance[t][a]) \in DOMAIN balance[t][a]
         /\ Max(DOMAIN balance[t][a]) \in 0..Height
         /\ \A k \in DOMAIN balance[t][a] : k <= Max(DOMAIN balance[t][a])
         /\ balance[t][a][Max(DOMAIN balance[t][a])] = Existed(balance[t][a], 0)
         /\ Existed(balance[t][a], 0) \in Int
<1> DEFINE D == DOMAIN balance[t][a]
<1>1. /\ Height \in Nat /\ D \subseteq 0..Height /\ D # {}
      /\ Range(balance[t][a]) \subseteq Int
  BY DEF UdtInv, UdtTypeOK
<1>2. Max(D) \in D /\ \A k \in D : k <= Max(D)
  <2> HIDE DEF D
  <2> QED
    BY <1>1, MaxExists
<1>3. balance[t][a][Max(D)] \in Int
  BY <1>1, <1>2 DEF Range
<1>4. Existed(balance[t][a], 0) = balance[t][a][Max(D)]
  BY DEF Existed
<1> QED
  BY <1>1, <1>2, <1>3, <1>4

\* A holder is in the list of holders, with the newest row.
LEMMA HolderListed ==
  ASSUME UdtInv, NEW t \in Tokens, NEW a \in Addresses, Existed(balance[t][a], 0) > 0
  PROVE  \E item \in HolderList(t) :
           item.address = a /\ balance[t][a][item.height] = Existed(balance[t][a], 0)
<1> DEFINE rows == balance[t][a]
           D == DOMAIN rows
           nonZero == {h \in D : rows[h] > 0}
<1>1. D # {}
  <2> SUFFICES ASSUME D = {} PROVE FALSE
    OBVIOUS
  <2>1. Existed(balance[t][a], 0) = 0
    BY DEF Existed
  <2> QED
    BY <2>1
<1>2. /\ Max(D) \in D /\ Max(D) \in 0..Height /\ \A k \in D : k <= Max(D)
      /\ rows[Max(D)] = Existed(rows, 0)
  BY <1>1, NewestRow
<1>3. Max(D) \in nonZero /\ nonZero \subseteq Int /\ \A k \in nonZero : k <= Max(D)
  <2>1. D \subseteq Int
    BY DEF UdtInv, UdtTypeOK
  <2> QED
    BY <1>2, <2>1
<1>4. Max(nonZero) = Max(D)
  <2> DEFINE m == Max(D)
  <2>1. m \in nonZero /\ nonZero \subseteq Int /\ \A k \in nonZero : k <= m
    BY <1>3
  <2> HIDE DEF nonZero, m
  <2>2. Max(nonZero) = m
    BY <2>1, MaxIs
  <2> QED
    BY <2>2 DEF m
<1>5. [address |-> a, height |-> Max(D)] \in HolderList(t)
  BY <1>2, <1>3, <1>4 DEF HolderList
<1> QED
  BY <1>2, <1>5

LEMMA HoldersAnswered == UdtInv => HoldersServed
<1> SUFFICES ASSUME UdtInv, fallback = {}, NEW t \in Tokens
             PROVE  /\ HolderCount(t) = Cardinality({a \in Addresses : Held(t, a) > 0})
                    /\ \A a \in {x \in Addresses : Held(t, x) > 0} : \E item \in HolderList(t) :
                         item.address = a /\ balance[t][a][item.height] = Held(t, a)
  BY DEF HoldersServed, Held
<1>1. \A a \in Addresses : Existed(balance[t][a], 0) = Held(t, a)
  BY ExistedIsHeld
<1>2. HolderCount(t) = Cardinality({a \in Addresses : Held(t, a) > 0})
  <2>1. {a \in Addresses : Existed(balance[t][a], 0) > 0} = {a \in Addresses : Held(t, a) > 0}
    BY <1>1
  <2> QED
    BY <2>1 DEF HolderCount
<1>3. ASSUME NEW a \in Addresses, Held(t, a) > 0
      PROVE  \E item \in HolderList(t) :
               item.address = a /\ balance[t][a][item.height] = Held(t, a)
  <2>1. Existed(balance[t][a], 0) > 0
    BY <1>1, <1>3
  <2> QED
    BY <1>1, <2>1, HolderListed
<1> QED
  BY <1>2, <1>3

\* A token somebody has a balance of has a row of its own at every height of
\* a balance, for they are saved and rolled back together.
TokensKnown == \A t \in Tokens, a \in Addresses : DOMAIN balance[t][a] \subseteq DOMAIN info[t]

LEMMA TokensAreKnown == UdtSpec => []TokensKnown
<1>1. UdtInit => TokensKnown
  BY DEF UdtInit, TokensKnown
<1>2. TokensKnown /\ [UdtNext]_udtVars => TokensKnown'
  <2> SUFFICES ASSUME TokensKnown, [UdtNext]_udtVars, NEW t \in Tokens, NEW a \in Addresses
               PROVE  DOMAIN balance'[t][a] \subseteq DOMAIN info'[t]
    BY DEF TokensKnown
  <2>1. DOMAIN balance[t][a] \subseteq DOMAIN info[t]
    BY DEF TokensKnown
  <2>2. CASE NewBlock
    BY <2>1, <2>2 DEF NewBlock
  <2>3. CASE IndexTx
    <3>1. PICK tx, from, to, seen : Indexed(tx, from, to, seen)
      BY <2>3, IndexTxIs
    <3>2. \A history, row : DOMAIN Saved(history, row) = DOMAIN history \cup {Height}
      BY Zenon, SavedDomain
    <3>3. /\ info'[t] = IF t \in UdtTypesIn(tx)
                          THEN Saved(info[t], InfoRow(tx, t, from, to, seen[t])) ELSE info[t]
          /\ balance'[t][a] = IF t \in UdtTypesIn(tx) /\ a \in Affected(tx, t, from, to)
                                THEN Saved(balance[t][a],
                                           Existed(balance[t][a], 0) + Diff(tx, t, from, to, a))
                                ELSE balance[t][a]
      BY <3>1 DEF Indexed, SaveDiffs
    <3>4. /\ DOMAIN info'[t] = IF t \in UdtTypesIn(tx) THEN DOMAIN info[t] \cup {Height}
                               ELSE DOMAIN info[t]
          /\ DOMAIN balance'[t][a] = IF t \in UdtTypesIn(tx) /\ a \in Affected(tx, t, from, to)
                                     THEN DOMAIN balance[t][a] \cup {Height}
                                     ELSE DOMAIN balance[t][a]
      <4>1. DOMAIN info'[t] = IF t \in UdtTypesIn(tx) THEN DOMAIN info[t] \cup {Height}
                              ELSE DOMAIN info[t]
        BY <3>2, <3>3
      <4>2. DOMAIN balance'[t][a] = IF t \in UdtTypesIn(tx) /\ a \in Affected(tx, t, from, to)
                                    THEN DOMAIN balance[t][a] \cup {Height}
                                    ELSE DOMAIN balance[t][a]
        BY <3>2, <3>3
      <4> QED
        BY <4>1, <4>2
    <3> QED
      BY <2>1, <3>4
  <2>4. CASE RollBack
    <3> DEFINE below == 0..(Height - 1)
    <3>1. /\ info'[t] = [h \in DOMAIN info[t] \cap below |-> info[t][h]]
          /\ balance'[t][a] = [h \in DOMAIN balance[t][a] \cap below |-> balance[t][a][h]]
      BY <2>4 DEF RollBack, Restrict
    <3> HIDE DEF below
    <3> QED
      BY <2>1, <3>1
  <2>5. CASE UNCHANGED udtVars
    BY <2>1, <2>5 DEF udtVars
  <2> QED
    BY <2>2, <2>3, <2>4, <2>5 DEF UdtNext
<1> QED
  BY <1>1, <1>2, PTL DEF UdtSpec

\* The item told of an address and a token when no height is asked for
NewestItem(t, a) == Item(t, a, Max(DOMAIN balance[t][a]), Existed(balance[t][a], 0))

LEMMA ItemsAreNewest ==
  ASSUME UdtInv, NEW tokens \in SUBSET Tokens, NEW addresses \in SUBSET Addresses
  PROVE  \A item : item \in Items(tokens, addresses, 0) <=>
           \E t \in tokens, a \in addresses :
             DOMAIN balance[t][a] # {} /\ item = NewestItem(t, a)
<1>1. \A t \in tokens, a \in addresses :
        ItemHeights(t, a, 0) = IF DOMAIN balance[t][a] = {} THEN {} ELSE {Max(DOMAIN balance[t][a])}
  BY DEF ItemHeights
<1>2. \A t \in tokens, a \in addresses : DOMAIN balance[t][a] # {} =>
        balance[t][a][Max(DOMAIN balance[t][a])] = Existed(balance[t][a], 0)
  BY NewestRow
<1>3. \A item : item \in Items(tokens, addresses, 0) <=>
        \E t \in tokens, a \in addresses : \E h \in ItemHeights(t, a, 0) :
          item = Item(t, a, h, balance[t][a][h])
  <2> DEFINE Of(t, a) == {Item(t, a, h, balance[t][a][h]) : h \in ItemHeights(t, a, 0)}
  <2>1. Items(tokens, addresses, 0) = UNION {UNION {Of(t, a) : a \in addresses} : t \in tokens}
    BY DEF Items
  <2>2. \A t, a : \A item : item \in Of(t, a) <=>
          \E h \in ItemHeights(t, a, 0) : item = Item(t, a, h, balance[t][a][h])
    OBVIOUS
  <2> HIDE DEF Of
  <2> QED
    BY <2>1, <2>2
<1> QED
  BY <1>1, <1>2, <1>3 DEF NewestItem

\* A row of a token is never without its info, so an address without a row
\* of a known token is answered with nothing.
LEMMA BatchIs ==
  ASSUME UdtInv, NEW t \in Tokens, Known(t), NEW a \in Addresses, NEW b \in Addresses
  PROVE  BatchBalances(t, {a, b}, 0) =
           {IF DOMAIN balance[t][x] = {} THEN Nothing(t, x) ELSE NewestItem(t, x) : x \in {a, b}}
<1> DEFINE items == Items({t}, {a, b}, 0)
           missing == {a, b} \ {item.address : item \in items}
<1>1. \A item : item \in items <=>
        \E x \in {a, b} : DOMAIN balance[t][x] # {} /\ item = NewestItem(t, x)
  <2>1. \A item : item \in Items({t}, {a, b}, 0) <=>
          \E u \in {t}, x \in {a, b} : DOMAIN balance[u][x] # {} /\ item = NewestItem(u, x)
    <3>1. {t} \in SUBSET Tokens /\ {a, b} \in SUBSET Addresses
      OBVIOUS
    <3> QED
      BY <3>1, ItemsAreNewest, Zenon
  <2> QED
    BY <2>1
<1>2. \A x : NewestItem(t, x).address = x
  BY DEF NewestItem, Item
<1>3. BatchBalances(t, {a, b}, 0) = items \cup {Nothing(t, x) : x \in missing}
  BY DEF BatchBalances
<1> HIDE DEF items
<1>4. \A x \in {a, b} : x \in missing <=> DOMAIN balance[t][x] = {}
  BY <1>1, <1>2
<1> HIDE DEF missing
<1>5. missing \subseteq {a, b}
  BY DEF missing
<1> QED
  BY <1>1, <1>3, <1>4, <1>5

\* What items tell
Told(items) == {<<item.token, item.address, item.balance>> : item \in items}
HeldOf(t, a) == <<t, a, Held(t, a)>>

LEMMA BatchAnswered ==
  ASSUME UdtInv, fallback = {}, NEW t \in Tokens, Known(t), NEW a \in Addresses, NEW b \in Addresses
  PROVE  /\ Told(BatchBalances(t, {a, b}, 0)) = {HeldOf(t, a), HeldOf(t, b)}
         /\ Cardinality(BatchBalances(t, {a, b}, 0)) = Cardinality({a, b})
<1> DEFINE I(x) == IF DOMAIN balance[t][x] = {} THEN Nothing(t, x) ELSE NewestItem(t, x)
<1>1. BatchBalances(t, {a, b}, 0) = {I(a), I(b)}
  BY BatchIs
<1>2. \A x \in Addresses : /\ I(x).token = t /\ I(x).address = x /\ I(x).balance = Held(t, x)
  <2>1. \A x \in Addresses : Existed(balance[t][x], 0) = Held(t, x)
    BY ExistedIsHeld
  <2>2. \A x \in Addresses : DOMAIN balance[t][x] = {} => Held(t, x) = 0
    BY <2>1 DEF Existed
  <2> QED
    BY <2>1, <2>2 DEF Nothing, NewestItem, Item
<1> HIDE DEF I
<1>3. Told({I(a), I(b)}) = {HeldOf(t, a), HeldOf(t, b)}
  BY <1>2 DEF Told, HeldOf
<1>4. Cardinality({I(a), I(b)}) = Cardinality({a, b})
  <2>1. \A x, y : x # y => Cardinality({x, y}) = 2
    <3> SUFFICES ASSUME NEW x, NEW y, x # y PROVE Cardinality({x, y}) = 2
      OBVIOUS
    <3>1. IsFiniteSet({x}) /\ Cardinality({x}) = 1
      BY FS_Singleton
    <3>2. Cardinality({x} \cup {y}) = Cardinality({x}) + 1
      BY <3>1, FS_AddElement
    <3>3. {x} \cup {y} = {x, y}
      OBVIOUS
    <3> QED
      BY <3>1, <3>2, <3>3
  <2>2. CASE a = b
    <3>1. {I(a), I(b)} = {I(a)} /\ {a, b} = {a}
      BY <2>2
    <3> QED
      BY <3>1, FS_Singleton
  <2>3. CASE a # b
    <3>1. I(a) # I(b)
      BY <1>2, <2>3
    <3> QED
      BY <2>1, <2>3, <3>1
  <2> QED
    BY <2>2, <2>3
<1> QED
  BY <1>1, <1>3, <1>4

\* An error is no list of items.
ErrorIsNoList ==
  NotFound \notin SUBSET [token : Tokens, address : Addresses, height : Int, balance : Int]

LEMMA ListingAnswered ==
  ASSUME UdtInv, TokensKnown, ErrorIsNoList, fallback = {}, NEW a \in Addresses
  PROVE  /\ AllBalances(a, 0) # NotFound
         /\ Told(AllBalances(a, 0)) \subseteq {HeldOf(t, a) : t \in {u \in Tokens : Known(u)}}
         /\ {HeldOf(t, a) : t \in {u \in Tokens : Held(u, a) > 0}} \subseteq Told(AllBalances(a, 0))
<1> DEFINE items == Items(Tokens, {a}, 0)
<1>1. \A item : item \in items <=>
        \E t \in Tokens : DOMAIN balance[t][a] # {} /\ item = NewestItem(t, a)
  <2>1. \A item : item \in Items(Tokens, {a}, 0) <=>
          \E t \in Tokens, x \in {a} : DOMAIN balance[t][x] # {} /\ item = NewestItem(t, x)
    <3>1. Tokens \in SUBSET Tokens /\ {a} \in SUBSET Addresses
      OBVIOUS
    <3> QED
      BY <3>1, ItemsAreNewest, Zenon
  <2> QED
    BY <2>1
<1>2. \A t \in Tokens : DOMAIN balance[t][a] # {} => Known(t)
  BY DEF TokensKnown, Known
<1>3. \A t \in Tokens : /\ NewestItem(t, a).token = t /\ NewestItem(t, a).address = a
                        /\ NewestItem(t, a).balance = Held(t, a)
  <2>1. \A t \in Tokens : Existed(balance[t][a], 0) = Held(t, a)
    BY ExistedIsHeld
  <2> QED
    BY <2>1 DEF NewestItem, Item
<1>4. \A t \in Tokens : Held(t, a) > 0 => DOMAIN balance[t][a] # {}
  <2> SUFFICES ASSUME NEW t \in Tokens, DOMAIN balance[t][a] = {} PROVE ~(Held(t, a) > 0)
    OBVIOUS
  <2>1. Existed(balance[t][a], 0) = 0
    BY DEF Existed
  <2>2. Held(t, a) = 0
    BY <2>1, ExistedIsHeld
  <2> QED
    BY <2>2
<1> HIDE DEF items
<1>5. ~ \E item \in items : ~Known(item.token)
  BY <1>1, <1>2, <1>3
<1>6. AllBalances(a, 0) = items
  BY <1>5 DEF AllBalances, items
<1>7. items \in SUBSET [token : Tokens, address : Addresses, height : Int, balance : Int]
  <2>1. ASSUME NEW t \in Tokens, DOMAIN balance[t][a] # {}
        PROVE  NewestItem(t, a) \in [token : Tokens, address : Addresses, height : Int, balance : Int]
    <3>1. Max(DOMAIN balance[t][a]) \in 0..Height /\ Existed(balance[t][a], 0) \in Int
      BY <2>1, NewestRow
    <3>2. Max(DOMAIN balance[t][a]) \in Int
      BY <3>1
    <3> QED
      BY <3>1, <3>2 DEF NewestItem, Item
  <2> QED
    BY <1>1, <2>1
<1>8. AllBalances(a, 0) # NotFound
  BY <1>6, <1>7 DEF ErrorIsNoList
<1>9. Told(items) \subseteq {HeldOf(t, a) : t \in {u \in Tokens : Known(u)}}
  BY <1>1, <1>2, <1>3 DEF Told, HeldOf
<1>10. {HeldOf(t, a) : t \in {u \in Tokens : Held(u, a) > 0}} \subseteq Told(items)
  <2> SUFFICES ASSUME NEW t \in Tokens, Held(t, a) > 0 PROVE HeldOf(t, a) \in Told(items)
    OBVIOUS
  <2>1. NewestItem(t, a) \in items
    BY <1>1, <1>4
  <2> QED
    BY <1>3, <2>1 DEF Told, HeldOf
<1> QED
  BY <1>6, <1>8, <1>9, <1>10

LEMMA BalancesAnswered ==
  ASSUME ErrorIsNoList
  PROVE  UdtInv /\ TokensKnown => BalancesServed
<1> SUFFICES ASSUME UdtInv, TokensKnown, fallback = {}, NEW a \in Addresses
             PROVE  /\ AllBalances(a, 0) # NotFound
                    /\ Told(AllBalances(a, 0)) \subseteq {HeldOf(t, a) : t \in {u \in Tokens : Known(u)}}
                    /\ {HeldOf(t, a) : t \in {u \in Tokens : Held(u, a) > 0}}
                         \subseteq Told(AllBalances(a, 0))
                    /\ \A t \in {u \in Tokens : Known(u)}, b \in Addresses :
                         /\ Told(BatchBalances(t, {a, b}, 0)) = {HeldOf(t, a), HeldOf(t, b)}
                         /\ Cardinality(BatchBalances(t, {a, b}, 0)) = Cardinality({a, b})
  BY DEF BalancesServed, Told, HeldOf, Held
<1>1. /\ AllBalances(a, 0) # NotFound
      /\ Told(AllBalances(a, 0)) \subseteq {HeldOf(t, a) : t \in {u \in Tokens : Known(u)}}
      /\ {HeldOf(t, a) : t \in {u \in Tokens : Held(u, a) > 0}} \subseteq Told(AllBalances(a, 0))
  BY ListingAnswered
<1>2. \A t \in {u \in Tokens : Known(u)}, b \in Addresses :
        /\ Told(BatchBalances(t, {a, b}, 0)) = {HeldOf(t, a), HeldOf(t, b)}
        /\ Cardinality(BatchBalances(t, {a, b}, 0)) = Cardinality({a, b})
  BY BatchAnswered
<1> QED
  BY <1>1, <1>2

(***************************************************************************)
(* Theorems                                                                *)
(***************************************************************************)

\* The rows of tokens and balances follow the chain, whatever blocks are
\* committed and rolled back and whatever the Bitcoin nodes answer.
THEOREM UdtCorrect == UdtSpec => []UdtInv
<1>1. UdtInit => UdtInv
  BY UdtStarts
<1>2. UdtInv /\ [UdtNext]_udtVars => UdtInv'
  BY NewBlockKeeps, IndexTxKeeps, RollBackKeeps, UdtInvStutters DEF UdtNext
<1> QED
  BY <1>1, <1>2, PTL DEF UdtSpec

\* The rows have their types and no row is of a height that is not there.
THEOREM UdtTypeCorrect == UdtSpec => []UdtTypeOK
<1>1. UdtInv => UdtTypeOK
  BY DEF UdtInv
<1> QED
  BY <1>1, UdtCorrect, PTL

\* udt_info: the supply is what all cells hold, and the sum of all balances,
\* at every height and even when an RGB++ lock is taken for a CKB address.
THEOREM SupplyCorrect == UdtSpec => []SupplyIsCells
<1>1. UdtInv => SupplyIsCells
  BY DEF UdtInv
<1> QED
  BY <1>1, UdtCorrect, PTL

\* udt_balance: the balance of an address is what its cells hold, at every
\* height, as long as no RGB++ lock was taken for a CKB address.
THEOREM BalancesCorrect == UdtSpec => []BalancesAreCells
<1>1. UdtInv => BalancesAreCells
  BY DEF UdtInv
<1> QED
  BY <1>1, UdtCorrect, PTL

\* udt_info: a token's info is the first the chain shows, although it is
\* looked up outside the block's database transaction.
THEOREM FirstInfoStays == UdtSpec => []InfoIsFirst
<1>1. UdtInv => InfoIsFirst
  BY DEF UdtInv
<1> QED
  BY <1>1, UdtCorrect, PTL

\* getItemCountByTokenHash and getNonZeroTokenItemsByTokenId: the holders are
\* counted, and listed, by what they hold in live cells.
THEOREM HoldersCorrect == UdtSpec => []HoldersServed
BY HoldersAnswered, UdtCorrect, PTL

\* getTokenBalances and batchGetTokenBalances: each address is told what its
\* live cells hold, and no listing fails with TokenNotFound.
THEOREM AnswersCorrect ==
  ASSUME ErrorIsNoList
  PROVE  UdtSpec => []BalancesServed
<1>1. UdtInv /\ TokensKnown => BalancesServed
  BY BalancesAnswered
<1> QED
  BY <1>1, UdtCorrect, TokensAreKnown, PTL

=============================================================================
