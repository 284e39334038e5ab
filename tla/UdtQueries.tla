------------------------------ MODULE UdtQueries ------------------------------
(***************************************************************************)
(* What the UDT API answers from the rows of UdtParser: the balance of an  *)
(* address, of several, or of all tokens, now or at a height, the number   *)
(* of holders and their list.                                              *)
(***************************************************************************)
EXTENDS UdtParser

CONSTANTS Cropped, NotFound  \* the errors HeightCropped and TokenNotFound

ASSUME CroppedAssumption == Cropped \notin Int

\* hasHeight: is there any row of that height?
HasHeight(height) == \E t \in Tokens, a \in Addresses : height \in DOMAIN balance[t][a]

\* Mutant: every row there is, without a height.
ItemHeightsAll(token, address, height) ==
  LET all == DOMAIN balance[token][address]
  IN  IF height # 0 THEN all \cap {height} ELSE all

\* getTokenItemsByAddress: the row of exactly that height; without a height,
\* and 0 counts as none, the newest.
ItemHeights(token, address, height) ==
  LET all == DOMAIN balance[token][address]
  IN  IF height # 0 THEN all \cap {height} ELSE IF all = {} THEN {} ELSE {Max(all)}

\* getTokenBalances: 0 if there is no row.
TokenBalance(token, address, height) ==
  IF height # 0 /\ ~HasHeight(height) THEN Cropped
  ELSE SumFunctionOnSet(balance[token][address], ItemHeights(token, address, height))

Item(token, address, height, amount) ==
  [token |-> token, address |-> address, height |-> height, balance |-> amount]
Items(tokens, addresses, height) ==
  LET of(t, a) == {Item(t, a, h, balance[t][a][h]) : h \in ItemHeights(t, a, height)}
  IN  UNION {UNION {of(t, a) : a \in addresses} : t \in tokens}

\* An address without a row holds nothing, as of the tip.
Nothing(token, address) == Item(token, address, Height, 0)

\* getTokenInfo(tokenHash): is there a row of the token at all?
Known(token) == DOMAIN info[token] # {}

\* getTokenBalances over all tokens: a listing that meets a token without
\* info fails with TokenNotFound.
AllBalances(address, height) ==
  LET items == Items(Tokens, {address}, height)
  IN  CASE height # 0 /\ ~HasHeight(height) -> Cropped
        [] \E item \in items : ~Known(item.token) -> NotFound
        [] OTHER -> items

\* batchGetTokenBalances: missing addresses are answered with 0.
BatchBalances(token, addresses, height) ==
  LET items == Items({token}, addresses, height)
      missing == addresses \ {item.address : item \in items}
  IN  CASE height # 0 /\ ~HasHeight(height) -> Cropped
        [] ~Known(token) -> NotFound
        [] OTHER -> items \cup {Nothing(token, a) : a \in missing}

\* Mutant: counts whoever once held something.
HolderCountEver(token) ==
  Cardinality({a \in Addresses : \E h \in DOMAIN balance[token][a] : balance[token][a][h] > 0})

\* getItemCountByTokenHash
HolderCount(token) ==
  Cardinality({a \in Addresses : Existed(balance[token][a], 0) > 0})

\* getNonZeroTokenItemsByTokenId, all pages of it: the newest of the rows
\* that are not zero.
HolderList(token) ==
  LET nonZero(a) == {h \in DOMAIN balance[token][a] : balance[token][a][h] > 0}
  IN  {[address |-> a, height |-> Max(nonZero(a))] : a \in {x \in Addresses : nonZero(x) # {}}}

(***************************************************************************)
(* Properties                                                              *)
(***************************************************************************)

\* Holders are counted by what they hold in live cells now, after transfers
\* of everything, several changes to a block and rollbacks; each of them is
\* in the list with what it holds, while former ones may be there as well.
HoldersServed ==
  fallback = {} =>
    \A t \in Tokens :
      LET held(a) == SumFunctionOnSet(Now.held[t], {l \in Locks : TrueAddress(l) = a})
          holders == {a \in Addresses : held(a) > 0}
      IN
      /\ HolderCount(t) = Cardinality(holders)
      /\ \A a \in holders : \E item \in HolderList(t) :
           item.address = a /\ balance[t][a][item.height] = held(a)

\* Without a height every address asked for is answered once, with what its
\* live cells hold; the list of an address names each token once and leaves
\* out none it holds; no token it names is unknown.
BalancesServed ==
  fallback = {} =>
    \A a \in Addresses :
      LET held(t, b) == SumFunctionOnSet(Now.held[t], {l \in Locks : TrueAddress(l) = b})
          told(items) == {<<item.token, item.address, item.balance>> : item \in items}
          of(t, b) == <<t, b, held(t, b)>>
          known == {t \in Tokens : Known(t)}
          listed == {t \in Tokens : held(t, a) > 0}
      IN
      /\ AllBalances(a, 0) # NotFound
      /\ told(AllBalances(a, 0)) \subseteq {of(t, a) : t \in known}
      /\ {of(t, a) : t \in listed} \subseteq told(AllBalances(a, 0))
      /\ \A t \in known, b \in Addresses :
           LET items == BatchBalances(t, {a, b}, 0) IN
           /\ told(items) = {of(t, a), of(t, b)}
           /\ Cardinality(items) = Cardinality({a, b})

\* A balance that is asked for at a height, and not refused as cropped, is
\* the one of that height.
HeightAnswered ==
  \A t \in Tokens, a \in Addresses, h \in 1..Height :
    TokenBalance(t, a, h) \in {Cropped, AsOfHeight(balance[t][a], h, 0)}

=============================================================================
