------------------------------ MODULE MCIndexer ------------------------------
(***************************************************************************)
(* Instances of Indexer for TLC: two payloads, one of which touches two    *)
(* entities of different tables and carries a transaction.                 *)
(***************************************************************************)
EXTENDS BlockQueries

CONSTANTS a, b, token, spore, tx1, tx2

MCPayloads == {a, b}
MCOrigin == <<>>
MCKeys == {token, spore}
MCTableOf == (token :> 1) @@ (spore :> 3)
MCTouched == (a :> {token}) @@ (b :> {token, spore})
NoTxs == [p \in MCPayloads |-> {}]
OneKey == {token}
OneTable == token :> 2
OneTouched == (a :> {token}) @@ (b :> {})

=============================================================================
