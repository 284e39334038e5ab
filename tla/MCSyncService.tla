---------------------------- MODULE MCSyncService ----------------------------
(***************************************************************************)
(* Instances of SyncService for TLC: a start block above the first one,    *)
(* and a payload with two transactions, one of which creates a code cell.  *)
(***************************************************************************)
EXTENDS SyncService, TLC

CONSTANTS a, b, token, tx1, tx2

MCPayloads == {a, b}
MCOrigin == <<a>>
MCKeys == {token}
MCTableOf == token :> 2
MCTouched == (a :> {token}) @@ (b :> {})
MCTxsOf == (a :> {}) @@ (b :> {tx1, tx2})
MCCodesOf == (a :> {}) @@ (b :> {tx1})

\* The loops run the same code.
Interchangeable == Permutations(Syncers)

=============================================================================
