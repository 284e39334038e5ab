----------------------------- MODULE ReorgLedger -----------------------------
(***************************************************************************)
(* What the indexer promises to its readers: it follows one chain block by *)
(* block, it can undo its newest block, and for every height it has not    *)
(* finalised it can tell what every entity was at that height.             *)
(***************************************************************************)
EXTENDS Integers, Sequences, Bags

CONSTANTS Payloads, Origin, Keys, Touched

VARIABLES
  indexed,  \* the chain that is indexed
  floor,    \* the oldest height that can be asked for, and reverted to
  at        \* for each height from floor on: each entity at that height

ledgerVars == <<indexed, floor, at>>

Nothing == [k \in Keys |-> EmptyBag]

Init ==
  /\ indexed = Origin
  /\ floor = Len(Origin)
  /\ at = [h \in {Len(Origin)} |-> Nothing]

\* A child of the newest block is applied, once, to what it touches.
Apply ==
  \E p \in Payloads :
    LET block == Append(indexed, p)
        height == Len(block)
    IN
    /\ indexed' = block
    /\ at' = [h \in floor..height |->
                IF h < height THEN at[h]
                ELSE [k \in Keys |-> IF k \in Touched[p]
                                       THEN at[height - 1][k] (+) SetToBag({block})
                                       ELSE at[height - 1][k]]]
    /\ UNCHANGED floor

\* The newest block is undone; everything is as it was before it.
Revert ==
  /\ Len(indexed) > floor
  /\ indexed' = SubSeq(indexed, 1, Len(indexed) - 1)
  /\ at' = [h \in floor..(Len(indexed) - 1) |-> at[h]]
  /\ UNCHANGED floor

\* Older heights are given up, and with them undoing the blocks up to there.
Finalise ==
  \E h \in (floor + 1)..Len(indexed) :
    /\ floor' = h
    /\ at' = [x \in h..Len(indexed) |-> at[x]]
    /\ UNCHANGED indexed

Next == Apply \/ Revert \/ Finalise

Spec == Init /\ [][Next]_ledgerVars

=============================================================================
