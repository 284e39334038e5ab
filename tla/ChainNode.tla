------------------------------ MODULE ChainNode ------------------------------
(***************************************************************************)
(* The CKB node the indexer follows, modelled from how src/libs/sync uses  *)
(* it: getTip, getBlockByNumber and the parentHash of a block header.      *)
(*                                                                         *)
(* A block is the sequence of the payloads from the first block up to it,  *)
(* so a block is its own hash, its height is its length and its parent is  *)
(* the sequence without the last payload.  Two blocks are equal exactly    *)
(* when their hashes are.                                                  *)
(***************************************************************************)
EXTENDS Integers, Sequences, FiniteSetsExt

CONSTANTS
  Payloads,       \* what a block may contain
  Origin,         \* the chain up to the configured start block
  FinalityDepth,  \* a block buried this deep is never replaced by the node
  MaxHeight       \* bound: the node mines no block above this height

ASSUME PayloadsAssumption == Payloads # {}
ASSUME OriginAssumption == Origin \in Seq(Payloads)
ASSUME FinalityDepthAssumption == FinalityDepth \in Nat \ {0}
ASSUME MaxHeightAssumption == MaxHeight \in Nat /\ MaxHeight >= Len(Origin)

VARIABLES
  chain,  \* the node's current best chain
  final   \* height of the prefix of chain that no reorganisation touches

nodeVars == <<chain, final>>

Prefix(block, height) == SubSeq(block, 1, height)
Parent(block) == Prefix(block, Len(block) - 1)
Content(block) == block[Len(block)]
Start == Len(Origin)

NodeTypeOK ==
  /\ chain \in Seq(Payloads)
  /\ final \in Start..Len(chain)

NodeInit ==
  /\ chain = Origin
  /\ final = Start

\* The node adopts a chain; what is then FinalityDepth deep stays for good.
Adopt(best) ==
  /\ chain' = best
  /\ final' = Max({final, Len(best) - FinalityDepth})

\* The next block of the best chain arrives.
Grow ==
  /\ Len(chain) < MaxHeight
  /\ \E p \in Payloads : Adopt(Append(chain, p))

\* A competing branch wins.  It may be shorter than what it replaces: the
\* node goes by difficulty, and requests may reach a node that lags.
Reorg ==
  \E n \in final..(Len(chain) - 1), p \in Payloads :
    /\ p # chain[n + 1]
    /\ Adopt(Append(Prefix(chain, n), p))

NodeNext == Grow \/ Reorg

\* client.getBlockByNumber: Absent when the chain is not that high.
BlockAt(height, absent) ==
  IF height \in 1..Len(chain) THEN Prefix(chain, height) ELSE absent

=============================================================================
