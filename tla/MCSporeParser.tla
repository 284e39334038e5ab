---------------------------- MODULE MCSporeParser ----------------------------
(***************************************************************************)
(* Instance of SporeParser for TLC: one spore, in one cluster.             *)
(***************************************************************************)
EXTENDS SporeParser, TLC

CONSTANTS member, cluster, alice, bob

MCSpores == {member}
MCClusters == {cluster}
MCClusterOf == member :> cluster
MCAddresses == {alice, bob}

\* Who is who makes no difference.
Interchangeable == Permutations(MCAddresses)

=============================================================================
