SPECIFICATION SporeSpec
CONSTANTS
  member = member
  cluster = cluster
  alice = alice
  bob = bob
  Spores <- MCSpores
  Clusters <- MCClusters
  ClusterOf <- MCClusterOf
  Addresses <- MCAddresses
  Unborn = Unborn
  NoOwner = NoOwner
  MaxHeight = 3
  MaxTxs = 2
INVARIANTS SporeTypeOK SporeOwnersAreCells ClusterOwnersAreCells CreatorsStay NoBlockIsStuck
SYMMETRY Interchangeable
