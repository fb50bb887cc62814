SPECIFICATION LoRASpec
CONSTANTS
  a1 = a1
  a2 = a2
  a3 = a3
  l1 = l1
  l2 = l2
  None = None
  Adapters <- MCAdapters
  Layers <- MCLayers
  Scales = {1, 2}
  Rank <- MCRank
  Targets <- MCTargets
  Misfits <- MCMisfits
  MaxCached = 2
  MaxFaults = 2
INVARIANTS
  LoRATypeOK
  CacheConsistent
  RunsWithAdapter
PROPERTY
  EvictsLeastRecent
