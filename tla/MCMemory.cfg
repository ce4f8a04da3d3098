CONSTANTS
  Objects = {a, b, c}
  Groups = {g, h}
  Pools = {p, q}
  NoObject = NoObject
  NoGroup = NoGroup
  NoPool = NoPool
  Requests <- MCRequests
  MappingTypes = {"BLOBS", "OFFSETS"}
SPECIFICATION Spec
INVARIANTS AliveTogetherApart EverythingFits BlobsOfTheLiving SharesOnlyDead BackedWhileRunning NoDanglingMemory
SYMMETRY Symmetry
