SPECIFICATION Spec
CONSTANTS
  k1 = k1
  air1 = air1
  rock1 = rock1
  region1 = region1
  Chunks <- WorldChunks
  Cells <- WorldCells
  Tiers <- WorldTiers
  ChunkOf <- WorldChunkOf
  Scope <- WorldScope
  Base <- WorldBase
  BlockIds <- WorldBlocks
  Air = "air"
  RequestedIds <- WorldRequests
  Properties <- WorldProperties
  Persist = {"colour", "climate"}
  Values = {0, 1, 2}
  Fits <- WorldFits
  SidecarDefault <- WorldSidecarDefault
  Declared <- WorldDeclared
  PrototypeDefault <- WorldPrototypeDefault
  None = None
  Removed = Removed
INVARIANTS OverridesInv BasePlusDeltasIsWorld
PROPERTIES AcceptedIffVisible WriteThenRead
