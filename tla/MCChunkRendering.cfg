SPECIFICATION FairSpec
CONSTANTS
  NChunks = 3
  Edge = 2
  Ids <- AllIds
  Air = 0
  Opaque = {1}
  Cross = {3}
  TintProperty = {2}
  CastShadows = {1, 2}
  DiffuseSource <- SourceOf
  Base <- WorldgenBase
  Editable <- EditedCells
  Values = {0, 1}
  TintDefault <- LampDefault
  ViewRadius = 1
  MeshBudget = 1
  MaxEdits = 2
  None = None
INVARIANTS PictureInv GpuMatchesBooks
PROPERTIES EveryChunkDrawn
