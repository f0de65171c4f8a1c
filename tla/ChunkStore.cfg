SPECIFICATION Spec
CONSTANTS
  ChunkRows <- MCChunkRows
  RowTime <- MCRowTime
  RowEntity <- MCRowEntity
  StaticRows = {11, 12}
  ManifestParts <- MCParts
  ChunkMaxRows = 2
  GcOptions <- MCGc
  DropRanges <- MCRanges
  MaxOps = 6
  None = None
INVARIANTS
  PhysicalIsIndexed LineageCounted NoGhost NoDuplicates EventsTellAll
  LatestAtFindsLatest GcProtectsAndProgresses
PROPERTY InsertKeepsRows
CHECK_DEADLOCK FALSE
