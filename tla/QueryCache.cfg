SPECIFICATION Spec
CONSTANTS
  ChunkRows <- MCChunkRows
  RowTime <- MCRowTime
  RowEntity <- MCRowEntity
  StaticRows = {6, 7, 8}
  ManifestParts <- MCParts
  ChunkMaxRows = 2
  GcOptions <- MCGc
  DropRanges <- MCRanges
  QueryTimes = {2, 4}
  Fractions = {1}
  MaxOps = 4
  None = None
INVARIANTS LatestAtTellsTheTruth RangeTellsTheTruth
