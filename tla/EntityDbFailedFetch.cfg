SPECIFICATION Spec
CONSTANTS
  ChunkRows <- MCChunkRows
  RowTime <- MCRowTime
  RowEntity <- MCRowEntity
  StaticRows = {6}
  ManifestParts <- MCParts
  ChunkMaxRows = 2
  FetchStages = {2, 3}
  MemoryLimits = {9}
  MaxOnWire = 3
  MaxBatch = 2
  CursorTimes = {3}
  GcTargets = {}
  MaxGc = 0
  MaxMoves = 0
  MaxFailures = 1
  None = None
PROPERTY ViewResolves
