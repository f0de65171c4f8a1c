SPECIFICATION Spec
CONSTANTS
  ChunkRows <- MCChunkRows
  RowTime <- MCRowTime
  RowEntity <- MCRowEntity
  StaticRows = {6}
  ManifestParts <- MCParts
  ChunkMaxRows = 2
  FetchStages = {2, 3}
  MemoryLimits = {4, 9}
  MaxOnWire = 3
  MaxBatch = 2
  CursorTimes = {3, 6}
  GcTargets = {1, 9}
  MaxGc = 2
  MaxMoves = 1
  MaxFailures = 0
  None = None
INVARIANTS
  TransitIsPending MissingIsUnloaded LoadedIsPhysical
PROPERTIES ViewResolves ViewShowsDataInMemory
