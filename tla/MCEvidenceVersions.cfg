SPECIFICATION Spec
CONSTANTS
  Sessions = {s1, s2}
  Keys = {"k1", "k2"}
  MaxPuts = 5
  MaxFaults = 0
  MaxBlobBytes = 1
  Adapters <- MCAdapters
  Requests <- MCRequests
  SnapshotRequests <- MCSnapshotRequests
  ItemLimit = 6
  MaxCommands = 1
  Tables <- MCTables
  FactMappings <- MCFactMappings
  ParserOutput <- MCParserOutput
  ParserConfigs = {"v1", "v2"}
  VersionRequests <- MCVersionRequests
  SearchRequests <- MCSearchRequests
  MaxChunk = 2
  MaxExcerpt = 1
  RowInfo <- MCRowInfo
  Manifest <- MCManifest
  MaxCandidates = 10
  Today = 600
  SecurityQuery <- MCSecurityQuery
  Queries <- MCQueries
  InitialStates <- MCRestated
SYMMETRY Symmetry
CHECK_DEADLOCK FALSE
INVARIANT VersionsCoexist
