SPECIFICATION FairSpec
CONSTANTS
  Processes = {mcp, cli}
  NoProcess = NoProcess
  LegacyProjects = {p1, p2}
  keySequence = keySequence
  MaxKey = 3
  MaxCrashes = 2
INVARIANTS
  TypeOK
  OpenMeansReady
  VersionNotAhead
PROPERTIES
  VersionTellsSchema
  OpenCompletes
