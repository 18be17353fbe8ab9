SPECIFICATION Spec
CONSTANTS
  Processes = {mcp, cli}
  NoProcess = NoProcess
  LegacyProjects = {p1, p2}
  keySequence = keySequence
  MaxKey = 3
  MaxCrashes = 0
INVARIANTS
  VersionMatchesSchema
