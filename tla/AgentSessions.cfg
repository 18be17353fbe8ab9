SPECIFICATION SessionSpec
CONSTANTS
  Projects = {NoProject}
  NoProject = NoProject
  DefaultProject = default
  Titles = {fix}
  Blank = Blank
  Agents = {ann, bob}
  NoAgent = NoAgent
  DefaultAgent = agent
  RelatedKeys = {0}
  Keep = Keep
  Updates <- SessionUpdates
  ClaimTTL = 4
  Second = 2
  MaxTickets = 1
  MaxComments = 0
  MaxTime = 5
  MaxFaults = 2
SYMMETRY AgentSymmetry
VIEW StateView
INVARIANTS
  SessionTypeOK
  OneWorkerPerTicket
  LeasesAreBacked
