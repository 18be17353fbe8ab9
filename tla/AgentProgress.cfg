SPECIFICATION SessionSpec
CONSTANTS
  Projects = {NoProject}
  NoProject = NoProject
  DefaultProject = default
  Titles = {fix}
  Blank = Blank
  Agents = {ann, bob}
  NoAgent = NoAgent
  DefaultAgent = agent
  RelatedKeys = {0}
  Keep = Keep
  Updates <- SessionUpdates
  ClaimTTL = 1
  Second = 1
  MaxTickets = 2
  MaxComments = 0
  MaxTime = 1
  MaxFaults = 1
INVARIANTS
  RetriesMakeNoTwins
PROPERTIES
  EveryTicketIsFinished
  ClosedTicketsEndUnclaimed
