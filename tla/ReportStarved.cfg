SPECIFICATION ReportSpec
CONSTANTS
  Projects = {NoProject}
  NoProject = NoProject
  DefaultProject = default
  Titles = {fix, ship, test}
  Blank = Blank
  Agents = {ann}
  NoAgent = NoAgent
  DefaultAgent = agent
  RelatedKeys = {0}
  Keep = Keep
  Updates <- NoUpdates
  ClaimTTL = 2
  Second = 1
  MaxTickets = 3
  MaxComments = 0
  MaxTime = 0
  Scopes = {NoProject}
  StaleAfter = 1
  FetchLimit = 2
  TopN = 1
INVARIANTS
  AllClaimedWhenSaid
