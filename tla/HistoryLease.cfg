SPECIFICATION HistorySpec
CONSTANTS
  Projects = {default}
  NoProject = NoProject
  DefaultProject = default
  Titles = {fix}
  Blank = Blank
  Agents = {NoAgent, ann, bob}
  NoAgent = NoAgent
  DefaultAgent = agent
  RelatedKeys = {0}
  Keep = Keep
  Updates <- Moving
  ClaimTTL = 4
  Second = 2
  MaxTickets = 1
  MaxComments = 0
  MaxTime = 7
INVARIANTS
  HistoryTypeOK
  ClaimFieldsAgree
  WorkedBeforeDone
  HoldsLastGrant
PROPERTIES
  ClaimsNotStolen
  ExpiredClaimsYield
  ClosingReleases
  LeaseWithinASecond
