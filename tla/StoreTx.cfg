SPECIFICATION TxSpec
CONSTANTS
  Projects = {default}
  NoProject = NoProject
  DefaultProject = default
  Titles = {Blank, fix}
  Blank = Blank
  Agents = {NoAgent, ann}
  NoAgent = NoAgent
  DefaultAgent = agent
  RelatedKeys = {0, 1, 2}
  Keep = Keep
  Updates <- Interrupted
  CallsMade <- SomeCalls
  ClaimTTL = 2
  Second = 2
  MaxTickets = 2
  MaxComments = 2
  MaxTime = 2
INVARIANTS
  LinksWellFormed
  WorklogChronological
  CopyTracksTables
PROPERTIES
  StoreSpec
