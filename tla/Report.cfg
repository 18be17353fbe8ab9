SPECIFICATION ReportSpec
CONSTANTS
  Projects = {NoProject, voice}
  NoProject = NoProject
  DefaultProject = default
  Titles = {fix}
  Blank = Blank
  Agents = {ann}
  NoAgent = NoAgent
  DefaultAgent = agent
  RelatedKeys = {0}
  Keep = Keep
  Updates <- Shuffling
  ClaimTTL = 1
  Second = 1
  MaxTickets = 2
  MaxComments = 2
  MaxTime = 1
  Scopes = {NoProject, default}
  StaleAfter = 0
  FetchLimit = 2
  TopN = 1
CONSTRAINT FirstTicketOnly
VIEW Unanswered
INVARIANTS
  ReportTypeOK
  SettledTicketsInPlace
  SuggestionsArePickable
  ExcerptsAreFresh
  StaleMeansQuiet
