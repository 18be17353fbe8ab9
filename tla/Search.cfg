SPECIFICATION SearchSpec
CONSTANTS
  Projects = {NoProject}
  NoProject = NoProject
  DefaultProject = default
  Titles = {leak, crash, typo}
  Blank = Blank
  Agents = {}
  NoAgent = NoAgent
  DefaultAgent = agent
  RelatedKeys = {0}
  Keep = Keep
  Updates <- StartingAndRenaming
  ClaimTTL = 1
  Second = 1
  MaxTickets = 3
  MaxComments = 1
  MaxTime = 0
  MatchingTitles = {leak, crash}
  MatchingComments = {1}
  Ranks = {1, 2}
  StatusFilters <- TodoOrAny
  AnyStatus = AnyStatus
  Scopes = {NoProject}
  Limits = {0, 3}
  DefaultLimit = 1
  MaxLimit = 2
INVARIANTS
  SearchTypeOK
  SettledMatchesFound
  ResultsMatch
VIEW AllButReply
