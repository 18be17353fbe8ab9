SPECIFICATION Spec
CONSTANTS
  Projects = {NoProject, voice}
  NoProject = NoProject
  DefaultProject = default
  Titles = {Blank, fix}
  Blank = Blank
  Agents = {}
  NoAgent = NoAgent
  DefaultAgent = agent
  RelatedKeys = {0, 1, 3, 4}
  Keep = Keep
  Updates <- Moving
  ClaimTTL = 1
  Second = 1
  MaxTickets = 3
  MaxComments = 0
  MaxTime = 0
INVARIANTS
  TodoCanBeParked
