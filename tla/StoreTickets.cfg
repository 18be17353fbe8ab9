SPECIFICATION Spec
CONSTANTS
  Projects = {NoProject, default, voice}
  NoProject = NoProject
  DefaultProject = default
  Titles = {Blank, fix, ship}
  Blank = Blank
  Agents = {}
  NoAgent = NoAgent
  DefaultAgent = agent
  RelatedKeys = {0, 1, 2, 3}
  Keep = Keep
  Updates <- MovingRenamingLinking
  ClaimTTL = 1
  Second = 1
  MaxTickets = 2
  MaxComments = 1
  MaxTime = 1
INVARIANTS
  TypeOK
  KeysSequential
  ParentsOlder
PROPERTIES
  TerminalIsFinal
  TwinsOnlyByRename
VIEW Stored
