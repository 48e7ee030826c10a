CONSTANTS
  Methods <- MCMethods
  Paths <- MCPaths
  Params <- MCParams
  Base <- MCBase
  FileTree <- MCFileTree
  DirTree <- MCDirTree
  Routes <- MCRoutes
  Streams <- MCStreams
  MaxLine = 2
  Numbers <- MCNumbers
SPECIFICATION FairSpec
INVARIANTS
  NothingLeftUnanswered
  AnsweredByTheRightHandler
PROPERTIES
  ImplementsExchange
  ShutDownCompletes
CHECK_DEADLOCK FALSE
