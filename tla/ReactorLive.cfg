\* One client that does everything, of an EchoServer with one sub loop.  See FairSpec.
CONSTANTS
  Conns = {c1}
  Main = Main
  s1 = s1
  s2 = s2
  SubLoops <- MCSubLoops
  Scenarios <- EchoAndEchoTimed
  NoConn = NoConn
SPECIFICATION FairSpec
PROPERTIES
  ReleasedIsForgotten ResetIsReleased OutIsSent IdleIsReleased OrderlyShutDownCompletes
  ReleasedWhenFlushed
CHECK_DEADLOCK FALSE
