\* A timer that runs out in the same round of the loop as its connection's event.
CONSTANTS
  Conns = {c1}
  Main = Main
  s1 = s1
  s2 = s2
  SubLoops <- MCSubLoops
  Scenarios <- EchoTimed
  NoConn = NoConn
SPECIFICATION Spec
INVARIANT ActiveChannelsExist
CHECK_DEADLOCK FALSE
