\* A client that sends a byte and closes its side.
CONSTANTS
  Conns = {c1}
  Main = Main
  s1 = s1
  s2 = s2
  SubLoops <- MCSubLoops
  Scenarios <- EchoClosed
  NoConn = NoConn
SPECIFICATION FairSpec
PROPERTY ShutDownCompletes
CHECK_DEADLOCK FALSE
