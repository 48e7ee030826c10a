\* Two clients, of an EchoServer with two sub loops and of an HttpServer without.
CONSTANTS
  Conns = {c1, c2}
  Main = Main
  s1 = s1
  s2 = s2
  SubLoops <- MCSubLoops
  Scenarios <- EchoAndHttp
  NoConn = NoConn
SPECIFICATION Spec
SYMMETRY ConnSymmetry
INVARIANTS
  ChannelsSound BytesConserved ServerStays ClosedOnce FreedIsUnused
CHECK_DEADLOCK FALSE
