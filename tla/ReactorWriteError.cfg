\* A reset that arrives between epoll_wait and the write.
CONSTANTS
  Conns = {c1}
  Main = Main
  s1 = s1
  s2 = s2
  SubLoops <- MCSubLoops
  Scenarios <- EchoReset
  NoConn = NoConn
SPECIFICATION Spec
INVARIANT WriteErrorCloses
CHECK_DEADLOCK FALSE
