SPECIFICATION ServersSpec
CONSTANTS
  Services = {"a", "b", "tcp", "udp", "ident"}
  Stream = {"a", "b", "tcp", "ident"}
  Exec = {"a", "b", "tcp", "udp"}
  Conns = {"c1", "c2", "t1", "t2", "d1", "d2", "i1"}
  SvcOf <- KindOf
  Config <- ConfigThree
  MayFail = TRUE
INVARIANTS Awaited AllAwaited
PROPERTIES ServersStop Isolated
CHECK_DEADLOCK FALSE
