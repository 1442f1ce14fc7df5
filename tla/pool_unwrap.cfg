CONSTANTS
  w1 = w1  w2 = w2  c1 = c1  c2 = c2  p1 = p1  p2 = p2
  Worker = {w1}
  Conn = {c1, c2}
  Owner <- Alone
  Scheduler = {p1}
  MaxTask = 2
  Capacity = 2
  SendMayTimeOut = FALSE
  ConnMayFail = TRUE
  RestartAllowed = TRUE
  NoWorker = NoWorker
  NoConn = NoConn
SPECIFICATION Spec
INVARIANT MarkedIsRegistered
CHECK_DEADLOCK FALSE
