CONSTANTS
  w1 = w1  w2 = w2  c1 = c1  c2 = c2  p1 = p1  p2 = p2
  Worker = {w1, w2}
  Conn = {c1, c2}
  Owner <- OneEach
  Scheduler = {p1, p2}
  MaxTask = 3
  Capacity = 1
  SendMayTimeOut = FALSE
  ConnMayFail = FALSE
  RestartAllowed = FALSE
  NoWorker = NoWorker
  NoConn = NoConn
SPECIFICATION FairSpec
INVARIANTS NothingLost BusyHasWork StandstillNeedsTasks
PROPERTY TaskSettles
CHECK_DEADLOCK FALSE
