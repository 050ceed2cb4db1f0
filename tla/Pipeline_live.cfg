CONSTANTS
  a = a
  b = b
  r1 = r1
  r2 = r2
  e1 = e1
  w1 = w1
  w2 = w2
  None = None
  Conns <- MCConns
  Readers = {r1}
  Execs = {e1}
  Writers = {w1}
  QueueSize = 1
  MaxRequests = 1
SPECIFICATION Spec
PROPERTIES RequestsLeave SessionsAreRead AllThreadsEnd
CHECK_DEADLOCK FALSE
