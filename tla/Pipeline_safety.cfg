CONSTANTS
  a = a
  b = b
  r1 = r1
  r2 = r2
  e1 = e1
  w1 = w1
  w2 = w2
  None = None
  Conns <- MCConns
  Readers <- MCReaders
  Execs = {e1}
  Writers <- MCWriters
  QueueSize = 1
  MaxRequests = 2
SPECIFICATION Spec
INVARIANTS TypeOK OneOwner RequestsAccounted PendingIsInServer
CHECK_DEADLOCK FALSE
SYMMETRY PipelineSymmetry
