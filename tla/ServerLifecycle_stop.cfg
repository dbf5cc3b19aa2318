\* main.go and a caller with a stop context of its own: two listeners and one device.
SPECIFICATION FairSpec
CONSTANTS
  Ports = {main, kiosks}
  Bootstrap = main
  Conns = {k1}
  Callers = {"main", "test"}
  ReadTimeout = 2
  DrainTimeout = 1
INVARIANTS FailedStartHoldsNoPort WaitGroupExact DrainedIsLoggedOut
PROPERTIES NoAcceptAfterStop BindFailureEndsProcess StopReturns GoroutinesEnd
\* The process may exit, and a stopped server waits for nothing.
CHECK_DEADLOCK FALSE
