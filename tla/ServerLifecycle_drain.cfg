\* main.go against "Wait up to 30 seconds".
SPECIFICATION Spec
CONSTANTS
  Ports = {main}
  Bootstrap = main
  Conns = {k1}
  Callers = {"main"}
  ReadTimeout = 2
  DrainTimeout = 1
INVARIANT DrainWaits
\* The process may exit, and a stopped server waits for nothing.
CHECK_DEADLOCK FALSE
