SPECIFICATION Spec
CONSTANTS
  Envs = {e1, e2, e3}
  First = e1
  e1 = e1
  e2 = e2
  e3 = e3
  NoOne = NoOne
  MAXFD = 2
  PIPEBUFSIZ = 1
  CPUS = 1
  Counts = {2}
  BYTEMAX = 2
  EXTRAMAX = 1
  Conventions = {"oneReader", "oneWriter", "spawnSole"}
CHECK_DEADLOCK FALSE
INVARIANTS
  ClosedIsTrue
  StreamIntact
  EndsPaired
PROPERTIES
  WaitEnds
