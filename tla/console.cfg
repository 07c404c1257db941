SPECIFICATION Spec
CONSTANTS
  CONSBUFSIZE = 3
  BUFLEN = 3
  Keys = {14, 28, 30, 32, 42, 58, 157}
  SerialBytes = {127}
  Readers = {r1}
  CRT_COLS = 2
  CRT_ROWS = 2
  CRTSTART = 2
  EVENTMAX = 3
  SERIALMAX = 2
  ASKMAX = 2
  r1 = r1
INVARIANTS
  TypeOK
  ModifiersFollowKeys
  TypedArrives
  EchoShowsLine
PROPERTIES
  LineDelivered
CHECK_DEADLOCK FALSE
