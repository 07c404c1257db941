SPECIFICATION Spec
CONSTANTS
  Envs = {a, b, c}
  First = a
  a = a
  b = b
  c = c
  NoOne = NoOne
  Frames = {1, 2, 3, 4, 5, 6, 7, 8, 9, 10}
  Values = {0, 1}
  StoredTo = {"text", "shared", "stack"}
  EVENTMAX = 2
SYMMETRY Alike
CHECK_DEADLOCK FALSE
INVARIANTS
  WritableMeansSole
  HandlerReady
PROPERTIES
  ImplementsAddressSpaces
