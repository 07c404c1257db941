SPECIFICATION Spec
CONSTANTS
  Clients = {a, b}
  First = {a}
  a = a
  b = b
  FS = FS
  NoOne = NoOne
  MAXOPEN = 1
  MAXFD = 1
  Names = {"f"}
  Values = {1}
  Hole = Hole
  FILEMAX = 1
  OpenModes <- OneMode
  Initial <- NoFile
  Counts = {1}
  Sizes = {1}
  Counted <- AllButRead
  CALLMAX = 3
  KILLMAX = 1
CHECK_DEADLOCK FALSE
PROPERTIES
  
  ImplementsFileService
