SPECIFICATION Spec
CONSTANTS
  NBLOCKS = 11
  BLKSIZE = 2
  BLKFILES = 2
  NDIRECT = 1
  NINDIRECT = 2
  Names = {"a", "b", "c"}
  LongNames = {"long"}
  Paths <- SomePaths
  Bytes = {0, 1}
  ImageFiles <- TwoFiles
  Spans <- SomeSpans
  Sizes = {0, 3, 7}
  OPMAX = 4
  CRASHMAX = 1
CHECK_DEADLOCK FALSE
INVARIANTS
  Owned
  NothingLost
  DiskConsistent
  Durable
PROPERTIES
  ImplementsFileStore
