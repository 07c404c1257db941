SPECIFICATION Spec
CONSTANTS
  Pages = {0, 1, 2, 3, 4, 5, 6, 7}
  KernPT = 1
  KernEnvs = 2
  NullPage = 0
  PickFree <- LowestFree
  NPD = 1
  NPT = 2
  REFMAX = 16
  c0 = c0
  c1 = c1
  CPUs = {c0, c1}
  BSP = c0
  NENV = 2
  NoEnv = NoEnv
  NoCpu = NoCpu
  GENMAX = 1
  IpcValues <- ZeroOnly
  Syscalls <- VmCalls
  Perms <- SomePerms
  Discipline <- AllDiscipline
  NBOOT = 1
  Image <- OnePageImage
  XStack <- SecondVA
  Traps = {"pgflt", "unexpected"}
INVARIANTS
  TypeOK
  RefsExact
  TablesPrivate
PROPERTIES
  ReadOnlyStays
