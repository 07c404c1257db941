SPECIFICATION Spec
CONSTANTS
  Pages = {0, 1, 2, 3, 4, 5, 6, 7}
  KernPT = 1
  KernEnvs = 2
  NullPage = 0
  PickFree <- LowestFree
  NPD = 1
  NPT = 1
  REFMAX = 16
  c0 = c0
  c1 = c1
  CPUs = {c0, c1}
  BSP = c0
  NENV = 2
  NoEnv = NoEnv
  NoCpu = NoCpu
  GENMAX = 1
  IpcValues <- ZeroOnly
  Syscalls <- IpcCalls
  Perms <- SomePerms
  Discipline <- AllDiscipline
  NBOOT = 1
  Image <- OnePageImage
  XStack <- FirstVA
  Traps = {}
INVARIANTS
  KernelMutex
  StatusMatchesCpus
  FreeListExact
  Cr3Live
  MonitorIsFinal
  OneCpuPerEnv
  RecvBlocked
  RefsExact
  KernelMapped
PROPERTIES
  ReadOnlyStays
  PopStable
