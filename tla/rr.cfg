SPECIFICATION FairSpec
CONSTANTS
  Pages = {0, 1, 2, 3, 4, 5, 6}
  KernPT = 1
  KernEnvs = 2
  NullPage = 0
  PickFree <- LowestFree
  NPD = 1
  NPT = 1
  REFMAX = 16
  c0 = c0
  c1 = c1
  CPUs = {c0, c1}
  BSP = c0
  NENV = 4
  NoEnv = NoEnv
  NoCpu = NoCpu
  GENMAX = 1
  IpcValues <- ZeroOnly
  Syscalls = {"env_set_status", "exofork"}
  Perms = {}
  Discipline <- AllDiscipline
  NBOOT = 3
  Image <- NoImage
  XStack <- FirstVA
  Traps = {}
PROPERTIES
  ScheduledUnlessExits
