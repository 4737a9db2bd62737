SPECIFICATION Spec
CONSTANTS
  Procs <- MCProcs
  Tasks <- TwoSlots
  Workloads <- SmpLoads
  InitPin <- Unpinned
  idle_id = 3
  NoTask = NoTask
  NoCore = NoCore
  Cores = {0, 1}
  Statuses = {0, 1, 2, 137, 141}
  ExitCodes = {1}
  Killed = 137
  CpuLimit = 141
  max_threads = 2
  futex_max = 2
  MaxTicks = 1
  MaxEvents = 1
INVARIANTS
  TypeOK
  RingsExact
  SingleOwner
  ProgramAlive
  PinRespected
  LiveTasksExact
PROPERTIES
  WaitersHear
CHECK_DEADLOCK FALSE
