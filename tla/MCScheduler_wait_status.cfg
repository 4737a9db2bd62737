SPECIFICATION Spec
CONSTANTS
  Procs <- MCProcs
  Tasks <- ThreeSlots
  Workloads <- StatusLoads
  InitPin <- Unpinned
  idle_id = 4
  NoTask = NoTask
  NoCore = NoCore
  Cores = {0}
  Statuses = {0, 1, 2, 137, 141}
  ExitCodes = {1}
  Killed = 137
  CpuLimit = 141
  max_threads = 2
  futex_max = 2
  MaxTicks = 1
  MaxEvents = 1
INVARIANTS
  WaitStatus
