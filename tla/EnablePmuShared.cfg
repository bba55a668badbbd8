SPECIFICATION FairSpec
CONSTANTS
  Cpus = {c1}
  Users = {u1, u2}
  CpuOf <- OneCpu
  Machines <- SomeMachines
  MaxFf = 2
  GpInit = 2
  EventSets <- SomeEvents
  NevMax <- EvAndEvx
  Preempt = FALSE
  MaxRuns = 1
  MaxLoads = 2
INVARIANTS TypeOK Measures CleanLoad
PROPERTIES OnlySelected Unloads
CHECK_DEADLOCK FALSE
