SPECIFICATION Spec
CONSTANTS
  UsizeMax = 4
  WorkerCap = 2
  Hosts = {1, 2, 3}
  Workloads <- MCWorkloads
  MaxAltered = 2
  Starting <- MCStarting
INVARIANT AcceptsExactlyProduced
CHECK_DEADLOCK FALSE
