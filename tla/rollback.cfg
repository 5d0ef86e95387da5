SPECIFICATION Spec
CONSTANTS
  c1 = c1  c2 = c2  w1 = w1  a1 = a1
  Clients = {c1}
  Workers = {w1}
  TrainerOf <- W1TrainsC1
  JobSpecs <- SoloJob
  DefaultMinClients = 2
  MaxJobs = 1
  MaxAssignments = 2
  MaxModels = 2
  MaxRound = 3
  MaxDue = 0
  Tensors = {"ok"}
  Admins = {a1}
  AdHocRounds = {}
  MaxRollbacks = 1
  MaxRestarts = 0
  DiskFaults = TRUE
INVARIANTS ActiveRoundOpen BusyWorkerOwnsTask OneActiveModel
CHECK_DEADLOCK FALSE
