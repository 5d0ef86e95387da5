SPECIFICATION FairSpec
CONSTANTS
  c1 = c1  c2 = c2  w1 = w1  a1 = a1
  Clients <- TwoClients
  Workers = {}
  TrainerOf <- NoTrainers
  JobSpecs <- PairJobOneRound
  DefaultMinClients = 2
  MaxJobs = 2
  MaxAssignments = 8
  MaxModels = 2
  MaxRound = 3
  MaxDue = 0
  Tensors = {"ok"}
  Admins = {}
  AdHocRounds = {}
  MaxRollbacks = 0
  MaxRestarts = 0
  DiskFaults = FALSE
PROPERTIES JobProgress
CHECK_DEADLOCK FALSE
