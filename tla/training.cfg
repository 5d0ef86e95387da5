SPECIFICATION RestartedSpec
CONSTANTS
  c1 = c1  c2 = c2  w1 = w1
  Clients <- OneOfEach
  Workers = {w1}
  TrainerOf <- W1TrainsC2
  JobSpecs <- SoloRoundsOrPairRound
  DefaultMinClients = 2
  MaxJobs = 2
  MaxAssignments = 8
  MaxModels = 3
  MaxRound = 3
  MaxDue = 2
  Tensors = {"ok"}
  Admins = {}
  AdHocRounds = {}
  MaxRollbacks = 0
  MaxRestarts = 1
  DiskFaults = FALSE
INVARIANTS TrainedFromBase
PROPERTIES JobProgress
CHECK_DEADLOCK FALSE
