SPECIFICATION Spec
CONSTANTS
  c1 = c1  c2 = c2  w1 = w1  a1 = a1
  Clients <- TwoClients
  Workers = {}
  TrainerOf <- NoTrainers
  JobSpecs <- PairJob
  DefaultMinClients = 1
  MaxJobs = 2
  MaxAssignments = 4
  MaxModels = 3
  MaxRound = 3
  MaxDue = 1
  Tensors = {"ok", "nan"}
  Admins = {}
  AdHocRounds = {1}
  MaxRollbacks = 0
  MaxRestarts = 0
  DiskFaults = TRUE
INVARIANTS TypeOK SubmittedIsBuffered AggregatedContributed OneSubmissionPerRound OnlyNewestJobActive CheckpointIntact
PROPERTIES StoreSpec AnswerTrue
SYMMETRY ClientSymmetry
CHECK_DEADLOCK FALSE
