SPECIFICATION Spec
CONSTANTS
  c1 = c1  c2 = c2  w1 = w1  a1 = a1
  Clients <- TwoClients
  Workers = {}
  TrainerOf <- NoTrainers
  JobSpecs <- PairOrSingleJob
  DefaultMinClients = 2
  MaxJobs = 1
  MaxAssignments = 4
  MaxModels = 3
  MaxRound = 3
  MaxDue = 1
  Tensors = {"ok", "garbled"}
  Admins = {}
  AdHocRounds = {1}
  MaxRollbacks = 0
  MaxRestarts = 2
  DiskFaults = TRUE
INVARIANTS JobRoundsInStep StoreBufferAgree EnoughContributors LeaseExclusive LeasesWithinCapacity
PROPERTIES AssignmentForward
SYMMETRY ClientSymmetry
CHECK_DEADLOCK FALSE
