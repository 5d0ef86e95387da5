SPECIFICATION PersistentSpec
CONSTANTS
  c1 = c1  w1 = w1
  Clients = {c1}
  Workers = {w1}
  TrainerOf <- W1TrainsC1
  JobSpecs <- OneOrTwoPlanned
  DefaultMinClients = 2
  MaxJobs = 1
  MaxAssignments = 1
  MaxModels = 1
  MaxRound = 1
  MaxDue = 1
  MaxCrashes = 1
  MaxFaults = 1
INVARIANTS StoreTypeOK FileConsistent AnsweredIsDurable OneTaskPerLease
PROPERTY ImplementsStore
CHECK_DEADLOCK FALSE
