SPECIFICATION AggregationSpec
CONSTANTS
  c1 = c1  c2 = c2  c3 = c3  c4 = c4  c5 = c5
  Clients = {c1, c2, c3, c4, c5}
  MaxRound = 1
  Configs <- AllConfigs
  Values <- SomeValues
  Sizes = {1, 6}
  Noises <- SomeNoises
  Overflow = 20
  IntSize = 16
  MaxModels <- ModelBound
  MaxFailures = 1
INVARIANTS AggregationTypeOK WithinSubmissions OutliersFiltered MomentumBounded
SYMMETRY Symmetry
CHECK_DEADLOCK FALSE
