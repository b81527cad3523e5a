SPECIFICATION Spec
CONSTANTS
  Keys = {k1}
  Calls = {c1, c2, c3}
  NoFlight = NoFlight
SYMMETRY MCSymmetry
INVARIANTS
  TypeOK
  ConsumersCounted
  OneFlightPerKey
  RegistryExact
PROPERTIES
  AbortOnlyWhenAbandoned
  SettleWaitsForAll
CHECK_DEADLOCK FALSE
