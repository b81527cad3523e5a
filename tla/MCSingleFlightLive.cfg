SPECIFICATION FairSpec
CONSTANTS
  Keys = {k1}
  Calls = {c1, c2}
  NoFlight = NoFlight
PROPERTIES
  EveryCallReturns
  SettleReturns
CHECK_DEADLOCK FALSE
