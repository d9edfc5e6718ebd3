SPECIFICATION Spec
CONSTANTS
  NRecords = 3
  NServices = 1
  NSubdomains = 1
  NDnssec = 1
  MaxWorkers = 2
  MaxAnswers = 1
  Garbled = {2}
INVARIANTS
  PoolBound
  ResultFollowsAnswers
PROPERTIES
  NoLookupAfterReturn
  CallReturns
