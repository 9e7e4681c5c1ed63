SPECIFICATION FairSpec
CONSTANTS
  execute = execute
  describe = describe
  m1 = m1
  m2 = m2
  Watchdog = Watchdog
  Subs = {execute}
  Messages = {m1}
  Queue <- QueueOf
  Concurrency = 1
  MaxLosses = 1
INVARIANTS
  TypeOK
  OneConnection
  EachDeliveryHasOneOwner
  SettledIsEarned
  InFlightIsBounded
  NoSilentEnd
  CloseIsFinal
PROPERTIES
  OnlyOwnersSettle
  ConsumersComeBack
  ImplementsDelivery
