SPECIFICATION FairSpec
CONSTANTS
  Samples <- MCSamples
  Capacity <- MCCapacity
  Window = 2
  Days = {1, 2, 3}
  Weekend = {2}
  Guests = {0}
  MaxId = 4
  Workers = {o1, w1}
  NoType = NoType
  Idle = Idle
  Orders = {o1}
  BasePrice <- MCBasePrice
  CheckIns <- MCCheckIns
  CheckOuts <- MCCheckOuts
  Quantities = {3}
  MaxItems = 2
  Word <- MCWord
INVARIANTS
  TypeOK
  BookedAsPicked
  PricedByDay
  TotalExact
PROPERTIES
  OrderAnswered
