SPECIFICATION Spec
CONSTANTS
  Samples <- MCSamples
  Capacity <- MCCapacity
  Window = 2
  Days <- LaterDays
  Weekend = {1}
  Guests = {0, 3}
  MaxId = 4
  Workers = {w1, w2}
  NoType = NoType
  Idle = Idle
INVARIANTS
  AvailableEveryNight
