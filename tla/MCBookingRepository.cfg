SPECIFICATION FairSpec
CONSTANTS
  Bookings = {b1}
  Statuses = {unpaid, paid}
  Unpaid = unpaid
  Lines = {l1, l2}
  Sessions = {t1, t2, t3}
  NoRow = NoRow
  Idle = Idle
INVARIANTS
  TypeOK
  DetailWhole
PROPERTIES
  ImplementsBookingStore
  CallsEnd
