SPECIFICATION Spec
CONSTANTS
  Bookings = {b1}
  Users = {u1, u2}
  Totals = {1}
  Requests = {r1, r2}
  NoRow = NoRow
  Idle = Idle
INVARIANTS
  TypeOK
  StayWasPaid
  Entitled
  OkMeansDone
  DeleteAnsweredOnce
PROPERTIES
  DeletedStaysDeleted
  OnlyOwnerDeletes
  ImplementsLifecycle
