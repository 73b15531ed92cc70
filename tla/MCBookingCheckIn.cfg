SPECIFICATION Spec
CONSTANTS
  Bookings = {b1}
  Users = {u1}
  Totals = {1}
  Requests = {r1}
  NoRow = NoRow
  Idle = Idle
PROPERTIES
  CheckInRequiresPaid
