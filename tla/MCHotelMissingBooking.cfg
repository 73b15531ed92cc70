SPECIFICATION Spec
CONSTANTS
  Bookings = {b1}
  Users = {u1}
  Totals = {1}
  Requests = {r1}
  Unknown = Unknown
  Amounts = {1}
  Statuses = {"settlement", "deny"}
  Workers = {w1}
  MaxRefunds = 1
  OtherPosts = {}
  OtherNotices = {}
  NoRow = NoRow
  Idle = Idle
PROPERTIES
  PostNeedsBooking
