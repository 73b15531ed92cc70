SPECIFICATION Spec
CONSTANTS
  Bookings = {b1}
  Users = {u1}
  Totals = {1}
  Requests = {r1}
  Unknown = Unknown
  Amounts = {1}
  Statuses = {"settlement", "deny"}
  Workers = {w1, w2}
  MaxRefunds = 0
  OtherPosts = {"PAID", "CANCELLED"}
  OtherNotices = {"settlement"}
  NoRow = NoRow
  Idle = Idle
INVARIANTS
  NoStayWithoutSettlement
  AckedNoticeTookEffect
SYMMETRY Symmetric
