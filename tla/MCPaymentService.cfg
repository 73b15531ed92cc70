SPECIFICATION FairSpec
CONSTANTS
  Bookings = {b1}
  Unknown = Unknown
  Totals = {1, 2}
  Amounts = {0, 1, 2}
  Statuses = {"settlement", "deny", "pending"}
  Workers = {w1, w2}
  NoRow = NoRow
  Idle = Idle
  MaxRefunds = 2
INVARIANTS
  TypeOK
  PaidInFull
  RefundRecorded
  RefundAnswerHonest
  PaidOnce
PROPERTIES
  OutcomeKept
  ImplementsLedger
  Answered
