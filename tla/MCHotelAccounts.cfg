SPECIFICATION HotelSpec
CONSTANTS
  Ann = Ann
  ann = ann
  bob = bob
  short = short
  long = long
  Emails = {Ann, ann, bob}
  Lower <- LowerOf
  Passwords = {short, long}
  Hashable = {short}
  Digest <- DigestOf
  Ids = {u1, u2}
  Slots = {s1, s2}
  NoUser = NoUser
  Bookings = {b1}
  Totals = {1}
  Requests = {r1}
  NoRow = NoRow
  Idle = Idle
SYMMETRY Symmetry
INVARIANTS
  HotelTypeOK
  RegistrationKept
  OneIdentity
  FindsOwnBookings
PROPERTIES
  DeletedByItsAddress
