SPECIFICATION SupSpec
CONSTANTS
  alice = alice
  bob = bob
  me = me
  hash = hash
  c1 = c1
  c2 = c2
  c3 = c3
  nobody = nobody
  noAuction = noAuction
  stranger = stranger
  empty = empty
  Buyers = {alice, bob}
  Suppliers = {me}
  Policies = {hash}
  Commitments = {c1, c2, c3}
  Caps = {1}
  Payouts = {0}
  BookingIds = {"none"}
  NoAddress = nobody
  NoAuction = noAuction
  NoBooking = "none"
  SUPPLIER_STAKE = 1
  MAX_BIDS = 2
  MAX_OPEN_AUCTIONS = 2
  BID_PERIOD = 1
  FINALIZE_PERIOD = 2
  Funds = 3
  MaxCreatedAt = 0
  MaxTime = 1
  Me = me
  Calls = {c1, c2, c3}
  Stranger = stranger
  Empty = empty
  MaxLogs = 3
SYMMETRY Interchangeable
INVARIANTS
  ApprovalStands
CHECK_DEADLOCK FALSE
