SPECIFICATION Spec
CONSTANTS
  alice = alice
  bob = bob
  carol = carol
  hash = hash
  c1 = c1
  c2 = c2
  Buyers <- MCBuyers
  Suppliers <- MCSuppliers
  Policies = {hash}
  Commitments = {c1}
  Caps = {2}
  Payouts = {0, 1, 3}
  BookingIds = {"none", "b1"}
  NoAddress = nobody
  NoAuction = noAuction
  NoBooking = "none"
  SUPPLIER_STAKE = 1
  MAX_BIDS = 2
  MAX_OPEN_AUCTIONS = 2
  BID_PERIOD = 1
  FINALIZE_PERIOD = 2
  Funds = 5
  MaxCreatedAt = 1
  MaxTime = 3
  nobody = nobody
  noAuction = noAuction
INVARIANTS
  TypeOK
  OpenListIsExact
  BookAgrees
  PaidExactly
  PayoutIsBacked
  ScanFindsDue
  RefundNeverBlocked
  Solvent
PROPERTIES
  RootIsFinal
  TerminalIsFinal
  ImplementsEscrow
CHECK_DEADLOCK FALSE
