SPECIFICATION WfSpec
CONSTANTS
  hash = hash
  empty = empty
  noAuction = noAuction
  oldAuction = oldAuction
  Buyers = {9}
  Suppliers = {1, 2}
  Policies = {hash}
  Commitments <- MCCommitments
  Caps = {4}
  Payouts = {0, 1, 2}
  BookingIds = {"none", "b1"}
  NoAddress = 0
  NoAuction = noAuction
  NoBooking = "none"
  SUPPLIER_STAKE = 1
  MAX_BIDS = 2
  MAX_OPEN_AUCTIONS = 2
  BID_PERIOD = 1
  FINALIZE_PERIOD = 2
  Funds = 4
  MaxCreatedAt = 0
  MaxTime = 2
  Runs = {r1, r2}
  Terms <- MCTerms
  OtherPolicy <- MCOtherPolicy
  Quote <- MCQuote
  OldAuction = oldAuction
  Careless = {}
  CopiedTo = {}
  BookingId = "b1"
  Empty = empty
INVARIANTS
  BooksNothingTwice
CHECK_DEADLOCK FALSE
