SPECIFICATION FairPageSpec
CONSTANTS
  alice = alice
  s1 = s1
  s2 = s2
  hash = hash
  k = k
  nobody = nobody
  noAuction = noAuction
  Buyers = {alice}
  Suppliers = {alice, s2}
  Policies = {hash}
  Commitments = {k}
  Caps = {1}
  Payouts = {0, 1}
  BookingIds = {"none", "b1"}
  NoAddress = nobody
  NoAuction = noAuction
  NoBooking = "none"
  SUPPLIER_STAKE = 2
  MAX_BIDS = 2
  MAX_OPEN_AUCTIONS = 2
  BID_PERIOD = 1
  FINALIZE_PERIOD = 2
  Funds = 3
  MaxCreatedAt = 1
  MaxTime = 2
  Clicks = {"settling"}
  MaxAuctions = 2
  Bidders <- BuyerTooThenNone
INVARIANTS
  PageTypeOK
  RowsPairTruly
  ReachedReallyHappened
  HotelIsOfThisBooking
PROPERTIES
  NeverWalksBack
  PollNeverFolds
  OutcomeIsShown
CHECK_DEADLOCK FALSE
