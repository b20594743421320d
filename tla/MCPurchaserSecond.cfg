SPECIFICATION PurSpec
CONSTANTS
  treasury = treasury
  quorum = quorum
  confirm1 = confirm1
  confirm2 = confirm2
  confirm3 = confirm3
  cheap = cheap
  edge = edge
  dear = dear
  nobody = nobody
  noAuction = noAuction
  stranger = stranger
  empty = empty
  Buyers = {treasury, quorum}
  Suppliers = {}
  Policies = {cheap}
  Commitments = {}
  Caps = {2, 4, 6}
  Payouts = {0}
  BookingIds = {"none"}
  NoAddress = nobody
  NoAuction = noAuction
  NoBooking = "none"
  SUPPLIER_STAKE = 1
  MAX_BIDS = 1
  MAX_OPEN_AUCTIONS = 2
  BID_PERIOD = 1
  FINALIZE_PERIOD = 2
  Funds = 6
  MaxCreatedAt = 1
  MaxTime = 3
  Confirms = {confirm1, confirm2}
  ROUNDS = 3
  wallet = treasury
  quorumWallet = quorum
  MaxPriceOf <- Prices
  Bucket = 2
  MaxPayoutCap = 4
  QuorumCeiling = 2
  HasQuorumKeys = TRUE
  RpcFails = FALSE
  Stranger = stranger
  Empty = empty
SYMMETRY Interchangeable
INVARIANTS
  NoSecondAuction
CHECK_DEADLOCK FALSE
