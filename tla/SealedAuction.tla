--------------------------- MODULE SealedAuction ---------------------------
(***************************************************************************)
(* The escrow contract of onchain/contracts/SealedAuction.sol.  It locks a *)
(* buyer's USDC per auction, takes one commitment and one stake per        *)
(* supplier, and pays out once: on the settlement report of the workflow   *)
(* or, after the finalize deadline, on anybody's timeoutRefund.            *)
(*                                                                         *)
(* One action is one mined transaction.  A call that reverts changes       *)
(* nothing on chain, so a revert is an action that is not enabled; the     *)
(* guards CanClaim, CanSettle... are operators of their own so that the    *)
(* modules that compose the contract with its callers can tell a mined     *)
(* call from a rejected one.                                               *)
(*                                                                         *)
(* The id of an auction is the hash of its opening record, so the model    *)
(* takes the record itself as the id: equal records collide, different     *)
(* ones never do.  keccak256 over the commitments is likewise the sequence *)
(* of commitments.                                                         *)
(***************************************************************************)
EXTENDS Integers, Sequences, FiniteSets

CONSTANTS
  Buyers,             \* accounts that open auctions
  Suppliers,          \* accounts that commit; may overlap with Buyers
  Policies,           \* policy hashes
  Commitments,        \* bid commitments: any 32 bytes a supplier may post
  Caps,               \* payout caps buyers lock
  Payouts,            \* payouts a settlement may name
  BookingIds,         \* booking ids a settlement may name, NoBooking included
  NoAddress,          \* address(0)
  NoAuction,          \* bytes32(0)
  NoBooking,          \* the empty booking id
  SUPPLIER_STAKE,
  MAX_BIDS,
  MAX_OPEN_AUCTIONS,
  BID_PERIOD,
  FINALIZE_PERIOD,
  Funds,              \* USDC every account starts with
  MaxCreatedAt,       \* bound: the last timestamp at which an auction opens
  MaxTime             \* bound: the last block timestamp

Addresses == Buyers \cup Suppliers

AuctionIds == [buyer: Buyers, createdAt: 0..MaxCreatedAt,
               policyHash: Policies, payoutCap: Caps]

\* The constructor reverts unless the finalize period outlasts the bid period.
ASSUME ContractAssumption ==
  /\ Caps \subseteq Nat
  /\ Payouts \subseteq Nat
  /\ NoAddress \notin Addresses
  /\ NoAuction \notin AuctionIds
  /\ SUPPLIER_STAKE \in Nat
  /\ MAX_BIDS \in Nat
  /\ MAX_OPEN_AUCTIONS \in Nat
  /\ BID_PERIOD \in Nat
  /\ FINALIZE_PERIOD \in Nat
  /\ BID_PERIOD < FINALIZE_PERIOD
  /\ Funds \in Nat
  /\ MaxCreatedAt \in Nat
  /\ MaxTime \in Nat

VARIABLES
  now,            \* block.timestamp of the next block
  auctions,       \* auctions[id]: the fields a transaction may still change
  openAuctions,   \* _openAuctions, the list the cron scan walks
  commitments,    \* _commitments[id], in arrival order
  committers,     \* _committers[id], in the same order
  hasCommitted,   \* _hasCommitted[id], as a set of addresses
  usdc,           \* USDC balance of every account
  held,           \* USDC balance of the contract
  paidOut         \* observed: USDC each account received from each auction

bids  == <<commitments, committers, hasCommitted>>
money == <<usdc, held, paidOut>>
vars  == <<now, auctions, openAuctions, commitments, committers, hasCommitted,
           usdc, held, paidOut>>

States == {"None", "Created", "Bidding", "Settling", "Finalized", "Timeout"}
Live == {"Created", "Bidding", "Settling"}
Terminal == {"Finalized", "Timeout"}

AuctionRecord == [state: States, winner: Addresses \cup {NoAddress}, payout: Nat]

\* bytes32 settlement payload, as the workflow encodes it.
Settlement == [auctionId: AuctionIds, policyHash: Policies,
               bidsRoot: Seq(Commitments), winner: Addresses \cup {NoAddress},
               payout: Payouts, bookingId: BookingIds]

bidDeadline(id) == id.createdAt + BID_PERIOD
finalizeDeadline(id) == id.createdAt + FINALIZE_PERIOD
state(id) == auctions[id].state
bidsRoot(id) == commitments[id]

Init ==
  /\ now = 0
  /\ auctions = [id \in AuctionIds |->
                   [state |-> "None", winner |-> NoAddress, payout |-> 0]]
  /\ openAuctions = <<>>
  /\ commitments = [id \in AuctionIds |-> <<>>]
  /\ committers = [id \in AuctionIds |-> <<>>]
  /\ hasCommitted = [id \in AuctionIds |-> {}]
  /\ usdc = [a \in Addresses |-> Funds]
  /\ held = 0
  /\ paidOut = [id \in AuctionIds |-> [a \in Addresses |-> 0]]

-----------------------------------------------------------------------------
\* usdc.safeTransferFrom(account, address(this), amount); a balance that is too
\* small reverts the whole call.
Pull(account, amount) ==
  /\ usdc[account] >= amount
  /\ usdc' = [usdc EXCEPT ![account] = @ - amount]
  /\ held' = held + amount

\* Mutation: an auction that already exists is opened again.
CanCreateOverExisting(id) ==
  /\ Len(openAuctions) # MAX_OPEN_AUCTIONS
  /\ id.createdAt = now
  /\ usdc[id.buyer] >= id.payoutCap

\* Mutation: the limit on open auctions is not enforced.
CanCreateBeyondLimit(id) ==
  /\ id.createdAt = now
  /\ state(id) = "None"
  /\ usdc[id.buyer] >= id.payoutCap

CanCreate(id) ==
  /\ Len(openAuctions) # MAX_OPEN_AUCTIONS
  /\ id.createdAt = now
  /\ state(id) = "None"
  /\ usdc[id.buyer] >= id.payoutCap

createAuction(id) ==
  /\ CanCreate(id)
  /\ auctions' = [auctions EXCEPT ![id].state = "Created"]
  /\ openAuctions' = Append(openAuctions, id)
  /\ Pull(id.buyer, id.payoutCap)
  /\ UNCHANGED <<now, commitments, committers, hasCommitted, paidOut>>

\* Mutation: the deadline check lets the block at the deadline in.
CanCommitAtDeadline(id, supplier) ==
  /\ state(id) \in {"Created", "Bidding"}
  /\ now <= bidDeadline(id)
  /\ supplier \notin hasCommitted[id]
  /\ Len(commitments[id]) # MAX_BIDS
  /\ usdc[supplier] >= SUPPLIER_STAKE

\* Mutation: the once-per-address check is gone.
CanCommitAgain(id, supplier) ==
  /\ state(id) \in {"Created", "Bidding"}
  /\ now < bidDeadline(id)
  /\ Len(commitments[id]) # MAX_BIDS
  /\ usdc[supplier] >= SUPPLIER_STAKE

CanCommit(id, supplier) ==
  /\ state(id) \in {"Created", "Bidding"}
  /\ now < bidDeadline(id)
  /\ supplier \notin hasCommitted[id]
  /\ Len(commitments[id]) # MAX_BIDS
  /\ usdc[supplier] >= SUPPLIER_STAKE

commit(id, supplier, commitment) ==
  /\ CanCommit(id, supplier)
  /\ hasCommitted' = [hasCommitted EXCEPT ![id] = @ \cup {supplier}]
  /\ commitments' = [commitments EXCEPT ![id] = Append(@, commitment)]
  /\ committers' = [committers EXCEPT ![id] = Append(@, supplier)]
  /\ auctions' = [auctions EXCEPT ![id].state = "Bidding"]
  /\ Pull(supplier, SUPPLIER_STAKE)
  /\ UNCHANGED <<now, openAuctions, paidOut>>

-----------------------------------------------------------------------------
\* Mutation: the last entry is popped without first filling the gap.
PopLast(list, id) ==
  IF \E i \in DOMAIN list : list[i] = id
  THEN [k \in 1..(Len(list) - 1) |-> list[k]]
  ELSE list

\* _closeAuction: the last entry fills the closed auction's place, then the
\* list shrinks by one.
Without(list, id) ==
  IF \E i \in DOMAIN list : list[i] = id
  THEN LET gap == CHOOSE i \in DOMAIN list :
                    list[i] = id /\ \A j \in 1..(i - 1) : list[j] # id
       IN [k \in 1..(Len(list) - 1) |->
             IF k = gap THEN list[Len(list)] ELSE list[k]]
  ELSE list

\* Mutation: the winner's stake is treated as part of its payout.
StakesButWinners(id, winner, account) ==
  IF account = winner THEN 0
  ELSE SUPPLIER_STAKE *
         Cardinality({i \in DOMAIN committers[id] : committers[id][i] = account})

\* _refundStakes, seen from one account: a stake per entry of the list.
StakesBack(id, winner, account) ==
  SUPPLIER_STAKE *
    Cardinality({i \in DOMAIN committers[id] : committers[id][i] = account})

\* The transfers of one terminal transition, seen from every account.
Payments(id, winner, payout) ==
  [a \in Addresses |->
     (IF a = winner THEN payout ELSE 0)
       + (IF a = id.buyer THEN id.payoutCap - payout ELSE 0)
       + StakesBack(id, winner, a)]

\* Mutation: the buyer's refund forgets that a payout was made.
Overpay(id, winner, payout) ==
  id.payoutCap + payout + SUPPLIER_STAKE * Len(committers[id])

TotalPaid(id, winner, payout) ==
  payout + (id.payoutCap - payout) + SUPPLIER_STAKE * Len(committers[id])

\* What both terminal transitions do: the state first, then the open list, then
\* the transfers.  A transfer the contract cannot cover reverts all of it.
Close(id, terminal, winner, payout) ==
  /\ held >= TotalPaid(id, winner, payout)
  /\ auctions' = [auctions EXCEPT
                    ![id] = [state |-> terminal, winner |-> winner, payout |-> payout]]
  /\ openAuctions' = Without(openAuctions, id)
  /\ held' = held - TotalPaid(id, winner, payout)
  /\ LET share == Payments(id, winner, payout)
     IN /\ usdc' = [a \in Addresses |-> usdc[a] + share[a]]
        /\ paidOut' = [paidOut EXCEPT
                         ![id] = [a \in Addresses |-> @[a] + share[a]]]
  /\ UNCHANGED <<now, commitments, committers, hasCommitted>>

-----------------------------------------------------------------------------
CanClaim(id) ==
  /\ state(id) = "Bidding"
  /\ now >= bidDeadline(id)

_startSettling(id) ==
  /\ CanClaim(id)
  /\ auctions' = [auctions EXCEPT ![id].state = "Settling"]
  /\ UNCHANGED <<now, openAuctions, bids, money>>

\* Mutation: a settlement is taken in any state but the ones before the claim.
CanSettleTwice(s) ==
  /\ state(s.auctionId) \notin {"None", "Created", "Bidding"}
  /\ s.policyHash = s.auctionId.policyHash
  /\ s.bidsRoot = bidsRoot(s.auctionId)
  /\ s.payout <= s.auctionId.payoutCap
  /\ s.winner = NoAddress => s.payout = 0
  /\ s.winner # NoAddress => s.winner \in hasCommitted[s.auctionId]

\* Mutation: the winner need not have committed to this auction.
CanSettleForAnyone(s) ==
  /\ state(s.auctionId) = "Settling"
  /\ s.policyHash = s.auctionId.policyHash
  /\ s.bidsRoot = bidsRoot(s.auctionId)
  /\ s.payout <= s.auctionId.payoutCap
  /\ s.winner = NoAddress <=> s.payout = 0

CanSettle(s) ==
  /\ state(s.auctionId) = "Settling"
  /\ s.policyHash = s.auctionId.policyHash
  /\ s.bidsRoot = bidsRoot(s.auctionId)
  /\ s.payout <= s.auctionId.payoutCap
  /\ s.winner = NoAddress => s.payout = 0
  /\ s.winner # NoAddress =>
       /\ s.winner \in hasCommitted[s.auctionId]
       /\ s.payout # 0
       /\ s.bookingId # NoBooking

_settle(s) ==
  /\ CanSettle(s)
  /\ Close(s.auctionId, "Finalized", s.winner, s.payout)

\* Mutation: a finished auction is refunded again.
CanRefundTwice(id) ==
  /\ state(id) # "None"
  /\ now >= finalizeDeadline(id)

CanRefund(id) ==
  /\ state(id) \notin {"None", "Finalized", "Timeout"}
  /\ now >= finalizeDeadline(id)

timeoutRefund(id) ==
  /\ CanRefund(id)
  /\ Close(id, "Timeout", NoAddress, 0)

\* Mutation: the scan looks at the first open auction only.
pendingHead ==
  IF openAuctions # <<>> /\ CanClaim(openAuctions[1]) THEN openAuctions[1] ELSE NoAuction

\* Mutation: the scan does not wait for the bid deadline.
pendingEarly ==
  IF \E i \in DOMAIN openAuctions : state(openAuctions[i]) = "Bidding"
  THEN openAuctions[CHOOSE i \in DOMAIN openAuctions : state(openAuctions[i]) = "Bidding"]
  ELSE NoAuction

\* pendingSettlement: the first open auction that can be claimed now.
pendingSettlement ==
  IF \E i \in DOMAIN openAuctions : CanClaim(openAuctions[i])
  THEN openAuctions[CHOOSE i \in DOMAIN openAuctions :
                      /\ CanClaim(openAuctions[i])
                      /\ \A j \in 1..(i - 1) : ~CanClaim(openAuctions[j])]
  ELSE NoAuction

\* Time passes between blocks; blocks may also share a timestamp.
Tick ==
  /\ now < MaxTime
  /\ now' = now + 1
  /\ UNCHANGED <<auctions, openAuctions, bids, money>>

\* The reports the forwarder may deliver.  The settlements are taken one field
\* at a time so that the ones of a live auction are enumerated only.
Settle ==
  \E id \in AuctionIds :
    /\ state(id) # "None"
    /\ \E hash \in Policies, root \in {bidsRoot(id), <<>>},
          winner \in Addresses \cup {NoAddress}, payout \in Payouts, booking \in BookingIds :
         _settle([auctionId |-> id, policyHash |-> hash, bidsRoot |-> root,
                  winner |-> winner, payout |-> payout, bookingId |-> booking])

Claim == \E id \in AuctionIds : _startSettling(id)

Create == \E id \in AuctionIds : createAuction(id)

Commit ==
  \E id \in AuctionIds, supplier \in Suppliers, commitment \in Commitments :
    commit(id, supplier, commitment)

Refund == \E id \in AuctionIds : timeoutRefund(id)

Next == Create \/ Commit \/ Claim \/ Settle \/ Refund \/ Tick

Spec == Init /\ [][Next]_vars

-----------------------------------------------------------------------------
(***************************************************************************)
(* Properties.                                                             *)
(***************************************************************************)

\* Every variable keeps its type.  The clock stays within its bound, the list
\* of open auctions within MAX_OPEN_AUCTIONS and a book within MAX_BIDS.
TypeOK ==
  /\ now \in 0..MaxTime
  /\ auctions \in [AuctionIds -> AuctionRecord]
  /\ openAuctions \in Seq(AuctionIds)
  /\ Len(openAuctions) <= MAX_OPEN_AUCTIONS
  /\ commitments \in [AuctionIds -> Seq(Commitments)]
  /\ committers \in [AuctionIds -> Seq(Suppliers)]
  /\ \A id \in AuctionIds : Len(commitments[id]) <= MAX_BIDS
  /\ hasCommitted \in [AuctionIds -> SUBSET Suppliers]
  /\ usdc \in [Addresses -> Nat]
  /\ held \in Nat
  /\ paidOut \in [AuctionIds -> [Addresses -> Nat]]

\* The list the cron scan walks holds each live auction once and no other, so
\* no swap-and-pop of a neighbour loses an auction or leaves a closed one in.
OpenListIsExact ==
  /\ \A i, j \in DOMAIN openAuctions : openAuctions[i] = openAuctions[j] => i = j
  /\ \A id \in AuctionIds :
       state(id) \in Live <=> \E i \in DOMAIN openAuctions : openAuctions[i] = id

\* The three records of a book agree: as many commitments as committers, each
\* committer once, and hasCommitted exactly the committers.  A book is empty
\* until bidding opens it, and bidding never shows an empty book, which is why
\* a claimed auction always has a bids root.
BookAgrees ==
  \A id \in AuctionIds :
    /\ Len(commitments[id]) = Len(committers[id])
    /\ \A i, j \in DOMAIN committers[id] : committers[id][i] = committers[id][j] => i = j
    /\ hasCommitted[id] = {committers[id][i] : i \in DOMAIN committers[id]}
    /\ state(id) \in {"None", "Created"} => committers[id] = <<>>
    /\ state(id) \in {"Bidding", "Settling"} => committers[id] # <<>>

\* What an account put into an auction: the buyer its cap, a committer its stake.
Deposit(id, a) ==
  (IF a = id.buyer THEN id.payoutCap ELSE 0)
    + (IF a \in hasCommitted[id] THEN SUPPLIER_STAKE ELSE 0)

\* Every terminal path returns exactly what came in: a finished auction has paid
\* each account its deposit, but for the recorded payout that moved from the
\* buyer to the recorded winner; an unfinished one has paid nobody anything.
PaidExactly ==
  \A id \in AuctionIds, a \in Addresses :
    paidOut[id][a] =
      IF state(id) \in Terminal
      THEN Deposit(id, a)
             + (IF a = auctions[id].winner THEN auctions[id].payout ELSE 0)
             - (IF a = id.buyer THEN auctions[id].payout ELSE 0)
      ELSE 0

\* A payout is backed: a recorded winner committed to that very auction and is
\* owed something within the cap, and no payout is recorded without one.
PayoutIsBacked ==
  \A id \in AuctionIds :
    /\ auctions[id].payout <= id.payoutCap
    /\ auctions[id].winner = NoAddress <=> auctions[id].payout = 0
    /\ auctions[id].winner # NoAddress =>
         state(id) = "Finalized" /\ auctions[id].winner \in hasCommitted[id]

\* The longer list begins with the other one.
Begins(list, longer) ==
  DOMAIN list \subseteq DOMAIN longer /\ \A i \in DOMAIN list : longer[i] = list[i]

\* The invariant that carries the proofs.
IInv == TypeOK /\ OpenListIsExact /\ BookAgrees /\ PaidExactly /\ PayoutIsBacked

\* The cron's one question is answered by the list and asked about the states:
\* the scan comes back empty exactly when no auction can be claimed, and what it
\* offers can be claimed in that block.
ScanFindsDue ==
  IF pendingSettlement = NoAuction
  THEN \A id \in AuctionIds : ~CanClaim(id)
  ELSE CanClaim(pendingSettlement)

\* Nothing an auction owes is ever short: from its finalize deadline on, a live
\* auction can be refunded in the very next block, whatever other auctions paid.
RefundNeverBlocked ==
  \A id \in AuctionIds :
    state(id) \in Live /\ now >= finalizeDeadline(id) => ENABLED timeoutRefund(id)

\* The bids root a workflow reads when it claims is the one its settlement is
\* checked against: once an auction can be claimed its book never changes.
RootIsFinal ==
  [][\A id \in AuctionIds :
       (CanClaim(id) \/ state(id) \in {"Settling"} \cup Terminal) =>
         bidsRoot(id)' = bidsRoot(id) /\ committers[id]' = committers[id]]_vars

\* Finalized and Timeout are terminal: a finished auction keeps its outcome and
\* pays nothing more, and a late report or a second refund cannot reopen it.
TerminalIsFinal ==
  [][\A id \in AuctionIds :
       state(id) \in Terminal =>
         auctions[id]' = auctions[id] /\ paidOut[id]' = paidOut[id]]_vars

-----------------------------------------------------------------------------
\* Seen from outside, an auction is absent, open or closed.
phaseOf ==
  [id \in AuctionIds |->
     IF state(id) = "None" THEN "none"
     ELSE IF state(id) \in Live THEN "open" ELSE "closed"]

\* The contract keeps the promise of Escrow.
E == INSTANCE Escrow
       WITH Escrows <- AuctionIds, Parties <- Addresses, Stake <- SUPPLIER_STAKE,
            Nobody <- NoAddress,
            phase <- phaseOf, joined <- hasCommitted, returned <- paidOut

\* Every transaction of the contract is one step of the abstract escrow or is
\* invisible to it (a claim, the clock).
ImplementsEscrow == E!AbsSpec
=============================================================================
