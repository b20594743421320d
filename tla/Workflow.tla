----------------------------- MODULE Workflow -----------------------------
(***************************************************************************)
(* The settlement workflow of workflow-cre/src: the cron handler           *)
(* (workflow.ts), the enclave (enclave.ts) and the booking (booking.ts),   *)
(* composed with the contract and the relay.                               *)
(*                                                                         *)
(* A run of the handler is one process of its own: cron ticks overlap, a   *)
(* run is retried, several nodes run the same handler.  One step of a run  *)
(* is one call it makes to something shared: a chain read or write, a      *)
(* relay read, a call to the winner's booking API.  The chain and the      *)
(* relay move between any two of them.                                     *)
(***************************************************************************)
EXTENDS SealedAuction, Sealing, Scoring

CONSTANTS
  Runs,             \* handler runs that may be under way at once
  Terms,            \* Terms[hash]: the policy behind a policy hash
  OtherPolicy,      \* a policy nobody committed to
  Quote,            \* Quote[s]: what scoring reads of the hotel supplier s bids
  OldAuction,       \* an auction of the past, on which the suppliers bid as well
  Careless,         \* bound: suppliers that mix up their bids on the two auctions
  CopiedTo,         \* bound: suppliers under whose address strangers write
  BookingId,        \* the id a booking API answers for a reference it holds
  Empty

VARIABLES
  runs,             \* runs[r]: where run r is and what it has read
  policySlots, bidSlots,
  sent,             \* sent[id]: suppliers that have posted their sealed bid
  booked,           \* the supplier APIs: [reference, hotel] they hold a booking for
  onTime            \* observed: suppliers whose bid was at the relay at the claim
                    \* and has not been forgotten since

chain == <<now, auctions, openAuctions, commitments, committers, hasCommitted,
           usdc, held, paidOut>>
relay == <<policySlots, bidSlots>>
wfVars == <<chain, runs, relay, sent, booked, onTime>>

R == INSTANCE Relay
       WITH PolicyKeys <- Policies, AuctionKeys <- AuctionIds, SupplierKeys <- Suppliers

IdleRun ==
  [pc |-> "idle", auctionId |-> NoAuction, commitments |-> <<>>, committers |-> <<>>,
   sealedPolicy |-> Empty, sealedBids |-> <<>>, fetched |-> 0, winner |-> NoAddress, payout |-> 0,
   bookingId |-> NoBooking]

WfInit ==
  /\ Init
  /\ R!RelayInit
  /\ runs = [r \in Runs |-> IdleRun]
  /\ sent = [id \in AuctionIds |-> {}]
  /\ booked = {}
  /\ onTime = [id \in AuctionIds |-> {}]

At(r, pc) == runs[r].pc = pc
Go(r, pc) == runs' = [runs EXCEPT ![r].pc = pc]

-----------------------------------------------------------------------------
(***************************************************************************)
(* What the suppliers seal.                                                *)
(***************************************************************************)
\* The escrow, against which every bid is signed.
sealedAuction == "SealedAuction"

\* The bid of a supplier on an auction, and the payload submitBid seals: the bid,
\* a salt only its supplier knows, and its signature.
bidOf(id, s) == [auctionId |-> id, supplier |-> s]
payloadOf(id, s) ==
  [bid |-> bidOf(id, s), salt |-> s,
   signature |-> signed(s, bidDigest(bidOf(id, s), sealedAuction))]
commitmentOf(id, s) == bidCommitment(bidHash(bidOf(id, s)), payloadOf(id, s).salt)

\* What a supplier commits to, and what it posts: its bid on this auction or, when
\* it is careless, its bid on the old one, sealed again under this one.
BidsOn(id, s) == {id} \cup (IF s \in Careless THEN {OldAuction} ELSE {})
Placeable(id, s) == {commitmentOf(of, s) : of \in BidsOn(id, s)}
Sealable(id, s) == {sealBid(payloadOf(of, s), id) : of \in BidsOn(id, s)}

\* What strangers can write under the address of s: a bid in its name that it never
\* signed, or a copy of what the relay holds for another supplier or auction.
Forgery(id, s) ==
  sealBid([payloadOf(id, s) EXCEPT !.salt = NoAddress,
             !.signature = signed(NoAddress, bidDigest(bidOf(id, s), sealedAuction))], id)
Strange(id, s) ==
  {Forgery(id, s)}
    \cup ((UNION {{bidSlots[other][t] : t \in Suppliers} : other \in AuctionIds}) \ {Empty})

\* A policy's hash is one of Policies exactly when the policy is behind it.
hashPolicy ==
  [policy \in {Terms[hash] : hash \in Policies} \cup {OtherPolicy} |->
     IF policy = OtherPolicy THEN Empty ELSE CHOOSE hash \in Policies : Terms[hash] = policy]

\* All that anybody ever seals.
SealedPolicies ==
  {sealPolicy(Terms[hash], hash) : hash \in Policies}
    \cup {sealPolicy(OtherPolicy, hash) : hash \in Policies}

SealedBids ==
  UNION {Sealable(id, s) \cup {Forgery(id, s)} : id \in AuctionIds, s \in Suppliers}

\* The contract takes any 32 bytes, any amount and any booking id; what is sealed and
\* quoted is of the kind scoring reads.
ASSUME WorkflowAssumption ==
  /\ NoAddress = NoWinner
  /\ \A hash \in Policies : Terms[hash] \in PolicyTerms /\ Terms[hash] # OtherPolicy
  /\ \A s \in Suppliers : Quote[s] \in ScorableBid /\ Quote[s].supplier = s
  /\ OldAuction \notin AuctionIds
  /\ CopiedTo \subseteq Suppliers
  /\ Empty \notin Policies \cup SealedBids
  /\ BookingId # NoBooking
  /\ \A id \in AuctionIds, s \in Suppliers : Placeable(id, s) \subseteq Commitments
  /\ {0} \cup {Quote[s].price : s \in Suppliers} \subseteq Payouts
  /\ {NoBooking, BookingId} \subseteq BookingIds

-----------------------------------------------------------------------------
(***************************************************************************)
(* The enclave: which sealed bids reach scoring, and what scoring makes of *)
(* them.                                                                   *)
(***************************************************************************)
\* verified: the blob opens, its supplier signed it, and it is the bid that
\* supplier committed to, whoever it was fetched for.  The map from committers to
\* commitments knows no other supplier.
verified(blob, run) ==
  LET payload == blob.plaintext
      digest == bidDigest(payload.bid, sealedAuction)
  IN /\ openSealedBid(blob, run.auctionId)
     /\ IsSigned(payload.bid.supplier, digest, payload.signature)
     /\ \E i \in DOMAIN run.committers :
          /\ run.committers[i] = payload.bid.supplier
          /\ run.commitments[i] = bidCommitment(bidHash(payload.bid), payload.salt)

\* The bids the enclave scores, in committer order: the places of those that verified.
opened(run) ==
  LET kept == {i \in DOMAIN run.sealedBids : verified(run.sealedBids[i], run)}
  IN [i \in kept |-> Quote[run.sealedBids[i].plaintext.bid.supplier]]

\* Mutation: the bids root covers only the bids the relay held.
reportOfFetched(run) ==
  [auctionId |-> run.auctionId, policyHash |-> run.auctionId.policyHash,
   bidsRoot |-> [i \in DOMAIN run.sealedBids |-> run.commitments[i]],
   winner |-> IF run.bookingId # NoBooking THEN run.winner ELSE NoAddress,
   payout |-> IF run.bookingId # NoBooking THEN run.payout ELSE 0,
   bookingId |-> run.bookingId]

\* The settlement: no booking, no winner and no payout; the root is over the
\* chain's own list.
report(run) ==
  [auctionId |-> run.auctionId, policyHash |-> run.auctionId.policyHash,
   bidsRoot |-> run.commitments,
   winner |-> IF run.bookingId # NoBooking THEN run.winner ELSE NoAddress,
   payout |-> IF run.bookingId # NoBooking THEN run.payout ELSE 0,
   bookingId |-> run.bookingId]

-----------------------------------------------------------------------------
(***************************************************************************)
(* One run of onCronTrigger.                                               *)
(***************************************************************************)
Scan(r) ==
  /\ At(r, "idle")
  /\ pendingSettlement # NoAuction
  /\ runs' = [runs EXCEPT ![r] = [IdleRun EXCEPT !.pc = "claim", !.auctionId = pendingSettlement]]
  /\ UNCHANGED <<chain, relay, sent, booked, onTime>>

\* Whether supplier s committed to its bid on the auction.
Backed(id, s) ==
  \E i \in DOMAIN committers[id] :
    committers[id][i] = s /\ commitments[id][i] = commitmentOf(id, s)

\* Whose sealed bid would be scored if the relay were read now.
Postable(id) ==
  {s \in hasCommitted[id] :
     bidSlots[id][s] = sealBid(payloadOf(id, s), id) /\ Backed(id, s)}

ClaimMined(r) ==
  /\ At(r, "claim")
  /\ _startSettling(runs[r].auctionId)
  /\ Go(r, "chain")
  /\ onTime' = [onTime EXCEPT ![runs[r].auctionId] = Postable(runs[r].auctionId)]
  /\ UNCHANGED <<relay, sent, booked>>

\* The forwarder swallows the revert and the transaction reads SUCCESS.
ClaimRejected(r) ==
  /\ At(r, "claim")
  /\ ~CanClaim(runs[r].auctionId)
  /\ Go(r, "chain")
  /\ UNCHANGED <<chain, relay, sent, booked, onTime>>

\* The two lists of the book are read one after the other, each at the head of its
\* own moment.
ReadCommitments(r) ==
  /\ At(r, "chain")
  /\ runs' = [runs EXCEPT ![r].pc = "committers",
                          ![r].commitments = commitments[runs[r].auctionId]]
  /\ UNCHANGED <<chain, relay, sent, booked, onTime>>

ReadCommitters(r) ==
  /\ At(r, "committers")
  /\ runs' = [runs EXCEPT ![r].pc = "policy",
                          ![r].committers = committers[runs[r].auctionId]]
  /\ UNCHANGED <<chain, relay, sent, booked, onTime>>

\* A 404 ends the run.
GetPolicy(r) ==
  LET blob == policySlots[runs[r].auctionId.policyHash]
  IN /\ At(r, "policy")
     /\ IF blob # Empty
        THEN runs' = [runs EXCEPT ![r].pc = "bids", ![r].sealedPolicy = blob]
        ELSE runs' = [runs EXCEPT ![r] = IdleRun]
     /\ UNCHANGED <<chain, relay, sent, booked, onTime>>

\* Mutation: a 404 is taken for a sealed bid.
GetAnyAnswer(r) ==
  LET run == runs[r]
      blob == bidSlots[run.auctionId][run.committers[run.fetched + 1]]
  IN /\ At(r, "bids")
     /\ run.fetched < Len(run.committers)
     /\ runs' = [runs EXCEPT ![r].fetched = @ + 1, ![r].sealedBids = Append(@, blob)]
     /\ UNCHANGED <<chain, relay, sent, booked, onTime>>

\* One request per committer; a 404 is skipped.
GetBid(r) ==
  LET run == runs[r]
      blob == bidSlots[run.auctionId][run.committers[run.fetched + 1]]
  IN /\ At(r, "bids")
     /\ run.fetched < Len(run.committers)
     /\ runs' = [runs EXCEPT ![r].fetched = @ + 1,
                             ![r].sealedBids = IF blob = Empty THEN @ ELSE Append(@, blob)]
     /\ UNCHANGED <<chain, relay, sent, booked, onTime>>

\* runEnclave up to the booking: the policy opens first, and the run ends if it does
\* not.
Score(r) ==
  LET run == runs[r]
      result == settle(run.sealedPolicy.plaintext, opened(run))
  IN /\ At(r, "bids")
     /\ run.fetched = Len(run.committers)
     /\ IF openSealedPolicy(run.sealedPolicy, hashPolicy, run.auctionId.policyHash)
        THEN runs' = [runs EXCEPT ![r].pc = IF result.winner = NoAddress THEN "settle" ELSE "book",
                                  ![r].winner = result.winner,
                                  ![r].payout = result.payout]
        ELSE runs' = [runs EXCEPT ![r] = IdleRun]
     /\ UNCHANGED <<chain, relay, sent, booked, onTime>>

\* No rate, no prebook, or an answer that never came: no booking is attempted.
NoOffer(r) ==
  /\ At(r, "book")
  /\ Go(r, "settle")
  /\ UNCHANGED <<chain, relay, sent, booked, onTime>>

\* The booking is posted to the winner's own API, which holds one per reference.
\* Whether it lands is not learned from the answer.
PostBooking(r) ==
  /\ At(r, "book")
  /\ Go(r, "readback")
  /\ \/ booked' = booked \cup {[reference |-> runs[r].auctionId, hotel |-> runs[r].winner]}
     \/ UNCHANGED booked
  /\ UNCHANGED <<chain, relay, sent, onTime>>

\* Mutation: the write's own answer is taken, and it came from a repeat.
AnswersAnyway(run) == {NoBooking, BookingId}

\* What the read back may answer: the booking held under the reference, or
\* nothing when there is none or the read fails.
Answers(run) ==
  {NoBooking} \cup
    (IF [reference |-> run.auctionId, hotel |-> run.winner] \in booked
     THEN {BookingId} ELSE {})

ReadBack(r) ==
  /\ At(r, "readback")
  /\ \E answer \in Answers(runs[r]) :
       runs' = [runs EXCEPT ![r].pc = "settle", ![r].bookingId = answer]
  /\ UNCHANGED <<chain, relay, sent, booked, onTime>>

SettleMined(r) ==
  /\ At(r, "settle")
  /\ _settle(report(runs[r]))
  /\ runs' = [runs EXCEPT ![r] = IdleRun]
  /\ UNCHANGED <<relay, sent, booked, onTime>>

SettleRejected(r) ==
  /\ At(r, "settle")
  /\ ~CanSettle(report(runs[r]))
  /\ runs' = [runs EXCEPT ![r] = IdleRun]
  /\ UNCHANGED <<chain, relay, sent, booked, onTime>>

\* A call that throws ends the run: a chain read or write that does not complete,
\* a relay that answers neither 200 nor 404, an ERC-1271 call that fails.
Fail(r) ==
  /\ ~At(r, "idle")
  /\ runs' = [runs EXCEPT ![r] = IdleRun]
  /\ UNCHANGED <<chain, relay, sent, booked, onTime>>

Step(r) ==
  \/ Scan(r) \/ ClaimMined(r) \/ ClaimRejected(r)
  \/ ReadCommitments(r) \/ ReadCommitters(r) \/ GetPolicy(r) \/ GetBid(r)
  \/ Score(r) \/ NoOffer(r) \/ PostBooking(r) \/ ReadBack(r)
  \/ SettleMined(r) \/ SettleRejected(r)

-----------------------------------------------------------------------------
(***************************************************************************)
(* What moves around the runs.                                             *)
(***************************************************************************)
CommitBid ==
  \E id \in AuctionIds, s \in Suppliers : \E c \in Placeable(id, s) : commit(id, s, c)

OnChain ==
  /\ \/ Create \/ CommitBid \/ Refund \/ Tick
  /\ UNCHANGED <<runs, relay, sent, booked, onTime>>

\* The buyer uploads before it opens the auction; a stranger may have sealed another
\* policy under the hash first.
UploadPolicy ==
  \E hash \in Policies : \E policy \in {Terms[hash], OtherPolicy} :
    /\ R!putPolicy(hash, sealPolicy(policy, hash))
    /\ UNCHANGED <<chain, runs, sent, booked, onTime>>

\* A supplier posts once, after its commit is mined, and no deadline stops it.
PostSealedBid ==
  \E id \in AuctionIds : \E s \in hasCommitted[id] \ sent[id] : \E blob \in Sealable(id, s) :
    /\ R!putBid(id, s, blob)
    /\ sent' = [sent EXCEPT ![id] = @ \cup {s}]
    /\ UNCHANGED <<chain, runs, booked, onTime>>

\* The relay takes anybody's bytes under anybody's address.
StrangerPosts ==
  \E id \in AuctionIds, s \in CopiedTo : \E blob \in Strange(id, s) :
    /\ R!putBid(id, s, blob)
    /\ UNCHANGED <<chain, runs, sent, booked, onTime>>

RestartRelay ==
  /\ R!Restart
  /\ onTime' = [id \in AuctionIds |-> {}]
  /\ UNCHANGED <<chain, runs, sent, booked>>

WfNext ==
  \/ \E r \in Runs : Step(r) \/ Fail(r)
  \/ OnChain \/ UploadPolicy \/ PostSealedBid \/ StrangerPosts \/ RestartRelay

WfSpec == WfInit /\ [][WfNext]_wfVars

\* The cron fires every minute and the host runs what it fired, so a run that can
\* step does; a claim that is retried for ever is mined at some point.
FairSpec ==
  /\ WfSpec
  /\ \A r \in Runs : WF_wfVars(Step(r)) /\ SF_wfVars(ClaimMined(r))

-----------------------------------------------------------------------------
(***************************************************************************)
(* Properties.                                                             *)
(***************************************************************************)
RunRecord ==
  [pc: {"idle", "claim", "chain", "committers", "policy", "bids", "book", "readback",
         "settle"},
   auctionId: AuctionIds \cup {NoAuction},
   commitments: Seq(Commitments), committers: Seq(Suppliers),
   sealedPolicy: SealedPolicies \cup {Empty},
   sealedBids: Seq(SealedBids),
   fetched: 0..MAX_BIDS, winner: Suppliers \cup {NoAddress}, payout: Nat,
   bookingId: {NoBooking, BookingId}]

\* Every variable of the composition keeps its type; in particular no slot of the
\* relay and no run ever holds what nobody sent.
WfTypeOK ==
  /\ TypeOK
  /\ runs \in [Runs -> RunRecord]
  /\ policySlots \in [Policies -> SealedPolicies \cup {Empty}]
  /\ bidSlots \in [AuctionIds -> [Suppliers -> SealedBids \cup {Empty}]]
  /\ sent \in [AuctionIds -> SUBSET Suppliers]
  /\ booked \in SUBSET [reference: AuctionIds, hotel: Suppliers]
  /\ onTime \in [AuctionIds -> SUBSET Suppliers]

\* The workflow claims before it fetches anything (workflow.ts "Before any bid is
\* fetched"): a run past its claim, mined or swallowed, works on an auction whose
\* book is closed, so the chain always tells a stalled run from one not begun.
ClaimedBeforeFetched ==
  \A r \in Runs :
    runs[r].pc \notin {"idle", "claim"} =>
      state(runs[r].auctionId) \in {"Settling"} \cup Terminal

\* The cap locked for an auction covers the most its policy pays.  The purchaser locks
\* such a cap for every auction it opens (funding.ts); a stranger may open one that the
\* policy behind its hash overruns, and the contract then turns its payout away.
CapCovers(id) == Terms[id.policyHash].maxPrice <= id.payoutCap

\* A settlement is never rejected on its merits.  Whatever the relay held, however
\* runs overlapped, a report that reaches an auction still in Settling, whose cap covers
\* its own policy, passes every check of the contract; only a finished auction turns one
\* away.
SettlementAlwaysFits ==
  \A r \in Runs :
    LET id == runs[r].auctionId
    IN At(r, "settle") /\ state(id) = "Settling" /\ CapCovers(id) => CanSettle(report(runs[r]))

\* No payout without a booking (adr 0006): a recorded winner's own API holds a
\* booking under the auction's reference.
PaidOnlyIfBooked ==
  \A id \in AuctionIds :
    auctions[id].winner # NoAddress =>
      [reference |-> id, hotel |-> auctions[id].winner] \in booked

\* The rule picks this winner and payout from a set of bids that holds those that were
\* on time, and beside them only bids committed to on this auction.
CountsOnTime(id, winner, payout) ==
  \E late \in SUBSET {s \in hasCommitted[id] : Backed(id, s)} :
    LET counted == {Quote[s] : s \in onTime[id] \cup late}
    IN \E bid \in counted :
         /\ WinnerByRule(Terms[id.policyHash], counted, bid)
         /\ bid.supplier = winner
         /\ bid.price = payout

\* Never the runner-up: a bid that sat at the relay when its auction was claimed is
\* counted, for as long as the relay remembers it.  A recorded winner is the one
\* the rule of the committed policy picks from a set of bids that holds all of those,
\* and beside them only bids their suppliers committed to for this very auction,
\* whatever strangers sealed, copied or sealed again.
OnTimeBidsAreCounted ==
  \A id \in AuctionIds :
    auctions[id].winner # NoAddress => CountsOnTime(id, auctions[id].winner, auctions[id].payout)

\* What was on time is a sealed bid that is still where it was, on a closed book.
OnTimeIsHeld ==
  \A id \in AuctionIds :
    /\ onTime[id] \subseteq Postable(id)
    /\ onTime[id] # {} => state(id) \in {"Settling"} \cup Terminal

\* A run has every bid that was on time among those of the committers it asked for.
HasFetched(run) ==
  \A i \in 1..run.fetched :
    run.committers[i] \in onTime[run.auctionId] =>
      \E j \in DOMAIN run.sealedBids :
        run.sealedBids[j] = sealBid(payloadOf(run.auctionId, run.committers[i]), run.auctionId)

\* What a run has read is still true of the chain, the relay and the bookings, whatever
\* moved since it read it.
HoldsTrue(run) ==
  LET id == run.auctionId
  IN run.pc # "idle" =>
       /\ id \in AuctionIds
       /\ CanClaim(id) \/ state(id) \in {"Settling"} \cup Terminal
       /\ run.pc # "claim" => state(id) \in {"Settling"} \cup Terminal
       /\ run.pc \notin {"claim", "chain"} => run.commitments = commitments[id]
       /\ run.pc \notin {"claim", "chain", "committers"} => run.committers = committers[id]
       /\ run.pc \in {"claim", "chain", "committers", "policy"} => run.fetched = 0
       /\ run.pc \in {"claim", "chain", "committers", "policy", "bids"} => run.winner = NoAddress
       /\ run.pc = "bids" => run.sealedPolicy \in SealedPolicies /\ HasFetched(run)
       /\ run.pc \in {"book", "readback"} => run.winner # NoAddress
       /\ IF run.winner = NoAddress
          THEN run.payout = 0 /\ run.bookingId = NoBooking
          ELSE CountsOnTime(id, run.winner, run.payout)
       /\ run.bookingId # NoBooking => [reference |-> id, hotel |-> run.winner] \in booked

\* The invariant that carries the proofs.
WfInv ==
  /\ IInv
  /\ WfTypeOK
  /\ OnTimeIsHeld
  /\ \A r \in Runs : HoldsTrue(runs[r])
  /\ PaidOnlyIfBooked
  /\ OnTimeBidsAreCounted

\* The cron never leaves an auction behind: one that can be claimed is claimed, or
\* refunded, whatever the other open auctions do.
DueIsClaimed ==
  \A id \in AuctionIds : CanClaim(id) ~> ~CanClaim(id)

\* docs/spec.md "Booking": a retried run or a re-fired cron tick books nothing
\* twice.
BooksNothingTwice ==
  \A one, two \in booked : one.reference = two.reference => one = two
=============================================================================
