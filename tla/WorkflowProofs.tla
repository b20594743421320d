-------------------------- MODULE WorkflowProofs --------------------------
(***************************************************************************)
(* Proofs about Workflow, for every number of runs, auctions and bids:     *)
(* however runs overlap and whatever the relay holds or forgets, the       *)
(* contract is claimed and settled only as it allows, and a winner is the  *)
(* one the rule picks from the bids that were on time.                     *)
(***************************************************************************)
EXTENDS Workflow, SealedAuctionProofs, ScoringProofs

-----------------------------------------------------------------------------
(***************************************************************************)
(* What a run holds.                                                       *)
(***************************************************************************)

\* The fields of a run.
LEMMA RunFields ==
  ASSUME WfTypeOK, NEW r \in Runs
  PROVE  /\ runs[r] \in RunRecord
         /\ runs[r].pc \in {"idle", "claim", "chain", "committers", "policy", "bids", "book",
                             "readback", "settle"}
         /\ runs[r].auctionId \in AuctionIds \cup {NoAuction}
         /\ runs[r].commitments \in Seq(Commitments) /\ runs[r].committers \in Seq(Suppliers)
         /\ runs[r].sealedPolicy \in SealedPolicies \cup {Empty}
         /\ runs[r].sealedBids \in Seq(SealedBids)
         /\ runs[r].fetched \in 0..MAX_BIDS
         /\ runs[r].winner \in Suppliers \cup {NoAddress}
         /\ runs[r].payout \in Nat
         /\ runs[r].bookingId \in {NoBooking, BookingId}
<1>1. runs[r] \in RunRecord
  BY DEF WfTypeOK
<1> QED
  BY <1>1 DEF RunRecord

\* A bid that a settlement counts was committed on the auction.
LEMMA OnTimeCommitted ==
  ASSUME OnTimeIsHeld, NEW id \in AuctionIds
  PROVE  onTime[id] \subseteq {s \in hasCommitted[id] : Backed(id, s)}
BY DEF OnTimeIsHeld, Postable

\* A winner that the rule picks has committed and is paid what its bid asks, within the
\* policy's maximum price and so within a cap that covers it.
LEMMA WinnerIsPaid ==
  ASSUME IInv, OnTimeIsHeld, NEW id \in AuctionIds, NEW winner, NEW payout,
         CountsOnTime(id, winner, payout)
  PROVE  /\ winner \in Suppliers /\ winner # NoAddress /\ winner \in hasCommitted[id]
         /\ payout \in Payouts /\ payout \in Nat /\ payout # 0
         /\ CapCovers(id) => payout <= id.payoutCap
<1>1. PICK late \in SUBSET {s \in hasCommitted[id] : Backed(id, s)} :
        LET counted == {Quote[s] : s \in onTime[id] \cup late}
        IN \E bid \in counted :
             /\ WinnerByRule(Terms[id.policyHash], counted, bid)
             /\ bid.supplier = winner
             /\ bid.price = payout
  BY DEF CountsOnTime
<1> DEFINE counted == {Quote[s] : s \in onTime[id] \cup late}
<1>2. PICK s \in onTime[id] \cup late :
        /\ WinnerByRule(Terms[id.policyHash], counted, Quote[s])
        /\ Quote[s].supplier = winner
        /\ Quote[s].price = payout
  BY <1>1
<1>3. s \in hasCommitted[id] /\ s \in Suppliers
  BY <1>1, <1>2, OnTimeCommitted DEF IInv, TypeOK
<1>4. winner = s /\ Quote[s] \in ScorableBid /\ Quote[s].price \in Payouts
  BY <1>2, <1>3, WorkflowAssumption
<1>5. payout \in Nat /\ payout # 0 /\ payout \in Payouts
  BY <1>2, <1>4, BidFields
<1>6. winner # NoAddress
  BY <1>3, <1>4, ContractAssumption DEF Addresses
<1>7. Quote[s].price <= Terms[id.policyHash].maxPrice
  BY <1>2 DEF WinnerByRule, MeetsStars, TradesDown
<1>8. CapCovers(id) => payout <= id.payoutCap
  <2>1. id.policyHash \in Policies /\ id.payoutCap \in Caps /\ id.payoutCap \in Nat
    BY AuctionIdFields
  <2>2. Terms[id.policyHash] \in PolicyTerms
    BY <2>1, WorkflowAssumption
  <2>3. Terms[id.policyHash].maxPrice \in Nat
    BY <2>2, PolicyFields
  <2> QED
    BY <1>2, <1>5, <1>7, <2>1, <2>3 DEF CapCovers
<1> QED
  BY <1>3, <1>4, <1>5, <1>6, <1>8

\* report: every field is one the contract knows, the root is the chain's own, and an
\* auction in Settling whose cap covers its policy takes it.
LEMMA ReportFits ==
  ASSUME WfInv, NEW r \in Runs, At(r, "settle")
  PROVE  LET s == report(runs[r])
         IN /\ s.auctionId = runs[r].auctionId /\ s.auctionId \in AuctionIds
            /\ s = [auctionId |-> s.auctionId, policyHash |-> s.auctionId.policyHash,
                    bidsRoot |-> bidsRoot(s.auctionId), winner |-> s.winner,
                    payout |-> s.payout, bookingId |-> s.bookingId]
            /\ s.winner \in Addresses \cup {NoAddress}
            /\ s.payout \in Payouts /\ s.bookingId \in BookingIds
            /\ s.winner # NoAddress => /\ s.winner = runs[r].winner
                                       /\ s.payout = runs[r].payout
                                       /\ runs[r].bookingId # NoBooking
            /\ state(s.auctionId) = "Settling" /\ CapCovers(s.auctionId) => CanSettle(s)
<1> DEFINE s == report(runs[r])
           id == runs[r].auctionId
<1>1. HoldsTrue(runs[r]) /\ IInv /\ OnTimeIsHeld /\ runs[r].pc = "settle"
  BY DEF WfInv, At
<1>2. id \in AuctionIds /\ runs[r].commitments = commitments[id]
  BY <1>1 DEF HoldsTrue
<1>3. /\ s.auctionId = id /\ s.policyHash = id.policyHash /\ s.bidsRoot = commitments[id]
      /\ s.bookingId = runs[r].bookingId
      /\ s.winner = IF runs[r].bookingId # NoBooking THEN runs[r].winner ELSE NoAddress
      /\ s.payout = IF runs[r].bookingId # NoBooking THEN runs[r].payout ELSE 0
      /\ s = [auctionId |-> s.auctionId, policyHash |-> s.policyHash, bidsRoot |-> s.bidsRoot,
              winner |-> s.winner, payout |-> s.payout, bookingId |-> s.bookingId]
  BY <1>2 DEF report
<1> HIDE DEF s
<1>4. s.bookingId \in BookingIds
  BY <1>3, RunFields, WorkflowAssumption DEF WfInv
<1>5. 0 \in Payouts /\ id.payoutCap \in Nat
  BY <1>2, AuctionIdFields, WorkflowAssumption
<1>6. CASE s.winner = NoAddress
  <2>1. s.payout = 0
    BY <1>1, <1>3, <1>6 DEF HoldsTrue
  <2> QED
    BY <1>2, <1>3, <1>4, <1>5, <1>6, <2>1 DEF CanSettle, bidsRoot, s
<1>7. CASE s.winner # NoAddress
  <2>1. runs[r].bookingId # NoBooking /\ s.winner = runs[r].winner /\ s.payout = runs[r].payout
    BY <1>3, <1>7
  <2>2. CountsOnTime(id, s.winner, s.payout)
    BY <1>1, <1>7, <2>1 DEF HoldsTrue
  <2>3. /\ s.winner \in Suppliers /\ s.winner \in hasCommitted[id]
        /\ s.payout \in Payouts /\ s.payout # 0
        /\ CapCovers(id) => s.payout <= id.payoutCap
    BY <1>1, <1>2, <2>2, WinnerIsPaid
  <2> QED
    BY <1>2, <1>3, <1>4, <1>7, <2>1, <2>3 DEF CanSettle, bidsRoot, Addresses, s
<1> QED
  BY <1>6, <1>7

-----------------------------------------------------------------------------
(***************************************************************************)
(* The chain under the runs.                                               *)
(***************************************************************************)

\* A report that is mined is one the contract's own specification allows.
LEMMA SettleMinedOnChain ==
  ASSUME WfInv, NEW r \in Runs, SettleMined(r)
  PROVE  Settle /\ report(runs[r]).auctionId \in AuctionIds
<1> DEFINE id == runs[r].auctionId
<1>1. PICK s : s = report(runs[r])
  OBVIOUS
<1>2. /\ s.auctionId = id /\ id \in AuctionIds
      /\ s = [auctionId |-> id, policyHash |-> id.policyHash, bidsRoot |-> bidsRoot(id),
              winner |-> s.winner, payout |-> s.payout, bookingId |-> s.bookingId]
      /\ s.winner \in Addresses \cup {NoAddress}
      /\ s.payout \in Payouts /\ s.bookingId \in BookingIds
  BY <1>1, ReportFits DEF SettleMined
<1>3. _settle(s) /\ state(id) # "None" /\ id.policyHash \in Policies
  BY <1>1, <1>2, AuctionIdFields DEF SettleMined, _settle, CanSettle
<1> HIDE DEF id
<1>4. \E hash \in Policies, root \in {bidsRoot(id), <<>>},
         winner \in Addresses \cup {NoAddress}, payout \in Payouts, booking \in BookingIds :
        _settle([auctionId |-> id, policyHash |-> hash, bidsRoot |-> root,
                 winner |-> winner, payout |-> payout, bookingId |-> booking])
  BY <1>2, <1>3
<1> QED
  BY <1>1, <1>2, <1>3, <1>4 DEF Settle

\* Whatever the runs, the relay and the suppliers do, the contract sees one of its
\* transactions or nothing.
LEMMA WfNextOnChain ==
  ASSUME WfInv, [WfNext]_wfVars
  PROVE  [Next]_vars
<1>1. ASSUME NEW r \in Runs, Step(r) \/ Fail(r)
      PROVE  [Next]_vars
  <2>1. CASE ClaimMined(r)
    <3>1. runs[r].auctionId \in AuctionIds
      BY <2>1 DEF WfInv, HoldsTrue, ClaimMined, At
    <3> QED
      BY <2>1, <3>1 DEF ClaimMined, Claim, Next
  <2>2. CASE SettleMined(r)
    BY <2>2, SettleMinedOnChain DEF Next
  <2>3. CASE ~ClaimMined(r) /\ ~SettleMined(r)
    BY <1>1, <2>3 DEF Step, Scan, ClaimRejected, ReadCommitments, ReadCommitters,
                      GetPolicy, GetBid, Score, NoOffer,
                      PostBooking, ReadBack, SettleRejected, Fail, chain, vars
  <2> QED
    BY <2>1, <2>2, <2>3
<1>2. CASE OnChain
  <2>1. CASE CommitBid
    <3>1. PICK id \in AuctionIds, s \in Suppliers : \E c \in Placeable(id, s) : commit(id, s, c)
      BY <2>1 DEF CommitBid
    <3>2. PICK c \in Placeable(id, s) : commit(id, s, c)
      BY <3>1
    <3>3. c \in Commitments
      BY <3>2, WorkflowAssumption
    <3> QED
      BY <3>2, <3>3 DEF Commit, Next
  <2> QED
    BY <1>2, <2>1 DEF OnChain, Next
<1>3. CASE UploadPolicy \/ PostSealedBid \/ StrangerPosts \/ RestartRelay
  BY <1>3 DEF UploadPolicy, PostSealedBid, StrangerPosts, RestartRelay, chain, vars
<1>4. CASE UNCHANGED wfVars
  BY <1>4 DEF wfVars, chain, vars
<1> QED
  BY <1>1, <1>2, <1>3, <1>4 DEF WfNext

-----------------------------------------------------------------------------
(***************************************************************************)
(* What a run read stays true while others move.                           *)
(***************************************************************************)

\* A book that is closed keeps what was on time, until the relay forgets it.
OnTimeKept ==
  \A id \in AuctionIds :
    state(id) \in {"Settling"} \cup Terminal => onTime'[id] \in {onTime[id], {}}

\* Time never goes back.
LEMMA ClockAdvances ==
  ASSUME TypeOK, [Next]_vars
  PROVE  now' >= now
<1>1. now \in Nat
  BY DEF TypeOK
<1>2. CASE Tick
  BY <1>1, <1>2 DEF Tick
<1>3. CASE ~Tick
  <2>1. Create \/ Commit \/ Claim => now' = now
    BY DEF Create, createAuction, Commit, commit, Claim, _startSettling
  <2>2. Settle => now' = now
    BY DEF Settle, _settle, Close
  <2>3. Refund => now' = now
    BY DEF Refund, timeoutRefund, Close
  <2>4. ASSUME UNCHANGED vars PROVE now' = now
    BY <2>4 DEF vars
  <2>5. now' = now
    BY <1>3, <2>1, <2>2, <2>3, <2>4 DEF Next
  <2> QED
    BY <1>1, <2>5
<1> QED
  BY <1>2, <1>3

\* An auction that is due stays so until it is claimed, and a claimed one never opens
\* its book again.
LEMMA DueStays ==
  ASSUME IInv, [Next]_vars, NEW id \in AuctionIds
  PROVE  /\ state(id) \in {"Settling"} \cup Terminal => state(id)' \in {"Settling"} \cup Terminal
         /\ CanClaim(id) => CanClaim(id)' \/ state(id)' \in {"Settling"} \cup Terminal
<1>1. now \in Int /\ now' \in Int /\ bidDeadline(id) \in Int /\ now' >= now
  <2>1. TypeOK /\ TypeOK'
    BY NextTypeOK DEF IInv
  <2>2. now \in 0..MaxTime /\ now' \in 0..MaxTime
    BY <2>1 DEF TypeOK
  <2>3. bidDeadline(id) \in Int
    BY AuctionIdFields, ContractAssumption DEF bidDeadline
  <2> QED
    BY <2>1, <2>2, <2>3, ClockAdvances, ContractAssumption
<1>2. bidDeadline(id)' = bidDeadline(id)
  BY DEF bidDeadline
<1> QED
  BY <1>1, <1>2, NextMovesState DEF CanClaim, Live, Terminal

\* A commitment that backs a bid stays at its place.
LEMMA BackedStays ==
  ASSUME IInv, [Next]_vars, NEW id \in AuctionIds, NEW s, Backed(id, s)
  PROVE  Backed(id, s)'
<1>1. PICK i \in DOMAIN committers[id] :
        committers[id][i] = s /\ commitments[id][i] = commitmentOf(id, s)
  BY DEF Backed
<1>2. i \in DOMAIN commitments[id]
  BY DEF IInv, TypeOK, BookAgrees
<1>3. /\ i \in DOMAIN committers'[id] /\ committers'[id][i] = s
      /\ commitments'[id][i] = commitmentOf(id, s)
  BY <1>1, <1>2, NextExtendsBooks DEF Begins
<1> QED
  BY <1>3 DEF Backed, commitmentOf, bidOf, payloadOf

\* A winner that the rule picked from what was on time is still such a winner when the
\* relay has forgotten the bids.
LEMMA CountStays ==
  ASSUME IInv, [Next]_vars, OnTimeIsHeld, NEW id \in AuctionIds, NEW winner, NEW payout,
         CountsOnTime(id, winner, payout), onTime'[id] \in {onTime[id], {}}
  PROVE  CountsOnTime(id, winner, payout)'
<1>1. PICK late \in SUBSET {s \in hasCommitted[id] : Backed(id, s)} :
        LET counted == {Quote[s] : s \in onTime[id] \cup late}
        IN \E bid \in counted :
             /\ WinnerByRule(Terms[id.policyHash], counted, bid)
             /\ bid.supplier = winner
             /\ bid.price = payout
  BY DEF CountsOnTime
<1>2. PICK after : after = onTime[id] \cup late
  OBVIOUS
<1>3. onTime[id] \cup late = onTime'[id] \cup after
  BY <1>2
<1>4. \A s \in after : s \in hasCommitted'[id] /\ Backed(id, s)'
  <2> SUFFICES ASSUME NEW s \in after
               PROVE  s \in hasCommitted'[id] /\ Backed(id, s)'
    OBVIOUS
  <2>1. s \in hasCommitted[id] /\ Backed(id, s)
    BY <1>1, <1>2, OnTimeCommitted
  <2> QED
    BY <2>1, BackedStays, NextExtendsBooks
<1>5. after \in SUBSET {s \in hasCommitted'[id] : Backed(id, s)'}
  BY <1>4
<1>6. LET counted == {Quote[s] : s \in onTime'[id] \cup after}
      IN \E bid \in counted :
           /\ WinnerByRule(Terms[id.policyHash], counted, bid)
           /\ bid.supplier = winner
           /\ bid.price = payout
  BY <1>1, <1>3
<1> QED
  BY <1>5, <1>6 DEF CountsOnTime

\* What a run holds is true for as long as the run itself does not move.
LEMMA HeldStays ==
  ASSUME WfInv, [Next]_vars, booked \subseteq booked', OnTimeKept, NEW run, HoldsTrue(run)
  PROVE  HoldsTrue(run)'
<1> SUFFICES ASSUME run.pc # "idle"
             PROVE  HoldsTrue(run)'
  BY DEF HoldsTrue
<1> DEFINE id == run.auctionId
<1>1. IInv /\ OnTimeIsHeld
  BY DEF WfInv
<1>2. id \in AuctionIds
  BY DEF HoldsTrue
<1>3. CanClaim(id)' \/ state(id)' \in {"Settling"} \cup Terminal
  BY <1>1, <1>2, DueStays DEF HoldsTrue
<1>4. run.pc # "claim" =>
        /\ state(id) \in {"Settling"} \cup Terminal
        /\ state(id)' \in {"Settling"} \cup Terminal
        /\ commitments'[id] = commitments[id] /\ committers'[id] = committers[id]
        /\ onTime'[id] \in {onTime[id], {}}
  BY <1>1, <1>2, DueStays, NextKeepsClosedBook DEF HoldsTrue, OnTimeKept
<1>5. run.pc = "bids" => HasFetched(run)'
  BY <1>4 DEF HoldsTrue, HasFetched, sealBid, seal, payloadOf, bidOf
<1>6. run.winner # NoAddress => CountsOnTime(id, run.winner, run.payout)'
  BY <1>1, <1>2, <1>4, CountStays DEF HoldsTrue
<1> QED
  BY <1>2, <1>3, <1>4, <1>5, <1>6 DEF HoldsTrue

-----------------------------------------------------------------------------
(***************************************************************************)
(* What the steps of a run hold, before anything else moves.               *)
(***************************************************************************)

\* A run at the head of the handler, or one that has ended.
LEMMA IdleHolds == IdleRun \in RunRecord /\ HoldsTrue(IdleRun)
<1>1. \A S : <<>> \in Seq(S)
  OBVIOUS
<1>2. 0 \in 0..MAX_BIDS
  BY ContractAssumption
<1> QED
  BY <1>1, <1>2 DEF IdleRun, RunRecord, HoldsTrue

\* Scan: the run takes an auction that can be claimed.
LEMMA ScanHolds ==
  ASSUME WfInv, NEW r \in Runs, Scan(r), NEW after, after = runs'[r]
  PROVE  after \in RunRecord /\ HoldsTrue(after)
<1> DEFINE id == pendingSettlement
<1>1. id \in AuctionIds /\ CanClaim(id)
  <2>1. TypeOK /\ \E i \in DOMAIN openAuctions : CanClaim(openAuctions[i])
    BY DEF Scan, pendingSettlement, WfInv, IInv
  <2>2. PICK i \in DOMAIN openAuctions : id = openAuctions[i] /\ CanClaim(openAuctions[i])
    BY <2>1, ScanOffersClaimable
  <2> QED
    BY <2>1, <2>2 DEF TypeOK
<1>2. after = [IdleRun EXCEPT !.pc = "claim", !.auctionId = id]
  BY DEF Scan, WfInv, WfTypeOK
<1> HIDE DEF id
<1>3. /\ after.pc = "claim" /\ after.auctionId = id /\ after.fetched = 0
      /\ after.winner = NoAddress /\ after.payout = 0 /\ after.bookingId = NoBooking
  BY <1>2 DEF IdleRun
<1>4. after \in RunRecord
  BY <1>1, <1>2, IdleHolds DEF RunRecord
<1> QED
  BY <1>1, <1>3, <1>4 DEF HoldsTrue

\* The claim that the forwarder swallowed: the book was closed already.
LEMMA ClaimRejectedHolds ==
  ASSUME WfInv, NEW r \in Runs, ClaimRejected(r), NEW after, after = runs'[r]
  PROVE  after \in RunRecord /\ HoldsTrue(after)
<1>1. runs[r] \in RunRecord /\ HoldsTrue(runs[r]) /\ runs[r].pc = "claim" /\ ~CanClaim(runs[r].auctionId)
  BY RunFields DEF WfInv, ClaimRejected, At
<1>2. PICK pc : pc = "chain"
  OBVIOUS
<1>3. after = [runs[r] EXCEPT !.pc = pc]
  BY <1>2 DEF ClaimRejected, Go, WfInv, WfTypeOK
<1>4. after \in RunRecord /\ after.pc = "chain"
  BY <1>1, <1>2, <1>3 DEF RunRecord
<1>5. /\ after.auctionId = runs[r].auctionId /\ after.winner = runs[r].winner
      /\ after.payout = runs[r].payout /\ after.bookingId = runs[r].bookingId
      /\ after.fetched = runs[r].fetched
  BY <1>1, <1>3 DEF RunRecord
<1> QED
  BY <1>1, <1>4, <1>5 DEF HoldsTrue

\* The run takes the commitments as the chain has them.
LEMMA ReadCommitmentsHolds ==
  ASSUME WfInv, NEW r \in Runs, ReadCommitments(r), NEW after, after = runs'[r]
  PROVE  after \in RunRecord /\ HoldsTrue(after)
<1>1. runs[r] \in RunRecord /\ HoldsTrue(runs[r]) /\ runs[r].pc = "chain"
  BY RunFields DEF WfInv, ReadCommitments, At
<1> DEFINE id == runs[r].auctionId
<1>2. id \in AuctionIds /\ commitments[id] \in Seq(Commitments)
  BY <1>1 DEF HoldsTrue, WfInv, WfTypeOK, TypeOK
<1>3. PICK pc, list : pc = "committers" /\ list = commitments[id]
  OBVIOUS
<1>4. after = [runs[r] EXCEPT !.pc = pc, !.commitments = list]
  BY <1>3 DEF ReadCommitments, WfInv, WfTypeOK
<1>5. after \in RunRecord
  BY <1>1, <1>2, <1>3, <1>4 DEF RunRecord
<1>6. /\ after.pc = "committers" /\ after.auctionId = id /\ after.winner = runs[r].winner
      /\ after.payout = runs[r].payout /\ after.bookingId = runs[r].bookingId
      /\ after.fetched = runs[r].fetched /\ after.committers = runs[r].committers
      /\ after.commitments = commitments[id]
  BY <1>1, <1>3, <1>4 DEF RunRecord
<1> QED
  BY <1>1, <1>5, <1>6 DEF HoldsTrue

\* And then who made them, of a book that no longer moves.
LEMMA ReadCommittersHolds ==
  ASSUME WfInv, NEW r \in Runs, ReadCommitters(r), NEW after, after = runs'[r]
  PROVE  after \in RunRecord /\ HoldsTrue(after)
<1>1. runs[r] \in RunRecord /\ HoldsTrue(runs[r]) /\ runs[r].pc = "committers"
  BY RunFields DEF WfInv, ReadCommitters, At
<1> DEFINE id == runs[r].auctionId
<1>2. id \in AuctionIds /\ committers[id] \in Seq(Suppliers)
  BY <1>1 DEF HoldsTrue, WfInv, WfTypeOK, TypeOK
<1>3. PICK pc, list : pc = "policy" /\ list = committers[id]
  OBVIOUS
<1>4. after = [runs[r] EXCEPT !.pc = pc, !.committers = list]
  BY <1>3 DEF ReadCommitters, WfInv, WfTypeOK
<1>5. after \in RunRecord
  BY <1>1, <1>2, <1>3, <1>4 DEF RunRecord
<1>6. /\ after.pc = "policy" /\ after.auctionId = id /\ after.winner = runs[r].winner
      /\ after.payout = runs[r].payout /\ after.bookingId = runs[r].bookingId
      /\ after.fetched = runs[r].fetched /\ after.commitments = runs[r].commitments
      /\ after.committers = committers[id]
  BY <1>1, <1>3, <1>4 DEF RunRecord
<1> QED
  BY <1>1, <1>5, <1>6 DEF HoldsTrue

\* The policy is fetched; a 404 ends the run.
LEMMA GetPolicyHolds ==
  ASSUME WfInv, NEW r \in Runs, GetPolicy(r), NEW after, after = runs'[r]
  PROVE  after \in RunRecord /\ HoldsTrue(after)
<1>1. runs[r] \in RunRecord /\ HoldsTrue(runs[r]) /\ runs[r].pc = "policy"
  BY RunFields DEF WfInv, GetPolicy, At
<1> DEFINE id == runs[r].auctionId
<1>2. PICK blob, pc : blob = policySlots[id.policyHash] /\ pc = "bids"
  OBVIOUS
<1>3. CASE blob = Empty
  BY <1>2, <1>3, IdleHolds DEF GetPolicy, WfInv, WfTypeOK
<1>4. CASE blob # Empty
  <2>1. blob \in SealedPolicies
    BY <1>1, <1>2, <1>4, AuctionIdFields DEF HoldsTrue, WfInv, WfTypeOK
  <2>2. after = [runs[r] EXCEPT !.pc = pc, !.sealedPolicy = blob]
    BY <1>2, <1>4 DEF GetPolicy, WfInv, WfTypeOK
  <2>3. after \in RunRecord
    BY <1>1, <1>2, <2>1, <2>2 DEF RunRecord
  <2>4. /\ after.pc = "bids" /\ after.auctionId = id /\ after.winner = runs[r].winner
        /\ after.payout = runs[r].payout /\ after.bookingId = runs[r].bookingId
        /\ after.fetched = runs[r].fetched /\ after.sealedPolicy = blob
        /\ after.commitments = runs[r].commitments /\ after.committers = runs[r].committers
    BY <1>1, <1>2, <2>2 DEF RunRecord
  <2>5. HasFetched(after)
    BY <1>1, <2>4 DEF HoldsTrue, HasFetched
  <2> QED
    BY <1>1, <2>1, <2>3, <2>4, <2>5 DEF HoldsTrue
<1> QED
  BY <1>3, <1>4

\* A supplier's bid on an auction, sealed for it, is among what is sealed.
LEMMA OwnBidIsSealed ==
  ASSUME NEW id \in AuctionIds, NEW s \in Suppliers
  PROVE  /\ sealBid(payloadOf(id, s), id) \in SealedBids
         /\ Sealable(id, s) \cup {Forgery(id, s)} \subseteq SealedBids
<1>1. id \in BidsOn(id, s)
  BY DEF BidsOn
<1>2. sealBid(payloadOf(id, s), id) \in Sealable(id, s)
  BY <1>1 DEF Sealable
<1>3. Sealable(id, s) \cup {Forgery(id, s)} \subseteq SealedBids
  <2> DEFINE all == {Sealable(x, t) \cup {Forgery(x, t)} : x \in AuctionIds, t \in Suppliers}
  <2>1. Sealable(id, s) \cup {Forgery(id, s)} \in all
    OBVIOUS
  <2>2. SealedBids = UNION all
    BY DEF SealedBids
  <2> HIDE DEF all
  <2> QED
    BY <2>1, <2>2
<1> QED
  BY <1>2, <1>3

\* One more committer is asked for: a bid that was on time is still in its slot, and no
\* slot that answers 404 held one.
LEMMA GetBidHolds ==
  ASSUME WfInv, NEW r \in Runs, GetBid(r), NEW after, after = runs'[r]
  PROVE  after \in RunRecord /\ HoldsTrue(after)
<1> DEFINE run == runs[r]
           id == run.auctionId
           n == run.fetched
           who == run.committers[n + 1]
<1>1. /\ run \in RunRecord /\ HoldsTrue(run) /\ run.pc = "bids" /\ n < Len(run.committers)
      /\ OnTimeIsHeld
  BY RunFields DEF WfInv, GetBid, At
<1>2. /\ id \in AuctionIds /\ run.committers = committers[id] /\ committers[id] \in Seq(Suppliers)
      /\ n \in Nat /\ Len(committers[id]) \in Nat /\ Len(committers[id]) <= MAX_BIDS
      /\ run.sealedBids \in Seq(SealedBids)
  <2>1. /\ id \in AuctionIds /\ run.committers = committers[id]
        /\ run.sealedBids \in Seq(SealedBids) /\ n \in Nat
    BY <1>1, RunFields DEF HoldsTrue, WfInv
  <2>2. committers[id] \in Seq(Suppliers) /\ Len(committers[id]) <= MAX_BIDS
    BY <2>1 DEF WfInv, IInv, TypeOK, BookAgrees
  <2> QED
    BY <2>1, <2>2
<1>3. who \in Suppliers /\ n + 1 \in 0..MAX_BIDS
  <2>1. n + 1 \in DOMAIN committers[id]
    BY <1>1, <1>2
  <2> QED
    BY <1>1, <1>2, <2>1, ContractAssumption
<1>4. PICK blob, next, list :
        /\ blob = bidSlots[id][who] /\ next = n + 1
        /\ list = IF blob = Empty THEN run.sealedBids ELSE Append(run.sealedBids, blob)
  OBVIOUS
<1>5. blob \in SealedBids \cup {Empty}
  BY <1>2, <1>3, <1>4 DEF WfInv, WfTypeOK
<1>6. /\ list \in Seq(SealedBids)
      /\ \A j \in DOMAIN run.sealedBids : j \in DOMAIN list /\ list[j] = run.sealedBids[j]
      /\ blob # Empty => \E j \in DOMAIN list : list[j] = blob
  <2>1. ASSUME NEW S, NEW old \in Seq(S), NEW e \in S
        PROVE  /\ Append(old, e) \in Seq(S)
               /\ \A j \in DOMAIN old : j \in DOMAIN Append(old, e) /\ Append(old, e)[j] = old[j]
               /\ \E j \in DOMAIN Append(old, e) : Append(old, e)[j] = e
    <3>1. Len(old) + 1 \in DOMAIN Append(old, e) /\ Append(old, e)[Len(old) + 1] = e
      BY <2>1
    <3> QED
      BY <2>1, <3>1
  <2>2. CASE blob = Empty
    BY <1>2, <1>4, <2>2
  <2>3. CASE blob # Empty
    <3>1. blob \in SealedBids /\ list = Append(run.sealedBids, blob) /\ run.sealedBids \in Seq(SealedBids)
      BY <1>2, <1>4, <1>5, <2>3
    <3> QED
      BY <2>1, <3>1
  <2> QED
    BY <2>2, <2>3
<1>7. after = [run EXCEPT !.fetched = next, !.sealedBids = list]
  BY <1>4 DEF GetBid, WfInv, WfTypeOK
<1> HIDE DEF run, n, who
<1>8. after \in RunRecord
  BY <1>1, <1>3, <1>4, <1>6, <1>7 DEF RunRecord
<1>9. /\ after.pc = run.pc /\ after.auctionId = id /\ after.winner = run.winner
      /\ after.payout = run.payout /\ after.bookingId = run.bookingId
      /\ after.fetched = n + 1 /\ after.sealedPolicy = run.sealedPolicy
      /\ after.commitments = run.commitments /\ after.committers = run.committers
      /\ after.sealedBids = list
  BY <1>1, <1>4, <1>7 DEF RunRecord
<1>10. HasFetched(after)
  <2> SUFFICES ASSUME NEW i \in 1..(n + 1), run.committers[i] \in onTime[id]
               PROVE  \E j \in DOMAIN list : list[j] = sealBid(payloadOf(id, run.committers[i]), id)
    BY <1>9 DEF HasFetched
  <2>1. CASE i = n + 1
    <3>1. run.committers[i] = who
      BY <2>1 DEF who, n, run
    <3>2. bidSlots[id][who] = sealBid(payloadOf(id, who), id)
      BY <1>1, <1>2, <3>1 DEF OnTimeIsHeld, Postable
    <3>3. sealBid(payloadOf(id, who), id) \in SealedBids
      BY <1>2, <1>3, OwnBidIsSealed
    <3> QED
      BY <1>4, <1>6, <3>1, <3>2, <3>3, WorkflowAssumption
  <2>2. CASE i # n + 1
    <3>1. i \in 1..n
      BY <1>2, <2>2
    <3>2. \E j \in DOMAIN run.sealedBids :
            run.sealedBids[j] = sealBid(payloadOf(id, run.committers[i]), id)
      BY <1>1, <3>1 DEF HoldsTrue, HasFetched, n
    <3> QED
      BY <1>6, <3>2
  <2> QED
    BY <2>1, <2>2
<1> QED
  BY <1>1, <1>8, <1>9, <1>10 DEF HoldsTrue

-----------------------------------------------------------------------------
(***************************************************************************)
(* The enclave.                                                            *)
(***************************************************************************)

\* What reaches the enclave was sealed by a supplier or forged in its name.
LEMMA SealedByWhom ==
  ASSUME NEW blob \in SealedBids
  PROVE  \E id \in AuctionIds, s \in Suppliers : blob \in Sealable(id, s) \/ blob = Forgery(id, s)
BY DEF SealedBids

\* A bid that verifies is one its supplier committed to on this auction: a forgery is
\* not signed, and a bid of another auction, or sealed for another, does not open.
LEMMA VerifiedIsBacked ==
  ASSUME IInv, NEW run, run.auctionId \in AuctionIds,
         run.commitments = commitments[run.auctionId], run.committers = committers[run.auctionId],
         NEW blob \in SealedBids, verified(blob, run)
  PROVE  /\ blob.plaintext.bid.supplier \in hasCommitted[run.auctionId]
         /\ Backed(run.auctionId, blob.plaintext.bid.supplier)
<1> DEFINE id == run.auctionId
<1>1. PICK x \in AuctionIds, s \in Suppliers : blob \in Sealable(x, s) \/ blob = Forgery(x, s)
  BY SealedByWhom
<1>2. CASE blob = Forgery(x, s)
  <2>1. /\ blob.plaintext.bid = bidOf(x, s) /\ blob.plaintext.bid.supplier = s
        /\ blob.plaintext.signature.signer = NoAddress
    BY <1>2 DEF Forgery, sealBid, seal, payloadOf, bidOf, signed
  <2>2. blob.plaintext.signature.signer = s
    BY <2>1 DEF verified, IsSigned, signed
  <2> QED
    BY <2>1, <2>2, ContractAssumption DEF Addresses
<1>3. CASE blob \in Sealable(x, s)
  <2>1. PICK of : blob = sealBid(payloadOf(of, s), x)
    BY <1>3 DEF Sealable
  <2>2. /\ blob.plaintext.bid = bidOf(of, s) /\ blob.plaintext.bid.supplier = s
        /\ blob.plaintext.bid.auctionId = of /\ blob.plaintext.salt = s
        /\ payloadOf(of, s).salt = s
    BY <2>1 DEF sealBid, seal, payloadOf, bidOf
  <2>3. of = id
    BY <2>2 DEF verified, openSealedBid
  <2>4. PICK i \in DOMAIN committers[id] :
          /\ committers[id][i] = s
          /\ commitments[id][i] = bidCommitment(bidHash(bidOf(id, s)), s)
    BY <2>2, <2>3 DEF verified
  <2>5. Backed(id, s)
    BY <2>2, <2>3, <2>4 DEF Backed, commitmentOf
  <2>6. s \in hasCommitted[id]
    BY <2>4 DEF IInv, BookAgrees
  <2> QED
    BY <2>2, <2>5, <2>6
<1> QED
  BY <1>1, <1>2, <1>3

\* A bid that was committed to and sealed for the auction verifies.
LEMMA BackedVerifies ==
  ASSUME NEW run, run.commitments = commitments[run.auctionId],
         run.committers = committers[run.auctionId],
         NEW s, Backed(run.auctionId, s)
  PROVE  /\ verified(sealBid(payloadOf(run.auctionId, s), run.auctionId), run)
         /\ sealBid(payloadOf(run.auctionId, s), run.auctionId).plaintext.bid.supplier = s
<1> DEFINE id == run.auctionId
           blob == sealBid(payloadOf(id, s), id)
<1>1. /\ blob.info = envelopeInfo(BidDomain, id) /\ blob.plaintext = payloadOf(id, s)
      /\ payloadOf(id, s).bid = bidOf(id, s) /\ bidOf(id, s).supplier = s
      /\ bidOf(id, s).auctionId = id
      /\ payloadOf(id, s).signature = signed(s, bidDigest(bidOf(id, s), sealedAuction))
  BY DEF sealBid, seal, payloadOf, bidOf
<1>2. PICK i \in DOMAIN committers[id] :
        committers[id][i] = s /\ commitments[id][i] = commitmentOf(id, s)
  BY DEF Backed
<1> HIDE DEF blob
<1>3. openSealedBid(blob, id)
  BY <1>1 DEF openSealedBid, Opens
<1>4. verified(blob, run)
  BY <1>1, <1>2, <1>3 DEF verified, IsSigned, commitmentOf
<1> QED
  BY <1>1, <1>4 DEF blob

\* The list that scoring gets when every committer was asked for: the quotes of a set
\* of suppliers that holds those on time, and of none that did not commit here.
LEMMA OpenedBook ==
  ASSUME WfInv, NEW run \in RunRecord, HoldsTrue(run), run.pc = "bids",
         run.fetched = Len(run.committers)
  PROVE  /\ opened(run) \in BidList
         /\ \E late \in SUBSET {s \in hasCommitted[run.auctionId] : Backed(run.auctionId, s)} :
              Book(opened(run)) = {Quote[s] : s \in onTime[run.auctionId] \cup late}
<1> DEFINE id == run.auctionId
           kept == {i \in DOMAIN run.sealedBids : verified(run.sealedBids[i], run)}
           who(i) == run.sealedBids[i].plaintext.bid.supplier
           late == {who(i) : i \in kept}
<1>1. /\ id \in AuctionIds /\ run.commitments = commitments[id] /\ run.committers = committers[id]
      /\ HasFetched(run) /\ IInv /\ OnTimeIsHeld
  BY DEF HoldsTrue, WfInv
<1>2. run.sealedBids \in Seq(SealedBids)
  BY DEF RunRecord
<1>3. ASSUME NEW i \in kept
      PROVE  i \in Nat /\ who(i) \in hasCommitted[id] /\ Backed(id, who(i)) /\ who(i) \in Suppliers
  <2>1. i \in Nat /\ run.sealedBids[i] \in SealedBids /\ verified(run.sealedBids[i], run)
    BY <1>2
  <2>2. who(i) \in hasCommitted[id] /\ Backed(id, who(i))
    BY <1>1, <2>1, VerifiedIsBacked
  <2> QED
    BY <1>1, <2>1, <2>2 DEF IInv, TypeOK
<1>4. late \in SUBSET {s \in hasCommitted[id] : Backed(id, s)}
  BY <1>3
<1>5. ASSUME NEW s \in onTime[id]
      PROVE  s \in late
  <2>1. s \in hasCommitted[id] /\ Backed(id, s)
    BY <1>1, OnTimeCommitted
  <2>2. PICK i \in DOMAIN committers[id] : committers[id][i] = s
    BY <1>1, <2>1 DEF IInv, BookAgrees
  <2>3. i \in 1..run.fetched
    BY <1>1, <2>2 DEF IInv, TypeOK
  <2>4. PICK j \in DOMAIN run.sealedBids : run.sealedBids[j] = sealBid(payloadOf(id, s), id)
    BY <1>1, <2>2, <2>3 DEF HasFetched
  <2>5. verified(run.sealedBids[j], run) /\ who(j) = s
    BY <1>1, <2>1, <2>4, BackedVerifies
  <2> QED
    BY <2>5
<1>6. opened(run) = [i \in kept |-> Quote[who(i)]]
  BY DEF opened
<1> HIDE DEF kept, who, late
<1>7. opened(run) \in [kept -> ScorableBid] /\ kept \in SUBSET Nat
  BY <1>3, <1>6, WorkflowAssumption
<1>8. opened(run) \in BidList
  BY <1>7 DEF BidList
<1>9. Book(opened(run)) = {Quote[s] : s \in late}
  BY <1>6 DEF Book, late
<1>10. onTime[id] \cup late = late
  BY <1>5
<1> QED
  BY <1>4, <1>8, <1>9, <1>10

\* The policy that opens for the auction's hash is the one the buyer committed to.
LEMMA OpenedPolicy ==
  ASSUME NEW blob \in SealedPolicies, NEW hash \in Policies,
         openSealedPolicy(blob, hashPolicy, hash)
  PROVE  blob.plaintext = Terms[hash] /\ Terms[hash] \in PolicyTerms
<1>1. PICK h \in Policies : blob = sealPolicy(Terms[h], h) \/ blob = sealPolicy(OtherPolicy, h)
  BY DEF SealedPolicies
<1>2. blob.info = envelopeInfo(PolicyDomain, h)
  BY <1>1 DEF sealPolicy, seal
<1>3. h = hash
  BY <1>2 DEF openSealedPolicy, Opens, envelopeInfo
<1>4. CASE blob = sealPolicy(OtherPolicy, h)
  <2>1. blob.plaintext = OtherPolicy
    BY <1>4 DEF sealPolicy, seal
  <2>2. hashPolicy[OtherPolicy] = Empty
    BY DEF hashPolicy
  <2> QED
    BY <2>1, <2>2, WorkflowAssumption DEF openSealedPolicy
<1>5. CASE blob = sealPolicy(Terms[h], h)
  BY <1>3, <1>5, WorkflowAssumption DEF sealPolicy, seal
<1> QED
  BY <1>1, <1>4, <1>5

\* runEnclave: the winner is the one the rule picks, the bids that were on time among
\* those it picks from.
LEMMA ScoreHolds ==
  ASSUME WfInv, NEW r \in Runs, Score(r), NEW after, after = runs'[r]
  PROVE  after \in RunRecord /\ HoldsTrue(after)
<1> DEFINE run == runs[r]
           id == run.auctionId
<1>1. /\ run \in RunRecord /\ HoldsTrue(run) /\ run.pc = "bids" /\ run.fetched = Len(run.committers)
      /\ IInv /\ OnTimeIsHeld
  BY RunFields DEF WfInv, Score, At
<1>2. /\ id \in AuctionIds /\ id.policyHash \in Policies /\ run.sealedPolicy \in SealedPolicies
      /\ state(id) \in {"Settling"} \cup Terminal
      /\ run.commitments = commitments[id] /\ run.committers = committers[id]
  BY <1>1, AuctionIdFields DEF HoldsTrue
<1> HIDE DEF run
<1>3. CASE ~openSealedPolicy(run.sealedPolicy, hashPolicy, id.policyHash)
  BY <1>3, IdleHolds DEF Score, run, WfInv, WfTypeOK
<1>4. CASE openSealedPolicy(run.sealedPolicy, hashPolicy, id.policyHash)
  <2>1. run.sealedPolicy.plaintext = Terms[id.policyHash] /\ Terms[id.policyHash] \in PolicyTerms
    BY <1>2, <1>4, OpenedPolicy
  <2>2. PICK list, result : list = opened(run) /\ result = settle(Terms[id.policyHash], list)
    OBVIOUS
  <2>3. list \in BidList
    BY <1>1, <2>2, OpenedBook
  <2>4. PICK late \in SUBSET {s \in hasCommitted[id] : Backed(id, s)} :
          Book(list) = {Quote[s] : s \in onTime[id] \cup late}
    BY <1>1, <2>2, OpenedBook
  <2>5. result.winner # NoAddress => CountsOnTime(id, result.winner, result.payout)
    <3> SUFFICES ASSUME result.winner # NoAddress
                 PROVE  CountsOnTime(id, result.winner, result.payout)
      OBVIOUS
    <3>1. PICK bid \in Book(list) : /\ WinnerByRule(Terms[id.policyHash], Book(list), bid)
                                    /\ bid.supplier = result.winner /\ bid.price = result.payout
      BY <2>1, <2>2, <2>3, SettleFollowsRule, WorkflowAssumption
    <3> QED
      BY <2>4, <3>1 DEF CountsOnTime
  <2>6. result.winner = NoAddress => result.payout = 0
    BY <2>1, <2>2, <2>3, SettleFollowsRule, WorkflowAssumption
  <2>7. result.winner \in Suppliers \cup {NoAddress} /\ result.payout \in Nat
    BY <1>1, <1>2, <2>5, <2>6, WinnerIsPaid
  <2>8. PICK pc, winner, payout : /\ pc = IF winner = NoAddress THEN "settle" ELSE "book"
                                  /\ winner = result.winner /\ payout = result.payout
    OBVIOUS
  <2>9. after = [run EXCEPT !.pc = pc, !.winner = winner, !.payout = payout]
    <3>1. settle(run.sealedPolicy.plaintext, opened(run)) = result
      BY <2>1, <2>2
    <3>2. runs' = [runs EXCEPT ![r].pc = pc, ![r].winner = winner, ![r].payout = payout]
      BY <1>4, <2>8, <3>1 DEF Score, run
    <3> QED
      BY <3>2 DEF run, WfInv, WfTypeOK
  <2>10. pc \in {"settle", "book"} /\ winner \in Suppliers \cup {NoAddress} /\ payout \in Nat
    BY <2>7, <2>8
  <2>11. after \in RunRecord
    BY <1>1, <2>9, <2>10 DEF RunRecord
  <2>12. /\ after.pc = pc /\ after.auctionId = id /\ after.winner = winner
         /\ after.payout = payout /\ after.bookingId = run.bookingId
         /\ after.commitments = run.commitments /\ after.committers = run.committers
    BY <1>1, <2>9 DEF RunRecord
  <2>13. run.bookingId = NoBooking
    BY <1>1 DEF HoldsTrue
  <2> QED
    BY <1>2, <2>5, <2>6, <2>8, <2>10, <2>11, <2>12, <2>13 DEF HoldsTrue
<1> QED
  BY <1>3, <1>4

-----------------------------------------------------------------------------
(***************************************************************************)
(* The booking, and the steps of a run together.                           *)
(***************************************************************************)

\* No offer: the run settles without a booking.
LEMMA NoOfferHolds ==
  ASSUME WfInv, NEW r \in Runs, NoOffer(r), NEW after, after = runs'[r]
  PROVE  after \in RunRecord /\ HoldsTrue(after)
<1>1. runs[r] \in RunRecord /\ HoldsTrue(runs[r]) /\ runs[r].pc = "book"
  BY RunFields DEF WfInv, NoOffer, At
<1>2. PICK pc : pc = "settle"
  OBVIOUS
<1>3. after = [runs[r] EXCEPT !.pc = pc]
  BY <1>2 DEF NoOffer, Go, WfInv, WfTypeOK
<1>4. /\ after \in RunRecord /\ after.pc = "settle" /\ after.auctionId = runs[r].auctionId
      /\ after.winner = runs[r].winner /\ after.payout = runs[r].payout
      /\ after.bookingId = runs[r].bookingId
      /\ after.commitments = runs[r].commitments /\ after.committers = runs[r].committers
  BY <1>1, <1>2, <1>3 DEF RunRecord
<1> QED
  BY <1>1, <1>4 DEF HoldsTrue

\* The booking is posted; the run has learned nothing of it yet.
LEMMA PostBookingHolds ==
  ASSUME WfInv, NEW r \in Runs, PostBooking(r), NEW after, after = runs'[r]
  PROVE  after \in RunRecord /\ HoldsTrue(after)
<1>1. runs[r] \in RunRecord /\ HoldsTrue(runs[r]) /\ runs[r].pc = "book"
  BY RunFields DEF WfInv, PostBooking, At
<1>2. PICK pc : pc = "readback"
  OBVIOUS
<1>3. after = [runs[r] EXCEPT !.pc = pc]
  BY <1>2 DEF PostBooking, Go, WfInv, WfTypeOK
<1>4. /\ after \in RunRecord /\ after.pc = "readback" /\ after.auctionId = runs[r].auctionId
      /\ after.winner = runs[r].winner /\ after.payout = runs[r].payout
      /\ after.bookingId = runs[r].bookingId
      /\ after.commitments = runs[r].commitments /\ after.committers = runs[r].committers
  BY <1>1, <1>2, <1>3 DEF RunRecord
<1> QED
  BY <1>1, <1>4 DEF HoldsTrue

\* The read back: a booking id is taken only from a booking that is there.
LEMMA ReadBackHolds ==
  ASSUME WfInv, NEW r \in Runs, ReadBack(r), NEW after, after = runs'[r]
  PROVE  after \in RunRecord /\ HoldsTrue(after)
<1>1. runs[r] \in RunRecord /\ HoldsTrue(runs[r]) /\ runs[r].pc = "readback"
  BY RunFields DEF WfInv, ReadBack, At
<1>2. PICK answer \in Answers(runs[r]) :
        runs' = [runs EXCEPT ![r].pc = "settle", ![r].bookingId = answer]
  BY DEF ReadBack
<1>3. /\ answer \in {NoBooking, BookingId}
      /\ answer # NoBooking =>
           [reference |-> runs[r].auctionId, hotel |-> runs[r].winner] \in booked
  BY <1>2 DEF Answers
<1>4. PICK pc : pc = "settle"
  OBVIOUS
<1>5. after = [runs[r] EXCEPT !.pc = pc, !.bookingId = answer]
  BY <1>2, <1>4 DEF WfInv, WfTypeOK
<1>6. /\ after \in RunRecord /\ after.pc = "settle" /\ after.auctionId = runs[r].auctionId
      /\ after.winner = runs[r].winner /\ after.payout = runs[r].payout
      /\ after.bookingId = answer
      /\ after.commitments = runs[r].commitments /\ after.committers = runs[r].committers
  BY <1>1, <1>3, <1>4, <1>5 DEF RunRecord
<1> QED
  BY <1>1, <1>3, <1>6 DEF HoldsTrue

\* The claim that was mined: the book is closed from here on.
LEMMA ClaimMinedHolds ==
  ASSUME WfInv, NEW r \in Runs, ClaimMined(r), NEW after, after = runs'[r]
  PROVE  after \in RunRecord /\ HoldsTrue(after)'
<1>1. runs[r] \in RunRecord /\ HoldsTrue(runs[r]) /\ runs[r].pc = "claim"
  BY RunFields DEF WfInv, ClaimMined, At
<1>2. PICK pc : pc = "chain"
  OBVIOUS
<1>3. after = [runs[r] EXCEPT !.pc = pc]
  BY <1>2 DEF ClaimMined, Go, WfInv, WfTypeOK
<1>4. /\ after \in RunRecord /\ after.pc = "chain" /\ after.auctionId = runs[r].auctionId
      /\ after.winner = runs[r].winner /\ after.payout = runs[r].payout
      /\ after.bookingId = runs[r].bookingId /\ after.fetched = runs[r].fetched
  BY <1>1, <1>2, <1>3 DEF RunRecord
<1>5. after.auctionId \in AuctionIds /\ state(after.auctionId)' = "Settling"
  <2>1. after.auctionId \in AuctionIds
    BY <1>1, <1>4 DEF HoldsTrue
  <2> QED
    BY <1>4, <2>1 DEF ClaimMined, _startSettling, state, WfInv, IInv, TypeOK, AuctionRecord
<1> QED
  BY <1>1, <1>4, <1>5 DEF HoldsTrue

\* A step of a run moves that run and no other, and what it holds then is true.
LEMMA StepMoves ==
  ASSUME WfInv, NEW r \in Runs, Step(r) \/ Fail(r)
  PROVE  /\ runs' \in [Runs -> RunRecord]
         /\ \A q \in Runs : q # r => runs'[q] = runs[q]
         /\ \/ HoldsTrue(runs'[r])
            \/ ClaimMined(r) /\ \A after : after = runs'[r] => HoldsTrue(after)'
<1>1. PICK after : after = runs'[r]
  OBVIOUS
<1>2. runs \in [Runs -> RunRecord]
  BY DEF WfInv, WfTypeOK
<1>3. runs' = [q \in Runs |-> IF q = r THEN runs'[r] ELSE runs[q]]
  <2>1. CASE Scan(r) \/ ClaimMined(r) \/ ClaimRejected(r) \/ NoOffer(r) \/ PostBooking(r)
    BY <1>2, <2>1 DEF Scan, ClaimMined, ClaimRejected, NoOffer, PostBooking, Go
  <2>2. CASE SettleMined(r) \/ SettleRejected(r) \/ Fail(r)
    BY <1>2, <2>2 DEF SettleMined, SettleRejected, Fail
  <2>3. CASE ReadCommitments(r) \/ ReadCommitters(r)
    BY <1>2, <2>3 DEF ReadCommitments, ReadCommitters
  <2>4. CASE GetPolicy(r)
    BY <1>2, <2>4 DEF GetPolicy
  <2>5. CASE GetBid(r)
    BY <1>2, <2>5 DEF GetBid
  <2>6. CASE Score(r)
    BY <1>2, <2>6 DEF Score
  <2>7. CASE ReadBack(r)
    BY <1>2, <2>7 DEF ReadBack
  <2> QED
    BY <2>1, <2>2, <2>3, <2>4, <2>5, <2>6, <2>7 DEF Step
<1>4. after \in RunRecord => runs' \in [Runs -> RunRecord] /\ \A q \in Runs : q # r => runs'[q] = runs[q]
  BY <1>1, <1>2, <1>3
<1>5. CASE ClaimMined(r)
  BY <1>1, <1>4, <1>5, ClaimMinedHolds
<1>6. CASE ~ClaimMined(r)
  <2>1. CASE SettleMined(r) \/ SettleRejected(r) \/ Fail(r)
    <3>1. after = IdleRun
      BY <1>1, <1>2, <2>1 DEF SettleMined, SettleRejected, Fail
    <3> QED
      BY <1>1, <1>4, <3>1, IdleHolds
  <2>2. CASE ~(SettleMined(r) \/ SettleRejected(r) \/ Fail(r))
    <3>1. after \in RunRecord /\ HoldsTrue(after)
      BY <1>1, <1>6, <2>2, ScanHolds, ClaimRejectedHolds, ReadCommitmentsHolds,
         ReadCommittersHolds, GetPolicyHolds,
         GetBidHolds, ScoreHolds, NoOfferHolds, PostBookingHolds, ReadBackHolds DEF Step
    <3> QED
      BY <1>1, <1>4, <3>1
  <2> QED
    BY <2>1, <2>2
<1> QED
  BY <1>5, <1>6

\* A step of the composition is one of a run, a transaction of others, a request to the
\* relay, or its restart.
LEMMA StepCases ==
  ASSUME [WfNext]_wfVars
  PROVE  \/ \E r \in Runs : Step(r) \/ Fail(r)
         \/ /\ UNCHANGED <<runs, booked>>
            /\ OnChain \/ UploadPolicy \/ PostSealedBid \/ StrangerPosts \/ RestartRelay
                 \/ UNCHANGED wfVars
BY DEF WfNext, OnChain, UploadPolicy, PostSealedBid, StrangerPosts, RestartRelay, wfVars

\* No booking is ever taken back, and what was on time on a closed book stays until the
\* relay restarts.
LEMMA OthersKeep ==
  ASSUME WfInv, [WfNext]_wfVars
  PROVE  booked \subseteq booked' /\ OnTimeKept
<1>1. ASSUME NEW r \in Runs, Step(r) \/ Fail(r)
      PROVE  booked \subseteq booked' /\ OnTimeKept
  <2>1. CASE ClaimMined(r)
    <3>1. onTime \in [AuctionIds -> SUBSET Suppliers]
      BY DEF WfInv, WfTypeOK
    <3> QED
      BY <2>1, <3>1 DEF ClaimMined, _startSettling, CanClaim, OnTimeKept, Terminal
  <2>2. CASE ~ClaimMined(r)
    BY <1>1, <2>2 DEF Step, Scan, ClaimRejected, ReadCommitments, ReadCommitters,
                      GetPolicy, GetBid, Score, NoOffer,
                      PostBooking, ReadBack, SettleMined, SettleRejected, Fail, OnTimeKept
  <2> QED
    BY <2>1, <2>2
<1>2. CASE RestartRelay
  BY <1>2 DEF RestartRelay, OnTimeKept
<1>3. CASE OnChain \/ UploadPolicy \/ PostSealedBid \/ StrangerPosts \/ UNCHANGED wfVars
  BY <1>3 DEF OnChain, UploadPolicy, PostSealedBid, StrangerPosts, wfVars, OnTimeKept
<1> QED
  BY <1>1, <1>2, <1>3, StepCases DEF RestartRelay

\* Whatever moves, every run is a run and holds what is true.
LEMMA RunsHold ==
  ASSUME WfInv, [WfNext]_wfVars
  PROVE  runs' \in [Runs -> RunRecord] /\ \A q \in Runs : HoldsTrue(runs[q])'
<1>1. [Next]_vars /\ booked \subseteq booked' /\ OnTimeKept
  BY WfNextOnChain, OthersKeep
<1>2. \A q \in Runs : HoldsTrue(runs[q])
  BY DEF WfInv
<1>3. ASSUME NEW q \in Runs, NEW after, after = runs'[q], HoldsTrue(after)'
      PROVE  HoldsTrue(runs[q])'
  BY <1>3 DEF HoldsTrue, HasFetched
<1>4. ASSUME NEW q \in Runs, NEW after, after = runs'[q], HoldsTrue(after)
      PROVE  HoldsTrue(runs[q])'
  BY <1>1, <1>3, <1>4, HeldStays
<1>5. ASSUME NEW r \in Runs, Step(r) \/ Fail(r)
      PROVE  runs' \in [Runs -> RunRecord] /\ \A q \in Runs : HoldsTrue(runs[q])'
  <2>1. /\ runs' \in [Runs -> RunRecord]
        /\ \A q \in Runs : q # r => runs'[q] = runs[q]
        /\ \/ HoldsTrue(runs'[r])
           \/ ClaimMined(r) /\ \A after : after = runs'[r] => HoldsTrue(after)'
    BY <1>5, StepMoves
  <2>2. ASSUME NEW q \in Runs
        PROVE  HoldsTrue(runs[q])'
    <3>1. PICK after : after = runs'[q]
      OBVIOUS
    <3>2. CASE q # r
      <4>1. HoldsTrue(after)
        BY <1>2, <2>1, <3>1, <3>2
      <4> QED
        BY <1>4, <3>1, <4>1
    <3>3. CASE q = r /\ HoldsTrue(runs'[r])
      <4>1. HoldsTrue(after)
        BY <3>1, <3>3
      <4> QED
        BY <1>4, <3>1, <4>1
    <3>4. CASE q = r /\ ClaimMined(r)
      BY <1>3, <3>1, <3>4, ClaimMinedHolds
    <3> QED
      BY <2>1, <3>2, <3>3, <3>4
  <2> QED
    BY <2>1, <2>2
<1>6. ASSUME UNCHANGED runs
      PROVE  runs' \in [Runs -> RunRecord] /\ \A q \in Runs : HoldsTrue(runs[q])'
  <2>1. runs' \in [Runs -> RunRecord]
    BY <1>6 DEF WfInv, WfTypeOK
  <2>2. ASSUME NEW q \in Runs
        PROVE  HoldsTrue(runs[q])'
    <3>1. PICK after : after = runs'[q]
      OBVIOUS
    <3>2. HoldsTrue(after)
      BY <1>2, <1>6, <3>1
    <3> QED
      BY <1>4, <3>1, <3>2
  <2> QED
    BY <2>1, <2>2
<1> QED
  BY <1>5, <1>6, StepCases

-----------------------------------------------------------------------------
(***************************************************************************)
(* The relay and the suppliers.                                            *)
(***************************************************************************)

\* First write wins: a slot that is taken keeps what it holds until the relay restarts.
LEMMA SlotsStay ==
  ASSUME WfInv, [WfNext]_wfVars, ~RestartRelay, NEW id \in AuctionIds, NEW s \in Suppliers,
         bidSlots[id][s] # Empty
  PROVE  bidSlots'[id][s] = bidSlots[id][s]
<1>1. bidSlots \in [AuctionIds -> [Suppliers -> SealedBids \cup {Empty}]]
  BY DEF WfInv, WfTypeOK
<1>2. ASSUME NEW x, NEW t, NEW blob, R!putBid(x, t, blob)
      PROVE  bidSlots'[id][s] = bidSlots[id][s]
  BY <1>1, <1>2 DEF R!putBid, R!store
<1>3. CASE PostSealedBid \/ StrangerPosts
  BY <1>2, <1>3 DEF PostSealedBid, StrangerPosts
<1>4. CASE UploadPolicy
  BY <1>4 DEF UploadPolicy, R!putPolicy
<1>5. CASE OnChain \/ UNCHANGED wfVars
  BY <1>5 DEF OnChain, wfVars, relay
<1>6. ASSUME NEW r \in Runs, Step(r) \/ Fail(r)
      PROVE  bidSlots' = bidSlots
  BY <1>6 DEF Step, Scan, ClaimMined, ClaimRejected, ReadCommitments, ReadCommitters,
              GetPolicy, GetBid, Score, NoOffer,
              PostBooking, ReadBack, SettleMined, SettleRejected, Fail, relay
<1> QED
  BY <1>3, <1>4, <1>5, <1>6, StepCases

\* What was on time stays in its slot and backed by its commitment.
LEMMA OnTimeStays ==
  ASSUME WfInv, [WfNext]_wfVars
  PROVE  OnTimeIsHeld'
<1> SUFFICES ASSUME NEW id \in AuctionIds
             PROVE  /\ onTime'[id] \subseteq Postable(id)'
                    /\ onTime'[id] # {} => state(id)' \in {"Settling"} \cup Terminal
  BY DEF OnTimeIsHeld
<1>1. IInv /\ OnTimeIsHeld /\ [Next]_vars /\ onTime \in [AuctionIds -> SUBSET Suppliers]
  BY WfNextOnChain DEF WfInv, WfTypeOK
<1>2. CASE RestartRelay
  BY <1>2 DEF RestartRelay
<1>3. ASSUME NEW r \in Runs, ClaimMined(r), runs[r].auctionId = id
      PROVE  /\ onTime'[id] \subseteq Postable(id)'
             /\ state(id)' \in {"Settling"} \cup Terminal
  <2>1. onTime'[id] = Postable(id)
    BY <1>1, <1>3 DEF ClaimMined
  <2>2. Postable(id)' = Postable(id)
    BY <1>3 DEF ClaimMined, _startSettling, bids, relay, Postable, Backed, sealBid, seal, payloadOf,
                bidOf, commitmentOf
  <2>3. state(id)' = "Settling"
    BY <1>1, <1>3 DEF ClaimMined, _startSettling, state, IInv, TypeOK, AuctionRecord
  <2> QED
    BY <2>1, <2>2, <2>3
<1>4. CASE ~RestartRelay /\ onTime'[id] = onTime[id]
  <2>1. ASSUME NEW s \in onTime[id]
        PROVE  s \in Postable(id)'
    <3>1. /\ s \in hasCommitted[id] /\ s \in Suppliers /\ Backed(id, s)
          /\ bidSlots[id][s] = sealBid(payloadOf(id, s), id)
      BY <1>1 DEF OnTimeIsHeld, Postable
    <3>2. bidSlots[id][s] # Empty
      BY <3>1, OwnBidIsSealed, WorkflowAssumption
    <3>3. bidSlots'[id][s] = bidSlots[id][s]
      BY <1>4, <3>1, <3>2, SlotsStay
    <3>4. s \in hasCommitted'[id] /\ Backed(id, s)'
      BY <1>1, <3>1, BackedStays, NextExtendsBooks
    <3> QED
      BY <3>1, <3>3, <3>4 DEF Postable, sealBid, seal, payloadOf, bidOf
  <2>2. onTime[id] # {} => state(id)' \in {"Settling"} \cup Terminal
    BY <1>1, DueStays DEF OnTimeIsHeld
  <2> QED
    BY <1>4, <2>1, <2>2
<1>5. \/ RestartRelay \/ onTime'[id] = onTime[id]
      \/ \E r \in Runs : ClaimMined(r) /\ runs[r].auctionId = id
  <2>1. ASSUME NEW r \in Runs, Step(r) \/ Fail(r)
        PROVE  onTime'[id] = onTime[id] \/ (ClaimMined(r) /\ runs[r].auctionId = id)
    <3>1. CASE ClaimMined(r)
      BY <1>1, <3>1 DEF ClaimMined
    <3>2. CASE ~ClaimMined(r)
      BY <2>1, <3>2 DEF Step, Scan, ClaimRejected, ReadCommitments, ReadCommitters,
                        GetPolicy, GetBid, Score, NoOffer,
                        PostBooking, ReadBack, SettleMined, SettleRejected, Fail
    <3> QED
      BY <3>1, <3>2
  <2>2. CASE OnChain \/ UploadPolicy \/ PostSealedBid \/ StrangerPosts \/ UNCHANGED wfVars
    BY <2>2 DEF OnChain, UploadPolicy, PostSealedBid, StrangerPosts, wfVars
  <2> QED
    BY <2>1, <2>2, StepCases
<1> QED
  BY <1>2, <1>3, <1>4, <1>5

\* The types of what is not the chain's and not the runs'.
AroundTypeOK ==
  /\ policySlots \in [Policies -> SealedPolicies \cup {Empty}]
  /\ bidSlots \in [AuctionIds -> [Suppliers -> SealedBids \cup {Empty}]]
  /\ sent \in [AuctionIds -> SUBSET Suppliers]
  /\ booked \in SUBSET [reference: AuctionIds, hotel: Suppliers]
  /\ onTime \in [AuctionIds -> SUBSET Suppliers]

\* A run writes nothing at the relay, and books only with a supplier.
LEMMA StepAroundTypeOK ==
  ASSUME WfInv, NEW r \in Runs, Step(r) \/ Fail(r)
  PROVE  AroundTypeOK'
<1>1. AroundTypeOK
  BY DEF WfInv, WfTypeOK, AroundTypeOK
<1>2. CASE ClaimMined(r)
  <2>1. \A id \in AuctionIds : Postable(id) \subseteq Suppliers
    BY DEF Postable, WfInv, IInv, TypeOK
  <2>2. runs[r].auctionId \in AuctionIds
    BY <1>2 DEF ClaimMined, At, WfInv, HoldsTrue
  <2>3. onTime' \in [AuctionIds -> SUBSET Suppliers]
    BY <1>1, <1>2, <2>1, <2>2 DEF ClaimMined, AroundTypeOK
  <2> QED
    BY <1>1, <1>2, <2>3 DEF ClaimMined, AroundTypeOK, relay
<1>3. CASE PostBooking(r)
  <2>1. runs[r].auctionId \in AuctionIds /\ runs[r].winner \in Suppliers
    BY <1>3, RunFields DEF PostBooking, At, WfInv, HoldsTrue
  <2>2. booked' \in SUBSET [reference: AuctionIds, hotel: Suppliers]
    BY <1>1, <1>3, <2>1 DEF PostBooking, AroundTypeOK
  <2> QED
    BY <1>1, <1>3, <2>2 DEF PostBooking, AroundTypeOK, relay
<1>4. CASE ~ClaimMined(r) /\ ~PostBooking(r)
  BY <1>1, <1>4 DEF Step, Scan, ClaimRejected, ReadCommitments, ReadCommitters,
                    GetPolicy, GetBid, Score, NoOffer,
                    ReadBack, SettleMined, SettleRejected, Fail, AroundTypeOK, relay
<1> QED
  BY <1>2, <1>3, <1>4

\* The relay holds only what somebody sealed, under keys it knows.
LEMMA RelayTypeOK ==
  ASSUME AroundTypeOK, TypeOK, UploadPolicy \/ PostSealedBid \/ StrangerPosts \/ RestartRelay
  PROVE  AroundTypeOK'
<1>1. ASSUME NEW id, NEW s, NEW blob \in SealedBids, R!putBid(id, s, blob)
      PROVE  /\ bidSlots' \in [AuctionIds -> [Suppliers -> SealedBids \cup {Empty}]]
             /\ policySlots' = policySlots
  <2>1. R!store(bidSlots[id], s, blob) \in [Suppliers -> SealedBids \cup {Empty}] \/ id \notin AuctionIds
    BY <1>1, ZenonT(40) DEF R!store, AroundTypeOK
  <2> QED
    BY <1>1, <2>1 DEF R!putBid, AroundTypeOK
<1>2. CASE UploadPolicy
  <2>1. PICK hash \in Policies, policy \in {Terms[h] : h \in Policies} \cup {OtherPolicy} :
          /\ R!putPolicy(hash, sealPolicy(policy, hash))
          /\ policy \in {Terms[hash], OtherPolicy}
    BY <1>2 DEF UploadPolicy
  <2>2. sealPolicy(policy, hash) \in SealedPolicies
    BY <2>1 DEF SealedPolicies
  <2>3. policySlots' \in [Policies -> SealedPolicies \cup {Empty}] /\ bidSlots' = bidSlots
    BY <2>1, <2>2 DEF R!putPolicy, R!store, AroundTypeOK
  <2> QED
    BY <1>2, <2>3 DEF UploadPolicy, AroundTypeOK
<1>3. CASE PostSealedBid
  <2>1. PICK id \in AuctionIds : \E s \in hasCommitted[id] \ sent[id] : \E blob \in Sealable(id, s) :
          /\ R!putBid(id, s, blob)
          /\ sent' = [sent EXCEPT ![id] = @ \cup {s}]
          /\ UNCHANGED <<chain, runs, booked, onTime>>
    BY <1>3, Zenon DEF PostSealedBid
  <2>2. PICK s \in hasCommitted[id] : \E blob \in Sealable(id, s) :
          R!putBid(id, s, blob) /\ sent' = [sent EXCEPT ![id] = @ \cup {s}]
    BY <2>1
  <2>3. PICK blob \in Sealable(id, s) :
          R!putBid(id, s, blob) /\ sent' = [sent EXCEPT ![id] = @ \cup {s}]
    BY <2>2
  <2>4. s \in Suppliers /\ blob \in SealedBids
    BY <2>2, <2>3, OwnBidIsSealed DEF TypeOK
  <2>5. sent' \in [AuctionIds -> SUBSET Suppliers]
    BY <2>3, <2>4 DEF AroundTypeOK
  <2> QED
    BY <1>1, <1>3, <2>3, <2>4, <2>5 DEF PostSealedBid, AroundTypeOK
<1>4. CASE StrangerPosts
  <2>1. PICK id \in AuctionIds, s \in CopiedTo : \E blob \in Strange(id, s) : R!putBid(id, s, blob)
    BY <1>4 DEF StrangerPosts
  <2>2. PICK blob \in Strange(id, s) : R!putBid(id, s, blob)
    BY <2>1
  <2>3. blob \in SealedBids
    <3>1. s \in Suppliers
      BY WorkflowAssumption
    <3>2. \A other \in AuctionIds, t \in Suppliers : bidSlots[other][t] \in SealedBids \cup {Empty}
      BY DEF AroundTypeOK
    <3>3. blob = Forgery(id, s)
            \/ (blob # Empty /\ \E other \in AuctionIds, t \in Suppliers : blob = bidSlots[other][t])
      <4> DEFINE stored == UNION {{bidSlots[other][t] : t \in Suppliers} : other \in AuctionIds}
      <4>1. Strange(id, s) = {Forgery(id, s)} \cup (stored \ {Empty})
        BY DEF Strange
      <4>2. ASSUME NEW x \in stored
            PROVE  \E other \in AuctionIds, t \in Suppliers : x = bidSlots[other][t]
        OBVIOUS
      <4> HIDE DEF stored
      <4> QED
        BY <2>2, <4>1, <4>2
    <3> QED
      BY <3>1, <3>2, <3>3, OwnBidIsSealed
  <2> QED
    BY <1>1, <1>4, <2>2, <2>3 DEF StrangerPosts, AroundTypeOK
<1>5. CASE RestartRelay
  BY <1>5 DEF RestartRelay, R!Restart, R!NoPolicies, R!NoBids, AroundTypeOK
<1> QED
  BY <1>2, <1>3, <1>4, <1>5

\* Every step of the composition keeps the types.
LEMMA NextWfTypeOK ==
  ASSUME WfInv, [WfNext]_wfVars
  PROVE  WfTypeOK'
<1>1. TypeOK'
  BY WfNextOnChain, NextTypeOK DEF WfInv, IInv
<1>2. runs' \in [Runs -> RunRecord]
  BY RunsHold
<1>3. AroundTypeOK /\ TypeOK
  BY DEF WfInv, IInv, WfTypeOK, AroundTypeOK
<1>4. ASSUME OnChain \/ UNCHANGED wfVars
      PROVE  AroundTypeOK'
  BY <1>3, <1>4 DEF OnChain, wfVars, relay, AroundTypeOK
<1>5. AroundTypeOK'
  BY <1>3, <1>4, StepCases, StepAroundTypeOK, RelayTypeOK
<1> QED
  BY <1>1, <1>2, <1>5 DEF WfTypeOK, AroundTypeOK

-----------------------------------------------------------------------------
(***************************************************************************)
(* Recorded winners.                                                       *)
(***************************************************************************)

\* Nobody but a run's settlement names a winner on chain.
LEMMA WinnersComeFromRuns ==
  ASSUME WfInv, [WfNext]_wfVars, NEW id \in AuctionIds, auctions'[id].winner # NoAddress
  PROVE  \/ auctions'[id].winner = auctions[id].winner /\ auctions'[id].payout = auctions[id].payout
         \/ \E r \in Runs : /\ At(r, "settle") /\ runs[r].auctionId = id
                            /\ auctions'[id].winner = runs[r].winner
                            /\ auctions'[id].payout = runs[r].payout
                            /\ runs[r].bookingId # NoBooking
<1> DEFINE Same == auctions'[id].winner = auctions[id].winner /\ auctions'[id].payout = auctions[id].payout
<1>1. auctions \in [AuctionIds -> AuctionRecord] /\ auctions[id] \in AuctionRecord
  BY DEF WfInv, IInv, TypeOK
<1>2. ASSUME NEW r \in Runs, SettleMined(r), ~Same
      PROVE  /\ At(r, "settle") /\ runs[r].auctionId = id
             /\ auctions'[id].winner = runs[r].winner
             /\ auctions'[id].payout = runs[r].payout
             /\ runs[r].bookingId # NoBooking
  <2>1. PICK s : s = report(runs[r])
    OBVIOUS
  <2>2. At(r, "settle") /\ _settle(s)
    BY <1>2, <2>1 DEF SettleMined
  <2>3. /\ s.auctionId = runs[r].auctionId /\ s.auctionId \in AuctionIds
        /\ s.winner # NoAddress => /\ s.winner = runs[r].winner
                                   /\ s.payout = runs[r].payout
                                   /\ runs[r].bookingId # NoBooking
    BY <2>1, <2>2, ReportFits
  <2>4. PICK terminal : auctions' = [auctions EXCEPT ![s.auctionId] =
                           [state |-> terminal, winner |-> s.winner, payout |-> s.payout]]
    BY <2>2 DEF _settle, Close
  <2>5. s.auctionId = id
    BY <1>1, <1>2, <2>4
  <2>6. auctions'[id].winner = s.winner /\ auctions'[id].payout = s.payout
    BY <1>1, <2>4, <2>5
  <2> QED
    BY <2>2, <2>3, <2>5, <2>6
<1>3. ASSUME NEW r \in Runs, Step(r) \/ Fail(r), ~SettleMined(r)
      PROVE  Same
  <2>1. CASE ClaimMined(r)
    BY <1>1, <2>1 DEF ClaimMined, _startSettling, AuctionRecord
  <2>2. CASE ~ClaimMined(r)
    BY <1>3, <2>2 DEF Step, Scan, ClaimRejected, ReadCommitments, ReadCommitters,
                      GetPolicy, GetBid, Score, NoOffer,
                      PostBooking, ReadBack, SettleRejected, Fail, chain
  <2> QED
    BY <2>1, <2>2
<1>4. CASE OnChain
  <2>1. CASE Create
    <3>1. PICK x \in AuctionIds : createAuction(x)
      BY <2>1 DEF Create
    <3>2. PICK after : auctions' = [auctions EXCEPT ![x].state = after]
      BY <3>1 DEF createAuction
    <3> QED
      BY <1>1, <3>2 DEF AuctionRecord
  <2>2. CASE CommitBid
    <3>1. PICK x \in AuctionIds, s \in Suppliers : \E c \in Placeable(x, s) : commit(x, s, c)
      BY <2>2 DEF CommitBid
    <3>2. PICK after : auctions' = [auctions EXCEPT ![x].state = after]
      BY <3>1 DEF commit
    <3> QED
      BY <1>1, <3>2 DEF AuctionRecord
  <2>3. CASE Refund
    <3>1. PICK x \in AuctionIds : timeoutRefund(x)
      BY <2>3 DEF Refund
    <3>2. PICK after : auctions' = [auctions EXCEPT ![x] =
                          [state |-> after, winner |-> NoAddress, payout |-> 0]]
      BY <3>1 DEF timeoutRefund, Close
    <3>3. x # id
      BY <1>1, <3>2
    <3> QED
      BY <1>1, <3>2, <3>3
  <2>4. CASE Tick
    BY <2>4 DEF Tick
  <2> QED
    BY <1>4, <2>1, <2>2, <2>3, <2>4 DEF OnChain
<1>5. CASE UploadPolicy \/ PostSealedBid \/ StrangerPosts \/ RestartRelay \/ UNCHANGED wfVars
  BY <1>5 DEF UploadPolicy, PostSealedBid, StrangerPosts, RestartRelay, wfVars, chain
<1> QED
  BY <1>2, <1>3, <1>4, <1>5, StepCases

\* A winner on chain stays booked, and stays the one the rule picks.
LEMMA WinnersHold ==
  ASSUME WfInv, [WfNext]_wfVars
  PROVE  PaidOnlyIfBooked' /\ OnTimeBidsAreCounted'
<1> SUFFICES ASSUME NEW id \in AuctionIds, auctions'[id].winner # NoAddress
             PROVE  /\ [reference |-> id, hotel |-> auctions'[id].winner] \in booked'
                    /\ CountsOnTime(id, auctions[id].winner, auctions[id].payout)'
  BY DEF PaidOnlyIfBooked, OnTimeBidsAreCounted
<1>1. IInv /\ OnTimeIsHeld /\ [Next]_vars /\ booked \subseteq booked' /\ OnTimeKept
  BY WfNextOnChain, OthersKeep DEF WfInv
<1>2. PICK winner, payout : winner = auctions'[id].winner /\ payout = auctions'[id].payout
  OBVIOUS
<1>3. /\ state(id) \in {"Settling"} \cup Terminal
      /\ [reference |-> id, hotel |-> winner] \in booked
      /\ CountsOnTime(id, winner, payout)
  <2>1. CASE winner = auctions[id].winner /\ payout = auctions[id].payout
    <3>1. state(id) = "Finalized"
      BY <1>1, <1>2, <2>1 DEF IInv, PayoutIsBacked
    <3> QED
      BY <1>2, <2>1, <3>1 DEF WfInv, PaidOnlyIfBooked, OnTimeBidsAreCounted, Terminal
  <2>2. ASSUME NEW r \in Runs, At(r, "settle"), runs[r].auctionId = id, winner = runs[r].winner,
               payout = runs[r].payout, runs[r].bookingId # NoBooking
        PROVE  /\ state(id) \in {"Settling"} \cup Terminal
               /\ [reference |-> id, hotel |-> winner] \in booked
               /\ CountsOnTime(id, winner, payout)
    BY <1>2, <2>2 DEF WfInv, HoldsTrue, At
  <2> QED
    BY <1>2, <2>1, <2>2, WinnersComeFromRuns
<1>4. CountsOnTime(id, winner, payout)'
  BY <1>1, <1>3, CountStays DEF OnTimeKept
<1> QED
  BY <1>1, <1>2, <1>3, <1>4

-----------------------------------------------------------------------------
(***************************************************************************)
(* The theorems.                                                           *)
(***************************************************************************)

\* Before the first tick of the cron nothing is held, booked or won.
LEMMA InitWfInv == WfInit => WfInv
<1> SUFFICES ASSUME WfInit
             PROVE  WfInv
  OBVIOUS
<1>1. Init /\ IInv /\ TypeOK
  BY InitIInv DEF WfInit, IInv
<1>2. /\ policySlots = [hash \in Policies |-> Empty]
      /\ bidSlots = [id \in AuctionIds |-> [s \in Suppliers |-> Empty]]
      /\ runs = [r \in Runs |-> IdleRun] /\ booked = {}
      /\ sent = [id \in AuctionIds |-> {}] /\ onTime = [id \in AuctionIds |-> {}]
  BY DEF WfInit, R!RelayInit, R!NoPolicies, R!NoBids
<1>3. WfTypeOK
  BY <1>1, <1>2, IdleHolds DEF WfTypeOK
<1>4. OnTimeIsHeld
  BY <1>2 DEF OnTimeIsHeld
<1>5. \A r \in Runs : HoldsTrue(runs[r])
  BY <1>2, IdleHolds
<1>6. \A id \in AuctionIds : auctions[id].winner = NoAddress
  BY <1>1 DEF Init
<1> QED
  BY <1>1, <1>3, <1>4, <1>5, <1>6 DEF WfInv, PaidOnlyIfBooked, OnTimeBidsAreCounted

\* Every step of a run, of the chain, of the relay and of the suppliers keeps the
\* invariant.
LEMMA NextWfInv ==
  ASSUME WfInv, [WfNext]_wfVars
  PROVE  WfInv'
<1>1. IInv'
  BY WfNextOnChain, NextIInv DEF WfInv
<1> QED
  BY <1>1, NextWfTypeOK, OnTimeStays, RunsHold, WinnersHold DEF WfInv

\* What the runs, the relay and the chain hold of each other, in every reachable state.
THEOREM WfInvariance == WfSpec => []WfInv
<1>1. WfInv /\ [WfNext]_wfVars => WfInv'
  BY NextWfInv
<1> QED
  BY <1>1, InitWfInv, PTL DEF WfSpec

\* Under the workflow the contract takes only steps of its own specification: everything
\* proved of it holds of the composition.
THEOREM WorkflowOnChain == WfSpec => Spec
<1>1. WfInit => Init
  BY DEF WfInit
<1>2. WfInv /\ [WfNext]_wfVars => [Next]_vars
  BY WfNextOnChain
<1> QED
  BY <1>1, <1>2, WfInvariance, PTL DEF WfSpec, Spec

\* No slot of the relay and no run holds what nobody sent.
THEOREM WfTypeCorrect == WfSpec => []WfTypeOK
<1>1. WfInv => WfTypeOK
  BY DEF WfInv
<1> QED
  BY <1>1, WfInvariance, PTL

\* A run fetches nothing of an auction that is not claimed.
THEOREM ClaimCorrect == WfSpec => []ClaimedBeforeFetched
<1>1. WfInv => ClaimedBeforeFetched
  BY DEF WfInv, HoldsTrue, ClaimedBeforeFetched
<1> QED
  BY <1>1, WfInvariance, PTL

\* A report that reaches an auction in Settling is never turned away where the auction's
\* cap covers its own policy, whatever the caps and policies of others.
THEOREM FitCorrect == WfSpec => []SettlementAlwaysFits
<1>1. WfInv => SettlementAlwaysFits
  <2> SUFFICES ASSUME WfInv, NEW r \in Runs, At(r, "settle"),
                      state(runs[r].auctionId) = "Settling", CapCovers(runs[r].auctionId)
               PROVE  CanSettle(report(runs[r]))
    BY DEF SettlementAlwaysFits
  <2> QED
    BY ReportFits
<1> QED
  BY <1>1, WfInvariance, PTL

\* A winner is recorded only with a booking at that winner.
THEOREM BookingCorrect == WfSpec => []PaidOnlyIfBooked
<1>1. WfInv => PaidOnlyIfBooked
  BY DEF WfInv
<1> QED
  BY <1>1, WfInvariance, PTL

\* The recorded winner is the one the rule picks from the bids that were at the relay at
\* the claim, and others that were committed to on that auction.
THEOREM CountCorrect == WfSpec => []OnTimeBidsAreCounted
<1>1. WfInv => OnTimeBidsAreCounted
  BY DEF WfInv
<1> QED
  BY <1>1, WfInvariance, PTL
=============================================================================
