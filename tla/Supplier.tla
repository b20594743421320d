----------------------------- MODULE Supplier -----------------------------
(***************************************************************************)
(* One supplier agent (supplier/src): the watcher that reads the auction   *)
(* log, one model run per auction it hears of, and the submitBid tool a    *)
(* run may call, several calls of several runs at once.  The wallet is     *)
(* shared: there is one USDC allowance for the escrow, and approve         *)
(* overwrites it.                                                          *)
(*                                                                         *)
(* A write goes through the signer.  The Circle signer (circle.ts) runs a  *)
(* command that makes several requests for one transaction, and repeats    *)
(* the whole command when any of them is rate limited; the local signer    *)
(* never takes that step.                                                  *)
(*                                                                         *)
(* Every call of submitBid draws a fresh salt, so a call is named by the   *)
(* commitment it makes, and a sealed bid by the call it came from.  The    *)
(* chain, the relay slot of this supplier and the clock move between any   *)
(* two awaits of the agent.                                                *)
(***************************************************************************)
EXTENDS SealedAuction

CONSTANTS
  Me,             \* the account of this agent
  Calls,          \* calls of submitBid, at most MAX_TURNS a run; also Commitments
  Stranger,       \* a blob somebody else put under this agent's key
  Empty,
  MaxLogs         \* bound: TermsPublished logs, repeats included

\* What a call seals is neither nothing nor what somebody else sealed.
ASSUME SupplierAssumption ==
  /\ Me \in Suppliers
  /\ Calls \subseteq Commitments
  /\ Empty \notin Calls
  /\ Stranger \notin Calls
  /\ MaxLogs \in Nat

VARIABLES
  published,      \* the TermsPublished logs, one block each
  allowance,      \* USDC the escrow may still pull from Me
  slot,           \* slot[id]: what the relay holds under this agent's address
  firstLog,       \* fromBlock of this process
  nextLog,        \* nextBlock
  latest,         \* the head the poll under way read, 0 between polls
  seen,           \* ids handed on, never twice in a process
  reads,          \* reads[id]: auctionTerms calls under way
  starts,         \* starts[id]: runs started for an auction
  ended,          \* ids whose run has ended
  committed,      \* ids whose run knows its stake is locked
  submitted,      \* ids whose run submitted its bid
  calls           \* calls[c]: which auction a call bids on, and how far it is

chain == <<now, auctions, openAuctions, commitments, committers, hasCommitted,
           usdc, held, paidOut>>
watcher == <<firstLog, nextLog, latest, seen, reads>>
bidder == <<starts, ended, committed, submitted>>
supVars == <<chain, published, allowance, slot, watcher, bidder, calls>>

Fresh == [pc |-> "fresh", auctionId |-> NoAuction]

SupInit ==
  /\ Init
  /\ published = <<>>
  /\ allowance = 0
  /\ slot = [id \in AuctionIds |-> Empty]
  /\ firstLog = 1
  /\ nextLog = 1
  /\ latest = 0
  /\ seen = {}
  /\ reads = [id \in AuctionIds |-> 0]
  /\ starts = [id \in AuctionIds |-> 0]
  /\ ended = {}
  /\ committed = {}
  /\ submitted = {}
  /\ calls = [c \in Calls |-> Fresh]

-----------------------------------------------------------------------------
(***************************************************************************)
(* watchAuctions.                                                          *)
(***************************************************************************)
\* Mutation: a head equal to nextBlock is taken for one already read.
ReadLaterHead ==
  /\ latest = 0
  /\ Len(published) > nextLog
  /\ latest' = Len(published)
  /\ UNCHANGED <<chain, published, allowance, slot, firstLog, nextLog, seen, reads, bidder, calls>>

ReadHead ==
  /\ latest = 0
  /\ Len(published) >= nextLog
  /\ latest' = Len(published)
  /\ UNCHANGED <<chain, published, allowance, slot, firstLog, nextLog, seen, reads, bidder, calls>>

\* Mutation: the next poll starts at the head of now, not at the head it read.
ReadLogsPastHead ==
  LET fresh == {published[i] : i \in nextLog..latest} \ seen
  IN /\ latest # 0
     /\ nextLog' = Len(published) + 1
     /\ seen' = seen \cup fresh
     /\ reads' = [id \in AuctionIds |-> reads[id] + (IF id \in fresh THEN 1 ELSE 0)]
     /\ latest' = 0
     /\ UNCHANGED <<chain, published, allowance, slot, firstLog, bidder, calls>>

\* Mutation: an auction is marked seen once its terms are read.
ReadLogsUnmarked ==
  LET fresh == {published[i] : i \in nextLog..latest} \ seen
  IN /\ latest # 0
     /\ nextLog' = latest + 1
     /\ reads' = [id \in AuctionIds |-> reads[id] + (IF id \in fresh THEN 1 ELSE 0)]
     /\ latest' = 0
     /\ UNCHANGED <<chain, published, allowance, slot, firstLog, seen, bidder, calls>>

\* The logs up to the head that was read; an id in them fires once, and is marked
\* seen before its terms are read.
ReadLogs ==
  LET fresh == {published[i] : i \in nextLog..latest} \ seen
  IN /\ latest # 0
     /\ nextLog' = latest + 1
     /\ seen' = seen \cup fresh
     /\ reads' = [id \in AuctionIds |-> reads[id] + (IF id \in fresh THEN 1 ELSE 0)]
     /\ latest' = 0
     /\ UNCHANGED <<chain, published, allowance, slot, firstLog, bidder, calls>>

\* A read of the logs that throws is logged, and the next poll asks again.
PollFails ==
  /\ latest # 0
  /\ latest' = 0
  /\ UNCHANGED <<chain, published, allowance, slot, firstLog, nextLog, seen, reads, bidder, calls>>

\* auctionTerms answers and the auction goes to a run of its own, not awaited.
TermsRead(id) ==
  /\ reads[id] > 0
  /\ reads' = [reads EXCEPT ![id] = @ - 1]
  /\ starts' = [starts EXCEPT ![id] = @ + 1]
  /\ UNCHANGED <<chain, published, allowance, slot, firstLog, nextLog, latest, seen,
                 ended, committed, submitted, calls>>

\* auctionTerms fails: the auction stays seen and is never bid on.
TermsLost(id) ==
  /\ reads[id] > 0
  /\ reads' = [reads EXCEPT ![id] = @ - 1]
  /\ UNCHANGED <<chain, published, allowance, slot, firstLog, nextLog, latest, seen, bidder, calls>>

-----------------------------------------------------------------------------
(***************************************************************************)
(* submitBid.                                                              *)
(***************************************************************************)
At(c, pc) == calls[c].pc = pc
Go(c, pc) == calls' = [calls EXCEPT ![c].pc = pc]
idOf(c) == calls[c].auctionId

\* The guard of createTools.submit and the one look at the deadline.
Call(c, id) ==
  /\ At(c, "fresh")
  /\ starts[id] > 0
  /\ id \notin ended
  /\ id \notin committed
  /\ now < bidDeadline(id)
  /\ calls' = [calls EXCEPT ![c] = [pc |-> "approve", auctionId |-> id]]
  /\ UNCHANGED <<chain, published, allowance, slot, watcher, bidder>>

\* Mutation: the approval adds to the allowance.
ApproveMore(c) ==
  /\ At(c, "approve")
  /\ allowance' = allowance + SUPPLIER_STAKE
  /\ Go(c, "approved")
  /\ UNCHANGED <<chain, published, slot, watcher, bidder>>

\* approve(escrow, stake) sets the allowance, whatever it was.
Approve(c) ==
  /\ At(c, "approve")
  /\ allowance' = SUPPLIER_STAKE
  /\ Go(c, "approved")
  /\ UNCHANGED <<chain, published, slot, watcher, bidder>>

CommitGoesThrough(c) == CanCommit(idOf(c), Me) /\ allowance >= SUPPLIER_STAKE

CommitMined(c) ==
  /\ At(c, "commit")
  /\ allowance >= SUPPLIER_STAKE
  /\ commit(idOf(c), Me, c)
  /\ allowance' = allowance - SUPPLIER_STAKE
  /\ Go(c, "committed")
  /\ UNCHANGED <<published, slot, watcher, bidder>>

\* Mutation: a revert reads as a success (no assertMined).
RevertPassesFor(c) ==
  /\ At(c, "commit")
  /\ ~CommitGoesThrough(c)
  /\ Go(c, "committed")
  /\ UNCHANGED <<chain, published, allowance, slot, watcher, bidder>>

\* assertMined throws on a reverted receipt.
CommitReverts(c) ==
  /\ At(c, "commit")
  /\ ~CommitGoesThrough(c)
  /\ Go(c, "failed")
  /\ UNCHANGED <<chain, published, allowance, slot, watcher, bidder>>

\* A receipt is in: commit follows approve, and onCommitted follows commit.
Receipt(c) ==
  /\ \/ At(c, "approved") /\ Go(c, "commit") /\ UNCHANGED committed
     \/ At(c, "committed") /\ Go(c, "post") /\ committed' = committed \cup {idOf(c)}
  /\ UNCHANGED <<chain, published, allowance, slot, watcher, starts, ended, submitted>>

\* The command is rate limited after it sent the transaction (circle.ts: one command
\* is a challenge, its poll and the transaction read), and the signer runs the whole
\* command again.  A limit met before that changes nothing, and one met at the last
\* attempt is a write that throws; the attempts are not counted.
RateLimited(c) ==
  /\ \/ At(c, "approved") /\ Go(c, "approve")
     \/ At(c, "committed") /\ Go(c, "commit")
  /\ UNCHANGED <<chain, published, allowance, slot, watcher, bidder>>

\* Where a call is left by an agent that stops waiting for it: a write that was not mined
\* so far may have been sent, and be mined later.
givenUp(pc) ==
  CASE pc \in {"approve", "approveLost"} -> "approveLost"
    [] pc \in {"commit", "commitLost"} -> "commitLost"
    [] OTHER -> "failed"

\* A write that throws: it was never sent, or is still pending, or it was mined and its
\* answer or its receipt did not come back, or it was rate limited once too often.
WriteThrows(c) ==
  /\ calls[c].pc \in {"approve", "approved", "commit", "committed"}
  /\ Go(c, givenUp(calls[c].pc))
  /\ UNCHANGED <<chain, published, allowance, slot, watcher, bidder>>

\* A transaction is mined that its call no longer waits for.
ApproveLate(c) ==
  /\ At(c, "approveLost")
  /\ allowance' = SUPPLIER_STAKE
  /\ Go(c, "failed")
  /\ UNCHANGED <<chain, published, slot, watcher, bidder>>

CommitLate(c) ==
  /\ At(c, "commitLost")
  /\ allowance >= SUPPLIER_STAKE
  /\ commit(idOf(c), Me, c)
  /\ allowance' = allowance - SUPPLIER_STAKE
  /\ Go(c, "failed")
  /\ UNCHANGED <<published, slot, watcher, bidder>>

\* Mutation: the relay's answer is not looked at.
PostUnchecked(c) ==
  /\ At(c, "post")
  /\ slot' = [slot EXCEPT ![idOf(c)] = IF @ = Empty THEN c ELSE @]
  /\ Go(c, "done")
  /\ submitted' = submitted \cup {idOf(c)}
  /\ UNCHANGED <<chain, published, allowance, watcher, starts, ended, committed>>

\* The relay takes the first write and answers 201, or refuses it and the call
\* throws.
Post(c) ==
  /\ At(c, "post")
  /\ slot' = [slot EXCEPT ![idOf(c)] = IF @ = Empty THEN c ELSE @]
  /\ IF slot[idOf(c)] = Empty
     THEN Go(c, "done") /\ submitted' = submitted \cup {idOf(c)}
     ELSE Go(c, "failed") /\ UNCHANGED submitted
  /\ UNCHANGED <<chain, published, allowance, watcher, starts, ended, committed>>

\* The post does not complete; the relay may have stored it all the same.
PostThrows(c) ==
  /\ At(c, "post")
  /\ \/ slot' = [slot EXCEPT ![idOf(c)] = IF @ = Empty THEN c ELSE @]
     \/ UNCHANGED slot
  /\ Go(c, "failed")
  /\ UNCHANGED <<chain, published, allowance, watcher, bidder>>

InFlight(id) ==
  {c \in Calls :
     /\ idOf(c) = id
     /\ calls[c].pc \notin {"fresh", "approveLost", "commitLost", "done", "failed"}}

\* runBidder: the model stops calling tools, or the turn cap stops it.
EndRun(id) ==
  /\ starts[id] > 0
  /\ id \notin ended
  /\ InFlight(id) = {}
  /\ ended' = ended \cup {id}
  /\ UNCHANGED <<chain, published, allowance, slot, watcher, starts, committed, submitted, calls>>

\* What runBidder says of a run that ended.
Outcome(id) ==
  IF id \in submitted THEN "bid"
  ELSE IF id \in committed THEN "stake locked, nothing at the relay" ELSE "no bid"

\* The process stops and starts again: it knows nothing, and listens from the current
\* block on, which holds the last log or follows it.  What its calls had sent may still
\* be mined.
Restart ==
  /\ firstLog' \in {Len(published) + 1} \cup (DOMAIN published \cap {Len(published)})
  /\ nextLog' = firstLog'
  /\ latest' = 0
  /\ seen' = {}
  /\ reads' = [id \in AuctionIds |-> 0]
  /\ starts' = [id \in AuctionIds |-> 0]
  /\ ended' = {}
  /\ committed' = {}
  /\ submitted' = {}
  /\ calls' = [c \in Calls |-> IF At(c, "fresh") THEN Fresh
                               ELSE [calls[c] EXCEPT !.pc = givenUp(@)]]
  /\ UNCHANGED <<chain, published, allowance, slot>>

-----------------------------------------------------------------------------
OpenAuction(id) ==
  /\ Len(published) < MaxLogs
  /\ createAuction(id)
  /\ published' = Append(published, id)
  /\ UNCHANGED <<allowance, slot, watcher, bidder, calls>>

\* A reorg repeats a log in a later block.
RepeatLog ==
  /\ Len(published) < MaxLogs
  /\ \E i \in DOMAIN published : published' = Append(published, published[i])
  /\ UNCHANGED <<chain, allowance, slot, watcher, bidder, calls>>

StrangerPosts ==
  \E id \in AuctionIds :
    /\ slot[id] = Empty
    /\ slot' = [slot EXCEPT ![id] = Stranger]
    /\ UNCHANGED <<chain, published, allowance, watcher, bidder, calls>>

Time == Tick /\ UNCHANGED <<published, allowance, slot, watcher, bidder, calls>>

Watch == ReadHead \/ ReadLogs \/ PollFails \/ \E id \in AuctionIds : TermsRead(id) \/ TermsLost(id)

Submit(c) ==
  \/ \E id \in AuctionIds : Call(c, id)
  \/ Approve(c) \/ CommitMined(c) \/ CommitReverts(c) \/ Receipt(c)
  \/ RateLimited(c) \/ WriteThrows(c) \/ ApproveLate(c) \/ CommitLate(c)
  \/ Post(c) \/ PostThrows(c)

SupNext ==
  \/ Watch
  \/ \E c \in Calls : Submit(c)
  \/ \E id \in AuctionIds : EndRun(id) \/ OpenAuction(id)
  \/ Restart \/ RepeatLog \/ StrangerPosts \/ Time

SupSpec == SupInit /\ [][SupNext]_supVars

\* The loop polls until it is stopped, and a node that is asked for ever answers at
\* some point.
WatchSpec == SupSpec /\ WF_supVars(ReadHead) /\ SF_supVars(ReadLogs)

-----------------------------------------------------------------------------
(***************************************************************************)
(* Properties.                                                             *)
(***************************************************************************)
CallRecord ==
  [pc: {"fresh", "approve", "approved", "commit", "committed", "post", "done",
         "approveLost", "commitLost", "failed"},
   auctionId: AuctionIds \cup {NoAuction}]

\* Every variable keeps its type, and the poll stays within the log.
SupTypeOK ==
  /\ TypeOK
  /\ published \in Seq(AuctionIds)
  /\ Len(published) <= MaxLogs
  /\ allowance \in {0, SUPPLIER_STAKE}
  /\ slot \in [AuctionIds -> Calls \cup {Empty, Stranger}]
  /\ firstLog \in 1..(MaxLogs + 1)
  /\ nextLog \in firstLog..(Len(published) + 1)
  /\ latest = 0 \/ latest \in nextLog..Len(published)
  /\ seen \subseteq AuctionIds
  /\ reads \in [AuctionIds -> Nat]
  /\ starts \in [AuctionIds -> Nat]
  /\ ended \subseteq AuctionIds
  /\ committed \subseteq AuctionIds
  /\ submitted \subseteq AuctionIds
  /\ calls \in [Calls -> CallRecord]

\* The watcher drops no auction (watcher.ts): whatever a poll failed on and
\* whenever a block landed, every log behind nextBlock has been handed on.
NoLogIsSkipped ==
  \A i \in firstLog..(nextLog - 1) : published[i] \in seen

\* An auction fires once per process: however often its log is repeated, at most
\* one run ever bids on it.
OneRunPerAuction == \A id \in AuctionIds : reads[id] + starts[id] <= 1

\* No auction is missed (watcher.ts): one whose log this process can read is handed
\* on, whatever polls fail, unless the process restarts past it.
Unheard(id) ==
  id \notin seen /\ \E i \in firstLog..Len(published) : published[i] = id

EveryAuctionIsHeard == \A id \in AuctionIds : Unheard(id) ~> ~Unheard(id)

\* What WF and SF of WatchSpec say through ENABLED: the loop can read a head as soon as
\* a block lies beyond the last one, and the logs whenever it holds a head.
PollsCanStep ==
  /\ latest = 0 /\ Len(published) >= nextLog => ENABLED <<ReadHead>>_supVars
  /\ latest # 0 => ENABLED <<ReadLogs>>_supVars

\* A sealed bid of this agent is at the relay only behind its own commitment:
\* retries, lost receipts, parallel calls and restarts never leave the salt of one
\* call at the relay and the commitment of another on chain.
PostedOpensCommitment ==
  \A id \in AuctionIds :
    slot[id] \in Calls =>
      \E i \in DOMAIN committers[id] :
        committers[id][i] = Me /\ commitments[id][i] = slot[id]

\* What a run says of itself is true of the chain and the relay: a bid it reports can
\* be scored, its stake locked and the sealed bid at the relay the one it is locked
\* for; and a stake it reports as locked is locked.
SubmittedCanBeScored ==
  \A id \in AuctionIds :
    /\ Outcome(id) = "bid" => Me \in hasCommitted[id] /\ slot[id] \in Calls
    /\ Outcome(id) = "stake locked, nothing at the relay" => Me \in hasCommitted[id]

\* The commitments of this agent that an auction's book holds.
StakedBehind(id) ==
  {commitments[id][i] : i \in {j \in DOMAIN committers[id] : committers[id][j] = Me}}

\* The agent as seen from outside: its stakes by the commitments they are locked behind,
\* its slots at the relay, and what its runs say.
A == INSTANCE Agent WITH
       Auctions <- AuctionIds,
       Bids <- Calls,
       staked <- [id \in AuctionIds |-> StakedBehind(id)],
       posted <- slot,
       told <- [id \in AuctionIds |-> Outcome(id)]

\* submitBid implements the agent: whatever is retried, lost, repeated or forgotten, an
\* auction has one stake of this agent, only the bid it is staked behind is ever put into
\* the agent's slot, never over another, and a run says nothing before it is so.
ImplementsAgent == A!AgentSpec

\* A call's commitment is on chain, under this agent's address.
Locked(id, c) ==
  \E i \in DOMAIN committers[id] : committers[id][i] = Me /\ commitments[id][i] = c

\* A run, and the read of the terms before it, stem from an id marked seen.
RunsStemFromSeen == \A id \in AuctionIds : reads[id] + starts[id] > 0 => id \in seen

\* A call under way bids on an auction, and one past its commit is locked.
CallsAreLocked ==
  \A c \in Calls :
    /\ At(c, "fresh") \/ idOf(c) \in AuctionIds
    /\ calls[c].pc \in {"committed", "post", "done"} => Locked(idOf(c), c)

\* What a run remembers it read off a call that got that far.
RunsRememberTruly ==
  /\ \A id \in committed : Me \in hasCommitted[id]
  /\ \A id \in submitted : slot[id] \in Calls

\* A call that is about to post has told its run of the stake.
PostersKnow == \A c \in Calls : At(c, "post") => idOf(c) \in committed

\* The invariant that carries the proofs.
SupInv ==
  /\ IInv /\ SupTypeOK
  /\ NoLogIsSkipped /\ OneRunPerAuction /\ RunsStemFromSeen
  /\ CallsAreLocked /\ PostedOpensCommitment /\ RunsRememberTruly

\* supplier/src/tools.ts: the stake is pulled by commit, so the approval lands
\* first; and supplier/src/index.ts: one auction does not stop the agent bidding on
\* another.  A commit the contract would take is never short of allowance.
ApprovalStands ==
  \A c \in Calls : At(c, "commit") /\ CanCommit(idOf(c), Me) => CommitGoesThrough(c)
=============================================================================
