# Perdiem in TLA+

Perdiem is a sealed-bid hotel auction. A buyer's service locks a payout cap in an escrow contract
under the hash of a private policy, supplier agents stake behind bid commitments, and an enclave
scores the sealed bids, books the winner's hotel and reports one settlement back to the contract.
These modules model the parts of that system that decide where money goes, and the page that says
where it went, check them with TLC, and prove with TLAPS all but one of the safety properties the
runs check, two refinements and two liveness properties.

## The system

| Part | Code | State it keeps | Operations | Module |
| --- | --- | --- | --- | --- |
| Escrow contract | `onchain/contracts/SealedAuction.sol` | auction records, open list, commitments, committers, USDC | `createAuction`, `commit`, `onReport` (claim, settle), `timeoutRefund`, `pendingSettlement` | `SealedAuction`, `Escrow` |
| Scoring rule | `workflow-cre/src/scoring.ts` | none | `settle` | `Scoring` |
| Workflow, enclave, booking | `workflow-cre/src/{workflow,enclave,booking}.ts` | what one run has read | one handler run per cron tick | `Workflow` |
| Relay | `relay/src/app.ts` | two in-memory maps of ciphertexts | PUT once, GET, lost at a restart | `Relay` |
| Supplier agent | `supplier/src/{watcher,tools,bidder,index,chain,signer,circle}.ts` | next block, seen ids, a run per auction, one wallet | poll, read terms, `submitBid`, end of a run, a rate-limited command run again | `Supplier`, `Agent` |
| Purchaser | `purchaser/src/{app,funding,privy,policy-upload}.ts`, `purchaser/scripts/privy-policy.ts` | two wallets (nonce, allowance) | `POST /confirm` | `Purchaser` |
| Intent agent and its box | `purchaser/src/policy-agent.ts`, `ui/src/{request.tsx,purchaser.ts}` | rounds, the draft | `POST /intent`, confirm, start again | `Purchaser` |
| Page | `ui/src/{auction,use-auction,steps,booking}.ts`, `ui/src/{App,stepper}.tsx` | last view, folded or not, last click, booking record | poll, render, fold, click, read the booking | `Page` |
| Sealing, hashing | `shared/{envelope,sealed-bid,sealed-policy,bid,policy-hash}.ts` | none | seal, open, hash, sign | `Sealing` |
| Deployment, demo scripts | `onchain/scripts`, `scripts/` | none of their own | | not modelled |

How they interact. The purchaser PUTs the sealed policy at the relay and then opens the auction on
chain. Each supplier agent polls the chain's log, commits on chain and PUTs its sealed bid. The
workflow asks the contract for a due auction, claims it, reads the book from the chain, the policy
and the bids from the relay, scores, books with the winner's own credentials, and reports. The page
reads the chain, and the booking API once an auction has a winner, and writes nothing. The only
shared state is the chain, the relay, and the suppliers' booking APIs; nothing is locked across two
of them.

What is hard about it: workflow runs overlap (cron ticks, retries, several nodes), and a rejected
report reads as a success; the relay is blind, first write wins and forgets at a restart; bids and
confirms share a wallet whose allowance is overwritten by each approval; receipts and answers get
lost after the effect took place, and a command may be run again after its effect; deadlines are
compared in different places at different times; one poll of the page reads the chain at several
heads.
`PROJECT.json` lists these hazards one by one at their lines, with the property that covers each.

What makes each part correct, in a sentence: the contract returns what it took but for one backed
payout, and never gets stuck; the scoring rule is a function of the set of bids; a settlement is a
fair reading of the book, and nobody is paid without a booking; the relay never changes what it
holds; an agent's bid at the relay is the one it is staked behind; a confirm locks a cap that the
organization signed for and that hides the price; the page shows what happened and, in the end, the
outcome.

## Modules

- `Escrow` - the abstract promise: escrows open, are joined and close once, returning every deposit
  but for one payout from the payer to a party that joined. No deadlines, lists or reports.
- `SealedAuction` - the contract. One action is one mined transaction; a call that reverts is an
  action that is not enabled. Guards are operators of their own (`CanCreate`, `CanCommit`,
  `CanClaim`, `CanSettle`, `CanRefund`), so that composing modules can tell a mined call from a
  rejected one. The id of an auction is its record, which stands for the hash of that record:
  equal records collide, different ones do not. `paidOut` is an observation variable: what each
  account received from each auction. `now` is the timestamp of the next block; several
  transactions may share it.
- `Scoring` - `settle` filter by filter, and `WinnerByRule`, the rule stated over the set of bids. A
  list is a function on its places, and what a filter leaves of it is the set of the places it keeps.
- `Relay` - both maps; used through `INSTANCE` by the modules below.
- `Workflow` - contract, relay, scoring and any number of handler runs. A step of a run is one call
  to something shared (`Scan`, `ClaimMined`/`ClaimRejected`, `ReadCommitments`, `ReadCommitters`,
  `GetPolicy`, `GetBid` per committer, `Score`, `NoOffer`/`PostBooking`, `ReadBack`,
  `SettleMined`/`SettleRejected`; the record's policy hash, fixed with the id, is no step), and
  `Fail` is a call that throws. Around the runs: other transactions, late posts, strangers' bytes,
  relay restarts. What a run fetches is a term of `Sealing`, and `verified`, `opened` and `Score` open
  and check it as the enclave does. The booking API is external: one booking per reference and hotel.
- `Sealing` - both sealed formats, the three hashes of a bid and signatures, as terms: an envelope
  keeps the info its key was derived from, a hash is equal for equal arguments only. Anybody can seal
  anything under any info, so the checks after opening carry the weight: the auction a bid names, the
  hash of a policy, the signature, the commitment.
- `Supplier` - one agent over the contract. The watcher's two requests per poll are two steps
  (`ReadHead`, `ReadLogs`); `submitBid` is `Call`, `Approve`, `CommitMined`/`CommitReverts`,
  `Receipt`, `Post`, each of which may throw before or after its effect (`WriteThrows`,
  `PostThrows`). A write that throws, or is cut off by a restart, before it was mined may be mined
  later (`ApproveLate`, `CommitLate`), in any order with the writes after it. A restarted agent
  reads from the head block on, that block included. `RateLimited` is the Circle wallet running a command again whose transaction was
  sent already. A call is named by the commitment its fresh salt gives.
- `Agent` - the abstract promise of a supplier agent: one stake per auction behind one bid, only that
  bid put into its slot at the relay and only into an empty one, and nothing said before it is so. No
  polls, calls, allowances or retries. `Supplier` implements it with the commitments in the book under
  the agent's address, its slots, and the `Outcome` of its runs.
- `Purchaser` - the box on the page, `POST /intent` and `POST /confirm` over contract and relay.
  `Send`, `Rejected`, `Validated` and `BackToTheSentence` are the conversation that ends in a draft
  or an error; `Confirm` sends the draft, or an errored one again. `send` is `Prepare` (nonce and estimate),
  `Broadcast` or `PrivyRefuses`, `Mine`, `Receipt`; `FundingThrows` is everything that ends in a
  500. A wallet's pending transactions are a queue mined in nonce order.
- `Page` - the page over the contract. A poll is `ReadLogs` at one head, one `ReadView` per view at a
  head of its own, and `Show`, which replaces the view, decides the folding at first sight and asks
  for the booking when it is another one; or it ends early, as `NothingToRead` where there is no
  auction yet, as `LogsFail` or as `PollFails`, which leave an `error` above the view there was.
  `Remount`, `Click`, `Fold` and `BookingRead` are the rest of what moves the page; the operators
  between are what it draws from a view.
- `MC*` - the constants of the small instances, and `Solvent`, which needs a sum over a set.
- `SealedAuctionProofs`, `SupplierProofs`, `PurchaserProofs`, `PageProofs`, `WorkflowProofs`,
  `ScoringProofs` - the theorems about the module each is named after. `MCScoringProofs` and
  `MCSealedAuctionProofs` hold those about properties that are stated in the MC modules; neither uses
  the values a configuration gives.

Operators whose comment starts with "Mutation:" are plausible bugs of the definition below them.
They are used by nothing; replacing the definition by one shows that a property depends on it.

## Runs

| Run | Checks | Instance |
| --- | --- | --- |
| `escrow` | the contract alone: types and limits, exact open list, agreeing books, exact and backed payments, solvency across auctions, a scan that finds what is due, refunds that are never short, a root and an outcome that are final, refinement of `Escrow` | two buyers, two suppliers, one account both, up to four auctions over two timestamps, two open at once, any report |
| `scoring` | the pipeline computes the rule, ignores order, rewards a lower price, and a newcomer displaces the winner only for itself or through the trade-down rule | three suppliers, three prices, two ratings, 32 policies, every list of up to three bids |
| `workflow` | claimed before fetched, every report in time fits where the cap covers the policy, paid only if booked, bids that were at the relay at the claim are counted and nothing strange is | one auction, two suppliers (one may commit to a bid sealed again from an older auction, under the other's address strangers write), two policies under one hash, one cap that covers the price, two runs |
| `workflow_live` | a due auction is claimed or refunded | two auctions of two buyers, one run, blobs copied between the auctions, fairness below |
| `supplier` | no log skipped, one run per auction, the posted bid opens the commitment, every auction is handed on, refinement of `Agent` | two auctions, two logs (of two auctions, or one and its repeat), two tool calls, a stranger at the relay, restarts, fairness below |
| `purchaser` | policy before auction, quorum above the ceiling, a refusal costs nothing, the cap hides the price, an answer names its own auction | two confirms, three price bands, both wallets, three rounds |
| `page` | one poll in flight, rows that pair truly, no step drawn that was not reached, the booking's own hotel, no walking back, no folding under the reader, the outcome is shown in the end | two auctions that overlap or follow each other: on the first the buyer itself and another supplier bid, perhaps under one commitment, on the second nobody does; clicks on one step, fairness below |

Five runs state what the repository says of itself and what the code does not do; TLC finds each
violated, and `PROJECT.json` quotes the lines.

- `books_twice`: two runs of one auction read the relay on either side of a late bid, pick different
  winners and book two hotels. The reference protects one supplier's API, not the auction.
- `two_at_once`: two bids of one agent approve, approve, commit: the second commit reverts.
- `second_auction`: confirming one policy twice opens two auctions behind one hash.
- `page_torn`: a settlement mined between a poll's logs and its state is shown as "No bid qualified,
  everyone is refunded" although the contract paid a winner, until the next poll.
- `page_stale_click`: a click is kept with the step that was live and not with its auction. When the
  next auction comes to that step, the click counts again and selects a step not reached yet.

Two more disagreements are known and have no run of their own. A commit that is mined while its
receipt is lost leaves a run that reports "no bid" with its stake locked (`bidder.ts:102-103`). With
the ceiling at the maximum cap and no quorum keys, as shipped, a cap above the maximum is a 500 and
Privy is never asked, where `docs/spec.md:617-619` has 422.

### Bounds

The clock stops at `MaxTime`, auctions open until `MaxCreatedAt`, the agent's log holds `MaxLogs`
entries, runs, calls and confirms are finite sets, accounts start with `Funds`. Two of everything
that interferes is enough for the interleavings the properties are about: two auctions for the
swap-and-pop and the shared balance, two committers for order and ties, two runs for a stale claim
and two readings of the relay, two calls for one auction and a third for another, two logs for a repeat
or for one that lands between the two requests of a poll, two confirms for a nonce, an allowance and
a block. `MaxTime` passes both deadlines in every instance where a deadline
matters; the page's instances open `MaxAuctions` auctions, whose bidders (`Bidders`) and clicked
steps (`Clicks`) are fixed. `Careless` and `CopiedTo` keep re-sealed bids and strangers' copies to
one supplier each, so that the other one shows that they change nothing for it. Three bids make a
trade-down, a bid at the minimum stars and a tie fit in one list. Periods are one and two units: the
contract only compares them. Symmetry is used in safety runs alone, over runs of the workflow,
calls, buyers and confirms that differ in name only.

### Fairness

`workflow_live` takes weak fairness of a run's steps, because the host runs what the cron fired and
the cron fires every minute (`docs/spec.md`), and strong fairness of a mined claim: a claim that is
retried for ever gets mined. No fairness is assumed of suppliers, buyers or `timeoutRefund`, which
no service calls. `supplier` takes weak fairness of the head request of a poll and strong fairness
of the log request: a node that is asked for ever answers. `page` takes weak fairness of the poll,
which schedules its successor whatever happens to it (`use-auction.ts`), and `NoPollIsLost` from
some point on: polls neither fail nor are dropped by a remount, without which the page may show an
error above an old view for ever. A failed poll is a step of its own and does not count as the
poll's progress. A node that answered between failures would not be enough: a poll shows nothing
until every one of its reads came back. Runs whose behaviours end with the clock have the deadlock
check off; the system has no state in which it must go on.

## Proofs

The theorems hold for every value of the constants that satisfies the assumption named below, and are
listed in `PROJECT.json` with the property each one states.

| Module | Inductive invariant | Theorems | State |
| --- | --- | --- | --- |
| `SealedAuctionProofs` | `IInv` | `TypeCorrect`, `OpenListCorrect`, `BooksCorrect`, `PaymentCorrect`, `BackingCorrect`, `ScanCorrect`, `FinalityCorrect`, `RootCorrect`, `EscrowRefinement` | the contract |
| `MCSealedAuctionProofs` | `IInv /\ EscrowIsCounted` | `SolvencyCorrect`, `RefundCovered`, `SettlementCovered` | the contract |
| `ScoringProofs`, `MCScoringProofs` | `ListInv` | `SettleFollowsRule`, `CheaperWins`, `OneMoreBid`; `RuleCorrect`, `OrderCorrect`, `CheaperCorrect`, `NewcomerCorrect` | a list of bids of any length |
| `WorkflowProofs` | `WfInv` | `WorkflowOnChain`, `WfTypeCorrect`, `ClaimCorrect`, `FitCorrect`, `BookingCorrect`, `CountCorrect` | any number of runs |
| `SupplierProofs` | `SupInv`, with `PostersKnow` | `SupplierOnChain`, `SupplierTypeCorrect`, `WatcherCorrect`, `OneRunCorrect`, `PostedCorrect`, `ReportCorrect`, `AgentRefinement`, `HeardEventually` | any number of calls and logs |
| `PurchaserProofs` | `PurInv` | `PurchaserOnChain`, `PurchaserTypeCorrect`, `UploadCorrect`, `QuorumCorrect`, `RefusalCorrect`, `CapCorrect`, `AnswersCorrect` | any finite number of confirms |
| `PageProofs` | `PageInv` | `PageOnChain`, `PageTypeCorrect`, `RowsCorrect`, `ReachedCorrect`, `ForwardCorrect`, `FoldCorrect`, `HotelCorrect`, `OutcomeEventually` | any number of auctions |

### What is assumed

- `ContractAssumption`: amounts, limits and periods are natural numbers, `address(0)` is nobody's
  account and `bytes32(0)` no id, and the finalize period outlasts the bid period, as the constructor
  demands.
- `SupplierAssumption`: the agent is a supplier, its salts give commitments the contract takes, and
  the relay's empty slot and a stranger's bytes are neither.
- `PurchaserAssumption`: the two wallets differ, every policy has a cap derived from its price, the
  bucket is positive, and a maximum cap above the quorum ceiling comes with the quorum's keys
  (`funding.ts` refuses to start otherwise). Confirms are finitely many.
- `PageAssumption`: who bids on an auction is fixed beforehand, and clicks are on steps.
- `ChoicesAssumption` (in `MCScoring`) and `WorkflowAssumption`: policies and bids passed the schemas
  of `shared/policy.ts` and `shared/bid.ts` (`PolicyTerms`, `ScorableBid`), so no price is zero and no
  bonus negative; the policy an outsider seals differs from the buyer's; a settlement may carry any
  price that was quoted and any booking id. Each part is used: without a positive price a winner
  would be paid nothing and the contract would reject the report.

Nothing is assumed of caps and prices. A cap belongs to one auction and a maximum price to its
policy, with price bands of their own, so `SettlementAlwaysFits` speaks of the auctions whose own cap
covers their own policy (`CapCovers`). The purchaser opens only such auctions: `CapHidesPrice`
(`CapCorrect`) says of each confirm that the cap it locked is above its policy's price. Anybody may
open another one directly; its policy can pick a winner the cap does not pay, the contract then
rejects the settlement, and the auction is left for the refund. The other theorems about the workflow
hold of those auctions too.

TLC evaluates every assumption in the runs of its module.

### The contract

The argument is one inductive invariant, `IInv`, the conjunction of `TypeOK`, `OpenListIsExact`,
`BookAgrees`, `PaidExactly` and `PayoutIsBacked`. None of the parts is inductive alone: that a
closed auction is paid exactly needs that each committer stands once on the list of committers
(`BookAgrees`); that the swap-and-pop removes exactly one auction needs that the list has no
duplicates; that a creation does not overwrite a payment needs that an auction that does not exist
has paid nothing and is not on the list; and the amounts need the types. There is one lemma per
action (`CreateIInv`, `CommitIInv`, `ClaimIInv`, `CloseIInv`, `IdleIInv`); `CloseIInv` serves
settlement and refund, from `WithoutExact` (the list) and `PaymentsExact` (the transfers). The
action properties and the refinement follow from the invariant step by step: create, commit and
close map to `Open`, `Join` and `Pay` or `Return`, a claim and the clock to a stutter.

`Solvent` is about a sum over the set of open auctions, and a sum is recursive. The proof counts
instead: `Coins(owed)` has one element per unit owed to each auction, so a sum is a cardinality, and
adding to one auction adds an interval of coins (`CoinsGrow`). `EscrowIsCounted`, the contract holds as
many units as there are coins, is inductive on top of `IInv`: a creation and a commit add what they
pull, a terminal transition takes away exactly `Locked(id)` (`TotalIsLocked`). `SumIsCount` then says
that the sum of the community module is that cardinality: two functions that satisfy its equation agree
on every subset, as there is no smallest one on which they differ (`SumIsUnique`). The coins of one
auction are among all of them, so what it locked is there whatever others were paid (`EscrowIsHeld`):
a refund that is due is never short (`RefundCovered`), nor is a settlement that passes the checks
(`SettlementCovered`).

### The scoring rule

`Precedes` is a total order on the bids of different accounts, and the list is one bid per account.
That a list of eligible bids has a first one follows without induction: of the bids, some have the
least distance from the highest score; of those, some the lowest price; of those, one the lowest
address; of equal ones, one the lowest place (`LeastMeasure`, used four times in `FirstIsFirst`).
`SettleFollowsRule` joins that to the filters: the cheapest bid at the minimum stars, which the code
computes by a reduce, is the bid every trade-down is measured against. The properties of `MCScoring`
follow, with its `ListInv` (the list holds schema-valid bids of different accounts).

### The compositions

In each composition one lemma maps every step to a step of the contract or a stutter, so
`WfSpec`, `SupSpec`, `PurSpec` and `PageSpec` each imply the contract's `Spec` (`WorkflowOnChain`,
`SupplierOnChain`, `PurchaserOnChain`, `PageOnChain`): every theorem about the contract holds of its
callers too, and their invariants start from `IInv`.

- `WfInv`. `HoldsTrue(run)` says that what a run has read is still so: the book it read is the
  contract's, because a claimed auction's book is closed; the policy it holds is a sealed one; its
  bids include everything that was on time among the committers it asked for, because a slot never
  changes and a bid that was there at the claim and is lost by a restart leaves `onTime`; its winner and
  payout are the rule's over a set between the bids on time and the bids placed (`CountsOnTime`);
  its booking is recorded. `OnTimeIsHeld` ties the observation to the relay. The steps of other
  runs keep all of it (`OthersKeep`), the contract's steps by `NextKeepsClosedBook` and its kin.
  `VerifiedIsBacked` and `BackedVerifies` carry the enclave's checks: what passes them is a bid its
  supplier committed to on that auction, and a bid posted in time passes them.
- `SupInv`. A run stems from an id marked seen (`RunsStemFromSeen`), so a repeated log cannot start
  a second; a call past its commit has its commitment on chain under the agent's address
  (`CallsAreLocked`), and an address commits once, so no other call of that auction can get there
  and post; what a run remembers was so when it was set and chain and slot keep it so
  (`RunsRememberTruly`). `AgentRefinement` adds that a call at its post has told its run of the stake
  (`PostersKnow`), and maps the steps: a mined commit is `Stake`, because it is the first entry of the
  agent in that book (`CommitStakes`); its receipt is `Know`; a post into an empty slot is `Place`,
  whether its answer comes back or not; a stranger's post is `Squat`, a restart `Forget`; and
  everything else, a poll, an approval, a revert, a retried command, is a stutter.
- `PurInv`. `ConfirmStands` ties a confirm's stage to what it has uploaded, broadcast and been told;
  `PendingStands` says that a wallet's queue holds at most one transaction of a confirm, the last it
  sent; and the number of transactions broadcast bounds the nonce. `AuctionsAreTheirOwn` holds
  because a creation answers the one confirm whose transaction was mined, with an id that did not
  exist before. `CapHidesPrice` needs only `CapsAreDerived` and arithmetic (`CapArithmetic`).
- `PageInv`. Whatever a poll has read was so at its head and has only been passed since
  (`PollWasSo`: states move on, books grow, logs stay), is no older than what the page shows
  (`NoOlder`), and what is shown was so once (`ViewWasSo`). One poll is in flight, which is why a
  slow one never overwrites a later one. `HotelCorrect` adds the chain's side: a view that names a
  payout read it off a log, so the auction on the page has paid a supplier that bid on it.

### Liveness

Two liveness properties are theorems. The prover treats `ENABLED` as a word it does not know, so each
theorem has one hypothesis besides the fair specification: `[]PollsCanStep`, which says of a single
state what `ENABLED` would mean there. In `Supplier`: the head request is enabled between polls as
soon as a block lies beyond the last one read, and the log request whenever a head is held. In `Page`:
a poll can start, go on or end once there is an auction. Both hold in every state of the instances of
`MCSupplier.cfg` and `MCPage.cfg` (add `PollsCanStep` to the invariants to see it), and both are read
off the actions, whose guards say as much; what they mean for the reader is that the theorems rest on
fairness and invariants and not on a bound. The runs check the same properties without the hypothesis.

- `HeardEventually`. An unheard auction is *caught* when no poll is under way or the head that is held
  covers its log (`Caught`). A head read too early does not cover it, but such a poll ends, by its logs
  or by failing, and then the auction is caught; it stays so whatever fails and lands after that
  (`CaughtStays`), and the next log request that succeeds hands it on (`CaughtIsHeard`), because a log
  not behind `nextLog` is within the range that is asked for.
- `OutcomeEventually`. Once the newest auction is over its outcome is fixed (`OverStays`). The poll in
  flight may have begun before that; polls that are not lost narrow what is left to read
  (`PollNarrows`, at most three reads), end, and the next one starts from the final logs
  (`NextReadsTheEnd`): everything it reads is the end of the story (`ReadTheEnd`), so what it shows
  is the outcome (`ShowShowsTheEnd`), and every later poll shows it again. That the refund and the stakes on
  the cards are the ones paid (`RefundShownExact`, `CapBackExact`) is the contract's `PaidExactly`. A
  buyer may bid on its own auction and win: what it was paid then holds its stake and its winnings
  besides what came back of the cap, and `CapBack` takes them out.

### What stays with TLC

- `DueIsClaimed`: a claim wins its race at some point because the list, the bids to fetch and the
  auctions are finitely many; the proof would need an induction over the fetches of a run and over the
  claims of others inside a temporal formula. The run is bounded in time, and so is what it says: the
  open list is not a queue (the last entry fills a gap), so that with new auctions due for ever one in
  the middle could be passed over for as long, and only the end of a bounded supply is checked.
- `RefundNeverBlocked` is stated with `ENABLED`; `RefundCovered` and `SettlementCovered` prove the
  checks and the funds it depends on.
- The hypotheses `PollsCanStep`, as said above.
- The five violations: they are counterexamples.

The parts of `IInv` that are properties are checked by `escrow`, and those of `SupInv`, `PurInv`,
`PageInv` and `WfInv` by the runs of their modules; the strengthenings were checked on the same
instances before they were proved. `EscrowIsCounted` is over all numbers and is proved only;
`Solvent` is what TLC sees of it. `SubmittedCanBeScored` (`ReportCorrect`) has no run of its own: the
run checks the refinement of `Agent`, which says more of the same reports.

## Not modelled

Ciphers, encodings and hash functions (`Sealing` takes them to keep their promise); ABI layout; gas;
a token that refuses a receiver; transaction replacement and reorganisations beyond a repeated log;
clock skew between an agent and the chain; widths of integers (the amounts are far below 2^53); what
language models write. Of the page: balances and the desk's wallet, the relay's list of sealed bids,
links, countdowns and wording, the panel behind "More", and the block window of the search, which
drops an auction from view 43 minutes after it opened. Of the wallet command: the number of its
attempts. Deployment and the demo scripts: one operator at a terminal, before anything runs.

## Plan

1. An abstract specification of the workflow (pick a set between the bids on time and the bids placed,
   score it, pay at most once) that `Workflow` implements, with the refinement proved from `WfInv`.
2. Action properties of the compositions that follow from the invariants and no run states yet: a slot
   of the relay is written once between restarts, a run's winner never changes once chosen.
3. A token with refused receivers in `SealedAuction`, to state what pushed refunds cost.
4. `PollsCanStep` as a theorem, with a prover that expands `ENABLED`.
