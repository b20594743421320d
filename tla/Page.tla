------------------------------- MODULE Page -------------------------------
(***************************************************************************)
(* The buyer's page (ui/src): a poll that reads the newest auction in      *)
(* several requests while it changes, the five steps rendered from what    *)
(* the poll read, and the little the page keeps of its own: whether the    *)
(* auction is unfolded, the step that was clicked, and the booking record. *)
(*                                                                         *)
(* The chain is the contract.  A log is mined with the call that emits it, *)
(* so the logs of an auction are read off the contract's state; `opened`   *)
(* and `claimed` keep what that state forgets.  The logs of one poll are   *)
(* all read at one head, and every view after them at a head of its own.   *)
(*                                                                         *)
(* Balances, ciphertext sizes, transaction links, countdowns and wording   *)
(* are left out, and so is the block window of the search, which drops an  *)
(* auction 43 minutes after it opened.  The booking of an auction is named *)
(* by the auction: the workflow books each under a reference of its own.   *)
(***************************************************************************)
EXTENDS SealedAuction

CONSTANTS
  Clicks,         \* the steps the reader of this page clicks on
  MaxAuctions,    \* bound: auctions opened
  Bidders         \* bound: Bidders[n], the suppliers that bid on the n-th auction

PATH == <<"created", "bidding", "settling", "finalized">>
StepKeys == {"created", "bidding", "settling", "finalized", "timeout"}

ASSUME PageAssumption ==
  /\ Clicks \subseteq StepKeys
  /\ MaxAuctions \in Nat
  /\ Bidders \in [1..MaxAuctions -> SUBSET Suppliers]

VARIABLES
  opened,         \* auctions in the order of their AuctionCreated logs
  claimed,        \* auctions with an AuctionClaimed log
  reading,        \* the polls in flight, at most one
  view,           \* what useAuction holds
  error,          \* whether the last poll failed, which useAuction says above the view
  following,      \* the auction last seen, and whether it is unfolded
  click,          \* the last click: the step that was live, and the step clicked
  fetching,       \* the booking being read, NoAuction for none
  hotel           \* the booking record last read

chain == <<vars, opened, claimed>>
shell == <<error, following, click, fetching, hotel>>
pageVars == <<chain, reading, view, shell>>

Reads == {"state", "commitments", "committers"}

NoView ==
  [auctionId |-> NoAuction, state |-> "None", bids |-> <<>>, claimed |-> FALSE,
   settlement |-> {}]

PageInit ==
  /\ Init
  /\ opened = <<>>
  /\ claimed = {}
  /\ reading = {}
  /\ view = NoView
  /\ error = FALSE
  /\ following = [auctionId |-> NoAuction, expanded |-> TRUE]
  /\ click = [at |-> "nothing", key |-> "nothing"]
  /\ fetching = NoAuction
  /\ hotel = [bookingId |-> NoAuction, found |-> FALSE]

-----------------------------------------------------------------------------
(***************************************************************************)
(* readAuction.                                                            *)
(***************************************************************************)
newest == opened[Len(opened)]

isTerminal(v) == v.state \in Terminal

\* The AuctionFinalized log of an auction, when there is one.
FinalizedLog(id) ==
  IF state(id) = "Finalized"
  THEN {[winner |-> auctions[id].winner, payout |-> auctions[id].payout]}
  ELSE {}

\* Mutation: the polls run on an interval, finished or not.
ReadLogsOnInterval ==
  /\ Cardinality(reading) < 2
  /\ opened # <<>>
  /\ reading' = reading \cup
       {[auctionId |-> newest, claimed |-> newest \in claimed,
         settlement |-> FinalizedLog(newest),
         left |-> Reads, state |-> "None", commitments |-> <<>>, committers |-> <<>>]}
  /\ UNCHANGED <<chain, view, shell>>

\* Mutation: a page that shows a finished auction stops polling.
ReadLogsWhileLive ==
  /\ reading = {}
  /\ opened # <<>>
  /\ ~isTerminal(view)
  /\ reading' =
       {[auctionId |-> newest, claimed |-> newest \in claimed,
         settlement |-> FinalizedLog(newest),
         left |-> Reads, state |-> "None", commitments |-> <<>>, committers |-> <<>>]}
  /\ UNCHANGED <<chain, view, shell>>

\* The logs up to the head, which name the newest auction.  The next poll is
\* scheduled once this one has finished.
ReadLogs ==
  /\ reading = {}
  /\ opened # <<>>
  /\ reading' =
       {[auctionId |-> newest, claimed |-> newest \in claimed,
         settlement |-> FinalizedLog(newest),
         left |-> Reads, state |-> "None", commitments |-> <<>>, committers |-> <<>>]}
  /\ UNCHANGED <<chain, view, shell>>

\* Before an auction exists the poll ends with its logs, which clears the error.
NothingToRead ==
  /\ opened = <<>>
  /\ error' = FALSE
  /\ UNCHANGED <<chain, reading, view, following, click, fetching, hotel>>

Becomes(r, next) == reading' = (reading \ {r}) \cup {next}

\* The contract's views, asked for together and answered in any order.
ReadView(r) ==
  /\ \/ /\ "state" \in r.left
        /\ Becomes(r, [r EXCEPT !.state = state(r.auctionId), !.left = @ \ {"state"}])
     \/ /\ "commitments" \in r.left
        /\ Becomes(r, [r EXCEPT !.commitments = commitments[r.auctionId],
                                !.left = @ \ {"commitments"}])
     \/ /\ "committers" \in r.left
        /\ Becomes(r, [r EXCEPT !.committers = committers[r.auctionId],
                                !.left = @ \ {"committers"}])
  /\ UNCHANGED <<chain, view, shell>>

\* Any request that fails fails the poll, from the logs to the last view: the page
\* shows the error above the view it had.
LogsFail ==
  /\ reading = {}
  /\ error' = TRUE
  /\ UNCHANGED <<chain, reading, view, following, click, fetching, hotel>>

PollFails(r) ==
  /\ reading' = reading \ {r}
  /\ error' = TRUE
  /\ UNCHANGED <<chain, view, following, click, fetching, hotel>>

\* Mutation: a row's supplier is looked up by the commitment.
rowsByCommitment(r) ==
  [i \in DOMAIN r.commitments |->
     LET same == {j \in DOMAIN r.committers :
                    j \in DOMAIN r.commitments /\ r.commitments[j] = r.commitments[i]}
         supplier == IF same = {} THEN NoAddress
                     ELSE r.committers[CHOOSE j \in same : \A k \in same : j <= k]
     IN [commitment |-> r.commitments[i], supplier |-> supplier]]

\* One row a commitment, its supplier by index, NoAddress for one not read yet.
rows(r) ==
  [i \in DOMAIN r.commitments |->
     LET supplier == IF i \in DOMAIN r.committers THEN r.committers[i] ELSE NoAddress
     IN [commitment |-> r.commitments[i], supplier |-> supplier]]

ViewOf(r) ==
  [auctionId |-> r.auctionId, state |-> r.state, bids |-> rows(r),
   claimed |-> r.claimed, settlement |-> r.settlement]

-----------------------------------------------------------------------------
(***************************************************************************)
(* What is rendered from a view.                                           *)
(***************************************************************************)
liveStep(v) ==
  CASE v.state = "Timeout" -> "timeout"
    [] v.state = "Finalized" -> "finalized"
    [] v.state = "Settling" -> "settling"
    [] v.state = "Bidding" -> "bidding"
    [] OTHER -> "created"

PlaceOf(key) == CHOOSE i \in DOMAIN PATH : PATH[i] = key

\* Mutation: a refund is drawn behind the whole path.
reachedWholePath(v, key) == TRUE

\* The evidence that an auction got this far before it was refunded.
reachedBeforeTimeout(v, key) ==
  CASE key = "created" -> TRUE
    [] key = "bidding" -> v.bids # <<>>
    [] key = "settling" -> v.claimed
    [] OTHER -> FALSE

\* statusOf: reached is neither pending nor skipped.
Reached(v, key) ==
  IF v.state = "Timeout" THEN key = "timeout" \/ reachedBeforeTimeout(v, key)
  ELSE key # "timeout" /\ PlaceOf(key) <= PlaceOf(liveStep(v))

\* The finalized card and the folded line: paid only with the log that says so.
paysWinner(v) == \E s \in v.settlement : s.payout > 0

SaysNobodyWon(v) == v.state = "Finalized" /\ ~paysWinner(v)

\* What the cards of a finished auction say came back: to the travel desk, and how many
\* stakes.
refundShown(v) ==
  v.auctionId.payoutCap
    - (IF paysWinner(v) THEN (CHOOSE s \in v.settlement : TRUE).payout ELSE 0)
stakesShown(v) == Len(v.bids)

\* The booking a view names, if it names one.
bookingId(v) == IF paysWinner(v) THEN v.auctionId ELSE NoAuction

live == liveStep(view)
selected == IF click.at = live THEN click.key ELSE live

\* Mutation: whatever was read last is shown.
hotelReadLast == IF hotel.found THEN hotel.bookingId ELSE NoAuction

\* useBooking: the record read, if it is this booking's.
hotelShown ==
  IF hotel.found /\ hotel.bookingId = bookingId(view) THEN hotel.bookingId ELSE NoAuction

\* Mutation: the decision is taken again at every poll.
followAgain(v) == [auctionId |-> v.auctionId, expanded |-> ~isTerminal(v)]

follow(v) ==
  IF following.auctionId = v.auctionId THEN following
  ELSE [auctionId |-> v.auctionId, expanded |-> ~isTerminal(v)]

\* The last read is in: the page shows the view, folds or unfolds an auction it sees
\* for the first time, and reads the booking when it is another one.
Show(r) ==
  /\ r.left = {}
  /\ reading' = reading \ {r}
  /\ view' = ViewOf(r)
  /\ error' = FALSE
  /\ following' = follow(ViewOf(r))
  /\ fetching' = IF bookingId(ViewOf(r)) = bookingId(view) THEN fetching
                 ELSE bookingId(ViewOf(r))
  /\ UNCHANGED <<chain, click, hotel>>

\* The booking API answers, or does not: either is kept, and read no more.
BookingRead(found) ==
  /\ fetching # NoAuction
  /\ hotel' = [bookingId |-> fetching, found |-> found]
  /\ fetching' = NoAuction
  /\ UNCHANGED <<chain, reading, view, error, following, click>>

\* React mounts the page twice (main.tsx, StrictMode): the first poll is stopped, and
\* what it still reads is dropped.
Remount ==
  /\ view = NoView
  /\ reading # {}
  /\ reading' = {}
  /\ UNCHANGED <<chain, view, shell>>

\* A step that was reached is a button; so are View and Hide.
Click(key) ==
  /\ view # NoView
  /\ following.expanded
  /\ Reached(view, key)
  /\ click' = [at |-> live, key |-> key]
  /\ UNCHANGED <<chain, reading, view, error, following, fetching, hotel>>

Fold ==
  /\ view # NoView
  /\ following.expanded => isTerminal(view)
  /\ following' = [following EXCEPT !.expanded = ~@]
  /\ UNCHANGED <<chain, reading, view, error, click, fetching, hotel>>

-----------------------------------------------------------------------------
OpenAuction ==
  /\ Len(opened) < MaxAuctions
  /\ \E id \in AuctionIds : createAuction(id) /\ opened' = Append(opened, id)
  /\ UNCHANGED <<claimed, reading, view, shell>>

ClaimAuction ==
  /\ \E id \in AuctionIds : _startSettling(id) /\ claimed' = claimed \cup {id}
  /\ UNCHANGED <<opened, reading, view, shell>>

OnChain ==
  /\ \/ \E n \in DOMAIN opened :
          \E supplier \in Bidders[n], commitment \in Commitments :
            commit(opened[n], supplier, commitment)
     \/ Settle \/ Refund \/ Tick
  /\ UNCHANGED <<opened, claimed, reading, view, shell>>

Poll == ReadLogs \/ NothingToRead \/ \E r \in reading : ReadView(r) \/ Show(r)

PageNext ==
  \/ Poll
  \/ LogsFail \/ \E r \in reading : PollFails(r)
  \/ \E found \in BOOLEAN : BookingRead(found)
  \/ \E key \in Clicks : Click(key)
  \/ Remount \/ Fold
  \/ OpenAuction \/ ClaimAuction \/ OnChain

PageSpec == PageInit /\ [][PageNext]_pageVars

NoPollIsLost == ~Remount /\ ~LogsFail /\ \A r \in reading : ~PollFails(r)

\* Every poll schedules the next one, the page is mounted for good in the end, and the
\* node answers in the end: polls stop failing at some point.
FairPageSpec == PageSpec /\ WF_pageVars(Poll) /\ <>[][NoPollIsLost]_pageVars

-----------------------------------------------------------------------------
(***************************************************************************)
(* Properties.                                                             *)
(***************************************************************************)
Row == [commitment: Commitments, supplier: Suppliers \cup {NoAddress}]

Outcomes == SUBSET [winner: Suppliers \cup {NoAddress}, payout: Payouts]

PollRecord ==
  [auctionId: AuctionIds, claimed: BOOLEAN, settlement: Outcomes, left: SUBSET Reads,
   state: States, commitments: Seq(Commitments), committers: Seq(Suppliers)]

ViewRecord ==
  [auctionId: AuctionIds \cup {NoAuction}, state: States, bids: Seq(Row),
   claimed: BOOLEAN, settlement: Outcomes]

\* Every variable keeps its type, and one poll at most is in flight.
PageTypeOK ==
  /\ TypeOK
  /\ opened \in Seq(AuctionIds)
  /\ Len(opened) <= MaxAuctions
  /\ claimed \subseteq AuctionIds
  /\ reading \subseteq PollRecord
  /\ Cardinality(reading) <= 1
  /\ view \in ViewRecord
  /\ error \in BOOLEAN
  /\ following \in [auctionId: AuctionIds \cup {NoAuction}, expanded: BOOLEAN]
  /\ click \in [at: StepKeys \cup {"nothing"}, key: StepKeys \cup {"nothing"}]
  /\ fetching \in AuctionIds \cup {NoAuction}
  /\ hotel \in [bookingId: AuctionIds \cup {NoAuction}, found: BOOLEAN]

\* The place of an auction among those opened, 0 before the page shows one.
Age(id) == IF id = NoAuction THEN 0 ELSE CHOOSE i \in DOMAIN opened : opened[i] = id

Progress(s) ==
  CASE s = "None" -> 0 [] s = "Created" -> 1 [] s = "Bidding" -> 2 [] s = "Settling" -> 3
    [] OTHER -> 4

\* The panels never walk backwards (use-auction.ts): not from an auction to an older
\* one, nor along one auction, whatever the polls read and however long they take.
NeverWalksBack ==
  [][ \/ Age(view'.auctionId) > Age(view.auctionId)
      \/ /\ view'.auctionId = view.auctionId
         /\ \/ view'.state = view.state
            \/ Progress(view'.state) > Progress(view.state)
         /\ Len(view'.bids) >= Len(view.bids)
         /\ view.claimed => view'.claimed
         /\ view.settlement \subseteq view'.settlement ]_pageVars

RowsOfThisBook(v) ==
  \A i \in DOMAIN v.bids :
    LET row == v.bids[i]
    IN /\ row.commitment = commitments[v.auctionId][i]
       /\ row.supplier # NoAddress => row.supplier = committers[v.auctionId][i]

\* A row names the supplier that placed its commitment, although two suppliers may
\* place one commitment and the two lists are read at different heads.
RowsPairTruly == RowsOfThisBook(view)

Happened(id, key) ==
  CASE key = "created" -> state(id) # "None"
    [] key = "bidding" -> committers[id] # <<>>
    [] key = "settling" -> id \in claimed
    [] key = "finalized" -> state(id) = "Finalized"
    [] key = "timeout" -> state(id) = "Timeout"

\* A step is drawn as reached only if the auction got there (steps.ts: marking them
\* done would claim a scoring run that never happened), although the view mixes
\* reads at different heads.
ReachedReallyHappened ==
  view # NoView =>
    \A key \in StepKeys : Reached(view, key) => Happened(view.auctionId, key)

\* A poll never folds an auction away in front of its reader (steps.ts): what it folds
\* is an auction first seen when it was over, so one that runs is in full view and one
\* that finishes under the reader's eyes stays there.
PollNeverFolds ==
  [][ view' # view /\ ~following'.expanded =>
        /\ isTerminal(view')
        /\ view'.auctionId = view.auctionId => ~following.expanded ]_pageVars

\* The hotel on the page is the one booked for the auction on the page, and that auction
\* has paid the hotel's supplier, while auctions follow one another and booking records
\* arrive late.
HotelIsOfThisBooking ==
  hotelShown # NoAuction =>
    /\ hotelShown = view.auctionId
    /\ auctions[view.auctionId].winner \in hasCommitted[view.auctionId]

\* What came back to the buyer of the cap it locked: all it was paid but its own stake
\* and, if it bid on its own auction and won, its payout.
CapBack(id) ==
  paidOut[id][id.buyer] - StakesBack(id, NoAddress, id.buyer)
    - (IF id.buyer = auctions[id].winner THEN auctions[id].payout ELSE 0)

IsNewest(id) == opened # <<>> /\ newest = id

\* The page shows the state and the settlement the chain has, and the refund and the
\* stakes it paid back, under no error.
OutcomeOnPage(id) ==
  /\ ~error
  /\ view.auctionId = id
  /\ view.state = state(id)
  /\ view.settlement = FinalizedLog(id)
  /\ refundShown(view) = CapBack(id)
  /\ stakesShown(view) = Len(committers[id])

\* The page ends up at the outcome: once the newest auction is over, the page comes to
\* show its outcome, whatever polls failed before and were half done when it ended,
\* unless a newer one opens.
OutcomeIsShown ==
  \A id \in AuctionIds :
    (IsNewest(id) /\ state(id) \in Terminal) ~> (~IsNewest(id) \/ OutcomeOnPage(id))

\* What WF of FairPageSpec says through ENABLED: once there is an auction a poll can
\* start, go on or end.
PollsCanStep == opened # <<>> => ENABLED <<Poll>>_pageVars

-----------------------------------------------------------------------------
\* The logs agree with the contract: each auction has one AuctionCreated log, and
\* one that got past its claim has an AuctionClaimed log and a bid.
LogsAgree ==
  /\ \A i, j \in DOMAIN opened : opened[i] = opened[j] => i = j
  /\ \A i \in DOMAIN opened : state(opened[i]) # "None"
  /\ \A id \in AuctionIds :
       /\ state(id) \in {"Settling", "Finalized"} => id \in claimed
       /\ id \in claimed => committers[id] # <<>>
       /\ state(id) = "Finalized" => auctions[id].payout \in Payouts

\* One state follows another, at once or later.
Passed(s, t) == s = t \/ Progress(s) < Progress(t)

\* An auction was in state s once.
WasIn(id, s) ==
  /\ s # "None" /\ Passed(s, state(id))
  /\ s \in {"Bidding", "Settling", "Finalized"} => committers[id] # <<>>
  /\ s \in {"Settling", "Finalized"} => id \in claimed

\* What the logs of a poll, or a view, say of an auction is still so.
LogsStand(v) ==
  /\ \E i \in DOMAIN opened : opened[i] = v.auctionId
  /\ v.claimed => v.auctionId \in claimed
  /\ v.settlement \subseteq FinalizedLog(v.auctionId)

\* Everything a poll has read was so when it read it.
PollWasSo(r) ==
  /\ LogsStand(r)
  /\ IF "state" \in r.left THEN r.state = "None" ELSE WasIn(r.auctionId, r.state)
  /\ Begins(r.commitments, commitments[r.auctionId])
  /\ Begins(r.committers, committers[r.auctionId])

\* Everything a view shows was so once.
ViewWasSo(v) ==
  v # NoView =>
    /\ LogsStand(v)
    /\ WasIn(v.auctionId, v.state)
    /\ DOMAIN v.bids \subseteq DOMAIN commitments[v.auctionId]
    /\ RowsOfThisBook(v)

\* What a poll reads is no older than what the page shows.
NoOlder(v, r) ==
  \/ Age(v.auctionId) < Age(r.auctionId)
  \/ /\ v.auctionId = r.auctionId
     /\ v.claimed => r.claimed
     /\ v.settlement \subseteq r.settlement
     /\ "state" \notin r.left => Passed(v.state, r.state)
     /\ "commitments" \notin r.left => Len(v.bids) <= Len(r.commitments)

\* The invariant that carries the proofs.
PageInv ==
  /\ IInv /\ PageTypeOK /\ LogsAgree
  /\ \A r, s \in reading : r = s
  /\ \A r \in reading : PollWasSo(r) /\ NoOlder(view, r)
  /\ ViewWasSo(view)
  /\ following.auctionId = view.auctionId
  /\ ~following.expanded => isTerminal(view)

-----------------------------------------------------------------------------
\* steps.ts: an auction that is said to have paid nobody has paid nobody.
NobodyWonIsTrue ==
  SaysNobodyWon(view) => auctions[view.auctionId].winner = NoAddress

\* stepper.tsx: an unreached step is disabled, because there is nothing to read; only
\* a reached one is ever selected.
SelectedIsReached ==
  view # NoView /\ following.expanded => Reached(view, selected)
=============================================================================
