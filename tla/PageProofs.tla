---------------------------- MODULE PageProofs ----------------------------
(***************************************************************************)
(* Proofs about Page, for every number of auctions, suppliers and polls:   *)
(* although one poll mixes reads at several heads, what the page shows was *)
(* so once, and it never shows less than it did.                           *)
(***************************************************************************)
EXTENDS Page, SealedAuctionProofs

-----------------------------------------------------------------------------
(***************************************************************************)
(* The chain under the page.                                               *)
(***************************************************************************)

\* Whatever the page and its reader do, the contract sees one of its transactions
\* or nothing, and the logs only grow.
LEMMA PageNextOnChain ==
  ASSUME PageInv, [PageNext]_pageVars
  PROVE  /\ [Next]_vars
         /\ Begins(opened, opened') /\ claimed \subseteq claimed'
<1>1. opened \in Seq(AuctionIds)
  BY DEF PageInv, PageTypeOK
<1>2. Begins(opened, opened)
  BY DEF Begins
<1>3. CASE UNCHANGED chain
  BY <1>2, <1>3 DEF chain
<1>4. CASE OpenAuction
  <2>1. PICK id \in AuctionIds : createAuction(id) /\ opened' = Append(opened, id)
    BY <1>4 DEF OpenAuction
  <2>2. Begins(opened, opened')
    BY <1>1, <2>1 DEF Begins
  <2> QED
    BY <1>4, <2>1, <2>2 DEF OpenAuction, Next, Create
<1>5. CASE ClaimAuction
  BY <1>2, <1>5 DEF ClaimAuction, Next, Claim
<1>6. CASE OnChain
  <2>1. ASSUME NEW n \in DOMAIN opened, NEW supplier \in Bidders[n], NEW commitment \in Commitments,
               commit(opened[n], supplier, commitment)
        PROVE  Commit
    <3>1. Len(opened) \in Nat /\ Len(opened) <= MaxAuctions /\ DOMAIN opened = 1..Len(opened)
      BY DEF PageInv, PageTypeOK
    <3>2. n \in 1..MaxAuctions
      BY <3>1, PageAssumption
    <3>3. opened[n] \in AuctionIds /\ supplier \in Suppliers
      BY <1>1, <3>2, PageAssumption
    <3> QED
      BY <2>1, <3>3 DEF Commit
  <2> QED
    BY <1>2, <1>6, <2>1 DEF OnChain, Next
<1>7. CASE Poll \/ LogsFail \/ (\E r \in reading : PollFails(r)) \/ Remount \/ Fold
           \/ (\E found \in BOOLEAN : BookingRead(found))
           \/ (\E key \in Clicks : Click(key)) \/ UNCHANGED pageVars
  BY <1>3, <1>7 DEF Poll, ReadLogs, NothingToRead, ReadView, Show, LogsFail, PollFails, Remount, Fold,
                    BookingRead, Click, pageVars
<1> QED
  BY <1>4, <1>5, <1>6, <1>7 DEF PageNext

\* A log is mined with the call that emits it, so the logs keep agreeing with the
\* contract.
LEMMA NextLogsAgree ==
  ASSUME PageInv, [PageNext]_pageVars
  PROVE  LogsAgree'
<1>1. /\ IInv /\ [Next]_vars /\ claimed \subseteq claimed'
      /\ opened \in Seq(AuctionIds) /\ LogsAgree
  BY PageNextOnChain DEF PageInv, PageTypeOK
<1>2. ASSUME NEW id \in AuctionIds
      PROVE  state(id) # "None" => state(id)' # "None"
  BY <1>1, NextMovesState DEF Live
<1>3. \A i \in DOMAIN opened : opened[i] \in AuctionIds
  BY <1>1
<1>4. /\ \A i, j \in DOMAIN opened' : opened'[i] = opened'[j] => i = j
      /\ \A i \in DOMAIN opened' : state(opened[i])' # "None"
  <2>1. CASE UNCHANGED opened
    BY <1>1, <1>2, <1>3, <2>1 DEF LogsAgree
  <2>2. CASE OpenAuction
    <3>1. PICK id \in AuctionIds : createAuction(id) /\ opened' = Append(opened, id)
      BY <2>2 DEF OpenAuction
    <3>2. state(id) = "None" /\ state(id)' = "Created"
      BY <1>1, <3>1 DEF createAuction, CanCreate, state, IInv, TypeOK, AuctionRecord
    <3>3. /\ Len(opened) \in Nat /\ DOMAIN opened = 1..Len(opened)
          /\ DOMAIN opened' = 1..(Len(opened) + 1)
          /\ opened'[Len(opened) + 1] = id
          /\ \A i \in 1..Len(opened) : opened'[i] = opened[i]
      BY <1>1, <3>1
    <3>4. \A i \in 1..Len(opened) : opened[i] # id
      BY <1>1, <3>2, <3>3 DEF LogsAgree
    <3>5. \A i, j \in DOMAIN opened' : opened'[i] = opened'[j] => i = j
      BY <1>1, <3>3, <3>4 DEF LogsAgree
    <3>6. \A i \in DOMAIN opened' : state(opened[i])' # "None"
      <4> SUFFICES ASSUME NEW i \in 1..(Len(opened) + 1), NEW x, opened'[i] = x
                   PROVE  state(x)' # "None"
        BY <3>3
      <4>1. CASE i = Len(opened) + 1
        BY <3>2, <3>3, <4>1
      <4>2. CASE i # Len(opened) + 1
        <5>1. i \in 1..Len(opened) /\ opened[i] = x
          BY <3>3, <4>2
        <5>2. x \in AuctionIds /\ state(x) # "None"
          BY <1>1, <1>3, <3>3, <5>1 DEF LogsAgree
        <5> QED
          BY <1>2, <5>2
      <4> QED
        BY <4>1, <4>2
    <3> QED
      BY <3>5, <3>6
  <2> QED
    BY <2>1, <2>2 DEF PageNext, Poll, ReadLogs, NothingToRead, ReadView, Show, LogsFail, PollFails,
                      Remount, Fold, BookingRead, Click, ClaimAuction, OnChain, chain, pageVars
<1>5. ASSUME NEW id \in AuctionIds
      PROVE  id \in claimed' => committers'[id] # <<>>
  <2>1. CASE id \in claimed
    <3>1. committers[id] # <<>> /\ committers[id] \in Seq(Suppliers)
      BY <1>1, <2>1 DEF LogsAgree, IInv, TypeOK
    <3>2. 1 \in DOMAIN committers[id]
      BY <3>1
    <3>3. 1 \in DOMAIN committers'[id]
      BY <1>1, <3>2, NextExtendsBooks DEF Begins
    <3> QED
      BY <3>3
  <2>2. CASE id \notin claimed /\ id \in claimed'
    <3>1. _startSettling(id)
      BY <2>2 DEF PageNext, Poll, ReadLogs, NothingToRead, ReadView, Show, LogsFail, PollFails,
                  Remount, Fold, BookingRead, Click, ClaimAuction, OpenAuction, OnChain, chain, pageVars
    <3> QED
      BY <1>1, <3>1 DEF _startSettling, CanClaim, IInv, BookAgrees, bids
  <2> QED
    BY <2>1, <2>2
<1>6. ASSUME NEW id \in AuctionIds, state(id) \notin {"Settling", "Finalized"},
             state(id)' \in {"Settling", "Finalized"}
      PROVE  id \in claimed' /\ state(id)' # "Finalized"
  <2>1. state(id) = "Bidding" /\ state(id)' = "Settling"
    BY <1>1, <1>6, NextMovesState
  <2>2. CASE ClaimAuction
    <3>1. PICK x \in AuctionIds : _startSettling(x) /\ claimed' = claimed \cup {x}
      BY <2>2 DEF ClaimAuction
    <3>2. x = id
      BY <1>1, <2>1, <3>1 DEF _startSettling, state, IInv, TypeOK
    <3> QED
      BY <2>1, <3>1, <3>2
  <2>3. CASE OnChain
    <3>1. ASSUME NEW x, NEW supplier, NEW commitment, commit(x, supplier, commitment)
          PROVE  FALSE
      BY <1>1, <2>1, <3>1 DEF commit, state, IInv, TypeOK, AuctionRecord
    <3>2. ASSUME NEW x, NEW terminal \in Terminal, NEW winner, NEW payout,
                 Close(x, terminal, winner, payout)
          PROVE  FALSE
      BY <1>1, <2>1, <3>2 DEF Close, state, IInv, TypeOK, Terminal
    <3>3. ~Settle
      <4> SUFFICES ASSUME NEW s, _settle(s)
                   PROVE  FALSE
        BY DEF Settle
      <4> QED
        BY <3>2 DEF _settle, Terminal
    <3>5. ~Refund
      <4> SUFFICES ASSUME NEW x, timeoutRefund(x)
                   PROVE  FALSE
        BY DEF Refund
      <4> QED
        BY <3>2 DEF timeoutRefund, Terminal
    <3>4. ~Tick
      BY <2>1 DEF Tick, state
    <3> QED
      BY <2>3, <3>1, <3>3, <3>4, <3>5 DEF OnChain
  <2>4. CASE OpenAuction
    BY <1>1, <2>1, <2>4 DEF OpenAuction, createAuction, state, IInv, TypeOK, AuctionRecord
  <2> QED
    BY <2>1, <2>2, <2>3, <2>4
       DEF PageNext, Poll, ReadLogs, NothingToRead, ReadView, Show, LogsFail, PollFails, Remount,
           Fold, BookingRead, Click, chain, vars, state, pageVars
<1>7. ASSUME NEW id \in AuctionIds, state(id)' = "Finalized"
      PROVE  auctions'[id].payout \in Payouts
  <2>1. CASE state(id) = "Finalized"
    BY <1>1, <2>1, NextKeepsFinished DEF LogsAgree, Terminal
  <2>2. CASE state(id) # "Finalized"
    <3>1. state(id) = "Settling"
      BY <1>1, <1>7, <2>2, NextMovesState
    <3>2. CASE Settle
      <4>1. PICK s : s.payout \in Payouts /\ _settle(s)
        BY <3>2 DEF Settle
      <4> QED
        BY <1>1, <1>7, <3>1, <4>1 DEF _settle, Close, state, IInv, TypeOK
    <3>t. auctions \in [AuctionIds -> AuctionRecord]
      BY <1>1 DEF IInv, TypeOK
    <3>3. ~Create
      BY <1>7, <3>1, <3>t DEF Create, createAuction, state, AuctionRecord
    <3>4. ~Commit
      BY <1>7, <3>1, <3>t DEF Commit, commit, state, AuctionRecord
    <3>5. ~Claim
      BY <1>7, <3>1, <3>t DEF Claim, _startSettling, state, AuctionRecord
    <3>6. ~Refund
      BY <1>7, <3>1, <3>t DEF Refund, timeoutRefund, Close, state, AuctionRecord
    <3>7. ~Tick /\ ~UNCHANGED vars
      BY <1>7, <3>1 DEF Tick, vars, state
    <3> QED
      BY <1>1, <3>2, <3>3, <3>4, <3>5, <3>6, <3>7 DEF Next
  <2> QED
    BY <2>1, <2>2
<1>8. \A id \in AuctionIds : state(id) \in {"Settling", "Finalized"} => id \in claimed'
  BY <1>1 DEF LogsAgree
<1> QED
  BY <1>4, <1>5, <1>6, <1>7, <1>8 DEF LogsAgree

-----------------------------------------------------------------------------
(***************************************************************************)
(* What was so once stays so: the contract walks forward only, and the     *)
(* logs and the books only grow.                                           *)
(***************************************************************************)

\* An auction that passes through three states passes from the first to the last.
LEMMA PassedOn ==
  ASSUME NEW r, NEW s, NEW t, Passed(r, s), Passed(s, t)
  PROVE  Passed(r, t)
BY DEF Passed, Progress

\* A list that begins another one begins whatever that one begins.
LEMMA BeginsOn ==
  ASSUME NEW r, NEW s, NEW t, Begins(r, s), Begins(s, t)
  PROVE  Begins(r, t)
BY DEF Begins

\* In a list without duplicates every entry has one place.
LEMMA OnePlace ==
  ASSUME NEW list, \A i, j \in DOMAIN list : list[i] = list[j] => i = j,
         NEW i \in DOMAIN list
  PROVE  (CHOOSE j \in DOMAIN list : list[j] = list[i]) = i
OBVIOUS

\* The place of an auction is its place among the AuctionCreated logs.
LEMMA AgeIsPlace ==
  ASSUME PageInv, NEW i \in DOMAIN opened
  PROVE  opened[i] \in AuctionIds /\ Age(opened[i]) = i
<1>1. opened[i] \in AuctionIds
  BY DEF PageInv, PageTypeOK
<1>2. opened[i] # NoAuction
  BY <1>1, ContractAssumption
<1> QED
  BY <1>1, <1>2, OnePlace DEF Age, PageInv, LogsAgree

\* An auction opened keeps its place while others are opened.
LEMMA NextKeepsAge ==
  ASSUME PageInv, [PageNext]_pageVars, NEW i \in DOMAIN opened, NEW id, opened[i] = id
  PROVE  Age(id)' = i
<1>1. i \in DOMAIN opened' /\ opened'[i] = id
  BY PageNextOnChain DEF Begins
<1>2. id # NoAuction
  BY AgeIsPlace, ContractAssumption
<1>3. \A k, j \in DOMAIN opened' : opened'[k] = opened'[j] => k = j
  BY NextLogsAgree DEF LogsAgree
<1>4. (CHOOSE j \in DOMAIN opened' : opened'[j] = opened'[i]) = i
  BY <1>1, <1>3, OnePlace
<1> QED
  BY <1>1, <1>2, <1>4 DEF Age

\* No transaction takes an auction back to a state it has left.
LEMMA NextPasses ==
  ASSUME PageInv, [PageNext]_pageVars, NEW id \in AuctionIds
  PROVE  Passed(state(id), state(id)')
<1>1. IInv /\ [Next]_vars
  BY PageNextOnChain DEF PageInv
<1> QED
  BY <1>1, NextMovesState DEF Passed, Progress, Live

\* A state an auction was in stays one it was in.
LEMMA NextKeepsWasIn ==
  ASSUME PageInv, [PageNext]_pageVars, NEW id \in AuctionIds, NEW s, WasIn(id, s)
  PROVE  WasIn(id, s)'
<1>1. IInv /\ [Next]_vars /\ claimed \subseteq claimed'
  BY PageNextOnChain DEF PageInv
<1>2. Passed(s, state(id)')
  BY NextPasses, PassedOn DEF WasIn
<1>3. committers[id] # <<>> => committers'[id] # <<>>
  <2>1. ASSUME committers[id] # <<>> PROVE committers'[id] # <<>>
    <3>1. committers[id] \in Seq(Suppliers)
      BY <1>1 DEF IInv, TypeOK
    <3>2. 1 \in DOMAIN committers[id]
      BY <2>1, <3>1
    <3>3. 1 \in DOMAIN committers'[id]
      BY <1>1, <3>2, NextExtendsBooks DEF Begins
    <3> QED
      BY <3>3
  <2> QED
    BY <2>1
<1> QED
  BY <1>1, <1>2, <1>3 DEF WasIn, Passed

\* A log once read stays a log.
LEMMA NextKeepsLogs ==
  ASSUME PageInv, [PageNext]_pageVars, NEW v, LogsStand(v)
  PROVE  /\ v.auctionId \in AuctionIds
         /\ LogsStand(v)'
<1>1. IInv /\ [Next]_vars /\ claimed \subseteq claimed' /\ Begins(opened, opened')
  BY PageNextOnChain DEF PageInv
<1>2. PICK i \in DOMAIN opened : opened[i] = v.auctionId
  BY DEF LogsStand
<1>3. v.auctionId \in AuctionIds
  BY <1>2, AgeIsPlace
<1>4. i \in DOMAIN opened' /\ opened'[i] = v.auctionId
  BY <1>1, <1>2 DEF Begins
<1>5. state(v.auctionId) = "Finalized" => auctions'[v.auctionId] = auctions[v.auctionId]
  BY <1>1, <1>3, NextKeepsFinished DEF Terminal
<1>6. FinalizedLog(v.auctionId) \subseteq FinalizedLog(v.auctionId)'
  BY <1>5 DEF FinalizedLog, state
<1> QED
  BY <1>1, <1>3, <1>4, <1>6 DEF LogsStand

\* What a poll read stays something that was so.
LEMMA NextKeepsPoll ==
  ASSUME PageInv, [PageNext]_pageVars, NEW r, PollWasSo(r)
  PROVE  PollWasSo(r)'
<1>1. IInv /\ [Next]_vars
  BY PageNextOnChain DEF PageInv
<1>2. r.auctionId \in AuctionIds /\ LogsStand(r)'
  BY NextKeepsLogs DEF PollWasSo
<1>3. /\ Begins(commitments[r.auctionId], commitments'[r.auctionId])
      /\ Begins(committers[r.auctionId], committers'[r.auctionId])
  BY <1>1, <1>2, NextExtendsBooks
<1>4. /\ Begins(r.commitments, commitments'[r.auctionId])
      /\ Begins(r.committers, committers'[r.auctionId])
  BY <1>3, BeginsOn DEF PollWasSo
<1>5. "state" \notin r.left => WasIn(r.auctionId, r.state)'
  BY <1>2, NextKeepsWasIn DEF PollWasSo
<1> QED
  BY <1>2, <1>4, <1>5 DEF PollWasSo, Begins

\* What a view shows stays something that was so.
LEMMA NextKeepsView ==
  ASSUME PageInv, [PageNext]_pageVars, NEW v, ViewWasSo(v)
  PROVE  ViewWasSo(v)'
<1> SUFFICES ASSUME v # NoView
             PROVE  /\ LogsStand(v)'
                    /\ WasIn(v.auctionId, v.state)'
                    /\ DOMAIN v.bids \subseteq DOMAIN commitments'[v.auctionId]
                    /\ RowsOfThisBook(v)'
  BY DEF ViewWasSo
<1>1. IInv /\ [Next]_vars
  BY PageNextOnChain DEF PageInv
<1>2. v.auctionId \in AuctionIds /\ LogsStand(v)'
  BY NextKeepsLogs DEF ViewWasSo
<1>3. /\ Begins(commitments[v.auctionId], commitments'[v.auctionId])
      /\ Begins(committers[v.auctionId], committers'[v.auctionId])
  BY <1>1, <1>2, NextExtendsBooks
<1>4. DOMAIN v.bids \subseteq DOMAIN commitments[v.auctionId] /\ RowsOfThisBook(v)
  BY DEF ViewWasSo
<1>5. DOMAIN commitments[v.auctionId] = DOMAIN committers[v.auctionId]
  BY <1>1, <1>2 DEF IInv, TypeOK, BookAgrees
<1>6. WasIn(v.auctionId, v.state)'
  BY <1>2, NextKeepsWasIn DEF ViewWasSo
<1> QED
  BY <1>2, <1>3, <1>4, <1>5, <1>6 DEF Begins, RowsOfThisBook

\* A poll that is no older than a view stays so: no auction changes its place.
LEMMA NextKeepsOrder ==
  ASSUME PageInv, [PageNext]_pageVars, NEW v, NEW r, ViewWasSo(v), PollWasSo(r), NoOlder(v, r)
  PROVE  NoOlder(v, r)'
<1>1. PICK j \in DOMAIN opened : opened[j] = r.auctionId
  BY DEF PollWasSo, LogsStand
<1>2. Age(r.auctionId) = j /\ Age(r.auctionId)' = j
  BY <1>1, AgeIsPlace, NextKeepsAge
<1>3. CASE v = NoView
  <2>1. Age(v.auctionId) = 0 /\ Age(v.auctionId)' = 0
    BY <1>3 DEF Age, NoView
  <2> QED
    BY <1>2, <2>1 DEF NoOlder, Passed, Progress
<1>4. CASE v # NoView
  <2>1. PICK i \in DOMAIN opened : opened[i] = v.auctionId
    BY <1>4 DEF ViewWasSo, LogsStand
  <2>2. Age(v.auctionId) = i /\ Age(v.auctionId)' = i
    BY <2>1, AgeIsPlace, NextKeepsAge
  <2> QED
    BY <1>2, <2>2 DEF NoOlder, Passed, Progress
<1> QED
  BY <1>3, <1>4

-----------------------------------------------------------------------------
(***************************************************************************)
(* One poll: its logs, its views, and what it shows.                       *)
(***************************************************************************)

\* The AuctionFinalized log says an outcome: a winner or nobody, and a payout.
LEMMA FinalizedLogType ==
  ASSUME PageInv, NEW id \in AuctionIds
  PROVE  FinalizedLog(id) \in Outcomes
<1>1. CASE state(id) = "Finalized"
  <2>1. auctions[id].payout \in Payouts
    BY <1>1 DEF PageInv, LogsAgree
  <2>2. auctions[id].winner \in Suppliers \cup {NoAddress}
    BY DEF PageInv, IInv, PayoutIsBacked, TypeOK
  <2> QED
    BY <1>1, <2>1, <2>2 DEF FinalizedLog, Outcomes
<1>2. CASE state(id) # "Finalized"
  BY <1>2 DEF FinalizedLog, Outcomes
<1> QED
  BY <1>1, <1>2

\* ReadLogs: a poll starts at the newest auction, with every view still to ask for.
LEMMA ReadLogsStarts ==
  ASSUME PageInv, ReadLogs, NEW n \in reading'
  PROVE  n \in PollRecord /\ PollWasSo(n) /\ NoOlder(view, n)
<1>1. n = [auctionId |-> newest, claimed |-> newest \in claimed,
           settlement |-> FinalizedLog(newest),
           left |-> Reads, state |-> "None", commitments |-> <<>>, committers |-> <<>>]
  BY DEF ReadLogs
<1>2. /\ Len(opened) \in DOMAIN opened /\ Len(opened) \in Nat \ {0}
      /\ DOMAIN opened = 1..Len(opened)
  BY DEF ReadLogs, PageInv, PageTypeOK
<1>3. newest \in AuctionIds /\ Age(newest) = Len(opened)
  BY <1>2, AgeIsPlace DEF newest
<1>4. n \in PollRecord
  BY <1>1, <1>3, FinalizedLogType DEF PollRecord, Reads, States
<1>5. PollWasSo(n)
  <2>1. LogsStand(n)
    BY <1>1, <1>2 DEF LogsStand, newest
  <2>2. ASSUME NEW longer PROVE Begins(<<>>, longer)
    BY DEF Begins
  <2> QED
    BY <1>1, <2>1, <2>2 DEF PollWasSo, Reads
<1>6. NoOlder(view, n)
  <2>1. CASE view = NoView
    <3>1. Age(view.auctionId) = 0
      BY <2>1 DEF Age, NoView
    <3> QED
      BY <1>1, <1>2, <1>3, <3>1 DEF NoOlder
  <2>2. CASE view # NoView
    <3>1. LogsStand(view)
      BY <2>2 DEF PageInv, ViewWasSo
    <3>2. PICK i \in DOMAIN opened : opened[i] = view.auctionId
      BY <3>1 DEF LogsStand
    <3>3. Age(view.auctionId) = i
      BY <3>2, AgeIsPlace
    <3>4. CASE i = Len(opened)
      <4>1. view.auctionId = newest
        BY <3>2, <3>4 DEF newest
      <4> QED
        BY <1>1, <3>1, <4>1 DEF NoOlder, LogsStand, Reads
    <3>5. CASE i # Len(opened)
      BY <1>1, <1>2, <1>3, <3>3, <3>5 DEF NoOlder
    <3> QED
      BY <3>4, <3>5
  <2> QED
    BY <2>1, <2>2
<1> QED
  BY <1>4, <1>5, <1>6

\* The views of a contract: each answers for the block it is asked in.
LEMMA ReadViewReads ==
  ASSUME PageInv, NEW r \in reading, ReadView(r), NEW n \in reading'
  PROVE  n \in PollRecord /\ PollWasSo(n) /\ NoOlder(view, n)
<1>1. r \in PollRecord /\ PollWasSo(r) /\ NoOlder(view, r) /\ reading = {r}
  BY DEF PageInv, PageTypeOK
<1>2. r.auctionId \in AuctionIds
  BY <1>1 DEF PollRecord
<1>3. /\ IInv /\ LogsAgree
      /\ commitments[r.auctionId] \in Seq(Commitments)
      /\ committers[r.auctionId] \in Seq(Suppliers)
      /\ state(r.auctionId) \in States
  BY <1>2 DEF PageInv, IInv, TypeOK, AuctionRecord, state
<1>4. view.auctionId = r.auctionId => view # NoView
  BY <1>2, ContractAssumption DEF NoView
<1>5. CASE n = [r EXCEPT !.state = state(r.auctionId), !.left = @ \ {"state"}]
  <2>1. n \in PollRecord
    BY <1>1, <1>3, <1>5 DEF PollRecord
  <2>2. /\ n.auctionId = r.auctionId /\ n.claimed = r.claimed /\ n.settlement = r.settlement
        /\ n.state = state(r.auctionId) /\ n.left = r.left \ {"state"}
        /\ n.commitments = r.commitments /\ n.committers = r.committers
    BY <1>1, <1>5 DEF PollRecord
  <2>3. WasIn(r.auctionId, state(r.auctionId))
    <3>1. state(r.auctionId) # "None"
      BY <1>1, <1>3 DEF PollWasSo, LogsStand, LogsAgree
    <3>2. state(r.auctionId) \in {"Settling", "Finalized"} => r.auctionId \in claimed
      BY <1>2, <1>3 DEF LogsAgree
    <3>3. state(r.auctionId) \in {"Bidding", "Settling", "Finalized"} => committers[r.auctionId] # <<>>
      BY <1>2, <1>3, <3>2 DEF LogsAgree, IInv, BookAgrees
    <3> QED
      BY <3>1, <3>2, <3>3 DEF WasIn, Passed
  <2>4. PollWasSo(n)
    BY <1>1, <2>2, <2>3 DEF PollWasSo, LogsStand
  <2>5. view.auctionId = r.auctionId => Passed(view.state, state(r.auctionId))
    BY <1>4 DEF PageInv, ViewWasSo, WasIn
  <2>6. NoOlder(view, n)
    BY <1>1, <2>2, <2>5 DEF NoOlder
  <2> QED
    BY <2>1, <2>4, <2>6
<1>6. CASE n = [r EXCEPT !.commitments = commitments[r.auctionId], !.left = @ \ {"commitments"}]
  <2>1. n \in PollRecord
    BY <1>1, <1>3, <1>6 DEF PollRecord
  <2>2. /\ n.auctionId = r.auctionId /\ n.claimed = r.claimed /\ n.settlement = r.settlement
        /\ n.state = r.state /\ n.left = r.left \ {"commitments"}
        /\ n.commitments = commitments[r.auctionId] /\ n.committers = r.committers
    BY <1>1, <1>6 DEF PollRecord
  <2>3. PollWasSo(n)
    BY <1>1, <2>2 DEF PollWasSo, LogsStand, Begins
  <2>4. view.auctionId = r.auctionId => Len(view.bids) <= Len(commitments[r.auctionId])
    <3>1. view.auctionId = r.auctionId => DOMAIN view.bids \subseteq DOMAIN commitments[r.auctionId]
      BY <1>4 DEF PageInv, ViewWasSo
    <3>2. view.bids \in Seq(Row)
      BY DEF PageInv, PageTypeOK, ViewRecord
    <3> QED
      BY <1>3, <3>1, <3>2
  <2>5. NoOlder(view, n)
    BY <1>1, <2>2, <2>4 DEF NoOlder
  <2> QED
    BY <2>1, <2>3, <2>5
<1>7. CASE n = [r EXCEPT !.committers = committers[r.auctionId], !.left = @ \ {"committers"}]
  <2>1. n \in PollRecord
    BY <1>1, <1>3, <1>7 DEF PollRecord
  <2>2. /\ n.auctionId = r.auctionId /\ n.claimed = r.claimed /\ n.settlement = r.settlement
        /\ n.state = r.state /\ n.left = r.left \ {"committers"}
        /\ n.commitments = r.commitments /\ n.committers = committers[r.auctionId]
    BY <1>1, <1>7 DEF PollRecord
  <2>3. PollWasSo(n)
    BY <1>1, <2>2 DEF PollWasSo, LogsStand, Begins
  <2>4. NoOlder(view, n)
    BY <1>1, <2>2 DEF NoOlder
  <2> QED
    BY <2>1, <2>3, <2>4
<1> QED
  BY <1>1, <1>5, <1>6, <1>7 DEF ReadView, Becomes

\* auctionAction: the rows of a poll are rows of that auction's book, and there is one
\* for every commitment.
LEMMA RowsType ==
  ASSUME NEW r \in PollRecord
  PROVE  /\ rows(r) \in Seq(Row) /\ Len(rows(r)) = Len(r.commitments)
         /\ DOMAIN rows(r) = DOMAIN r.commitments
         /\ \A i \in DOMAIN r.commitments :
              /\ rows(r)[i].commitment = r.commitments[i]
              /\ rows(r)[i].supplier =
                   IF i \in DOMAIN r.committers THEN r.committers[i] ELSE NoAddress
<1>1. r.commitments \in Seq(Commitments) /\ r.committers \in Seq(Suppliers)
  BY DEF PollRecord
<1>2. /\ Len(r.commitments) \in Nat /\ DOMAIN r.commitments = 1..Len(r.commitments)
      /\ \A i \in DOMAIN r.commitments : r.commitments[i] \in Commitments
      /\ \A i \in DOMAIN r.committers : r.committers[i] \in Suppliers
  BY <1>1
<1>3. \A i \in DOMAIN r.commitments : rows(r)[i] \in Row
  BY <1>2 DEF rows, Row
<1>4. rows(r) \in [1..Len(r.commitments) -> Row]
  BY <1>2, <1>3 DEF rows
<1>5. rows(r) \in Seq(Row)
  BY <1>2, <1>4
<1> QED
  BY <1>2, <1>4, <1>5 DEF rows

\* Show: the view it makes is one that was so.
LEMMA ShowShows ==
  ASSUME PageInv, NEW r \in reading, Show(r)
  PROVE  /\ ViewOf(r) \in ViewRecord /\ ViewWasSo(ViewOf(r))
         /\ ViewOf(r).auctionId \in AuctionIds
         /\ reading' = {}
<1>1. r \in PollRecord /\ PollWasSo(r) /\ reading = {r} /\ r.left = {}
  BY DEF PageInv, PageTypeOK, Show
<1>2. ViewOf(r) \in ViewRecord /\ ViewOf(r).auctionId \in AuctionIds
  BY <1>1, RowsType DEF ViewOf, ViewRecord, PollRecord
<1>3. LogsStand(ViewOf(r)) /\ WasIn(r.auctionId, r.state)
  BY <1>1 DEF PollWasSo, LogsStand, ViewOf
<1>4. DOMAIN rows(r) \subseteq DOMAIN commitments[r.auctionId]
  BY <1>1, RowsType DEF PollWasSo, Begins
<1>5. RowsOfThisBook(ViewOf(r))
  BY <1>1, RowsType DEF PollWasSo, Begins, RowsOfThisBook, ViewOf
<1> QED
  BY <1>1, <1>2, <1>3, <1>4, <1>5 DEF ViewWasSo, ViewOf, Show

-----------------------------------------------------------------------------
(***************************************************************************)
(* The invariant.                                                          *)
(***************************************************************************)

\* No auction exists before the first block, so there is no log and nothing to poll.
LEMMA InitPageInv == PageInit => PageInv
<1> SUFFICES ASSUME PageInit PROVE PageInv
  OBVIOUS
<1>1. IInv /\ TypeOK
  BY InitIInv DEF PageInit, IInv
<1>2. LogsAgree
  BY DEF PageInit, Init, LogsAgree, state
<1>3. reading = {} /\ opened = <<>> /\ claimed = {} /\ view = NoView
  BY DEF PageInit
<1>4. Cardinality(reading) = 0
  BY <1>3, FS_EmptySet
<1>5. view \in ViewRecord
  BY <1>3 DEF NoView, ViewRecord, States, Outcomes
<1>6. following \in [auctionId: AuctionIds \cup {NoAuction}, expanded: BOOLEAN]
  BY DEF PageInit
<1>7. error \in BOOLEAN /\ click \in [at: StepKeys \cup {"nothing"}, key: StepKeys \cup {"nothing"}]
  BY DEF PageInit
<1>8. fetching = NoAuction /\ hotel \in [bookingId: AuctionIds \cup {NoAuction}, found: BOOLEAN]
  BY DEF PageInit
<1>9. opened \in Seq(AuctionIds) /\ Len(opened) <= MaxAuctions
  BY <1>3, PageAssumption
<1>10. PageTypeOK
  BY <1>1, <1>3, <1>4, <1>5, <1>6, <1>7, <1>8, <1>9 DEF PageTypeOK
<1>11. ViewWasSo(view)
  BY <1>3 DEF ViewWasSo
<1>12. following.auctionId = view.auctionId /\ following.expanded
  BY <1>3 DEF PageInit, NoView
<1> QED
  BY <1>1, <1>2, <1>3, <1>10, <1>11, <1>12 DEF PageInv

\* A step leaves at most one poll in flight, and what it has read was so before the
\* step and is no older than what the page showed.
LEMMA NextReadingWasSo ==
  ASSUME PageInv, [PageNext]_pageVars
  PROVE  /\ \A n, m \in reading' : n = m
         /\ \A n \in reading' : n \in PollRecord /\ PollWasSo(n) /\ NoOlder(view, n)
         /\ reading' # {} => view' = view
<1>1. \A r, s \in reading : r = s
  BY DEF PageInv
<1>2. \A r \in reading : r \in PollRecord /\ PollWasSo(r) /\ NoOlder(view, r)
  BY DEF PageInv, PageTypeOK
<1>3. CASE ReadLogs
  <2>1. (\A n, m \in reading' : n = m) /\ view' = view
    BY <1>3 DEF ReadLogs
  <2> QED
    BY <1>3, <2>1, ReadLogsStarts
<1>4. ASSUME NEW r \in reading, ReadView(r)
      PROVE  /\ \A n, m \in reading' : n = m
             /\ \A n \in reading' : n \in PollRecord /\ PollWasSo(n) /\ NoOlder(view, n)
             /\ reading' # {} => view' = view
  <2>1. (\A n, m \in reading' : n = m) /\ view' = view
    BY <1>1, <1>4 DEF ReadView, Becomes
  <2> QED
    BY <1>4, <2>1, ReadViewReads
<1>5. ASSUME NEW r \in reading, Show(r)
      PROVE  reading' = {}
  BY <1>5, ShowShows
<1>6. ASSUME reading' \subseteq reading, view' = view
      PROVE  /\ \A n, m \in reading' : n = m
             /\ \A n \in reading' : n \in PollRecord /\ PollWasSo(n) /\ NoOlder(view, n)
             /\ reading' # {} => view' = view
  BY <1>1, <1>2, <1>6
<1>7. CASE \/ LogsFail \/ NothingToRead \/ \E r \in reading : PollFails(r)
           \/ \E found \in BOOLEAN : BookingRead(found)
           \/ \E key \in Clicks : Click(key)
           \/ Remount \/ Fold \/ OpenAuction \/ ClaimAuction \/ OnChain
           \/ UNCHANGED pageVars
  <2>1. reading' \subseteq reading /\ view' = view
    BY <1>7 DEF LogsFail, NothingToRead, PollFails, BookingRead, Click, Remount, Fold, OpenAuction,
                ClaimAuction, OnChain, pageVars
  <2> QED
    BY <1>6, <2>1
<1> QED
  BY <1>3, <1>4, <1>5, <1>7 DEF PageNext, Poll

\* A step shows nothing but what was so before it.
LEMMA NextViewWasSo ==
  ASSUME PageInv, [PageNext]_pageVars
  PROVE  /\ view' \in ViewRecord
         /\ \A v : v = view' => ViewWasSo(v)
         /\ view' # view => \E r \in reading : Show(r)
<1>1. view \in ViewRecord /\ ViewWasSo(view)
  BY DEF PageInv, PageTypeOK
<1>2. ASSUME NEW r \in reading, Show(r)
      PROVE  view' \in ViewRecord /\ \A v : v = view' => ViewWasSo(v)
  <2>1. view' = ViewOf(r)
    BY <1>2 DEF Show
  <2> QED
    BY <1>2, <2>1, ShowShows
<1>3. CASE \A r \in reading : ~Show(r)
  <2>1. view' = view
    BY <1>3 DEF PageNext, Poll, ReadLogs, NothingToRead, ReadView, LogsFail, PollFails, BookingRead,
                Click, Remount, Fold, OpenAuction, ClaimAuction, OnChain, pageVars
  <2> QED
    BY <1>1, <2>1
<1> QED
  BY <1>2, <1>3

\* What the page folds is over, and what it follows is what it shows.
LEMMA NextFollows ==
  ASSUME PageInv, [PageNext]_pageVars
  PROVE  /\ following' \in [auctionId: AuctionIds \cup {NoAuction}, expanded: BOOLEAN]
         /\ following'.auctionId = view'.auctionId
         /\ ~following'.expanded => isTerminal(view')
<1>1. /\ following \in [auctionId: AuctionIds \cup {NoAuction}, expanded: BOOLEAN]
      /\ following.auctionId = view.auctionId
      /\ ~following.expanded => isTerminal(view)
  BY DEF PageInv, PageTypeOK
<1>2. ASSUME NEW r \in reading, Show(r)
      PROVE  /\ following' \in [auctionId: AuctionIds \cup {NoAuction}, expanded: BOOLEAN]
             /\ following'.auctionId = view'.auctionId
             /\ ~following'.expanded => isTerminal(view')
  <2>1. /\ view' = ViewOf(r) /\ following' = follow(ViewOf(r)) /\ r.left = {}
        /\ ViewOf(r).auctionId = r.auctionId /\ ViewOf(r).state = r.state
        /\ r.auctionId \in AuctionIds
    BY <1>2, ShowShows DEF Show, ViewOf
  <2>2. CASE following.auctionId = r.auctionId
    <3>1. following' = following
      BY <2>1, <2>2 DEF follow
    <3>2. PollWasSo(r) /\ NoOlder(view, r)
      BY DEF PageInv
    <3>3. PICK i \in DOMAIN opened : opened[i] = r.auctionId
      BY <3>2 DEF PollWasSo, LogsStand
    <3>4. Age(r.auctionId) \in Int
      BY <3>3, AgeIsPlace DEF PageInv, PageTypeOK
    <3>5. Passed(view.state, r.state)
      BY <1>1, <2>1, <2>2, <3>2, <3>4 DEF NoOlder
    <3>6. isTerminal(view) => isTerminal(view')
      <4>1. r.state \in States
        BY DEF PageInv, PageTypeOK, PollRecord
      <4> QED
        BY <2>1, <3>5, <4>1 DEF isTerminal, Passed, Progress, Terminal, States
    <3> QED
      BY <1>1, <2>1, <2>2, <3>1, <3>6
  <2>3. CASE following.auctionId # r.auctionId
    <3>1. following' = [auctionId |-> r.auctionId, expanded |-> ~isTerminal(ViewOf(r))]
      BY <2>1, <2>3 DEF follow
    <3>2. isTerminal(view') <=> isTerminal(ViewOf(r))
      BY <2>1
    <3>3. (~isTerminal(ViewOf(r))) \in BOOLEAN
      BY DEF isTerminal
    <3>4. /\ following' \in [auctionId: AuctionIds \cup {NoAuction}, expanded: BOOLEAN]
          /\ following'.auctionId = r.auctionId
      BY <2>1, <3>1, <3>3
    <3>5. following'.expanded = ~isTerminal(ViewOf(r))
      BY <3>1
    <3> QED
      BY <2>1, <3>2, <3>4, <3>5
  <2> QED
    BY <2>2, <2>3
<1>3. CASE Fold
  <2>1. /\ view' = view /\ following' = [following EXCEPT !.expanded = ~@]
        /\ following.expanded => isTerminal(view)
    BY <1>3 DEF Fold
  <2>2. /\ following' \in [auctionId: AuctionIds \cup {NoAuction}, expanded: BOOLEAN]
        /\ following'.auctionId = following.auctionId /\ following'.expanded = ~following.expanded
    BY <1>1, <2>1
  <2> QED
    BY <1>1, <2>1, <2>2 DEF isTerminal
<1>4. CASE (\A r \in reading : ~Show(r)) /\ ~Fold
  <2>1. view' = view /\ following' = following
    BY <1>4 DEF PageNext, Poll, ReadLogs, NothingToRead, ReadView, LogsFail, PollFails, BookingRead,
                Click, Remount, OpenAuction, ClaimAuction, OnChain, pageVars, shell
  <2> QED
    BY <1>1, <2>1 DEF isTerminal
<1> QED
  BY <1>2, <1>3, <1>4

\* The error, the reader's clicks and the booking record keep their types: a click is on
\* a step, a booking is read for an auction.
LEMMA NextShellType ==
  ASSUME PageInv, [PageNext]_pageVars
  PROVE  /\ error' \in BOOLEAN
         /\ click' \in [at: StepKeys \cup {"nothing"}, key: StepKeys \cup {"nothing"}]
         /\ fetching' \in AuctionIds \cup {NoAuction}
         /\ hotel' \in [bookingId: AuctionIds \cup {NoAuction}, found: BOOLEAN]
<1>1. /\ error \in BOOLEAN
      /\ click \in [at: StepKeys \cup {"nothing"}, key: StepKeys \cup {"nothing"}]
      /\ fetching \in AuctionIds \cup {NoAuction}
      /\ hotel \in [bookingId: AuctionIds \cup {NoAuction}, found: BOOLEAN]
  BY DEF PageInv, PageTypeOK
<1>2. ASSUME NEW r \in reading, Show(r)
      PROVE  error' = FALSE /\ click' = click /\ hotel' = hotel /\ fetching' \in AuctionIds \cup {NoAuction}
  <2>1. ViewOf(r).auctionId \in AuctionIds
    BY <1>2, ShowShows
  <2> QED
    BY <1>1, <1>2, <2>1 DEF Show, bookingId
<1>3. ASSUME NEW found \in BOOLEAN, BookingRead(found)
      PROVE  /\ error' = error /\ click' = click /\ fetching' = NoAuction
             /\ hotel' \in [bookingId: AuctionIds \cup {NoAuction}, found: BOOLEAN]
  BY <1>1, <1>3 DEF BookingRead
<1>4. ASSUME NEW key \in Clicks, Click(key)
      PROVE  /\ click' \in [at: StepKeys \cup {"nothing"}, key: StepKeys \cup {"nothing"}]
             /\ error' = error /\ fetching' = fetching /\ hotel' = hotel
  <2>1. liveStep(view) \in StepKeys /\ key \in StepKeys
    BY PageAssumption DEF liveStep, StepKeys
  <2> QED
    BY <1>4, <2>1 DEF Click, live
<1>5. CASE \/ \E r \in reading : ReadView(r) \/ PollFails(r)
           \/ LogsFail \/ NothingToRead \/ ReadLogs \/ Remount \/ Fold \/ OpenAuction \/ ClaimAuction \/ OnChain
           \/ UNCHANGED pageVars
  BY <1>1, <1>5 DEF ReadView, LogsFail, NothingToRead, PollFails, ReadLogs, Remount, Fold, OpenAuction,
                    ClaimAuction, OnChain, pageVars, shell
<1> QED
  BY <1>1, <1>2, <1>3, <1>4, <1>5 DEF PageNext, Poll

\* The logs keep their types, whatever is mined.
LEMMA NextLogsType ==
  ASSUME PageInv, [PageNext]_pageVars
  PROVE  /\ opened' \in Seq(AuctionIds) /\ Len(opened') <= MaxAuctions
         /\ claimed' \subseteq AuctionIds
<1>1. opened \in Seq(AuctionIds) /\ Len(opened) <= MaxAuctions /\ claimed \subseteq AuctionIds
  BY DEF PageInv, PageTypeOK
<1>2. CASE OpenAuction
  BY <1>1, <1>2, PageAssumption DEF OpenAuction
<1>3. CASE ClaimAuction
  BY <1>1, <1>3 DEF ClaimAuction
<1>4. CASE ~OpenAuction /\ ~ClaimAuction
  BY <1>1, <1>4 DEF PageNext, Poll, ReadLogs, NothingToRead, ReadView, Show, LogsFail, PollFails,
                    BookingRead, Click, Remount, Fold, OnChain, chain, pageVars
<1> QED
  BY <1>2, <1>3, <1>4

\* Every step keeps the invariant.
LEMMA NextPageInv == PageInv /\ [PageNext]_pageVars => PageInv'
<1> SUFFICES ASSUME PageInv, [PageNext]_pageVars PROVE PageInv'
  OBVIOUS
<1>1. IInv'
  BY PageNextOnChain, NextIInv DEF PageInv
<1>2. \A n, m \in reading' : n = m
  BY NextReadingWasSo
<1>3. \A n \in reading' : n \in PollRecord /\ PollWasSo(n)'
  BY NextReadingWasSo, NextKeepsPoll
<1>4. Cardinality(reading') <= 1
  <2>1. CASE reading' = {}
    BY <2>1, FS_EmptySet
  <2>2. CASE reading' # {}
    <3>1. PICK n : n \in reading'
      BY <2>2
    <3>2. reading' = {n}
      BY <1>2, <3>1
    <3>3. Cardinality({n}) = 1
      BY FS_Singleton
    <3> QED
      BY <3>2, <3>3
  <2> QED
    BY <2>1, <2>2
<1>5. ASSUME NEW v, view' = v
      PROVE  ViewWasSo(v)' /\ \A n \in reading' : NoOlder(v, n)'
  <2>1. ViewWasSo(v)
    BY <1>5, NextViewWasSo
  <2>2. ASSUME NEW n \in reading'
        PROVE  NoOlder(v, n)'
    BY <1>5, <2>1, NextReadingWasSo, NextKeepsOrder
  <2> QED
    BY <2>1, <2>2, NextKeepsView
<1>6. ViewWasSo(view)'
  BY <1>5 DEF ViewWasSo, LogsStand, WasIn, RowsOfThisBook
<1>7. \A n \in reading' : NoOlder(view, n)'
  BY <1>5 DEF NoOlder
<1>8. PageTypeOK'
  BY <1>1, <1>3, <1>4, NextLogsType, NextShellType, NextFollows, NextViewWasSo DEF PageTypeOK, IInv
<1>9. (\A r \in reading : PollWasSo(r) /\ NoOlder(view, r))'
  BY <1>3, <1>7
<1>10. (following.auctionId = view.auctionId /\ (~following.expanded => isTerminal(view)))'
  BY NextFollows DEF isTerminal
<1> QED
  BY <1>1, <1>2, <1>6, <1>8, <1>9, <1>10, NextLogsAgree DEF PageInv

\* PageInv is an invariant, for every number of auctions, suppliers and polls.
THEOREM PageInvariance == PageSpec => []PageInv
<1>1. PageInit => PageInv
  BY InitPageInv
<1>2. PageInv /\ [PageNext]_pageVars => PageInv'
  BY NextPageInv
<1> QED
  BY <1>1, <1>2, PTL DEF PageSpec

-----------------------------------------------------------------------------
(***************************************************************************)
(* What follows.                                                           *)
(***************************************************************************)

\* The page reads the contract and writes nothing: beside it the contract takes only
\* steps of its own specification.
THEOREM PageOnChain == PageSpec => Spec
<1>1. PageInit => Init
  BY DEF PageInit
<1>2. PageInv /\ [PageNext]_pageVars => [Next]_vars
  BY PageNextOnChain
<1> QED
  BY <1>1, <1>2, PageInvariance, PTL DEF PageSpec, Spec

\* The page's variables and the contract's keep their types; useAuction has one poll
\* in flight at most.
THEOREM PageTypeCorrect == PageSpec => []PageTypeOK
<1>1. PageInv => PageTypeOK
  BY DEF PageInv
<1> QED
  BY <1>1, PageInvariance, PTL

\* A row pairs a commitment with the supplier that posted it, although the two lists
\* of readAuction are read at different heads.
THEOREM RowsCorrect == PageSpec => []RowsPairTruly
<1>1. PageInv => RowsPairTruly
  BY DEF PageInv, RowsPairTruly, ViewWasSo, NoView, RowsOfThisBook
<1> QED
  BY <1>1, PageInvariance, PTL

\* The steps of steps.ts have their places on the path.
LEMMA Places ==
  /\ PlaceOf("created") = 1 /\ PlaceOf("bidding") = 2
  /\ PlaceOf("settling") = 3 /\ PlaceOf("finalized") = 4
<1>1. /\ DOMAIN PATH = 1..4
      /\ PATH[1] = "created" /\ PATH[2] = "bidding"
      /\ PATH[3] = "settling" /\ PATH[4] = "finalized"
  BY DEF PATH
<1>2. \A i, j \in DOMAIN PATH : PATH[i] = PATH[j] => i = j
  BY <1>1
<1>3. \A i \in DOMAIN PATH : PlaceOf(PATH[i]) = i
  BY <1>2, OnePlace DEF PlaceOf
<1> QED
  BY <1>1, <1>3

\* steps.ts draws a step as reached only if the auction got there.
THEOREM ReachedCorrect == PageSpec => []ReachedReallyHappened
<1>1. ASSUME PageInv, view # NoView, NEW key \in StepKeys, Reached(view, key)
      PROVE  Happened(view.auctionId, key)
  <2> DEFINE id == view.auctionId
  <2>1. /\ LogsStand(view) /\ WasIn(id, view.state)
        /\ DOMAIN view.bids \subseteq DOMAIN commitments[id]
    BY <1>1 DEF PageInv, ViewWasSo
  <2>2. id \in AuctionIds /\ state(id) # "None" /\ state(id) \in States
    BY <1>1, <2>1 DEF PageInv, LogsStand, LogsAgree, PageTypeOK, TypeOK, AuctionRecord, state
  <2>3. view.state \in States /\ view.bids \in Seq(Row)
    BY <1>1 DEF PageInv, PageTypeOK, ViewRecord
  <2>4. CASE view.state = "Timeout"
    <3>1. state(id) = "Timeout"
      BY <2>1, <2>2, <2>4 DEF WasIn, Passed, Progress, States
    <3>2. key # "finalized"
      BY <1>1, <2>4 DEF Reached, reachedBeforeTimeout
    <3>3. key = "bidding" => committers[id] # <<>>
      <4> SUFFICES ASSUME key = "bidding" PROVE committers[id] # <<>>
        OBVIOUS
      <4>1. view.bids # <<>>
        BY <1>1, <2>4 DEF Reached, reachedBeforeTimeout
      <4>2. 1 \in DOMAIN commitments[id]
        BY <2>1, <2>3, <4>1
      <4> QED
        BY <1>1, <2>2, <4>2 DEF PageInv, IInv, TypeOK, BookAgrees
    <3>4. key = "settling" => id \in claimed
      BY <1>1, <2>1, <2>4 DEF Reached, reachedBeforeTimeout, LogsStand
    <3> QED
      BY <2>2, <3>1, <3>2, <3>3, <3>4 DEF Happened, StepKeys
  <2>5. CASE view.state # "Timeout"
    <3>1. key # "timeout" /\ PlaceOf(key) <= PlaceOf(liveStep(view))
      BY <1>1, <2>5 DEF Reached
    <3>2. CASE key = "created"
      BY <2>2, <3>2 DEF Happened
    <3>3. CASE key = "bidding"
      <4>1. view.state \in {"Bidding", "Settling", "Finalized"}
        BY <2>3, <2>5, <3>1, <3>3, Places DEF liveStep, States
      <4> QED
        BY <2>1, <3>3, <4>1 DEF WasIn, Happened
    <3>4. CASE key = "settling"
      <4>1. view.state \in {"Settling", "Finalized"}
        BY <2>3, <2>5, <3>1, <3>4, Places DEF liveStep, States
      <4> QED
        BY <2>1, <3>4, <4>1 DEF WasIn, Happened
    <3>5. CASE key = "finalized"
      <4>1. view.state = "Finalized"
        BY <2>3, <2>5, <3>1, <3>5, Places DEF liveStep, States
      <4>2. state(id) = "Finalized"
        BY <1>1, <2>1, <2>2, <4>1 DEF WasIn, Passed, Progress, States
      <4> QED
        BY <3>5, <4>2 DEF Happened
    <3> QED
      BY <3>1, <3>2, <3>3, <3>4, <3>5 DEF StepKeys
  <2> QED
    BY <2>4, <2>5
<1>2. PageInv => ReachedReallyHappened
  BY <1>1 DEF ReachedReallyHappened
<1> QED
  BY <1>2, PageInvariance, PTL

\* use-auction.ts: a later poll, however slow and however torn its reads, never takes
\* the page to an older auction or back along the one it shows.
THEOREM ForwardCorrect == PageSpec => NeverWalksBack
<1>1. ASSUME PageInv, [PageNext]_pageVars
      PROVE  \/ Age(view'.auctionId) > Age(view.auctionId)
             \/ /\ view'.auctionId = view.auctionId
                /\ \/ view'.state = view.state
                   \/ Progress(view'.state) > Progress(view.state)
                /\ Len(view'.bids) >= Len(view.bids)
                /\ view.claimed => view'.claimed
                /\ view.settlement \subseteq view'.settlement
  <2>1. CASE view' = view
    <3>1. Len(view.bids) \in Nat
      BY <1>1 DEF PageInv, PageTypeOK, ViewRecord
    <3> QED
      BY <2>1, <3>1
  <2>2. CASE view' # view
    <3>1. PICK r \in reading : Show(r)
      BY <1>1, <2>2, NextViewWasSo
    <3>2. NoOlder(view, r) /\ PollWasSo(r) /\ r \in PollRecord
      BY <1>1 DEF PageInv, PageTypeOK
    <3>3. /\ view' = ViewOf(r) /\ r.left = {}
          /\ view'.auctionId = r.auctionId /\ view'.state = r.state /\ view'.claimed = r.claimed
          /\ view'.settlement = r.settlement /\ view'.bids = rows(r)
      BY <3>1 DEF Show, ViewOf
    <3>4. Len(rows(r)) = Len(r.commitments) /\ Len(r.commitments) \in Nat /\ Len(view.bids) \in Nat
      BY <1>1, <3>2, RowsType, SMTT(30) DEF PollRecord, PageInv, PageTypeOK, ViewRecord
    <3>5. CASE Age(view.auctionId) < Age(r.auctionId)
      BY <3>3, <3>5
    <3>6. CASE ~(Age(view.auctionId) < Age(r.auctionId))
      BY <3>2, <3>3, <3>4, <3>6 DEF NoOlder, Passed
    <3> QED
      BY <3>5, <3>6
  <2> QED
    BY <2>1, <2>2
<1> QED
  BY <1>1, PageInvariance, PTL DEF PageSpec, NeverWalksBack

\* useFollow: what a poll folds away is over, and was not unfolded before.
THEOREM FoldCorrect == PageSpec => PollNeverFolds
<1>1. ASSUME PageInv, [PageNext]_pageVars, view' # view, ~following'.expanded
      PROVE  /\ isTerminal(view')
             /\ view'.auctionId = view.auctionId => ~following.expanded
  <2>1. isTerminal(view') /\ following.auctionId = view.auctionId
    BY <1>1, NextFollows DEF PageInv
  <2>2. PICK r \in reading : Show(r)
    BY <1>1, NextViewWasSo
  <2>3. view'.auctionId = view.auctionId => following' = following
    BY <2>1, <2>2 DEF Show, follow
  <2> QED
    BY <1>1, <2>1, <2>3
<1> QED
  BY <1>1, PageInvariance, PTL DEF PageSpec, PollNeverFolds

\* useBooking: the hotel on the page is that of the auction on the page, which has paid
\* a supplier that bid for it.
THEOREM HotelCorrect == PageSpec => []HotelIsOfThisBooking
<1>1. ASSUME PageInv, hotelShown # NoAuction
      PROVE  /\ hotelShown = view.auctionId
             /\ auctions[view.auctionId].winner \in hasCommitted[view.auctionId]
  <2>1. hotelShown = bookingId(view) /\ bookingId(view) # NoAuction
    BY <1>1 DEF hotelShown
  <2>2. hotelShown = view.auctionId /\ paysWinner(view)
    BY <2>1 DEF bookingId
  <2>3. PICK s \in view.settlement : s.payout > 0
    BY <2>2 DEF paysWinner
  <2>4. LogsStand(view)
    BY <1>1, <2>3 DEF PageInv, ViewWasSo, NoView
  <2>5. view.auctionId \in AuctionIds
    BY <1>1, <2>4, AgeIsPlace DEF LogsStand
  <2>6. auctions[view.auctionId].payout > 0
    BY <2>3, <2>4 DEF LogsStand, FinalizedLog
  <2> QED
    BY <1>1, <2>2, <2>5, <2>6 DEF PageInv, IInv, PayoutIsBacked
<1>2. PageInv => HotelIsOfThisBooking
  BY <1>1 DEF HotelIsOfThisBooking
<1> QED
  BY <1>2, PageInvariance, PTL

-----------------------------------------------------------------------------
(***************************************************************************)
(* The page ends up at the outcome.  Once the newest auction is over, each *)
(* poll in flight ends, for it asks for one view less at every step; the   *)
(* poll that starts after it reads the final state wherever its heads lie; *)
(* and the first such poll that is neither lost nor failed shows it.       *)
(***************************************************************************)
Over(id) == IsNewest(id) /\ state(id) \in Terminal

\* A view some poll in flight has still to read.
Asked(read) == \E r \in reading : read \in r.left

\* What the polls in flight have read of an auction is how it ended.
ReadTheEnd(id) ==
  \A r \in reading :
    /\ r.auctionId = id
    /\ r.settlement = FinalizedLog(id)
    /\ "state" \notin r.left => r.state = state(id)
    /\ "commitments" \notin r.left => r.commitments = commitments[id]

\* An auction that is over stays as it ended.
LEMMA OverStays ==
  ASSUME PageInv, [PageNext]_pageVars, NEW id \in AuctionIds, Over(id)
  PROVE  /\ state(id)' = state(id) /\ state(id)' \in Terminal
         /\ FinalizedLog(id)' = FinalizedLog(id)
         /\ commitments'[id] = commitments[id]
<1>1. IInv /\ [Next]_vars /\ state(id) \in Terminal
  BY PageNextOnChain DEF PageInv, Over
<1>2. auctions'[id] = auctions[id]
  BY <1>1, NextKeepsFinished
<1>3. commitments'[id] = commitments[id]
  BY <1>1, NextKeepsClosedBook
<1> QED
  BY <1>1, <1>2, <1>3 DEF FinalizedLog, state

\* A view is one read more.
LEMMA ReadViewAdds ==
  ASSUME NEW r \in PollRecord, ReadView(r), NEW n \in reading', n \notin reading
  PROVE  /\ n.auctionId = r.auctionId /\ n.settlement = r.settlement /\ n.left \subseteq r.left
         /\ "state" \notin n.left =>
              n.state = IF "state" \in r.left THEN state(r.auctionId) ELSE r.state
         /\ "commitments" \notin n.left =>
              n.commitments = IF "commitments" \in r.left THEN commitments[r.auctionId]
                              ELSE r.commitments
<1>1. CASE "state" \in r.left /\ n = [r EXCEPT !.state = state(r.auctionId), !.left = @ \ {"state"}]
  <2>1. /\ n.auctionId = r.auctionId /\ n.settlement = r.settlement
        /\ n.left = r.left \ {"state"} /\ n.state = state(r.auctionId)
        /\ n.commitments = r.commitments
    BY <1>1 DEF PollRecord
  <2> QED
    BY <1>1, <2>1
<1>2. CASE /\ "commitments" \in r.left
           /\ n = [r EXCEPT !.commitments = commitments[r.auctionId], !.left = @ \ {"commitments"}]
  <2>1. /\ n.auctionId = r.auctionId /\ n.settlement = r.settlement
        /\ n.left = r.left \ {"commitments"} /\ n.state = r.state
        /\ n.commitments = commitments[r.auctionId]
    BY <1>2 DEF PollRecord
  <2> QED
    BY <1>2, <2>1
<1>3. CASE /\ "committers" \in r.left
           /\ n = [r EXCEPT !.committers = committers[r.auctionId], !.left = @ \ {"committers"}]
  <2>1. /\ n.auctionId = r.auctionId /\ n.settlement = r.settlement
        /\ n.left = r.left \ {"committers"} /\ n.state = r.state
        /\ n.commitments = r.commitments
    BY <1>3 DEF PollRecord
  <2> QED
    BY <1>3, <2>1
<1> QED
  BY <1>1, <1>2, <1>3 DEF ReadView, Becomes

\* A poll in flight goes on to what it has still to read, or is over.
LEMMA PollNarrows ==
  ASSUME PageInv, [PageNext]_pageVars, reading # {}, NEW read
  PROVE  reading' = {} \/ (Asked(read)' => Asked(read))
<1>1. ASSUME NEW r \in reading, ReadView(r)
      PROVE  Asked(read)' => Asked(read)
  <2>1. r \in PollRecord
    BY DEF PageInv, PageTypeOK
  <2>2. \A n \in reading' : n \in reading \/ n.left \subseteq r.left
    BY <1>1, <2>1, ReadViewAdds
  <2> QED
    BY <2>2 DEF Asked
<1>2. ASSUME reading' \subseteq reading
      PROVE  Asked(read)' => Asked(read)
  BY <1>2 DEF Asked
<1>3. CASE ~ \E r \in reading : ReadView(r)
  <2>1. reading' \subseteq reading
    BY <1>3 DEF PageNext, Poll, ReadLogs, NothingToRead, Show, LogsFail, PollFails, BookingRead, Click,
                Remount, Fold, OpenAuction, ClaimAuction, OnChain, pageVars
  <2> QED
    BY <1>2, <2>1
<1> QED
  BY <1>1, <1>3

\* Each step of a poll reads one view more, or ends it.
LEMMA PollAdvances ==
  ASSUME PageInv, reading # {}, opened # <<>>, Poll
  PROVE  reading' = {} \/ \E read \in Reads : Asked(read) /\ ~Asked(read)'
<1>1. CASE \E r \in reading : Show(r)
  BY <1>1, ShowShows
<1>2. ASSUME NEW r \in reading, ReadView(r)
      PROVE  \E read \in Reads : Asked(read) /\ ~Asked(read)'
  <2>1. reading = {r} /\ r \in PollRecord
    BY DEF PageInv, PageTypeOK
  <2>2. PICK read \in Reads :
          /\ read \in r.left
          /\ \A n \in reading' : n.left = r.left \ {read}
    BY <1>2, <2>1 DEF ReadView, Becomes, Reads, PollRecord
  <2> QED
    BY <2>1, <2>2 DEF Asked
<1> QED
  BY <1>1, <1>2 DEF Poll, ReadLogs, NothingToRead

\* What is read of an auction that is over is how it ended.
LEMMA NextReadsTheEnd ==
  ASSUME PageInv, [PageNext]_pageVars, NEW id \in AuctionIds, Over(id), ReadTheEnd(id)
  PROVE  ReadTheEnd(id)'
<1>1. /\ state(id)' = state(id) /\ FinalizedLog(id)' = FinalizedLog(id)
      /\ commitments'[id] = commitments[id]
  BY OverStays
<1>2. SUFFICES ASSUME NEW n \in reading'
               PROVE  /\ n.auctionId = id
                      /\ n.settlement = FinalizedLog(id)
                      /\ "state" \notin n.left => n.state = state(id)
                      /\ "commitments" \notin n.left => n.commitments = commitments[id]
  BY <1>1 DEF ReadTheEnd
<1>3. CASE n \in reading
  BY <1>3 DEF ReadTheEnd
<1>4. CASE ReadLogs
  BY <1>4 DEF ReadLogs, Over, IsNewest, Reads
<1>5. ASSUME NEW r \in reading, ReadView(r), n \notin reading
      PROVE  /\ n.auctionId = id
             /\ n.settlement = FinalizedLog(id)
             /\ "state" \notin n.left => n.state = state(id)
             /\ "commitments" \notin n.left => n.commitments = commitments[id]
  <2>1. r \in PollRecord
    BY DEF PageInv, PageTypeOK
  <2>2. /\ r.auctionId = id /\ r.settlement = FinalizedLog(id)
        /\ "state" \notin r.left => r.state = state(id)
        /\ "commitments" \notin r.left => r.commitments = commitments[id]
    BY DEF ReadTheEnd
  <2> QED
    BY <1>5, <2>1, <2>2, ReadViewAdds
<1>6. CASE n \notin reading /\ ~ReadLogs /\ ~ \E r \in reading : ReadView(r)
  <2>1. reading' \subseteq reading
    BY <1>6 DEF PageNext, Poll, NothingToRead, Show, LogsFail, PollFails, BookingRead, Click,
                Remount, Fold, OpenAuction, ClaimAuction, OnChain, pageVars
  <2> QED
    BY <1>6, <2>1
<1> QED
  BY <1>3, <1>4, <1>5, <1>6

\* A buyer whose auction is over has got back its cap less the payout, beside its own
\* stake and its own winnings.
LEMMA CapBackExact ==
  ASSUME IInv, NEW id \in AuctionIds, state(id) \in Terminal
  PROVE  CapBack(id) = id.payoutCap - auctions[id].payout
<1>1. id.buyer \in Addresses /\ id.payoutCap \in Nat
  BY AuctionIdFields
<1>2. TypeOK /\ BookAgrees /\ auctions[id].payout \in Nat
  BY DEF IInv, TypeOK, AuctionRecord
<1>3. StakesBack(id, NoAddress, id.buyer) =
        IF id.buyer \in hasCommitted[id] THEN SUPPLIER_STAKE ELSE 0
  BY <1>1, <1>2, StakesBackExact
<1>4. paidOut[id][id.buyer] =
        Deposit(id, id.buyer)
          + (IF id.buyer = auctions[id].winner THEN auctions[id].payout ELSE 0)
          - auctions[id].payout
  BY <1>1 DEF IInv, PaidExactly
<1> QED
  BY <1>1, <1>2, <1>3, <1>4, ContractAssumption DEF CapBack, Deposit

\* The card of a finished auction names what it paid, and what came back.
LEMMA RefundShownExact ==
  ASSUME IInv, LogsAgree, NEW id \in AuctionIds, state(id) \in Terminal,
         NEW v, v.auctionId = id, v.settlement = FinalizedLog(id)
  PROVE  refundShown(v) = id.payoutCap - auctions[id].payout
<1>1. auctions[id].payout \in Nat
  BY DEF IInv, TypeOK, AuctionRecord
<1>2. CASE state(id) = "Finalized"
  <2> DEFINE s == [winner |-> auctions[id].winner, payout |-> auctions[id].payout]
  <2>1. v.settlement = {s} /\ (CHOOSE x \in {s} : TRUE) = s
    BY <1>2 DEF FinalizedLog
  <2>2. paysWinner(v) <=> auctions[id].payout > 0
    BY <2>1 DEF paysWinner
  <2>3. refundShown(v) = id.payoutCap - (IF auctions[id].payout > 0 THEN s.payout ELSE 0)
    BY <2>1, <2>2 DEF refundShown
  <2> QED
    BY <1>1, <2>3
<1>3. CASE state(id) # "Finalized"
  <2>1. ~paysWinner(v)
    BY <1>3 DEF FinalizedLog, paysWinner
  <2>2. auctions[id].payout = 0
    BY <1>3 DEF IInv, PayoutIsBacked
  <2> QED
    BY <2>1, <2>2 DEF refundShown
<1> QED
  BY <1>2, <1>3

\* A poll that has read how an auction ended shows it.
LEMMA ShowShowsTheEnd ==
  ASSUME PageInv, NEW id \in AuctionIds, Over(id), ReadTheEnd(id), NEW r \in reading, Show(r)
  PROVE  OutcomeOnPage(id)'
<1>1. /\ IInv /\ LogsAgree /\ r \in PollRecord /\ state(id) \in Terminal
  BY DEF PageInv, PageTypeOK, Over
<1>2. /\ r.left = {} /\ r.auctionId = id /\ r.settlement = FinalizedLog(id)
      /\ r.state = state(id) /\ r.commitments = commitments[id]
  BY DEF ReadTheEnd, Show
<1>3. UNCHANGED vars /\ view' = ViewOf(r) /\ error' = FALSE
  BY DEF Show, chain
<1>4. /\ state(id)' = state(id) /\ FinalizedLog(id)' = FinalizedLog(id)
      /\ CapBack(id)' = CapBack(id)
  BY <1>3 DEF vars, bids, money, state, FinalizedLog, CapBack, StakesBack
<1>5. /\ view'.auctionId = id /\ view'.state = state(id)
      /\ view'.settlement = FinalizedLog(id) /\ view'.bids = rows(r)
  BY <1>2, <1>3 DEF ViewOf
<1>6. refundShown(view)' = CapBack(id)
  BY <1>1, <1>5, CapBackExact, RefundShownExact
<1>7. stakesShown(view)' = Len(committers[id])
  <2>1. Len(rows(r)) = Len(commitments[id])
    BY <1>1, <1>2, RowsType
  <2> QED
    BY <1>1, <1>5, <2>1 DEF stakesShown, IInv, BookAgrees
<1>8. committers'[id] = committers[id]
  BY <1>3 DEF vars, bids
<1> QED
  BY <1>3, <1>4, <1>5, <1>6, <1>7, <1>8 DEF OutcomeOnPage

\* A poll that is neither lost nor failed ends by showing what it has read.
LEMMA PollEndsInShow ==
  ASSUME PageInv, [PageNext]_pageVars, [NoPollIsLost]_pageVars, reading # {}, reading' = {}
  PROVE  \E r \in reading : Show(r)
<1>1. ~UNCHANGED pageVars
  BY DEF pageVars
<1>2. ASSUME NEW r \in reading, ReadView(r)
      PROVE  FALSE
  BY <1>2 DEF ReadView, Becomes
<1> QED
  BY <1>1, <1>2 DEF NoPollIsLost, PageNext, Poll, ReadLogs, NothingToRead, BookingRead, Click, Fold,
                    OpenAuction, ClaimAuction, OnChain

\* use-auction.ts: once the newest auction is over, polling comes to show its outcome, or
\* a newer auction opens; under the fairness of the polling loop and a node that answers
\* in the end.
THEOREM OutcomeEventually == FairPageSpec /\ []PollsCanStep => OutcomeIsShown
<1>1. ASSUME NEW id \in AuctionIds
      PROVE  FairPageSpec /\ []PollsCanStep =>
               (Over(id) ~> (~IsNewest(id) \/ OutcomeOnPage(id)))
  <2>1. PollsCanStep /\ Over(id) => ENABLED <<Poll>>_pageVars
    BY DEF PollsCanStep, Over, IsNewest
  <2>2. PageInv /\ Over(id) /\ [PageNext]_pageVars => Over(id)' \/ ~IsNewest(id)'
    BY OverStays DEF Over
  <2>3. Over(id) /\ reading = {} /\ <<Poll>>_pageVars => ~(reading = {})'
    BY DEF Over, IsNewest, Poll, ReadLogs, NothingToRead
  <2>4. PageInv /\ ~(reading = {}) /\ [PageNext]_pageVars =>
          \/ (reading = {})'
          \/ /\ Asked("state")' => Asked("state")
             /\ Asked("commitments")' => Asked("commitments")
             /\ Asked("committers")' => Asked("committers")
    BY PollNarrows
  <2>5. PageInv /\ Over(id) /\ ~(reading = {}) /\ <<Poll>>_pageVars =>
          \/ (reading = {})'
          \/ Asked("state") /\ ~Asked("state")'
          \/ Asked("commitments") /\ ~Asked("commitments")'
          \/ Asked("committers") /\ ~Asked("committers")'
    BY PollAdvances DEF Over, IsNewest, Reads
  <2>6. reading = {} => ReadTheEnd(id)
    BY DEF ReadTheEnd
  <2>7. PageInv /\ Over(id) /\ ReadTheEnd(id) /\ [PageNext]_pageVars => ReadTheEnd(id)'
    BY NextReadsTheEnd
  <2>8. /\ PageInv /\ Over(id) /\ ReadTheEnd(id) /\ ~(reading = {})
        /\ [PageNext]_pageVars /\ [NoPollIsLost]_pageVars /\ (reading = {})'
        => OutcomeOnPage(id)'
    BY PollEndsInShow, ShowShowsTheEnd
  <2> QED
    BY <2>1, <2>2, <2>3, <2>4, <2>5, <2>6, <2>7, <2>8, PageInvariance, PTL
       DEF FairPageSpec, PageSpec
<1> QED
  BY <1>1 DEF OutcomeIsShown, Over

=============================================================================
