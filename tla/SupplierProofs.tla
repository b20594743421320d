-------------------------- MODULE SupplierProofs --------------------------
(***************************************************************************)
(* Proofs about Supplier, for every number of auctions, calls and logs:    *)
(* the watcher hands every auction on once, and whatever is retried, lost  *)
(* or restarted, the agent posts only what its locked commitment opens.    *)
(***************************************************************************)
EXTENDS Supplier, SealedAuctionProofs

-----------------------------------------------------------------------------
(***************************************************************************)
(* The chain under the agent.                                              *)
(***************************************************************************)

\* Whatever the agent, the relay and other accounts do, the contract sees one of
\* its transactions or nothing.
LEMMA SupNextOnChain ==
  ASSUME SupInv, [SupNext]_supVars
  PROVE  [Next]_vars
<1>1. ASSUME NEW c \in Calls, Submit(c)
      PROVE  [Next]_vars
  <2>1. CASE CommitMined(c) \/ CommitLate(c)
    <3>1. idOf(c) \in AuctionIds
      BY <2>1 DEF SupInv, CallsAreLocked, CommitMined, CommitLate, At
    <3>2. commit(idOf(c), Me, c) /\ Me \in Suppliers /\ c \in Commitments
      BY <2>1, SupplierAssumption DEF CommitMined, CommitLate
    <3> QED
      BY <3>1, <3>2 DEF Next, Commit
  <2>2. CASE ~CommitMined(c) /\ ~CommitLate(c)
    BY <1>1, <2>2 DEF Submit, Call, Approve, CommitReverts, Receipt, RateLimited, WriteThrows,
                      ApproveLate, Post, PostThrows, chain, vars
  <2> QED
    BY <2>1, <2>2
<1>2. ASSUME Watch
      PROVE  [Next]_vars
  BY <1>2 DEF Watch, ReadHead, ReadLogs, PollFails, TermsRead, TermsLost, chain, vars
<1>3. ASSUME NEW id \in AuctionIds, OpenAuction(id)
      PROVE  [Next]_vars
  BY <1>3 DEF OpenAuction, Next, Create
<1>4. ASSUME NEW id \in AuctionIds, EndRun(id)
      PROVE  [Next]_vars
  BY <1>4 DEF EndRun, chain, vars
<1>5. CASE Restart \/ RepeatLog \/ StrangerPosts
  BY <1>5 DEF Restart, RepeatLog, StrangerPosts, chain, vars
<1>6. CASE Time
  BY <1>6 DEF Time, Next
<1>7. CASE UNCHANGED supVars
  BY <1>7 DEF supVars, chain, vars
<1> QED
  BY <1>1, <1>2, <1>3, <1>4, <1>5, <1>6, <1>7 DEF SupNext

\* A commitment that is on chain stays there, at its place and under its committer.
LEMMA LockedStays ==
  ASSUME IInv, [Next]_vars, NEW id \in AuctionIds, NEW c, Locked(id, c)
  PROVE  Locked(id, c)'
<1>1. PICK i \in DOMAIN committers[id] : committers[id][i] = Me /\ commitments[id][i] = c
  BY DEF Locked
<1>2. i \in DOMAIN commitments[id]
  BY DEF IInv, TypeOK, BookAgrees
<1>3. /\ i \in DOMAIN committers'[id] /\ committers'[id][i] = Me
      /\ commitments'[id][i] = c
  BY <1>1, <1>2, NextExtendsBooks DEF Begins
<1> QED
  BY <1>3 DEF Locked

\* A locked commitment is one the contract counts this agent for.
LEMMA LockedIsCommitted ==
  ASSUME IInv, NEW id \in AuctionIds, NEW c, Locked(id, c)
  PROVE  Me \in hasCommitted[id]
BY DEF Locked, IInv, BookAgrees

\* commit, once mined, locks the commitment of the call that sent it.
LEMMA CommitLocks ==
  ASSUME IInv, NEW id \in AuctionIds, NEW c, commit(id, Me, c)
  PROVE  Locked(id, c)'
<1> DEFINE n == Len(committers[id])
<1>1. /\ committers[id] \in Seq(Suppliers) /\ commitments[id] \in Seq(Commitments)
      /\ n \in Nat /\ Len(commitments[id]) = n
  BY DEF IInv, TypeOK, BookAgrees
<1>2. /\ committers'[id] = Append(committers[id], Me)
      /\ commitments'[id] = Append(commitments[id], c)
  BY DEF IInv, TypeOK, commit
<1>3. /\ n + 1 \in DOMAIN committers'[id] /\ committers'[id][n + 1] = Me
      /\ commitments'[id][n + 1] = c
  BY <1>1, <1>2
<1> QED
  BY <1>3 DEF Locked


-----------------------------------------------------------------------------
(***************************************************************************)
(* Types.                                                                  *)
(***************************************************************************)

\* An agent that has just started keeps its types.
LEMMA InitSupTypeOK == SupInit => SupTypeOK
BY InitTypeOK, SupplierAssumption, ContractAssumption
   DEF SupInit, SupTypeOK, CallRecord, Fresh

\* A poll keeps the types: its head is one the log has reached, and nextBlock
\* follows it.
LEMMA WatchTypeOK ==
  ASSUME SupTypeOK, TypeOK', Watch
  PROVE  SupTypeOK'
<1>1. Len(published) \in Nat /\ DOMAIN published = 1..Len(published)
  BY DEF SupTypeOK
<1>2. firstLog \in Nat /\ nextLog \in Nat /\ firstLog >= 1 /\ nextLog >= firstLog
  BY SupplierAssumption DEF SupTypeOK
<1>3. CASE ReadHead
  BY <1>1, <1>2, <1>3 DEF ReadHead, SupTypeOK, bidder
<1>4. CASE ReadLogs
  <2> DEFINE fresh == {published[i] : i \in nextLog..latest} \ seen
  <2>1. latest \in nextLog..Len(published)
    BY <1>4 DEF ReadLogs, SupTypeOK
  <2>2. fresh \subseteq AuctionIds
    <3>1. \A i \in nextLog..latest : i \in 1..Len(published)
      BY <1>1, <1>2, <2>1
    <3> QED
      BY <1>1, <3>1 DEF SupTypeOK
  <2>3. /\ nextLog' = latest + 1 /\ latest' = 0 /\ seen' = seen \cup fresh
        /\ reads' = [id \in AuctionIds |-> reads[id] + (IF id \in fresh THEN 1 ELSE 0)]
    BY <1>4 DEF ReadLogs
  <2> HIDE DEF fresh
  <2>4. nextLog' \in firstLog..(Len(published) + 1)
    BY <1>1, <1>2, <2>1, <2>3
  <2>5. reads' \in [AuctionIds -> Nat]
    BY <2>3 DEF SupTypeOK
  <2>6. seen' \subseteq AuctionIds
    BY <2>2, <2>3 DEF SupTypeOK
  <2>7. UNCHANGED <<published, allowance, slot, firstLog, starts, ended, committed, submitted,
                    calls>>
    BY <1>4 DEF ReadLogs, bidder
  <2> QED
    BY <2>3, <2>4, <2>5, <2>6, <2>7 DEF SupTypeOK
<1>5. CASE PollFails
  BY <1>5 DEF PollFails, SupTypeOK, bidder
<1>6. ASSUME NEW id \in AuctionIds, TermsRead(id) \/ TermsLost(id)
      PROVE  SupTypeOK'
  <2>1. reads' \in [AuctionIds -> Nat] /\ starts' \in [AuctionIds -> Nat]
    <3>1. /\ reads \in [AuctionIds -> Nat] /\ starts \in [AuctionIds -> Nat]
          /\ reads[id] > 0
      BY <1>6 DEF TermsRead, TermsLost, SupTypeOK
    <3>2. reads[id] - 1 \in Nat /\ starts[id] + 1 \in Nat
      BY <3>1
    <3> QED
      BY <1>6, <3>1, <3>2 DEF TermsRead, TermsLost, bidder
  <2> QED
    BY <1>6, <2>1 DEF TermsRead, TermsLost, SupTypeOK, bidder
<1> QED
  BY <1>3, <1>4, <1>5, <1>6 DEF Watch

\* Where a call that nobody waits for any more is left.
LEMMA GivenUpIs ==
  ASSUME NEW pc
  PROVE  givenUp(pc) \in {"approveLost", "commitLost", "failed"}
BY DEF givenUp

\* The steps of a call keep the types: an allowance is one stake or none, for
\* approve sets it and commit takes it whole.
LEMMA SubmitTypeOK ==
  ASSUME SupInv, TypeOK', NEW c \in Calls, Submit(c)
  PROVE  SupTypeOK'
<1>1. SUPPLIER_STAKE \in Nat
  BY ContractAssumption
<1>2. ASSUME calls' \in [Calls -> CallRecord],
             allowance' \in {0, SUPPLIER_STAKE},
             slot' \in [AuctionIds -> Calls \cup {Empty, Stranger}],
             committed' \subseteq AuctionIds, submitted' \subseteq AuctionIds,
             UNCHANGED <<published, watcher, starts, ended>>
      PROVE  SupTypeOK'
  BY <1>2 DEF SupInv, SupTypeOK, watcher
<1>3. ASSUME NEW pc \in {"approve", "approved", "commit", "committed", "post", "done",
                        "approveLost", "commitLost", "failed"},
             Go(c, pc)
      PROVE  calls' \in [Calls -> CallRecord]
  BY <1>3 DEF Go, SupInv, SupTypeOK, CallRecord
<1>4. ~At(c, "fresh") => idOf(c) \in AuctionIds
  BY DEF SupInv, CallsAreLocked
<1>5. /\ calls \in [Calls -> CallRecord] /\ allowance \in {0, SUPPLIER_STAKE}
      /\ slot \in [AuctionIds -> Calls \cup {Empty, Stranger}]
      /\ committed \subseteq AuctionIds /\ submitted \subseteq AuctionIds
  BY DEF SupInv, SupTypeOK
<1>6. ASSUME NEW id \in AuctionIds, Call(c, id)
      PROVE  SupTypeOK'
  <2>1. calls' \in [Calls -> CallRecord]
    BY <1>5, <1>6 DEF Call, CallRecord
  <2> QED
    BY <1>2, <1>5, <1>6, <2>1 DEF Call, bidder
<1>7. CASE Approve(c) \/ ApproveLate(c)
  BY <1>2, <1>3, <1>5, <1>7 DEF Approve, ApproveLate, bidder
<1>8. CASE CommitMined(c) \/ CommitLate(c)
  <2>1. allowance' \in {0, SUPPLIER_STAKE}
    BY <1>1, <1>5, <1>8 DEF CommitMined, CommitLate
  <2> QED
    BY <1>2, <1>3, <1>5, <1>8, <2>1 DEF CommitMined, CommitLate, bidder
<1>9. CASE CommitReverts(c)
  BY <1>2, <1>3, <1>5, <1>9 DEF CommitReverts, bidder
<1>10. CASE Receipt(c)
  BY <1>2, <1>3, <1>4, <1>5, <1>10 DEF Receipt, At
<1>11. CASE RateLimited(c)
  BY <1>2, <1>3, <1>5, <1>11 DEF RateLimited, bidder
<1>12. CASE WriteThrows(c)
  BY <1>2, <1>3, <1>5, <1>12, GivenUpIs DEF WriteThrows, bidder
<1>13. CASE Post(c)
  <2>1. idOf(c) \in AuctionIds
    BY <1>4, <1>13 DEF Post, At
  <2>2. slot' \in [AuctionIds -> Calls \cup {Empty, Stranger}]
    BY <1>5, <1>13 DEF Post
  <2> QED
    BY <1>2, <1>3, <1>5, <1>13, <2>1, <2>2 DEF Post
<1>14. CASE PostThrows(c)
  <2>1. slot' \in [AuctionIds -> Calls \cup {Empty, Stranger}]
    BY <1>5, <1>14 DEF PostThrows
  <2> QED
    BY <1>2, <1>3, <1>5, <1>14, <2>1 DEF PostThrows, bidder
<1> QED
  BY <1>6, <1>7, <1>8, <1>9, <1>10, <1>11, <1>12, <1>13, <1>14 DEF Submit

\* Every step of the composition keeps the types.
LEMMA NextSupTypeOK ==
  ASSUME SupInv, [SupNext]_supVars
  PROVE  SupTypeOK'
<1>1. TypeOK'
  BY SupNextOnChain, NextTypeOK DEF SupInv, SupTypeOK
<1>2. SupTypeOK
  BY DEF SupInv
<1>3. Len(published) \in Nat /\ MaxLogs \in Nat
  BY <1>2, SupplierAssumption DEF SupTypeOK
<1>4. ASSUME NEW id \in AuctionIds, EndRun(id)
      PROVE  SupTypeOK'
  BY <1>1, <1>2, <1>4 DEF EndRun, SupTypeOK, watcher
<1>5. ASSUME NEW id \in AuctionIds, Len(published) < MaxLogs, published' = Append(published, id),
             UNCHANGED <<allowance, slot, watcher, bidder, calls>>
      PROVE  SupTypeOK'
  <2>1. published' \in Seq(AuctionIds) /\ Len(published') = Len(published) + 1
    BY <1>2, <1>5 DEF SupTypeOK
  <2>2. /\ UNCHANGED <<firstLog, nextLog, latest, seen, reads>>
        /\ UNCHANGED <<starts, ended, committed, submitted, allowance, slot, calls>>
    BY <1>5 DEF watcher, bidder
  <2>3. Len(published') <= MaxLogs
    BY <1>3, <1>5, <2>1
  <2>4. /\ nextLog' \in firstLog'..(Len(published') + 1)
        /\ latest' = 0 \/ latest' \in nextLog'..Len(published')
    <3>1. firstLog \in Int /\ nextLog \in firstLog..(Len(published) + 1)
      BY <1>2 DEF SupTypeOK
    <3>2. latest = 0 \/ latest \in nextLog..Len(published)
      BY <1>2 DEF SupTypeOK
    <3> QED
      BY <1>3, <2>1, <2>2, <3>1, <3>2
  <2> QED
    BY <1>1, <1>2, <2>1, <2>2, <2>3, <2>4 DEF SupTypeOK
<1>6. CASE RepeatLog
  <2>1. PICK i \in DOMAIN published : published' = Append(published, published[i])
    BY <1>6 DEF RepeatLog
  <2>2. published[i] \in AuctionIds
    BY <1>2 DEF SupTypeOK
  <2> QED
    BY <1>5, <1>6, <2>1, <2>2 DEF RepeatLog
<1>7. CASE Restart
  <2>1. calls' \in [Calls -> CallRecord]
    BY <1>2, <1>7, GivenUpIs DEF Restart, SupTypeOK, CallRecord, Fresh
  <2>2. firstLog' \in 1..(Len(published) + 1) /\ nextLog' = firstLog' /\ UNCHANGED published
    BY <1>2, <1>3, <1>7 DEF Restart, SupTypeOK
  <2>3. firstLog' \in 1..(MaxLogs + 1) /\ nextLog' \in firstLog'..(Len(published') + 1)
    BY <1>2, <1>3, <2>2 DEF SupTypeOK
  <2>4. UNCHANGED <<allowance, slot>> /\ latest' = 0
    BY <1>7 DEF Restart
  <2>5. /\ seen' \subseteq AuctionIds /\ ended' \subseteq AuctionIds
        /\ committed' \subseteq AuctionIds /\ submitted' \subseteq AuctionIds
        /\ reads' \in [AuctionIds -> Nat] /\ starts' \in [AuctionIds -> Nat]
    BY <1>7 DEF Restart
  <2> QED
    BY <1>1, <1>2, <2>1, <2>2, <2>3, <2>4, <2>5 DEF SupTypeOK
<1>8. CASE StrangerPosts
  BY <1>1, <1>2, <1>8 DEF StrangerPosts, SupTypeOK, watcher, bidder
<1>9. CASE Time
  BY <1>1, <1>2, <1>9 DEF Time, SupTypeOK, watcher, bidder
<1>10. CASE UNCHANGED supVars
  BY <1>1, <1>2, <1>10 DEF supVars, SupTypeOK, watcher, bidder
<1> QED
  BY <1>1, <1>2, <1>4, <1>5, <1>6, <1>7, <1>8, <1>9, <1>10, WatchTypeOK, SubmitTypeOK
     DEF SupNext, OpenAuction

-----------------------------------------------------------------------------
(***************************************************************************)
(* The watcher.  That no log is skipped rests on the poll keeping the head *)
(* it read; that an auction fires once, on its id being marked seen before *)
(* anything is awaited.                                                    *)
(***************************************************************************)
WatchInv == NoLogIsSkipped /\ OneRunPerAuction /\ RunsStemFromSeen

\* What leaves the watcher alone and only adds logs takes nothing from it.
LEMMA WatcherIdle ==
  ASSUME SupTypeOK, WatchInv, Begins(published, published'),
         UNCHANGED <<firstLog, nextLog, seen, reads, starts>>
  PROVE  WatchInv'
<1>1. \A i \in firstLog..(nextLog - 1) : i \in DOMAIN published
  BY SupplierAssumption DEF SupTypeOK
<1>2. NoLogIsSkipped'
  BY <1>1 DEF WatchInv, NoLogIsSkipped, Begins
<1> QED
  BY <1>2 DEF WatchInv, OneRunPerAuction, RunsStemFromSeen

\* getLogs answers: every id up to the head is marked seen, and only a new one
\* starts a read of its terms.
LEMMA ReadLogsWatches ==
  ASSUME SupTypeOK, WatchInv, ReadLogs
  PROVE  WatchInv'
<1> DEFINE fresh == {published[i] : i \in nextLog..latest} \ seen
<1>1. /\ nextLog' = latest + 1 /\ seen' = seen \cup fresh
      /\ reads' = [id \in AuctionIds |-> reads[id] + (IF id \in fresh THEN 1 ELSE 0)]
      /\ UNCHANGED <<published, firstLog, starts>>
  BY DEF ReadLogs, bidder
<1>2. nextLog \in Int /\ latest \in Int /\ firstLog \in Int
  BY SupplierAssumption DEF SupTypeOK
<1>3. NoLogIsSkipped'
  <2> SUFFICES ASSUME NEW i \in firstLog..latest
               PROVE  published[i] \in seen \cup fresh
    BY <1>1, <1>2 DEF NoLogIsSkipped
  <2>1. CASE i < nextLog
    BY <1>2, <2>1 DEF WatchInv, NoLogIsSkipped
  <2>2. CASE i >= nextLog
    BY <1>2, <2>2
  <2> QED
    BY <1>2, <2>1, <2>2
<1>4. ASSUME NEW id \in AuctionIds
      PROVE  /\ reads'[id] + starts'[id] <= 1
             /\ reads'[id] + starts'[id] > 0 => id \in seen'
  <2>1. reads[id] \in Nat /\ starts[id] \in Nat
    BY DEF SupTypeOK
  <2>2. reads'[id] = reads[id] + (IF id \in fresh THEN 1 ELSE 0) /\ starts'[id] = starts[id]
    BY <1>1
  <2>3. id \in fresh => id \notin seen
    OBVIOUS
  <2> HIDE DEF fresh
  <2>4. CASE id \in fresh
    BY <1>1, <2>1, <2>2, <2>3, <2>4 DEF WatchInv, RunsStemFromSeen
  <2>5. CASE id \notin fresh
    BY <1>1, <2>1, <2>2, <2>5 DEF WatchInv, OneRunPerAuction, RunsStemFromSeen
  <2> QED
    BY <2>4, <2>5
<1> QED
  BY <1>3, <1>4 DEF WatchInv, OneRunPerAuction, RunsStemFromSeen

\* auctionTerms answers or fails: a read becomes a run, or nothing.
LEMMA TermsWatch ==
  ASSUME SupTypeOK, WatchInv, NEW id \in AuctionIds, TermsRead(id) \/ TermsLost(id)
  PROVE  WatchInv'
<1>1. UNCHANGED <<published, firstLog, nextLog, seen>>
  BY DEF TermsRead, TermsLost
<1>2. NoLogIsSkipped'
  BY <1>1 DEF WatchInv, NoLogIsSkipped
<1>3. ASSUME NEW x \in AuctionIds
      PROVE  reads'[x] + starts'[x] <= reads[x] + starts[x]
  <2>1. reads[x] \in Nat /\ starts[x] \in Nat
    BY DEF SupTypeOK
  <2>2. CASE TermsRead(id)
    BY <2>1, <2>2 DEF TermsRead, SupTypeOK
  <2>3. CASE TermsLost(id)
    <3>1. /\ reads'[x] = reads[x] \/ reads'[x] = reads[x] - 1
          /\ starts' = starts
      BY <2>3 DEF TermsLost, SupTypeOK, bidder
    <3> QED
      BY <2>1, <3>1
  <2> QED
    BY <2>2, <2>3
<1>4. \A x \in AuctionIds : /\ reads[x] + starts[x] \in Int
                            /\ reads'[x] + starts'[x] \in Int
  <2>1. /\ reads \in [AuctionIds -> Nat] /\ starts \in [AuctionIds -> Nat]
        /\ reads[id] - 1 \in Int
    BY DEF SupTypeOK
  <2>2. \A x \in AuctionIds : reads'[x] \in Int /\ starts'[x] \in Int
    BY <2>1 DEF TermsRead, TermsLost, bidder
  <2> QED
    BY <2>1, <2>2
<1> QED
  BY <1>1, <1>2, <1>3, <1>4 DEF WatchInv, OneRunPerAuction, RunsStemFromSeen

\* Every step of the composition keeps the watcher's promises; a restart forgets
\* them all at once.
LEMMA NextWatchInv ==
  ASSUME SupInv, [SupNext]_supVars
  PROVE  WatchInv'
<1>1. SupTypeOK /\ WatchInv
  BY DEF SupInv, WatchInv
<1>2. Begins(published, published)
  BY DEF Begins
<1>3. ASSUME NEW id, published' = Append(published, id)
      PROVE  Begins(published, published')
  BY <1>1, <1>3 DEF SupTypeOK, Begins
<1>4. CASE Watch
  <2>1. ASSUME ReadHead \/ PollFails
        PROVE  WatchInv'
    BY <1>1, <1>2, <2>1, WatcherIdle DEF ReadHead, PollFails, bidder
  <2> QED
    BY <1>1, <1>4, <2>1, ReadLogsWatches, TermsWatch DEF Watch
<1>5. ASSUME NEW c \in Calls, Submit(c)
      PROVE  WatchInv'
  <2>1. UNCHANGED <<published, firstLog, nextLog, seen, reads, starts>>
    BY <1>5 DEF Submit, Call, Approve, CommitMined, CommitReverts, Receipt, RateLimited,
                WriteThrows, ApproveLate, CommitLate, Post, PostThrows, watcher, bidder
  <2> QED
    BY <1>1, <1>2, <2>1, WatcherIdle
<1>6. ASSUME NEW id \in AuctionIds, EndRun(id)
      PROVE  WatchInv'
  BY <1>1, <1>2, <1>6, WatcherIdle DEF EndRun, watcher
<1>7. ASSUME NEW id \in AuctionIds, OpenAuction(id)
      PROVE  WatchInv'
  BY <1>1, <1>3, <1>7, WatcherIdle DEF OpenAuction, watcher, bidder
<1>8. CASE Restart
  <2>1. /\ nextLog' = firstLog' /\ firstLog' \in {Len(published), Len(published) + 1}
        /\ \A id \in AuctionIds : reads'[id] = 0 /\ starts'[id] = 0
    BY <1>8 DEF Restart
  <2>2. Len(published) \in Nat
    BY <1>1 DEF SupTypeOK
  <2> QED
    BY <2>1, <2>2 DEF WatchInv, NoLogIsSkipped, OneRunPerAuction, RunsStemFromSeen
<1>9. CASE RepeatLog
  BY <1>1, <1>3, <1>9, WatcherIdle DEF RepeatLog, watcher, bidder
<1>10. CASE StrangerPosts \/ Time \/ UNCHANGED supVars
  BY <1>1, <1>2, <1>10, WatcherIdle DEF StrangerPosts, Time, supVars, watcher, bidder
<1> QED
  BY <1>4, <1>5, <1>6, <1>7, <1>8, <1>9, <1>10 DEF SupNext

-----------------------------------------------------------------------------
(***************************************************************************)
(* The calls of submitBid.  A sealed bid reaches the relay only from a     *)
(* call that is locked, and a call is locked by its own commit alone; what *)
(* is on chain stays there, so nothing that happens to a call later undoes *)
(* it.                                                                     *)
(***************************************************************************)
CallsInv == CallsAreLocked /\ PostedOpensCommitment /\ RunsRememberTruly

Advanced == {"committed", "post", "done"}

\* A step after which no call is further than before, no run remembers more and no
\* slot holds another bid of this agent keeps the promises of submitBid.
LEMMA CallsKept ==
  ASSUME IInv, [Next]_vars, SupTypeOK, CallsInv,
         \A d \in Calls :
           /\ calls'[d].pc = "fresh" \/ calls'[d].auctionId \in AuctionIds
           /\ calls'[d].pc \in Advanced =>
                calls[d].pc \in Advanced /\ calls'[d].auctionId = calls[d].auctionId,
         committed' \subseteq committed, submitted' \subseteq submitted,
         \A id \in AuctionIds :
           slot[id] \in Calls \/ slot'[id] \in Calls => slot'[id] = slot[id]
  PROVE  CallsInv'
<1>1. CallsAreLocked'
  <2> SUFFICES ASSUME NEW d \in Calls, NEW id, calls'[d].auctionId = id,
                      calls'[d].pc \in Advanced
               PROVE  Locked(id, d)'
    BY DEF CallsAreLocked, At, idOf, Advanced, Locked
  <2>1. id \in AuctionIds /\ Locked(id, d)
    BY DEF CallsInv, CallsAreLocked, At, idOf, Advanced
  <2> QED
    BY <2>1, LockedStays
<1>2. PostedOpensCommitment'
  <2> SUFFICES ASSUME NEW id \in AuctionIds, NEW d \in Calls, slot'[id] = d
               PROVE  Locked(id, d)'
    BY DEF PostedOpensCommitment, Locked
  <2>1. Locked(id, d)
    BY DEF CallsInv, PostedOpensCommitment, Locked
  <2> QED
    BY <2>1, LockedStays
<1>3. RunsRememberTruly'
  <2>1. \A id \in committed' : Me \in hasCommitted'[id]
    BY NextExtendsBooks DEF CallsInv, RunsRememberTruly, SupTypeOK
  <2>2. \A id \in submitted' : slot'[id] \in Calls
    BY DEF CallsInv, RunsRememberTruly, SupTypeOK
  <2> QED
    BY <2>1, <2>2 DEF RunsRememberTruly
<1> QED
  BY <1>1, <1>2, <1>3 DEF CallsInv

\* The commit of a call is mined, waited for or not: it locks that call's own commitment.
LEMMA CommitMinedKeeps ==
  ASSUME SupInv, [Next]_vars, NEW c \in Calls, CommitMined(c) \/ CommitLate(c)
  PROVE  CallsInv'
<1>1. IInv /\ SupTypeOK /\ CallsInv
  BY DEF SupInv, CallsInv
<1>2. /\ idOf(c) \in AuctionIds /\ commit(idOf(c), Me, c)
      /\ \E pc : calls' = [calls EXCEPT ![c].pc = pc]
      /\ UNCHANGED <<slot, committed, submitted>>
  BY <1>1 DEF CommitMined, CommitLate, At, Go, CallsInv, CallsAreLocked, bidder
<1>3. CallsAreLocked'
  <2> SUFFICES ASSUME NEW d \in Calls, NEW id, calls'[d].auctionId = id
               PROVE  /\ calls'[d].pc = "fresh" \/ id \in AuctionIds
                      /\ calls'[d].pc \in Advanced => Locked(id, d)'
    BY DEF CallsAreLocked, At, idOf, Advanced, Locked
  <2>1. CASE d = c
    <3>1. id = idOf(c)
      BY <1>1, <1>2, <2>1 DEF SupTypeOK, CallRecord, idOf
    <3>2. id \in AuctionIds /\ commit(id, Me, c)
      BY <1>2, <3>1
    <3> QED
      BY <1>1, <2>1, <3>2, CommitLocks
  <2>2. CASE d # c
    <3>1. calls'[d] = calls[d]
      BY <1>1, <1>2, <2>2 DEF SupTypeOK
    <3>2. calls[d].pc = "fresh" \/ id \in AuctionIds
      BY <1>1, <3>1 DEF CallsInv, CallsAreLocked, At, idOf
    <3>3. ASSUME calls[d].pc \in Advanced
          PROVE  Locked(id, d)'
      <4>1. id \in AuctionIds /\ Locked(id, d)
        BY <1>1, <3>1, <3>3 DEF CallsInv, CallsAreLocked, At, idOf, Advanced
      <4> QED
        BY <1>1, <4>1, LockedStays
    <3> QED
      BY <3>1, <3>2, <3>3
  <2> QED
    BY <2>1, <2>2
<1>4. PostedOpensCommitment'
  <2> SUFFICES ASSUME NEW id \in AuctionIds, NEW d \in Calls, slot[id] = d
               PROVE  Locked(id, d)'
    BY <1>2 DEF PostedOpensCommitment, Locked
  <2>1. Locked(id, d)
    BY <1>1 DEF CallsInv, PostedOpensCommitment, Locked
  <2> QED
    BY <1>1, <2>1, LockedStays
<1>5. RunsRememberTruly'
  BY <1>1, <1>2, NextExtendsBooks DEF CallsInv, RunsRememberTruly, SupTypeOK
<1> QED
  BY <1>3, <1>4, <1>5 DEF CallsInv

\* A call that is locked stays so wherever it goes next.
LEMMA LockedMovesOn ==
  ASSUME SupTypeOK, CallsInv, UNCHANGED vars, NEW c \in Calls, NEW pc,
         calls[c].pc \in Advanced, Go(c, pc)
  PROVE  CallsAreLocked'
<1> SUFFICES ASSUME NEW d \in Calls
             PROVE  /\ calls'[d].pc = "fresh" \/ calls'[d].auctionId \in AuctionIds
                    /\ calls'[d].pc \in Advanced => Locked(calls[d].auctionId, d)
                    /\ calls'[d].auctionId = calls[d].auctionId
  BY DEF CallsAreLocked, At, idOf, Advanced, Locked, vars
<1>1. calls'[d].auctionId = calls[d].auctionId
  BY DEF Go, SupTypeOK, CallRecord
<1>2. d # c => calls'[d].pc = calls[d].pc
  BY DEF Go, SupTypeOK
<1>3. d = c => calls[d].pc \in Advanced
  OBVIOUS
<1>4. /\ calls[d].pc = "fresh" \/ calls[d].auctionId \in AuctionIds
      /\ calls[d].pc \in Advanced => Locked(calls[d].auctionId, d)
  BY DEF CallsInv, CallsAreLocked, At, idOf, Advanced
<1>5. calls[d].pc \in Advanced => calls[d].pc # "fresh"
  BY DEF Advanced
<1> QED
  BY <1>1, <1>2, <1>3, <1>4, <1>5

\* The receipt of a commit lets the run remember a stake that is locked.
LEMMA ReceiptKeeps ==
  ASSUME SupInv, [Next]_vars, NEW c \in Calls, Receipt(c)
  PROVE  CallsInv'
<1>1. IInv /\ SupTypeOK /\ CallsInv
  BY DEF SupInv, CallsInv
<1>2. UNCHANGED <<vars, slot, submitted>>
  BY DEF Receipt, chain, vars
<1>3. CASE At(c, "approved")
  <2>1. Go(c, "commit") /\ UNCHANGED committed
    BY <1>3 DEF Receipt, At
  <2>2. \A d \in Calls :
          /\ calls'[d].pc = "fresh" \/ calls'[d].auctionId \in AuctionIds
          /\ calls'[d].pc \in Advanced =>
               calls[d].pc \in Advanced /\ calls'[d].auctionId = calls[d].auctionId
    BY <1>1, <1>3, <2>1 DEF Go, At, idOf, SupTypeOK, CallRecord, CallsInv, CallsAreLocked, Advanced
  <2> QED
    BY <1>1, <1>2, <2>1, <2>2, CallsKept
<1>4. CASE At(c, "committed")
  <2>1. Go(c, "post") /\ committed' = committed \cup {idOf(c)}
    BY <1>4 DEF Receipt, At
  <2>2. idOf(c) \in AuctionIds /\ Locked(idOf(c), c)
    BY <1>1, <1>4 DEF At, CallsInv, CallsAreLocked
  <2>3. Me \in hasCommitted[idOf(c)]
    BY <1>1, <2>2, LockedIsCommitted
  <2>4. CallsAreLocked'
    BY <1>1, <1>2, <1>4, <2>1, LockedMovesOn DEF At, Advanced
  <2>5. PostedOpensCommitment'
    BY <1>1, <1>2 DEF vars, CallsInv, PostedOpensCommitment
  <2>6. RunsRememberTruly'
    BY <1>1, <1>2, <2>1, <2>3 DEF vars, CallsInv, RunsRememberTruly
  <2> QED
    BY <2>4, <2>5, <2>6 DEF CallsInv
<1> QED
  BY <1>3, <1>4 DEF Receipt

\* A post, answered or not, puts the bid of a locked call into a slot that is empty
\* and leaves any other slot as it is.
LEMMA PostKeeps ==
  ASSUME SupInv, [Next]_vars, NEW c \in Calls, Post(c) \/ PostThrows(c)
  PROVE  CallsInv'
<1>1. IInv /\ SupTypeOK /\ CallsInv
  BY DEF SupInv, CallsInv
<1>2. UNCHANGED <<vars, committed>>
  BY DEF Post, PostThrows, chain, vars, bidder
<1>3. idOf(c) \in AuctionIds /\ Locked(idOf(c), c) /\ At(c, "post")
  BY <1>1 DEF Post, PostThrows, At, CallsInv, CallsAreLocked
<1>4. Go(c, "done") \/ Go(c, "failed")
  BY DEF Post, PostThrows
<1>5. \A id \in AuctionIds :
        \/ slot'[id] = slot[id]
        \/ id = idOf(c) /\ slot[id] = Empty /\ slot'[id] = c
  BY <1>1, <1>3 DEF Post, PostThrows, SupTypeOK
<1>6. CallsAreLocked'
  BY <1>1, <1>2, <1>3, <1>4, LockedMovesOn DEF At, Advanced
<1>7. PostedOpensCommitment'
  BY <1>1, <1>2, <1>3, <1>5 DEF vars, CallsInv, PostedOpensCommitment, Locked
<1>8. RunsRememberTruly'
  <2>1. \A id \in submitted' : id \in submitted \/ (id = idOf(c) /\ slot'[id] = c)
    BY <1>1, <1>3 DEF Post, PostThrows, SupTypeOK, bidder
  <2> QED
    BY <1>1, <1>2, <1>5, <2>1, SupplierAssumption DEF vars, CallsInv, RunsRememberTruly, SupTypeOK
<1> QED
  BY <1>6, <1>7, <1>8 DEF CallsInv

\* Every step of the composition keeps the promises of submitBid.
LEMMA NextCallsInv ==
  ASSUME SupInv, [SupNext]_supVars
  PROVE  CallsInv'
<1>1. IInv /\ SupTypeOK /\ CallsInv /\ [Next]_vars
  BY SupNextOnChain DEF SupInv, CallsInv
<1> DEFINE NoFurther ==
             \A d \in Calls :
               /\ calls'[d].pc = "fresh" \/ calls'[d].auctionId \in AuctionIds
               /\ calls'[d].pc \in Advanced =>
                    calls[d].pc \in Advanced /\ calls'[d].auctionId = calls[d].auctionId
<1>2. ASSUME UNCHANGED calls
      PROVE  NoFurther
  BY <1>1, <1>2 DEF CallsInv, CallsAreLocked, At, idOf
<1>3. ASSUME NEW c \in Calls, ~At(c, "fresh"),
             NEW pc \in {"approve", "approved", "commit", "approveLost", "commitLost", "failed"},
             Go(c, pc)
      PROVE  NoFurther
  BY <1>1, <1>3 DEF SupTypeOK, CallRecord, CallsInv, CallsAreLocked, At, Go, idOf, Advanced
<1>4. ASSUME NEW c \in Calls, Submit(c)
      PROVE  CallsInv'
  <2>1. CASE CommitMined(c) \/ CommitLate(c) \/ Receipt(c) \/ Post(c) \/ PostThrows(c)
    BY <1>1, <2>1, CommitMinedKeeps, ReceiptKeeps, PostKeeps
  <2>2. ASSUME NEW id \in AuctionIds, Call(c, id)
        PROVE  CallsInv'
    <3>1. NoFurther
      BY <1>1, <2>2 DEF Call, SupTypeOK, CallRecord, CallsInv, CallsAreLocked, At, idOf, Advanced
    <3> QED
      BY <1>1, <2>2, <3>1, CallsKept DEF Call, bidder
  <2>3. CASE Approve(c) \/ CommitReverts(c) \/ RateLimited(c) \/ WriteThrows(c) \/ ApproveLate(c)
    <3>1. NoFurther
      BY <1>3, <2>3, GivenUpIs DEF Approve, CommitReverts, RateLimited, WriteThrows, ApproveLate, At
    <3>2. UNCHANGED <<slot, committed, submitted>>
      BY <2>3 DEF Approve, CommitReverts, RateLimited, WriteThrows, ApproveLate, bidder
    <3> QED
      BY <1>1, <3>1, <3>2, CallsKept
  <2> QED
    BY <1>4, <2>1, <2>2, <2>3 DEF Submit
<1>5. CASE Restart
  <2>1. NoFurther
    BY <1>1, <1>5, GivenUpIs
       DEF Restart, Fresh, SupTypeOK, CallRecord, CallsInv, CallsAreLocked, At, idOf, Advanced
  <2> QED
    BY <1>1, <1>5, <2>1, CallsKept DEF Restart
<1>6. CASE StrangerPosts
  <2>1. \A id \in AuctionIds : slot[id] \in Calls \/ slot'[id] \in Calls => slot'[id] = slot[id]
    BY <1>1, <1>6, SupplierAssumption DEF StrangerPosts, SupTypeOK
  <2> QED
    BY <1>1, <1>2, <1>6, <2>1, CallsKept DEF StrangerPosts, bidder
<1>7. ASSUME UNCHANGED <<slot, committed, submitted, calls>>
      PROVE  CallsInv'
  BY <1>1, <1>2, <1>7, CallsKept
<1>8. CASE Watch
  BY <1>7, <1>8 DEF Watch, ReadHead, ReadLogs, PollFails, TermsRead, TermsLost, bidder
<1>9. ASSUME NEW id \in AuctionIds, EndRun(id) \/ OpenAuction(id)
      PROVE  CallsInv'
  BY <1>7, <1>9 DEF EndRun, OpenAuction, bidder
<1>10. CASE RepeatLog \/ Time \/ UNCHANGED supVars
  BY <1>7, <1>10 DEF RepeatLog, Time, supVars, bidder
<1> QED
  BY <1>4, <1>5, <1>6, <1>8, <1>9, <1>10 DEF SupNext

-----------------------------------------------------------------------------
(***************************************************************************)
(* Theorems.                                                               *)
(***************************************************************************)

\* The inductive invariant holds of an agent that has just started.
LEMMA InitSupInv == SupInit => SupInv
<1> SUFFICES ASSUME SupInit PROVE SupInv
  OBVIOUS
<1>1. IInv /\ SupTypeOK
  BY InitIInv, InitSupTypeOK DEF SupInit
<1>2. NoLogIsSkipped /\ OneRunPerAuction /\ RunsStemFromSeen
  BY DEF SupInit, NoLogIsSkipped, OneRunPerAuction, RunsStemFromSeen
<1>3. CallsAreLocked /\ PostedOpensCommitment /\ RunsRememberTruly
  BY SupplierAssumption
     DEF SupInit, Fresh, CallsAreLocked, At, PostedOpensCommitment, RunsRememberTruly
<1> QED
  BY <1>1, <1>2, <1>3 DEF SupInv

\* Every step of the composition keeps the inductive invariant.
LEMMA NextSupInv == SupInv /\ [SupNext]_supVars => SupInv'
<1> SUFFICES ASSUME SupInv, [SupNext]_supVars PROVE SupInv'
  OBVIOUS
<1>1. IInv'
  BY SupNextOnChain, NextIInv DEF SupInv
<1> QED
  BY <1>1, NextSupTypeOK, NextWatchInv, NextCallsInv DEF SupInv, WatchInv, CallsInv

\* The inductive invariant of the agent and the contract under it holds in every
\* reachable state: the properties below follow from it.
THEOREM SupplierInvariance == SupSpec => []SupInv
<1> QED
  BY InitSupInv, NextSupInv, PTL DEF SupSpec

\* Under the agent the contract takes only steps of its own specification, so everything
\* proved of the contract holds of the composition.
THEOREM SupplierOnChain == SupSpec => Spec
<1>1. SupInit => Init
  BY DEF SupInit
<1>2. SupInv /\ [SupNext]_supVars => [Next]_vars
  BY SupNextOnChain
<1> QED
  BY <1>1, <1>2, SupplierInvariance, PTL DEF SupSpec, Spec

\* Every variable of the agent keeps its type and the poll stays within the log.
THEOREM SupplierTypeCorrect == SupSpec => []SupTypeOK
<1>1. SupInv => SupTypeOK
  BY DEF SupInv
<1> QED
  BY <1>1, SupplierInvariance, PTL

\* The watcher hands on every log behind nextBlock, whatever polls failed.
THEOREM WatcherCorrect == SupSpec => []NoLogIsSkipped
<1>1. SupInv => NoLogIsSkipped
  BY DEF SupInv
<1> QED
  BY <1>1, SupplierInvariance, PTL

\* An auction fires once per process, however often its log is repeated.
THEOREM OneRunCorrect == SupSpec => []OneRunPerAuction
<1>1. SupInv => OneRunPerAuction
  BY DEF SupInv
<1> QED
  BY <1>1, SupplierInvariance, PTL

\* A sealed bid of this agent is at the relay only behind its own commitment.
THEOREM PostedCorrect == SupSpec => []PostedOpensCommitment
<1>1. SupInv => PostedOpensCommitment
  BY DEF SupInv
<1> QED
  BY <1>1, SupplierInvariance, PTL

\* What a run reports of its stake and its bid is true of the chain and the relay.
THEOREM ReportCorrect == SupSpec => []SubmittedCanBeScored
<1>1. SupInv => SubmittedCanBeScored
  <2> SUFFICES ASSUME SupInv, NEW id \in AuctionIds
               PROVE  /\ Outcome(id) = "bid" => Me \in hasCommitted[id] /\ slot[id] \in Calls
                      /\ Outcome(id) = "stake locked, nothing at the relay" =>
                           Me \in hasCommitted[id]
    BY DEF SubmittedCanBeScored
  <2>1. CASE id \in submitted
    <3>1. slot[id] \in Calls /\ Locked(id, slot[id])
      BY <2>1 DEF SupInv, RunsRememberTruly, PostedOpensCommitment, Locked
    <3>2. Me \in hasCommitted[id]
      BY <3>1, LockedIsCommitted DEF SupInv
    <3> QED
      BY <3>1, <3>2
  <2>2. CASE id \in committed
    <3>1. Me \in hasCommitted[id]
      BY <2>2 DEF SupInv, RunsRememberTruly
    <3>2. CASE id \notin submitted
      BY <3>1, <3>2 DEF Outcome
    <3> QED
      BY <2>1, <3>2
  <2>3. CASE id \notin submitted /\ id \notin committed
    BY <2>3 DEF Outcome
  <2> QED
    BY <2>1, <2>2, <2>3
<1> QED
  BY <1>1, SupplierInvariance, PTL

-----------------------------------------------------------------------------
(***************************************************************************)
(* No auction is missed.  A head that was read before an auction's block   *)
(* lands does not cover its log, but the poll that holds it ends, and the  *)
(* next head does; from then on whatever fails, the next logs that are     *)
(* read hand the auction on.                                               *)
(***************************************************************************)
\* The next logs to be read hold the auction: the poll holds a head that covers its log,
\* or will read one.
Caught(id) == latest = 0 \/ \E i \in firstLog..latest : published[i] = id

\* getLogs hands on a caught auction.
LEMMA CaughtIsHeard ==
  ASSUME SupInv, NEW id \in AuctionIds, Unheard(id), Caught(id), ReadLogs
  PROVE  ~Unheard(id)'
<1>1. /\ latest # 0
      /\ seen' = seen \cup ({published[i] : i \in nextLog..latest} \ seen)
  BY DEF ReadLogs
<1>2. PICK i \in firstLog..latest : published[i] = id
  BY <1>1 DEF Caught
<1>3. firstLog \in Int /\ nextLog \in Int /\ latest \in Int
  BY SupplierAssumption DEF SupInv, SupTypeOK
<1>4. i >= nextLog
  BY <1>2, <1>3 DEF SupInv, NoLogIsSkipped, Unheard
<1> QED
  BY <1>1, <1>2, <1>3, <1>4 DEF Unheard

\* Nothing but its being handed on, or a restart past its log, takes a caught auction
\* away: a poll that fails is followed by one that reads a later head.
LEMMA CaughtStays ==
  ASSUME SupInv, NEW id \in AuctionIds, Unheard(id), Caught(id), [SupNext]_supVars
  PROVE  Caught(id)' \/ ~Unheard(id)'
<1>1. /\ latest \in Int /\ firstLog \in Int /\ latest <= Len(published)
      /\ published \in Seq(AuctionIds)
  BY SupplierAssumption DEF SupInv, SupTypeOK
<1>2. ASSUME UNCHANGED <<latest, firstLog>>, Begins(published, published')
      PROVE  Caught(id)'
  <2>1. \A i \in firstLog..latest : i >= 1 => i \in DOMAIN published
    BY <1>1
  <2>2. \A i \in firstLog..latest : i >= 1
    BY SupplierAssumption DEF SupInv, SupTypeOK
  <2> QED
    BY <1>2, <2>1, <2>2 DEF Caught, Begins
<1>3. Begins(published, published)
  BY DEF Begins
<1>4. ASSUME NEW x, published' = Append(published, x)
      PROVE  Begins(published, published')
  BY <1>1, <1>4 DEF Begins
<1>5. CASE ReadHead
  <2>1. latest' = Len(published') /\ UNCHANGED <<firstLog, published, seen>>
    BY <1>5 DEF ReadHead
  <2> QED
    BY <2>1 DEF Caught, Unheard
<1>6. CASE ReadLogs \/ PollFails \/ Restart
  BY <1>6 DEF ReadLogs, PollFails, Restart, Caught
<1>7. ASSUME NEW x \in AuctionIds, TermsRead(x) \/ TermsLost(x) \/ EndRun(x)
      PROVE  Caught(id)'
  BY <1>2, <1>3, <1>7 DEF TermsRead, TermsLost, EndRun, watcher
<1>8. ASSUME NEW c \in Calls, Submit(c)
      PROVE  Caught(id)'
  BY <1>2, <1>3, <1>8 DEF Submit, Call, Approve, CommitMined, CommitReverts, Receipt, RateLimited,
                          WriteThrows, ApproveLate, CommitLate, Post, PostThrows, watcher
<1>9. ASSUME NEW x \in AuctionIds, OpenAuction(x)
      PROVE  Caught(id)'
  BY <1>2, <1>4, <1>9 DEF OpenAuction, watcher
<1>10. CASE RepeatLog
  BY <1>2, <1>4, <1>10 DEF RepeatLog, watcher
<1>11. CASE StrangerPosts \/ Time \/ UNCHANGED supVars
  BY <1>2, <1>3, <1>11 DEF StrangerPosts, Time, supVars, watcher
<1> QED
  BY <1>5, <1>6, <1>7, <1>8, <1>9, <1>10, <1>11 DEF SupNext, Watch

\* No auction is missed (watcher.ts): under the fairness of the polling loop an auction
\* whose log this process can read is handed on, whatever polls fail, logs repeat and
\* blocks land, unless the process restarts past it.
THEOREM HeardEventually == WatchSpec /\ []PollsCanStep => EveryAuctionIsHeard
<1>1. ASSUME NEW id \in AuctionIds
      PROVE  WatchSpec /\ []PollsCanStep => (Unheard(id) ~> ~Unheard(id))
  <2>1. SupInv /\ PollsCanStep /\ Unheard(id) /\ latest = 0 => ENABLED <<ReadHead>>_supVars
    <3> SUFFICES ASSUME SupInv, PollsCanStep, Unheard(id), latest = 0
                 PROVE  ENABLED <<ReadHead>>_supVars
      OBVIOUS
    <3>1. PICK i \in firstLog..Len(published) : published[i] = id /\ id \notin seen
      BY DEF Unheard
    <3>2. i >= nextLog /\ i <= Len(published) /\ nextLog \in Int /\ Len(published) \in Int
      BY <3>1, SupplierAssumption DEF SupInv, SupTypeOK, NoLogIsSkipped
    <3>3. i \in Int
      BY <3>1
    <3> QED
      BY <3>2, <3>3 DEF PollsCanStep
  <2>2. PollsCanStep /\ ~(latest = 0) => ENABLED <<ReadLogs>>_supVars
    BY DEF PollsCanStep
  <2>3. SupInv /\ <<ReadHead>>_supVars => ~(latest = 0)'
    BY SupplierAssumption DEF SupInv, SupTypeOK, ReadHead
  <2>4. <<ReadLogs>>_supVars => (latest = 0)'
    BY DEF ReadLogs
  <2>5. latest = 0 => Caught(id)
    BY DEF Caught
  <2>6. SupInv /\ Unheard(id) /\ Caught(id) /\ [SupNext]_supVars => Caught(id)' \/ ~Unheard(id)'
    BY CaughtStays
  <2>7. SupInv /\ Unheard(id) /\ Caught(id) /\ <<ReadLogs>>_supVars => ~Unheard(id)'
    BY CaughtIsHeard
  <2> QED
    BY <2>1, <2>2, <2>3, <2>4, <2>5, <2>6, <2>7, SupplierInvariance, PTL DEF WatchSpec, SupSpec
<1> QED
  BY <1>1 DEF EveryAuctionIsHeard

-----------------------------------------------------------------------------
(***************************************************************************)
(* The agent's promise.  The book of an auction gives the agent's stake,   *)
(* and grows by it in one step, the mined commit; the slot at the relay is *)
(* filled in one step, the post of a call that knows of its stake; every   *)
(* other step of the watcher, the wallet and the calls is a stutter.       *)
(***************************************************************************)

\* Only the receipt of its commit takes a call to its post, and what a run knows of its
\* stake is forgotten only with the calls.
LEMMA NextPostersKnow == SupInv /\ PostersKnow /\ [SupNext]_supVars => PostersKnow'
<1> SUFFICES ASSUME SupInv, PostersKnow, [SupNext]_supVars, NEW d \in Calls,
                    calls'[d].pc = "post"
             PROVE  calls'[d].auctionId \in committed'
  BY DEF PostersKnow, At, idOf
<1>1. calls \in [Calls -> CallRecord]
  BY DEF SupInv, SupTypeOK
<1>2. calls[d].pc = "post" => calls[d].auctionId \in committed
  BY DEF PostersKnow, At, idOf
<1>3. ASSUME UNCHANGED <<calls, committed>>
      PROVE  calls'[d].auctionId \in committed'
  BY <1>2, <1>3
<1>4. ASSUME NEW c \in Calls, NEW pc, pc # "post", Go(c, pc), UNCHANGED committed
      PROVE  calls'[d].auctionId \in committed'
  BY <1>1, <1>2, <1>4 DEF Go, CallRecord
<1>5. ASSUME NEW c \in Calls, Submit(c)
      PROVE  calls'[d].auctionId \in committed'
  <2>1. ASSUME NEW id \in AuctionIds, Call(c, id)
        PROVE  calls'[d].auctionId \in committed'
    BY <1>1, <1>2, <2>1 DEF Call, bidder, CallRecord
  <2>2. CASE Receipt(c)
    <3>1. CASE At(c, "committed")
      BY <1>1, <1>2, <2>2, <3>1 DEF Receipt, Go, At, idOf, CallRecord
    <3>2. CASE At(c, "approved")
      BY <1>4, <2>2, <3>2 DEF Receipt, At
    <3> QED
      BY <2>2, <3>1, <3>2 DEF Receipt
  <2>3. CASE \/ Approve(c) \/ CommitMined(c) \/ CommitReverts(c) \/ RateLimited(c)
             \/ ApproveLate(c) \/ CommitLate(c) \/ Post(c) \/ PostThrows(c)
    BY <1>4, <2>3 DEF Approve, CommitMined, CommitReverts, RateLimited, ApproveLate, CommitLate,
                      Post, PostThrows, bidder
  <2>4. CASE WriteThrows(c)
    BY <1>4, <2>4, GivenUpIs DEF WriteThrows, bidder
  <2> QED
    BY <1>5, <2>1, <2>2, <2>3, <2>4 DEF Submit
<1>6. CASE Restart
  BY <1>1, <1>6, GivenUpIs DEF Restart, Fresh, CallRecord, At
<1>7. CASE Watch \/ RepeatLog \/ StrangerPosts \/ Time \/ UNCHANGED supVars
  BY <1>3, <1>7 DEF Watch, ReadHead, ReadLogs, PollFails, TermsRead, TermsLost, RepeatLog,
                    StrangerPosts, Time, supVars, bidder
<1>8. ASSUME NEW id \in AuctionIds, EndRun(id) \/ OpenAuction(id)
      PROVE  calls'[d].auctionId \in committed'
  BY <1>3, <1>8 DEF EndRun, OpenAuction, bidder
<1> QED
  BY <1>5, <1>6, <1>7, <1>8 DEF SupNext

\* A call at its post has told its run of the stake, in every reachable state.
LEMMA PostersKnowAlways == SupSpec => []PostersKnow
<1>1. SupInit => PostersKnow
  BY DEF SupInit, PostersKnow, Fresh, At
<1> QED
  BY <1>1, NextPostersKnow, SupplierInvariance, PTL DEF SupSpec

\* A locked commitment is one the agent is staked behind.
LEMMA LockedIsStaked ==
  ASSUME NEW id, NEW c, Locked(id, c)
  PROVE  c \in StakedBehind(id)
BY DEF Locked, StakedBehind

\* A mined commit is the first of the agent's on that auction, and changes no other's book.
LEMMA CommitStakes ==
  ASSUME IInv, NEW id \in AuctionIds, NEW c, commit(id, Me, c)
  PROVE  /\ StakedBehind(id) = {}
         /\ StakedBehind(id)' = {c}
         /\ \A x \in AuctionIds : x # id => StakedBehind(x)' = StakedBehind(x)
<1> DEFINE n == Len(committers[id])
<1>1. /\ committers[id] \in Seq(Suppliers) /\ commitments[id] \in Seq(Commitments)
      /\ n \in Nat /\ Len(commitments[id]) = n
  BY DEF IInv, TypeOK, BookAgrees
<1>2. /\ committers'[id] = Append(committers[id], Me)
      /\ commitments'[id] = Append(commitments[id], c)
      /\ \A x \in AuctionIds : x # id => /\ committers'[x] = committers[x]
                                       /\ commitments'[x] = commitments[x]
  BY DEF IInv, TypeOK, commit
<1>3. \A j \in DOMAIN committers[id] : committers[id][j] # Me
  BY DEF commit, CanCommit, IInv, BookAgrees
<1>4. /\ DOMAIN committers'[id] = 1..(n + 1) /\ DOMAIN committers[id] = 1..n
      /\ committers'[id][n + 1] = Me /\ commitments'[id][n + 1] = c
      /\ \A j \in 1..n : committers'[id][j] = committers[id][j]
  BY <1>1, <1>2
<1>5. {j \in DOMAIN committers'[id] : committers'[id][j] = Me} = {n + 1}
  BY <1>1, <1>3, <1>4
<1>6. StakedBehind(id) = {}
  BY <1>3 DEF StakedBehind
<1>7. StakedBehind(id)' = {c}
  BY <1>4, <1>5 DEF StakedBehind
<1>8. \A x \in AuctionIds : x # id => StakedBehind(x)' = StakedBehind(x)
  BY <1>2 DEF StakedBehind
<1> QED
  BY <1>6, <1>7, <1>8

\* A step that leaves books, slots and memories alone is a stutter of the agent.
LEMMA AgentIdle ==
  ASSUME UNCHANGED <<commitments, committers, slot, committed, submitted>>
  PROVE  UNCHANGED A!agentVars
BY DEF A!agentVars, StakedBehind, Outcome

\* The mined commit is the stake, whether its call still waits for it or not.
LEMMA CommitMinedIsStake ==
  ASSUME SupInv, NEW c \in Calls, CommitMined(c) \/ CommitLate(c)
  PROVE  A!AgentNext
<1> DEFINE staked == [x \in AuctionIds |-> StakedBehind(x)]
<1>1. PICK id \in AuctionIds :
        commit(id, Me, c) /\ UNCHANGED <<slot, committed, submitted>>
  BY DEF SupInv, CallsAreLocked, CommitMined, CommitLate, At, bidder
<1>2. /\ StakedBehind(id) = {} /\ StakedBehind(id)' = {c}
      /\ \A x \in AuctionIds : x # id => StakedBehind(x)' = StakedBehind(x)
  BY <1>1, CommitStakes DEF SupInv
<1>3. staked[id] = {} /\ staked' = [staked EXCEPT ![id] = {c}]
  BY <1>1, <1>2
<1>4. UNCHANGED <<slot, [x \in AuctionIds |-> Outcome(x)]>>
  BY <1>1 DEF Outcome
<1>5. A!Stake(id, c)
  BY <1>3, <1>4 DEF A!Stake
<1> QED
  BY <1>1, <1>5 DEF A!AgentNext

\* The receipt of the commit is what a run comes to know.
LEMMA ReceiptIsKnow ==
  ASSUME SupInv, NEW c \in Calls, Receipt(c)
  PROVE  [A!AgentNext]_(A!agentVars)
<1> DEFINE staked == [x \in AuctionIds |-> StakedBehind(x)]
           told == [x \in AuctionIds |-> Outcome(x)]
<1>1. UNCHANGED <<commitments, committers, slot, submitted>>
  BY DEF Receipt, chain
<1>2. CASE UNCHANGED committed
  BY <1>1, <1>2, AgentIdle
<1>3. CASE At(c, "committed") /\ committed' = committed \cup {idOf(c)}
  <2>1. PICK id \in AuctionIds : id = idOf(c) /\ c \in StakedBehind(id)
    BY <1>3, LockedIsStaked DEF SupInv, CallsAreLocked, At
  <2>2. \A x \in AuctionIds : x # id => Outcome(x)' = Outcome(x)
    BY <1>1, <1>3, <2>1 DEF Outcome
  <2>3. CASE Outcome(id) = "no bid"
    <3>1. id \notin submitted
      BY <2>3 DEF Outcome
    <3>2. Outcome(id)' = "stake locked, nothing at the relay"
      BY <1>1, <1>3, <2>1, <3>1 DEF Outcome
    <3>3. /\ staked[id] # {} /\ told[id] = "no bid"
          /\ told' = [told EXCEPT ![id] = "stake locked, nothing at the relay"]
      BY <2>1, <2>2, <2>3, <3>2
    <3>4. UNCHANGED <<staked, slot>>
      BY <1>1 DEF StakedBehind
    <3>5. A!Know(id)
      BY <3>3, <3>4 DEF A!Know
    <3> QED
      BY <2>1, <3>5 DEF A!AgentNext
  <2>4. CASE Outcome(id) # "no bid"
    <3>1. Outcome(id)' = Outcome(id)
      BY <1>1, <1>3, <2>1, <2>4 DEF Outcome
    <3>2. UNCHANGED <<staked, slot, told>>
      BY <1>1, <2>2, <3>1 DEF StakedBehind
    <3> QED
      BY <3>2 DEF A!agentVars
  <2> QED
    BY <2>3, <2>4
<1> QED
  BY <1>2, <1>3 DEF Receipt, At

\* A post that finds the slot empty is the placing of the staked bid, whether the answer
\* comes back or not; one that finds it taken changes nothing.
LEMMA PostIsPlace ==
  ASSUME SupInv, PostersKnow, NEW c \in Calls, Post(c) \/ PostThrows(c)
  PROVE  [A!AgentNext]_(A!agentVars)
<1> DEFINE staked == [x \in AuctionIds |-> StakedBehind(x)]
           told == [x \in AuctionIds |-> Outcome(x)]
<1>1. /\ UNCHANGED <<commitments, committers, committed>>
      /\ At(c, "post")
  BY DEF Post, PostThrows, chain, bidder
<1>2. PICK id \in AuctionIds : id = idOf(c) /\ c \in StakedBehind(id) /\ id \in committed
  BY <1>1, LockedIsStaked DEF SupInv, CallsAreLocked, PostersKnow, At
<1>3. \/ UNCHANGED <<slot, submitted>>
      \/ /\ slot[id] = Empty /\ slot' = [slot EXCEPT ![id] = c]
         /\ submitted' \in {submitted, submitted \cup {id}}
  <2>1. slot \in [AuctionIds -> Calls \cup {Empty, Stranger}]
    BY DEF SupInv, SupTypeOK
  <2>2. slot[id] # Empty => [slot EXCEPT ![id] = slot[id]] = slot
    BY <2>1
  <2>3. CASE slot[id] = Empty
    BY <1>2, <2>1, <2>3 DEF Post, PostThrows, bidder
  <2>4. CASE slot[id] # Empty
    BY <1>2, <2>1, <2>2, <2>4 DEF Post, PostThrows, bidder
  <2> QED
    BY <2>3, <2>4
<1>4. CASE UNCHANGED <<slot, submitted>>
  BY <1>1, <1>4, AgentIdle
<1>5. CASE /\ slot[id] = Empty /\ slot' = [slot EXCEPT ![id] = c]
           /\ submitted' \in {submitted, submitted \cup {id}}
  <2>1. id \notin submitted
    BY <1>5, SupplierAssumption DEF SupInv, RunsRememberTruly
  <2>2. told[id] = "stake locked, nothing at the relay"
    BY <1>2, <2>1 DEF Outcome
  <2>3. \A x \in AuctionIds : x # id => Outcome(x)' = Outcome(x)
    BY <1>1, <1>5 DEF Outcome
  <2>4. Outcome(id)' = Outcome(id) \/ Outcome(id)' = "bid"
    BY <1>1, <1>5 DEF Outcome
  <2>5. told' \in {told, [told EXCEPT ![id] = "bid"]}
    BY <1>2, <2>3, <2>4
  <2>6. c \in staked[id] /\ UNCHANGED staked
    BY <1>1, <1>2 DEF StakedBehind
  <2>7. A!Place(id, c)
    BY <1>5, <2>2, <2>5, <2>6 DEF A!Place
  <2> QED
    BY <1>2, <2>7 DEF A!AgentNext
<1> QED
  BY <1>3, <1>4, <1>5

\* Every step of the composition is a step of the agent's promise or a stutter.
LEMMA NextAgent ==
  ASSUME SupInv, PostersKnow, [SupNext]_supVars
  PROVE  [A!AgentNext]_(A!agentVars)
<1>1. ASSUME NEW c \in Calls, Submit(c)
      PROVE  [A!AgentNext]_(A!agentVars)
  <2>1. CASE CommitMined(c) \/ CommitLate(c)
    BY <2>1, CommitMinedIsStake
  <2>2. CASE Receipt(c)
    BY <2>2, ReceiptIsKnow
  <2>3. CASE Post(c) \/ PostThrows(c)
    BY <2>3, PostIsPlace
  <2>4. CASE \/ \E id \in AuctionIds : Call(c, id)
             \/ Approve(c) \/ CommitReverts(c) \/ RateLimited(c) \/ WriteThrows(c)
             \/ ApproveLate(c)
    <3>1. UNCHANGED <<commitments, committers, slot, committed, submitted>>
      BY <2>4 DEF Call, Approve, CommitReverts, RateLimited, WriteThrows, ApproveLate, chain, bidder
    <3> QED
      BY <3>1, AgentIdle
  <2> QED
    BY <1>1, <2>1, <2>2, <2>3, <2>4 DEF Submit
<1>2. CASE Restart
  <2>1. UNCHANGED <<slot, [x \in AuctionIds |-> StakedBehind(x)]>>
    BY <1>2 DEF Restart, chain, StakedBehind
  <2>2. [x \in AuctionIds |-> Outcome(x)]' = [x \in AuctionIds |-> "no bid"]
    BY <1>2 DEF Restart, Outcome
  <2> QED
    BY <2>1, <2>2 DEF A!Forget, A!AgentNext
<1>3. CASE StrangerPosts
  <2>1. PICK id \in AuctionIds :
          /\ slot[id] = Empty /\ slot' = [slot EXCEPT ![id] = Stranger]
          /\ UNCHANGED <<chain, bidder>>
    BY <1>3 DEF StrangerPosts
  <2>2. UNCHANGED <<[x \in AuctionIds |-> StakedBehind(x)], [x \in AuctionIds |-> Outcome(x)]>>
    BY <2>1 DEF chain, bidder, StakedBehind, Outcome
  <2>3. A!Squat(id)
    BY <2>1, <2>2 DEF A!Squat
  <2> QED
    BY <2>3 DEF A!AgentNext
<1>4. CASE Watch \/ RepeatLog \/ Time \/ UNCHANGED supVars
  <2>1. UNCHANGED <<commitments, committers, slot, committed, submitted>>
    BY <1>4 DEF Watch, ReadHead, ReadLogs, PollFails, TermsRead, TermsLost, RepeatLog, Time, Tick,
                supVars, chain, bidder, bids
  <2> QED
    BY <2>1, AgentIdle
<1>5. ASSUME NEW id \in AuctionIds, EndRun(id) \/ OpenAuction(id)
      PROVE  [A!AgentNext]_(A!agentVars)
  <2>1. UNCHANGED <<commitments, committers, slot, committed, submitted>>
    BY <1>5 DEF EndRun, OpenAuction, createAuction, chain, bidder
  <2> QED
    BY <2>1, AgentIdle
<1> QED
  BY <1>1, <1>2, <1>3, <1>4, <1>5 DEF SupNext

\* The composition implements the agent's promise: in every auction one stake at most,
\* behind one commitment; only the bid that opens it is put into the agent's slot, never
\* over another; and no run says more than is so.
THEOREM AgentRefinement == SupSpec => ImplementsAgent
<1>1. SupInit => A!AgentInit
  BY SupplierAssumption DEF SupInit, Init, A!AgentInit, StakedBehind, Outcome
<1>2. SupInv /\ PostersKnow /\ [SupNext]_supVars => [A!AgentNext]_(A!agentVars)
  BY NextAgent
<1> QED
  BY <1>1, <1>2, SupplierInvariance, PostersKnowAlways, PTL
     DEF SupSpec, ImplementsAgent, A!AgentSpec

=============================================================================
