-------------------------- MODULE MCScoringProofs --------------------------
(***************************************************************************)
(* What ScoringProofs says of a policy and a list, as properties of the    *)
(* growing list of MCScoring: they hold for every set of suppliers,        *)
(* prices, ratings, policies and bonuses, and lists of every length.       *)
(***************************************************************************)
EXTENDS MCScoring, ScoringProofs, FiniteSetTheorems

\* The list is one of bids that verified, one per account.
ListInv ==
  /\ policy \in PolicyChoices
  /\ bids \in Seq(Bids)
  /\ OneBidEach(bids)

\* AddBid: the list keeps its bids and gains one.
LEMMA AddBidGrows ==
  ASSUME ListInv, AddBid
  PROVE  /\ ListInv' /\ policy' = policy
         /\ \E bid \in Bids : /\ bids' = Append(bids, bid)
                              /\ Last(bids') = bid
                              /\ Book(bids') = Book(bids) \cup {bid}
<1>1. PICK bid \in Bids : /\ \A i \in DOMAIN bids : bids[i].supplier # bid.supplier
                          /\ bids' = Append(bids, bid) /\ UNCHANGED policy
  BY DEF AddBid
<1>2. /\ bids' \in Seq(Bids) /\ Len(bids') = Len(bids) + 1 /\ Len(bids) \in Nat
      /\ DOMAIN bids' = 1..(Len(bids) + 1) /\ DOMAIN bids = 1..Len(bids)
      /\ bids'[Len(bids) + 1] = bid /\ \A i \in 1..Len(bids) : bids'[i] = bids[i]
  <2>1. ASSUME NEW S, NEW list \in Seq(S), NEW e \in S
        PROVE  /\ Append(list, e) \in Seq(S) /\ Len(Append(list, e)) = Len(list) + 1 /\ Len(list) \in Nat
               /\ DOMAIN Append(list, e) = 1..(Len(list) + 1) /\ DOMAIN list = 1..Len(list)
               /\ Append(list, e)[Len(list) + 1] = e
               /\ \A i \in 1..Len(list) : Append(list, e)[i] = list[i]
    BY <2>1
  <2> QED
    BY <1>1, <2>1 DEF ListInv
<1>3. OneBidEach(bids)'
  <2>1. \A i, j \in 1..Len(bids) : bids[i].supplier = bids[j].supplier => i = j
    BY <1>2 DEF ListInv, OneBidEach
  <2>2. \A i \in 1..Len(bids) : bids[i].supplier # bid.supplier
    BY <1>1, <1>2
  <2>3. \A i, j \in 1..(Len(bids) + 1) : bids'[i].supplier = bids'[j].supplier => i = j
    BY <1>2, <2>1, <2>2
  <2> QED
    BY <1>2, <2>3 DEF OneBidEach
<1>4. Book(bids') = Book(bids) \cup {bid}
  <2>1. Book(bids') = {bids'[i] : i \in 1..(Len(bids) + 1)} /\ Book(bids) = {bids[i] : i \in 1..Len(bids)}
    BY <1>2 DEF Book
  <2>2. 1..(Len(bids) + 1) = 1..Len(bids) \cup {Len(bids) + 1}
    BY <1>2
  <2> QED
    BY <1>2, <2>1, <2>2
<1>5. Last(bids') = bid
  BY <1>2 DEF Last
<1> QED
  BY <1>1, <1>2, <1>3, <1>4, <1>5 DEF ListInv

\* The list starts empty.
LEMMA ListInvariance == Spec => []ListInv
<1>1. Init => ListInv
  <2>1. ASSUME NEW S
        PROVE  <<>> \in Seq(S) /\ DOMAIN <<>> = {}
    OBVIOUS
  <2> QED
    BY <2>1 DEF Init, ListInv, OneBidEach
<1>2. ListInv /\ [Next]_vars => ListInv'
  BY AddBidGrows DEF Next, vars, ListInv, OneBidEach
<1> QED
  BY <1>1, <1>2, PTL DEF Spec

\* A list of bids that verified is one the scoring is defined on.
LEMMA ListOfBids ==
  ASSUME NEW list \in Seq(Bids)
  PROVE  list \in BidList /\ \A i \in DOMAIN list : list[i] \in Bids
<1>1. DOMAIN list \in SUBSET Nat /\ \A i \in DOMAIN list : list[i] \in Bids
  OBVIOUS
<1>2. list \in [DOMAIN list -> ScorableBid]
  BY <1>1, ChoicesAssumption
<1> QED
  BY <1>1, <1>2 DEF BidList

\* The policy and the list that MCScoring reaches are ones the lemmas on scoring are
\* about.
LEMMA ListIsScorable ==
  ASSUME ListInv
  PROVE  /\ policy \in PolicyTerms /\ bids \in BidList
         /\ ToSet(bids) = Book(bids)
         /\ Bids \subseteq ScorableBid
         /\ \A i \in DOMAIN bids : bids[i] \in Bids
<1>1. policy \in PolicyTerms /\ Bids \subseteq ScorableBid
  BY ChoicesAssumption DEF ListInv
<1> QED
  BY <1>1, ListOfBids DEF ToSet, Book, ListInv

\* The bid that WinningBid picks is the winner's only one.
LEMMA WinningBidWins ==
  ASSUME ListInv, Winner # NoWinner
  PROVE  /\ WinningBid \in Book(bids) /\ WinningBid.supplier = Winner
         /\ WinnerByRule(policy, Book(bids), WinningBid)
         /\ settle(policy, bids).payout = WinningBid.price
         /\ \A bid \in Book(bids) : bid.supplier = Winner => bid = WinningBid
<1>1. /\ policy \in PolicyTerms /\ bids \in BidList /\ ToSet(bids) = Book(bids)
  BY ListIsScorable
<1>2. PICK won \in Book(bids) : won.supplier = Winner
  BY <1>1, SettleFollowsRule DEF Winner
<1>3. WinningBid \in Book(bids) /\ WinningBid.supplier = Winner
  BY <1>1, <1>2 DEF WinningBid
<1>4. PICK i \in DOMAIN bids : WinningBid = bids[i]
  BY <1>3 DEF Book
<1>5. WinnerByRule(policy, Book(bids), bids[i]) /\ settle(policy, bids).payout = bids[i].price
  BY <1>1, <1>3, <1>4, WinnerPlace DEF Winner, ListInv
<1>6. \A bid \in Book(bids) : bid.supplier = Winner => bid = WinningBid
  BY <1>3 DEF Book, ListInv, OneBidEach
<1> QED
  BY <1>3, <1>4, <1>5, <1>6

-----------------------------------------------------------------------------
\* scoring.ts computes the rule of docs/spec.md: the filters and the sort name the bid
\* that qualifies and precedes every other, and nobody exactly when none qualifies.
THEOREM RuleCorrect == Spec => []WinnerFollowsRule
<1>1. ASSUME ListInv PROVE WinnerFollowsRule
  <2>1. policy \in PolicyTerms /\ bids \in BidList /\ ToSet(bids) = Book(bids)
    BY <1>1, ListIsScorable
  <2>2. CASE Winner = NoWinner
    BY <2>1, <2>2, SettleFollowsRule DEF Winner, WinnerFollowsRule
  <2>3. CASE Winner # NoWinner
    BY <1>1, <2>1, <2>3, WinningBidWins DEF WinnerFollowsRule
  <2> QED
    BY <2>2, <2>3
<1> QED
  BY <1>1, ListInvariance, PTL

\* Every node ranks the same bids the same way, in whatever order they reach it.
THEOREM OrderCorrect == Spec => []OrderDecidesNothing
<1>1. ASSUME ListInv PROVE OrderDecidesNothing
  <2> SUFFICES ASSUME NEW perm \in SetToSeqs(ToSet(bids))
               PROVE  settle(policy, perm) = settle(policy, bids)
    BY DEF OrderDecidesNothing
  <2> DEFINE S == Book(bids)
             D == 1..Cardinality(S)
  <2>1. /\ policy \in PolicyTerms /\ bids \in BidList /\ ToSet(bids) = S
        /\ S \subseteq ScorableBid /\ DOMAIN bids = 1..Len(bids) /\ Len(bids) \in Nat
    BY <1>1, ListIsScorable, ListPlaces DEF ListInv, Book
  <2>2. IsFiniteSet(S)
    <3>1. IsFiniteSet(1..Len(bids))
      BY <2>1, FS_Interval
    <3>2. S = {bids[i] : i \in 1..Len(bids)}
      BY <2>1 DEF Book
    <3>3. bids \in Surjection(1..Len(bids), S)
      BY <1>1, <2>1, <3>2 DEF Surjection, ListInv
    <3> QED
      BY <3>1, <3>3, FS_Surjection
  <2>3. Cardinality(S) \in Nat
    BY <2>2, FS_CardinalityType
  <2>4. perm \in [D -> S] /\ \A i, j \in D : i # j => perm[i] # perm[j]
    BY <2>1 DEF SetToSeqs
  <2> HIDE DEF S
  <2>5. IsFiniteSet(D) /\ Cardinality(D) = Cardinality(S)
    BY <2>3, FS_Interval
  <2>6. Book(perm) \subseteq S /\ perm \in Injection(D, Book(perm)) /\ IsFiniteSet(Book(perm))
    <3>1. DOMAIN perm = D
      BY <2>4
    <3>2. Book(perm) = {perm[i] : i \in D}
      BY <3>1 DEF Book
    <3>3. Book(perm) \subseteq S /\ perm \in [D -> Book(perm)]
      BY <2>4, <3>2
    <3>4. perm \in Injection(D, Book(perm))
      BY <2>4, <3>3 DEF Injection, IsInjective
    <3> QED
      BY <2>2, <3>3, <3>4, FS_Subset
  <2>7. Cardinality(D) <= Cardinality(Book(perm))
    BY <2>5, <2>6, FS_Injection
  <2>8. Book(perm) = S
    BY <2>2, <2>3, <2>5, <2>6, <2>7, FS_Subset, FS_CardinalityType
  <2>9. perm \in BidList
    BY <2>1, <2>3, <2>4 DEF BidList
  <2> QED
    BY <2>1, <2>8, <2>9, SettleReadsTheBook DEF S
<1> QED
  BY <1>1, ListInvariance, PTL

\* A supplier never loses an auction by asking for less.
THEOREM CheaperCorrect == Spec => []CheaperWinnerStillWins
<1>1. ASSUME ListInv PROVE CheaperWinnerStillWins
  <2> SUFFICES ASSUME NEW i \in DOMAIN bids, NEW price \in Prices,
                      bids[i].supplier = Winner, price < bids[i].price
               PROVE  settle(policy, [bids EXCEPT ![i].price = price]).winner = Winner
    BY DEF CheaperWinnerStillWins
  <2>1. policy \in PolicyTerms /\ bids \in BidList /\ bids[i] \in Bids
    BY <1>1, ListIsScorable
  <2>2. price \in Nat \ {0}
    <3>1. [bids[i] EXCEPT !.price = price] \in Bids
      BY <2>1 DEF Bids
    <3>2. [bids[i] EXCEPT !.price = price].price = price
      BY <2>1 DEF Bids
    <3> QED
      BY <3>1, <3>2, ChoicesAssumption DEF ScorableBid
  <2> QED
    BY <1>1, <2>1, <2>2, CheaperWins DEF Winner, ListInv
<1> QED
  BY <1>1, ListInvariance, PTL

\* A newcomer that changes the winner without winning has pushed a trade-down below the
\* discount.
THEOREM NewcomerCorrect == Spec => NewcomerDisplacesFairly
<1> DEFINE Fair == LET newcomer == Last(bids')
                   IN Winner' \notin {Winner, newcomer.supplier} =>
                        /\ WinningBid.stars < policy.minStars
                        /\ MeetsStars(policy, newcomer)
                        /\ newcomer.price * (100 - policy.requiredDiscountPercentage)
                             < WinningBid.price * 100
<1>1. ASSUME ListInv, [Next]_vars PROVE [Fair]_vars
  <2> SUFFICES ASSUME AddBid PROVE Fair
    BY <1>1 DEF Next
  <2>1. PICK newcomer \in Bids : Last(bids') = newcomer /\ Book(bids') = Book(bids) \cup {newcomer}
    BY <1>1, AddBidGrows
  <2>2. ListInv' /\ policy' = policy
    BY <1>1, AddBidGrows
  <2>3. /\ policy \in PolicyTerms /\ bids \in BidList /\ newcomer \in ScorableBid
    BY <1>1, ListIsScorable
  <2>4. bids' \in BidList /\ Winner' = settle(policy, bids').winner
    BY <2>2, ListOfBids DEF Winner, ListInv
  <2>5. CASE Winner' \notin {Winner, newcomer.supplier}
    <3>1. PICK won \in Book(bids) :
            /\ won.supplier = Winner
            /\ WinnerByRule(policy, Book(bids), won)
            /\ won.stars < policy.minStars
            /\ MeetsStars(policy, newcomer)
            /\ newcomer.price * (100 - policy.requiredDiscountPercentage) < won.price * 100
      BY <2>1, <2>3, <2>4, <2>5, OneMoreBid DEF Winner
    <3>2. Winner # NoWinner
      BY <2>3, <3>1, ListPlaces, BidFields DEF Book
    <3>3. won = WinningBid
      BY <1>1, <3>1, <3>2, WinningBidWins
    <3> QED
      BY <2>1, <3>1, <3>3
  <2> QED
    BY <2>1, <2>5
<1> QED
  BY <1>1, ListInvariance, PTL DEF Spec, NewcomerDisplacesFairly
=============================================================================
