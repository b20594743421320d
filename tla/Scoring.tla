------------------------------ MODULE Scoring ------------------------------
(***************************************************************************)
(* The scoring rule of workflow-cre/src/scoring.ts, as the pure function   *)
(* it is: a policy and the list of bids that verified give a winner and a  *)
(* payout.  The pipeline below is the one of the code, filter by filter;   *)
(* WinnerByRule is what it is meant to compute, stated without a list.     *)
(*                                                                         *)
(* A policy is a record with the fields maxPrice, minStars,                *)
(* tradeDownStars, requiredDiscountPercentage, refundable and              *)
(* breakfastIncluded, a bid one with supplier, stars, price, refundable    *)
(* and breakfastIncluded.  Suppliers are numbers, so that addresses have   *)
(* the order of their lower-case spelling.                                 *)
(*                                                                         *)
(* A list is a function on its places.  A filter keeps the order, so what  *)
(* is left of a list is a set of places.                                   *)
(***************************************************************************)
EXTENDS FiniteSetsExt

NoWinner == 0      \* null: no bid is eligible

\* What the schemas of a policy and of a bid let through.  A preference is worth
\* nothing or more, and no bid asks zero.
PolicyTerms ==
  [maxPrice: Nat \ {0}, minStars: 1..5, tradeDownStars: 1..5,
   requiredDiscountPercentage: 0..100, refundable: Nat, breakfastIncluded: Nat]

ScorableBid ==
  [supplier: Nat \ {NoWinner}, stars: 1..5, price: Nat \ {0},
   refundable: BOOLEAN, breakfastIncluded: BOOLEAN]

\* Mutation: a price counts for a bid instead of against it.
scoreAgainst(policy, bid) ==
  policy.maxPrice + bid.price
    + (IF bid.refundable THEN policy.refundable ELSE 0)
    + (IF bid.breakfastIncluded THEN policy.breakfastIncluded ELSE 0)

scoreOf(policy, bid) ==
  policy.maxPrice - bid.price
    + (IF bid.refundable THEN policy.refundable ELSE 0)
    + (IF bid.breakfastIncluded THEN policy.breakfastIncluded ELSE 0)

\* Mutation: the comparison stops at the score, so list order decides a tie.
PrecedesByScore(policy, left, right) ==
  scoreOf(policy, left) > scoreOf(policy, right)

\* The comparison the eligible bids are sorted with.
Precedes(policy, left, right) ==
  \/ scoreOf(policy, left) > scoreOf(policy, right)
  \/ /\ scoreOf(policy, left) = scoreOf(policy, right)
     /\ \/ left.price < right.price
        \/ left.price = right.price /\ left.supplier < right.supplier

affordable(policy, bids) == {i \in DOMAIN bids : bids[i].price <= policy.maxPrice}

atMinStars(policy, bids) ==
  {i \in affordable(policy, bids) : bids[i].stars >= policy.minStars}

\* Mutation: the discount is measured against the dearest bid at the minimum stars.
ClearsDearest(policy, bids, bid) ==
  LET prices == {bids[i].price : i \in atMinStars(policy, bids)}
  IN prices # {} =>
       bid.price * 100 <= Max(prices) * (100 - policy.requiredDiscountPercentage)

\* The discount is asked of a trade-down bid only against a bid at the minimum
\* stars; with none, the maximum price alone decides.
ClearsDiscount(policy, bids, bid) ==
  LET prices == {bids[i].price : i \in atMinStars(policy, bids)}
  IN prices # {} =>
       bid.price * 100 <= Min(prices) * (100 - policy.requiredDiscountPercentage)

\* Mutation: any rating clears the minimum once it is cheap enough.
eligibleBelow(policy, bids) ==
  {i \in affordable(policy, bids) :
     bids[i].stars >= policy.minStars \/ ClearsDiscount(policy, bids, bids[i])}

eligible(policy, bids) ==
  {i \in affordable(policy, bids) :
     \/ bids[i].stars >= policy.minStars
     \/ bids[i].stars = policy.tradeDownStars /\ ClearsDiscount(policy, bids, bids[i])}

\* The sort is stable: bids that compare equal stay in the order they came in.
RankedBefore(policy, bids, i, j) ==
  \/ Precedes(policy, bids[i], bids[j])
  \/ ~Precedes(policy, bids[j], bids[i]) /\ i < j

\* ranked[0]: the place the sort puts first.
first(policy, bids) ==
  CHOOSE i \in eligible(policy, bids) :
    \A j \in eligible(policy, bids) \ {i} : RankedBefore(policy, bids, i, j)

settle(policy, bids) ==
  IF eligible(policy, bids) = {}
  THEN [winner |-> NoWinner, payout |-> 0]
  ELSE LET winner == bids[first(policy, bids)]
       IN [winner |-> winner.supplier, payout |-> winner.price]

-----------------------------------------------------------------------------
(***************************************************************************)
(* The rule in its own terms, over the set of bids.                        *)
(***************************************************************************)
MeetsStars(policy, bid) == bid.price <= policy.maxPrice /\ bid.stars >= policy.minStars

TradesDown(policy, book, bid) ==
  /\ bid.price <= policy.maxPrice
  /\ bid.stars < policy.minStars
  /\ bid.stars = policy.tradeDownStars
  /\ \A full \in book : MeetsStars(policy, full) =>
       bid.price * 100 <= full.price * (100 - policy.requiredDiscountPercentage)

\* A bid that qualifies and that no other one that qualifies precedes.
WinnerByRule(policy, book, bid) ==
  LET qualified == {b \in book : MeetsStars(policy, b) \/ TradesDown(policy, book, b)}
  IN /\ bid \in qualified
     /\ \A other \in qualified :
          \/ scoreOf(policy, other) < scoreOf(policy, bid)
          \/ /\ scoreOf(policy, other) = scoreOf(policy, bid)
             /\ <<other.price, other.supplier>> # <<bid.price, bid.supplier>> =>
                  \/ bid.price < other.price
                  \/ bid.price = other.price /\ bid.supplier < other.supplier
=============================================================================
