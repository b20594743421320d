----------------------------- MODULE MCScoring -----------------------------
(***************************************************************************)
(* Scoring over every policy and every list of bids of a small instance.   *)
(* A step is one more verified bid at the end of the list, which is how    *)
(* the list grows in committer order.  An account commits once, so a       *)
(* supplier is on the list at most once.                                   *)
(***************************************************************************)
EXTENDS Scoring, SequencesExt

CONSTANTS
  Suppliers,   \* positive numbers, in address order
  Prices,
  Stars,
  MaxPrices,
  Discounts,
  Bonuses      \* values of a preference bonus

VARIABLES policy, bids

vars == <<policy, bids>>

\* The minimum is three stars where a trade-down may admit two, or a policy whose
\* trade-down asks for a rating the minimum admits anyway.
PolicyChoices ==
  [maxPrice: MaxPrices, minStars: {3}, tradeDownStars: {2, 3},
   requiredDiscountPercentage: Discounts, refundable: Bonuses, breakfastIncluded: {1}]

Bids == [supplier: Suppliers, stars: Stars, price: Prices,
         refundable: BOOLEAN, breakfastIncluded: {FALSE}]

\* The choices are ones the schemas let through.
ASSUME ChoicesAssumption == PolicyChoices \subseteq PolicyTerms /\ Bids \subseteq ScorableBid

Init == policy \in PolicyChoices /\ bids = <<>>

AddBid ==
  \E bid \in Bids :
    /\ \A i \in DOMAIN bids : bids[i].supplier # bid.supplier
    /\ bids' = Append(bids, bid)
    /\ UNCHANGED policy

Next == AddBid

Spec == Init /\ [][Next]_vars

-----------------------------------------------------------------------------
Winner == settle(policy, bids).winner

\* The bid of the winner, when there is one.
WinningBid == CHOOSE bid \in ToSet(bids) : bid.supplier = Winner

\* The filters and the sort compute the rule of docs/spec.md "Scoring": the
\* winner is the bid that qualifies and precedes all others, paid its own price,
\* and nobody wins exactly when nobody qualifies.
WinnerFollowsRule ==
  IF Winner = NoWinner
  THEN \A bid \in ToSet(bids) : ~WinnerByRule(policy, ToSet(bids), bid)
  ELSE /\ WinnerByRule(policy, ToSet(bids), WinningBid)
       /\ settle(policy, bids).payout = WinningBid.price

\* Every node must reach the same settlement (scoring.ts): the order in which
\* bids reach scoring decides nothing, not even a tie.
OrderDecidesNothing ==
  \A perm \in SetToSeqs(ToSet(bids)) : settle(policy, perm) = settle(policy, bids)

\* A supplier never loses an auction by asking for less: the winner still wins at
\* any lower price, although that price also moves the bar for trade-downs.
CheaperWinnerStillWins ==
  \A i \in DOMAIN bids, price \in Prices :
    bids[i].supplier = Winner /\ price < bids[i].price =>
      settle(policy, [bids EXCEPT ![i].price = price]).winner = Winner

\* One more bid changes the winner only in favour of itself, with one exception
\* the trade-down rule makes on purpose: a newcomer at the minimum stars may push
\* a trade-down winner below the discount without winning itself.
NewcomerDisplacesFairly ==
  [][LET newcomer == Last(bids')
     IN Winner' \notin {Winner, newcomer.supplier} =>
          /\ WinningBid.stars < policy.minStars
          /\ MeetsStars(policy, newcomer)
          /\ newcomer.price * (100 - policy.requiredDiscountPercentage)
               < WinningBid.price * 100]_vars

=============================================================================
