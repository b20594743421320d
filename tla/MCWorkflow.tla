---------------------------- MODULE MCWorkflow ----------------------------
(***************************************************************************)
(* Workflow on a small instance.  Addresses are numbers, so that they have *)
(* an order: the buyer is 9, the suppliers 1 and 2.                        *)
(***************************************************************************)
EXTENDS Workflow, TLC

CONSTANTS hash, empty, noAuction, oldAuction

MCPolicy ==
  [maxPrice |-> 3, minStars |-> 4, tradeDownStars |-> 3,
   requiredDiscountPercentage |-> 40, refundable |-> 0, breakfastIncluded |-> 0]

MCTerms == [h \in {hash} |-> MCPolicy]

\* Under the committed policy a trade-down of supplier 1 can win; under this one
\* it cannot.
MCOtherPolicy == [MCPolicy EXCEPT !.requiredDiscountPercentage = 60]

\* The cheap bid of supplier 1 is a trade-down that beats a four-star one on price.
MCQuote ==
  << [supplier |-> 1, stars |-> 3, price |-> 1, refundable |-> FALSE,
      breakfastIncluded |-> FALSE],
     [supplier |-> 2, stars |-> 4, price |-> 2, refundable |-> FALSE,
      breakfastIncluded |-> FALSE] >>

\* Runs differ in nothing but their name.
Interchangeable == Permutations(Runs)

MCCommitments == UNION {Placeable(id, s) : id \in AuctionIds, s \in Suppliers}
=============================================================================
