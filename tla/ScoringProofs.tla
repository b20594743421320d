--------------------------- MODULE ScoringProofs ---------------------------
(***************************************************************************)
(* Proofs about Scoring, for every policy and every list of bids: the      *)
(* filters and the sort pick the bid that the rule names, there is one at  *)
(* most, and asking for less never costs it the auction.                   *)
(***************************************************************************)
EXTENDS Scoring, TLAPS, WellFoundedInduction

\* A list of bids that verified.
BidList == UNION {[places -> ScorableBid] : places \in SUBSET Nat}

\* The bids on it.
Book(bids) == {bids[i] : i \in DOMAIN bids}

-----------------------------------------------------------------------------
(***************************************************************************)
(* Operators.                                                              *)
(***************************************************************************)

\* Of the members of a set, one has the least measure.
LEMMA LeastMeasure ==
  ASSUME NEW S, S # {}, NEW measure \in [S -> Nat]
  PROVE  \E x \in S : \A y \in S : measure[x] <= measure[y]
<1> DEFINE T == {measure[x] : x \in S}
<1>1. T # {} /\ T \subseteq Nat
  OBVIOUS
<1> HIDE DEF T
<1>2. PICK m \in T : \A k \in T : <<k, m>> \notin OpToRel(<, Nat)
  BY <1>1, WFMin, NatLessThanWellFounded
<1>3. \A k \in T : ~(k < m)
  BY <1>1, <1>2 DEF OpToRel
<1>4. m \in Nat /\ \A k \in T : m <= k
  BY <1>1, <1>3
<1> QED
  BY <1>4 DEF T

\* The fields of a policy that passed the schema of src/shared/policy.ts.
LEMMA PolicyFields ==
  ASSUME NEW policy \in PolicyTerms
  PROVE  /\ policy.maxPrice \in Nat /\ policy.maxPrice > 0
         /\ policy.minStars \in Nat /\ policy.tradeDownStars \in Nat
         /\ policy.requiredDiscountPercentage \in 0..100
         /\ policy.refundable \in Nat /\ policy.breakfastIncluded \in Nat
BY DEF PolicyTerms

\* The fields of a bid that passed the schema of src/shared/bid.ts.
LEMMA BidFields ==
  ASSUME NEW bid \in ScorableBid
  PROVE  /\ bid.supplier \in Nat /\ bid.supplier # NoWinner
         /\ bid.stars \in Nat /\ bid.price \in Nat /\ bid.price > 0
         /\ bid.refundable \in BOOLEAN /\ bid.breakfastIncluded \in BOOLEAN
BY DEF ScorableBid

\* scoreOf: an integer, and no bid scores more than the maximum price and both bonuses.
LEMMA ScoreType ==
  ASSUME NEW policy \in PolicyTerms, NEW bid \in ScorableBid
  PROVE  /\ scoreOf(policy, bid) \in Int
         /\ policy.maxPrice + policy.refundable + policy.breakfastIncluded - scoreOf(policy, bid) \in Nat
BY PolicyFields, BidFields DEF scoreOf

\* The comparison is a total order of the bids of different suppliers.
LEMMA PrecedesIsTotal ==
  ASSUME NEW policy \in PolicyTerms, NEW one \in ScorableBid, NEW two \in ScorableBid
  PROVE  /\ ~(Precedes(policy, one, two) /\ Precedes(policy, two, one))
         /\ ~Precedes(policy, one, two) /\ ~Precedes(policy, two, one) =>
              one.price = two.price /\ one.supplier = two.supplier
BY ScoreType, BidFields DEF Precedes

\* And it is transitive, so sorting by it has one result.
LEMMA PrecedesIsTransitive ==
  ASSUME NEW policy \in PolicyTerms, NEW one \in ScorableBid, NEW two \in ScorableBid,
         NEW three \in ScorableBid, Precedes(policy, one, two), Precedes(policy, two, three)
  PROVE  Precedes(policy, one, three)
BY ScoreType, BidFields DEF Precedes

\* The list and its places.
LEMMA ListPlaces ==
  ASSUME NEW bids \in BidList
  PROVE  DOMAIN bids \subseteq Nat /\ \A i \in DOMAIN bids : bids[i] \in ScorableBid
BY DEF BidList

-----------------------------------------------------------------------------
(***************************************************************************)
(* The filters and the sort.                                               *)
(***************************************************************************)

\* ranked[0]: a list of eligible bids that is not empty has a first one, whatever ties.
LEMMA FirstIsFirst ==
  ASSUME NEW policy \in PolicyTerms, NEW bids \in BidList, eligible(policy, bids) # {}
  PROVE  /\ first(policy, bids) \in eligible(policy, bids)
         /\ \A j \in eligible(policy, bids) \ {first(policy, bids)} :
              RankedBefore(policy, bids, first(policy, bids), j)
<1> DEFINE E == eligible(policy, bids)
<1>1. E \subseteq Nat /\ E # {} /\ \A i \in E : bids[i] \in ScorableBid
  BY ListPlaces DEF eligible, affordable
<1> HIDE DEF E
<1> DEFINE cost == [i \in E |-> policy.maxPrice + policy.refundable + policy.breakfastIncluded
                                  - scoreOf(policy, bids[i])]
<1>2. cost \in [E -> Nat]
  BY <1>1, ScoreType
<1>3. PICK a \in E : \A j \in E : cost[a] <= cost[j]
  <2> HIDE DEF cost
  <2> QED
    BY <1>1, <1>2, LeastMeasure
<1> DEFINE E1 == {i \in E : scoreOf(policy, bids[i]) = scoreOf(policy, bids[a])}
<1>4. \A j \in E : scoreOf(policy, bids[a]) >= scoreOf(policy, bids[j])
  BY <1>1, <1>3, ScoreType, PolicyFields
<1>5. E1 # {} /\ E1 \subseteq E /\ [i \in E1 |-> bids[i].price] \in [E1 -> Nat]
  BY <1>1, <1>3, BidFields
<1>6. PICK b \in E1 : \A j \in E1 : bids[b].price <= bids[j].price
  <2> DEFINE price == [i \in E1 |-> bids[i].price]
  <2>1. price \in [E1 -> Nat] /\ E1 # {} /\ \A i \in E1 : price[i] = bids[i].price
    BY <1>5
  <2> HIDE DEF price, E1
  <2>2. \E x \in E1 : \A y \in E1 : price[x] <= price[y]
    BY <2>1, LeastMeasure
  <2> QED
    BY <2>1, <2>2
<1> DEFINE E2 == {i \in E1 : bids[i].price = bids[b].price}
<1>7. PICK c \in E2 : \A j \in E2 : bids[c].supplier <= bids[j].supplier
  <2> DEFINE supplier == [i \in E2 |-> bids[i].supplier]
  <2>1. supplier \in [E2 -> Nat] /\ E2 # {} /\ \A i \in E2 : supplier[i] = bids[i].supplier
    BY <1>1, <1>5, <1>6, BidFields
  <2> HIDE DEF supplier, E2
  <2>2. \E x \in E2 : \A y \in E2 : supplier[x] <= supplier[y]
    BY <2>1, LeastMeasure
  <2> QED
    BY <2>1, <2>2
<1> DEFINE E3 == {i \in E2 : bids[i].supplier = bids[c].supplier}
<1>8. PICK d \in E3 : \A j \in E3 : d <= j
  <2> DEFINE place == [i \in E3 |-> i]
  <2>1. place \in [E3 -> Nat] /\ E3 # {} /\ \A i \in E3 : place[i] = i
    BY <1>1, <1>5, <1>7
  <2> HIDE DEF place, E3
  <2>2. \E x \in E3 : \A y \in E3 : place[x] <= place[y]
    BY <2>1, LeastMeasure
  <2> QED
    BY <2>1, <2>2
<1>9. /\ d \in E /\ scoreOf(policy, bids[d]) = scoreOf(policy, bids[a])
      /\ bids[d].price = bids[b].price /\ bids[d].supplier = bids[c].supplier
  BY <1>8
<1>10. ASSUME NEW j \in E \ {d}
       PROVE  RankedBefore(policy, bids, d, j)
  <2>1. /\ bids[d] \in ScorableBid /\ bids[j] \in ScorableBid
        /\ scoreOf(policy, bids[d]) \in Int /\ scoreOf(policy, bids[j]) \in Int
        /\ bids[d].price \in Nat /\ bids[j].price \in Nat
        /\ bids[d].supplier \in Nat /\ bids[j].supplier \in Nat /\ d \in Nat /\ j \in Nat
    BY <1>1, <1>9, ScoreType, BidFields
  <2>2. scoreOf(policy, bids[d]) >= scoreOf(policy, bids[j])
    BY <1>4, <1>9
  <2>3. scoreOf(policy, bids[j]) = scoreOf(policy, bids[d]) => bids[d].price <= bids[j].price
    BY <1>6, <1>9
  <2>4. (scoreOf(policy, bids[j]) = scoreOf(policy, bids[d]) /\ bids[j].price = bids[d].price)
          => bids[d].supplier <= bids[j].supplier
    BY <1>6, <1>7, <1>9
  <2>5. (/\ scoreOf(policy, bids[j]) = scoreOf(policy, bids[d])
         /\ bids[j].price = bids[d].price
         /\ bids[j].supplier = bids[d].supplier)
          => d < j
    BY <1>8, <1>9, <2>1
  <2> QED
    BY <2>1, <2>2, <2>3, <2>4, <2>5 DEF RankedBefore, Precedes
<1> QED
  BY <1>9, <1>10 DEF E, first

-----------------------------------------------------------------------------
(***************************************************************************)
(* The rule.                                                               *)
(***************************************************************************)

\* Math.min over the prices that set the bar for trade-downs.
LEMMA LeastPrice ==
  ASSUME NEW prices \in SUBSET Nat, prices # {}
  PROVE  Min(prices) \in prices /\ \A p \in prices : Min(prices) <= p
<1> DEFINE same == [p \in prices |-> p]
<1>1. same \in [prices -> Nat] /\ \A p \in prices : same[p] = p
  OBVIOUS
<1> HIDE DEF same
<1>2. \E m \in prices : \A p \in prices : same[m] <= same[p]
  BY <1>1, LeastMeasure
<1> QED
  BY <1>1, <1>2 DEF Min

\* A share of a price grows with the price.
LEMMA ShareGrows ==
  ASSUME NEW low \in Nat, NEW high \in Nat, NEW share \in Nat, low <= high
  PROVE  low * share <= high * share /\ low * share \in Nat /\ high * share \in Nat
<1>1. PICK more \in Nat : high = low + more
  <2>1. high - low \in Nat /\ high = low + (high - low)
    OBVIOUS
  <2> QED
    BY <2>1
<1>2. (low + more) * share = low * share + more * share
  OBVIOUS
<1>3. more * share \in Nat /\ low * share \in Nat
  OBVIOUS
<1> QED
  BY <1>1, <1>2, <1>3

\* The places at the minimum stars hold the bids that meet it.
LEMMA MeetsStarsPlaces ==
  ASSUME NEW policy, NEW bids
  PROVE  {bids[i].price : i \in atMinStars(policy, bids)}
           = {full.price : full \in {b \in Book(bids) : MeetsStars(policy, b)}}
BY DEF atMinStars, affordable, MeetsStars, Book

\* A discount off the cheapest bid at the minimum stars is one off every such bid.
LEMMA DiscountIsFromAll ==
  ASSUME NEW policy \in PolicyTerms, NEW bids \in BidList, NEW bid \in ScorableBid
  PROVE  ClearsDiscount(policy, bids, bid) <=>
           \A full \in Book(bids) : MeetsStars(policy, full) =>
             bid.price * 100 <= full.price * (100 - policy.requiredDiscountPercentage)
<1> DEFINE prices == {bids[i].price : i \in atMinStars(policy, bids)}
           share == 100 - policy.requiredDiscountPercentage
<1>1. share \in Nat /\ bid.price \in Nat
  BY PolicyFields, BidFields
<1>2. prices \subseteq Nat
  BY ListPlaces, BidFields DEF atMinStars, affordable
<1>3. prices = {full.price : full \in {b \in Book(bids) : MeetsStars(policy, b)}}
  BY MeetsStarsPlaces
<1>4. ClearsDiscount(policy, bids, bid) <=> (prices # {} => bid.price * 100 <= Min(prices) * share)
  BY DEF ClearsDiscount
<1>5. (\A full \in Book(bids) : MeetsStars(policy, full) =>
         bid.price * 100 <= full.price * (100 - policy.requiredDiscountPercentage))
        <=> \A p \in prices : bid.price * 100 <= p * share
  BY <1>3
<1> HIDE DEF prices, share
<1>6. CASE prices = {}
  BY <1>4, <1>5, <1>6
<1>7. CASE prices # {}
  <2>1. Min(prices) \in prices /\ \A p \in prices : Min(prices) <= p
    BY <1>2, <1>7, LeastPrice
  <2>2. \A p \in prices : Min(prices) * share <= p * share /\ p * share \in Nat /\ Min(prices) * share \in Nat
    BY <1>1, <1>2, <2>1, ShareGrows
  <2>3. bid.price * 100 \in Nat
    BY <1>1
  <2> DEFINE asked == bid.price * 100
             bar == Min(prices) * share
  <2>4. asked \in Nat /\ bar \in Nat /\ (\A p \in prices : p * share \in Nat /\ bar <= p * share)
    BY <2>1, <2>2, <2>3
  <2>5. \E p \in prices : p * share = bar
    BY <2>1
  <2>6. (asked <= bar) <=> \A p \in prices : asked <= p * share
    <3> HIDE DEF asked, bar
    <3> QED
      BY <2>4, <2>5
  <2> QED
    BY <1>4, <1>5, <1>7, <2>6
<1> QED
  BY <1>6, <1>7

\* filter: a place is left exactly when its bid qualifies under the rule.
LEMMA EligibleQualifies ==
  ASSUME NEW policy \in PolicyTerms, NEW bids \in BidList, NEW i \in DOMAIN bids
  PROVE  i \in eligible(policy, bids) <=>
           MeetsStars(policy, bids[i]) \/ TradesDown(policy, Book(bids), bids[i])
<1>1. bids[i] \in ScorableBid /\ bids[i].stars \in Nat /\ policy.minStars \in Nat
  BY ListPlaces, BidFields, PolicyFields
<1>2. ClearsDiscount(policy, bids, bids[i]) <=>
        \A full \in Book(bids) : MeetsStars(policy, full) =>
          bids[i].price * 100 <= full.price * (100 - policy.requiredDiscountPercentage)
  BY <1>1, DiscountIsFromAll
<1> QED
  BY <1>1, <1>2 DEF eligible, affordable, MeetsStars, TradesDown

\* The bids that may win.
Qualified(policy, book) ==
  {b \in book : MeetsStars(policy, b) \/ TradesDown(policy, book, b)}

\* To win by the rule is to qualify, and to precede every other supplier that does.
LEMMA WinnerPrecedes ==
  ASSUME NEW policy \in PolicyTerms, NEW book \in SUBSET ScorableBid, NEW bid \in ScorableBid
  PROVE  WinnerByRule(policy, book, bid) <=>
           /\ bid \in Qualified(policy, book)
           /\ \A other \in Qualified(policy, book) : ~Precedes(policy, other, bid)
<1>1. \A other \in Qualified(policy, book) : other \in ScorableBid
  BY DEF Qualified
<1>2. ASSUME NEW other \in ScorableBid
      PROVE  (\/ scoreOf(policy, other) < scoreOf(policy, bid)
              \/ /\ scoreOf(policy, other) = scoreOf(policy, bid)
                 /\ <<other.price, other.supplier>> # <<bid.price, bid.supplier>> =>
                      \/ bid.price < other.price
                      \/ bid.price = other.price /\ bid.supplier < other.supplier)
             <=> ~Precedes(policy, other, bid)
  <2>1. /\ scoreOf(policy, other) \in Int /\ scoreOf(policy, bid) \in Int
        /\ other.price \in Nat /\ bid.price \in Nat /\ other.supplier \in Nat /\ bid.supplier \in Nat
    BY ScoreType, BidFields
  <2>2. (<<other.price, other.supplier>> # <<bid.price, bid.supplier>>)
          <=> other.price # bid.price \/ other.supplier # bid.supplier
    OBVIOUS
  <2> QED
    BY <2>1, <2>2 DEF Precedes
<1> QED
  BY <1>1, <1>2 DEF WinnerByRule, Qualified

\* No two suppliers win.
LEMMA OneWinner ==
  ASSUME NEW policy \in PolicyTerms, NEW book \in SUBSET ScorableBid,
         NEW one \in ScorableBid, NEW two \in ScorableBid,
         WinnerByRule(policy, book, one), WinnerByRule(policy, book, two)
  PROVE  one.supplier = two.supplier /\ one.price = two.price
BY WinnerPrecedes, PrecedesIsTotal

\* The filters and the sort compute the rule of docs/spec.md "Scoring" on every list of
\* bids: the winner qualifies, precedes all others and is paid its own price, and nobody
\* wins exactly when nobody qualifies.
THEOREM SettleFollowsRule ==
  ASSUME NEW policy \in PolicyTerms, NEW bids \in BidList
  PROVE  \/ /\ settle(policy, bids).winner = NoWinner /\ settle(policy, bids).payout = 0
            /\ Qualified(policy, Book(bids)) = {} /\ \A bid : ~WinnerByRule(policy, Book(bids), bid)
         \/ /\ settle(policy, bids).winner # NoWinner
            /\ \E bid \in Book(bids) : /\ WinnerByRule(policy, Book(bids), bid)
                                       /\ bid.supplier = settle(policy, bids).winner
                                       /\ bid.price = settle(policy, bids).payout
<1>1. Book(bids) \in SUBSET ScorableBid /\ \A i \in DOMAIN bids : bids[i] \in ScorableBid
  BY ListPlaces DEF Book
<1>2. Qualified(policy, Book(bids)) = {bids[i] : i \in eligible(policy, bids)}
  <2>1. eligible(policy, bids) \subseteq DOMAIN bids
    BY DEF eligible, affordable
  <2> QED
    BY <2>1, EligibleQualifies DEF Qualified, Book
<1>3. CASE eligible(policy, bids) = {}
  BY <1>2, <1>3 DEF settle, WinnerByRule, Qualified
<1>4. CASE eligible(policy, bids) # {}
  <2> DEFINE i == first(policy, bids)
             won == bids[i]
  <2>1. /\ i \in eligible(policy, bids)
        /\ \A j \in eligible(policy, bids) \ {i} : RankedBefore(policy, bids, i, j)
    BY <1>4, FirstIsFirst
  <2>2. i \in DOMAIN bids /\ won \in ScorableBid /\ won \in Book(bids)
    BY <1>1, <2>1 DEF eligible, affordable, Book
  <2>3. settle(policy, bids).winner = won.supplier /\ settle(policy, bids).payout = won.price
    BY <1>4 DEF settle
  <2> HIDE DEF i
  <2>4. ASSUME NEW j \in eligible(policy, bids)
        PROVE  ~Precedes(policy, bids[j], won)
    <3>1. bids[j] \in ScorableBid
      BY <1>1 DEF eligible, affordable
    <3>2. CASE j = i
      BY <2>2, <3>1, <3>2, PrecedesIsTotal
    <3>3. CASE j # i
      BY <2>1, <2>2, <3>1, <3>3, PrecedesIsTotal DEF RankedBefore
    <3> QED
      BY <3>2, <3>3
  <2>5. WinnerByRule(policy, Book(bids), won)
    BY <1>1, <1>2, <2>1, <2>2, <2>4, WinnerPrecedes
  <2> QED
    BY <2>2, <2>3, <2>5, BidFields
<1> QED
  BY <1>3, <1>4

-----------------------------------------------------------------------------
(***************************************************************************)
(* What follows for the bidders.                                           *)
(***************************************************************************)

\* settle answers one of two records.
LEMMA SettleType ==
  ASSUME NEW policy, NEW bids
  PROVE  settle(policy, bids) = [winner |-> settle(policy, bids).winner,
                                 payout |-> settle(policy, bids).payout]
BY DEF settle

\* A bid that wins by the rule is the one settle names and pays.
LEMMA WinnerIsSettled ==
  ASSUME NEW policy \in PolicyTerms, NEW bids \in BidList, NEW bid \in Book(bids),
         WinnerByRule(policy, Book(bids), bid)
  PROVE  settle(policy, bids) = [winner |-> bid.supplier, payout |-> bid.price]
<1>1. Book(bids) \in SUBSET ScorableBid
  BY ListPlaces DEF Book
<1>2. PICK won \in Book(bids) : /\ WinnerByRule(policy, Book(bids), won)
                                /\ won.supplier = settle(policy, bids).winner
                                /\ won.price = settle(policy, bids).payout
  BY SettleFollowsRule
<1>3. won.supplier = bid.supplier /\ won.price = bid.price
  BY <1>1, <1>2, OneWinner
<1> QED
  BY <1>2, <1>3, SettleType

\* Every node reaches the same settlement: it depends on which bids there are, and on
\* neither their order nor how often one of them is on the list.
LEMMA SettleReadsTheBook ==
  ASSUME NEW policy \in PolicyTerms, NEW one \in BidList, NEW two \in BidList, Book(one) = Book(two)
  PROVE  settle(policy, one) = settle(policy, two)
<1>1. CASE \E bid \in Book(one) : WinnerByRule(policy, Book(one), bid)
  BY <1>1, WinnerIsSettled
<1>2. CASE ~\E bid \in Book(one) : WinnerByRule(policy, Book(one), bid)
  <2>1. ASSUME NEW bids \in BidList, ~\E bid \in Book(bids) : WinnerByRule(policy, Book(bids), bid)
        PROVE  settle(policy, bids) = [winner |-> NoWinner, payout |-> 0]
    BY <2>1, SettleFollowsRule, SettleType
  <2> QED
    BY <1>2, <2>1
<1> QED
  BY <1>1, <1>2

\* An account commits once, so it has one bid on the list.
OneBidEach(bids) ==
  \A i, j \in DOMAIN bids : bids[i].supplier = bids[j].supplier => i = j

\* The winner's place on such a list.
LEMMA WinnerPlace ==
  ASSUME NEW policy \in PolicyTerms, NEW bids \in BidList, OneBidEach(bids),
         NEW i \in DOMAIN bids, bids[i].supplier = settle(policy, bids).winner
  PROVE  WinnerByRule(policy, Book(bids), bids[i]) /\ settle(policy, bids).payout = bids[i].price
<1>1. bids[i].supplier # NoWinner
  BY ListPlaces, BidFields
<1>2. PICK won \in Book(bids) : /\ WinnerByRule(policy, Book(bids), won)
                                /\ won.supplier = settle(policy, bids).winner
                                /\ won.price = settle(policy, bids).payout
  BY <1>1, SettleFollowsRule
<1>3. PICK j \in DOMAIN bids : won = bids[j]
  BY DEF Book
<1>4. j = i
  BY <1>2, <1>3 DEF OneBidEach
<1> QED
  BY <1>2, <1>3, <1>4

\* A bid that asks for less scores more, and still qualifies; the bar it may move only
\* comes down for it.
THEOREM CheaperWins ==
  ASSUME NEW policy \in PolicyTerms, NEW bids \in BidList, OneBidEach(bids),
         NEW i \in DOMAIN bids, bids[i].supplier = settle(policy, bids).winner,
         NEW price \in Nat \ {0}, price < bids[i].price
  PROVE  settle(policy, [bids EXCEPT ![i].price = price]).winner = bids[i].supplier
<1> DEFINE lower == [bids EXCEPT ![i].price = price]
           was == bids[i]
           is == lower[i]
           share == 100 - policy.requiredDiscountPercentage
<1>1. /\ was \in ScorableBid /\ is = [was EXCEPT !.price = price]
      /\ DOMAIN lower = DOMAIN bids /\ \A j \in DOMAIN bids \ {i} : lower[j] = bids[j]
      /\ \A j \in DOMAIN bids : bids[j] \in ScorableBid
  BY ListPlaces
<1>2. /\ is \in ScorableBid /\ is.supplier = was.supplier /\ is.price = price /\ is.stars = was.stars
      /\ is.refundable = was.refundable /\ is.breakfastIncluded = was.breakfastIncluded
  BY <1>1 DEF ScorableBid
<1>3. lower \in BidList
  <2>1. \A j \in DOMAIN lower : lower[j] \in ScorableBid
    BY <1>1, <1>2
  <2>2. lower \in [DOMAIN bids -> ScorableBid] /\ DOMAIN bids \in SUBSET Nat
    BY <1>1, <2>1, ListPlaces
  <2> QED
    BY <2>2 DEF BidList
<1> HIDE DEF lower
<1>4. WinnerByRule(policy, Book(bids), was)
  BY WinnerPlace
<1>5. /\ Book(bids) \in SUBSET ScorableBid /\ Book(lower) \in SUBSET ScorableBid
      /\ is \in Book(lower) /\ was \in Book(bids)
      /\ \A b \in Book(lower) : b = is \/ b \in Book(bids)
      /\ \A b \in Book(bids) : b = was \/ b \in Book(lower)
  BY <1>1, <1>2 DEF Book
<1>6. /\ share \in Nat /\ was.price \in Nat /\ price \in Nat /\ policy.maxPrice \in Nat
      /\ policy.minStars \in Nat /\ was.stars \in Nat
  BY <1>1, PolicyFields, BidFields
<1> HIDE DEF is, was
<1>7. MeetsStars(policy, was) => MeetsStars(policy, is)
  BY <1>2, <1>6 DEF MeetsStars, was
<1>8. is \in Qualified(policy, Book(lower))
  <2>1. was \in Qualified(policy, Book(bids))
    BY <1>1, <1>4, <1>5, WinnerPrecedes
  <2>2. CASE MeetsStars(policy, was)
    BY <1>5, <1>7, <2>2 DEF Qualified
  <2>3. CASE TradesDown(policy, Book(bids), was)
    <3>1. ASSUME NEW full \in Book(lower), MeetsStars(policy, full)
          PROVE  is.price * 100 <= full.price * share
      <4>1. full \in Book(bids) /\ full.price \in Nat
        BY <1>2, <1>5, <1>6, <2>3, <3>1, BidFields DEF TradesDown, MeetsStars
      <4>2. was.price * 100 <= full.price * share
        BY <2>3, <3>1, <4>1 DEF TradesDown
      <4>3. price * 100 <= was.price * 100 /\ price * 100 \in Nat /\ was.price * 100 \in Nat
        BY <1>6 DEF was
      <4>4. full.price * share \in Nat
        BY <1>6, <4>1, ShareGrows
      <4> DEFINE bar == full.price * share
      <4> HIDE DEF bar
      <4>5. was.price * 100 <= bar /\ bar \in Nat
        BY <4>2, <4>4 DEF bar
      <4>6. is.price * 100 <= bar
        BY <1>2, <1>6, <4>3, <4>5
      <4> QED
        BY <4>6 DEF bar
    <3>2. TradesDown(policy, Book(lower), is)
      BY <1>2, <1>6, <2>3, <3>1 DEF TradesDown, was
    <3> QED
      BY <1>5, <3>2 DEF Qualified
  <2> QED
    BY <2>1, <2>2, <2>3 DEF Qualified
<1>9. ASSUME NEW other \in Qualified(policy, Book(lower)), other # is
      PROVE  other \in Qualified(policy, Book(bids)) /\ other \in ScorableBid
  <2>1. other \in Book(bids) /\ other \in ScorableBid /\ other.price \in Nat
    BY <1>5, <1>9, BidFields DEF Qualified
  <2>2. CASE MeetsStars(policy, other)
    BY <2>1, <2>2 DEF Qualified
  <2>3. CASE TradesDown(policy, Book(lower), other)
    <3>1. ASSUME NEW full \in Book(bids), MeetsStars(policy, full)
          PROVE  other.price * 100 <= full.price * share
      <4>1. CASE full \in Book(lower)
        BY <2>3, <3>1, <4>1 DEF TradesDown
      <4>2. CASE full = was
        <5>1. other.price * 100 <= price * share
          BY <1>2, <1>5, <1>7, <2>3, <3>1, <4>2 DEF TradesDown
        <5>2. /\ price * share <= was.price * share
              /\ price * share \in Nat /\ was.price * share \in Nat
          BY <1>6, ShareGrows DEF was
        <5>3. other.price * 100 \in Nat
          BY <2>1
        <5> DEFINE a == price * share
                   b == was.price * share
        <5> HIDE DEF a, b
        <5>4. other.price * 100 <= a /\ a <= b /\ a \in Nat /\ b \in Nat
          BY <5>1, <5>2 DEF a, b
        <5>5. other.price * 100 <= b
          BY <5>3, <5>4
        <5> QED
          BY <4>2, <5>5 DEF b
      <4> QED
        BY <1>5, <4>1, <4>2
    <3> QED
      BY <2>1, <2>3, <3>1 DEF Qualified, TradesDown
  <2> QED
    BY <1>9, <2>1, <2>2, <2>3 DEF Qualified
<1>10. ASSUME NEW other \in Qualified(policy, Book(lower))
       PROVE  ~Precedes(policy, other, is)
  <2>1. CASE other = is
    BY <1>2, <2>1, PrecedesIsTotal
  <2>2. CASE other # is
    <3>1. other \in ScorableBid /\ ~Precedes(policy, other, was)
      BY <1>1, <1>4, <1>5, <1>9, <2>2, WinnerPrecedes
    <3>2. /\ scoreOf(policy, is) > scoreOf(policy, was)
          /\ scoreOf(policy, is) \in Int /\ scoreOf(policy, was) \in Int /\ scoreOf(policy, other) \in Int
      <4>1. scoreOf(policy, is) > scoreOf(policy, was)
        <5>1. policy.refundable \in Nat /\ policy.breakfastIncluded \in Nat /\ price < was.price
          BY PolicyFields DEF was
        <5> QED
          BY <1>2, <1>6, <5>1 DEF scoreOf
      <4> QED
        BY <1>1, <1>2, <3>1, <4>1, ScoreType DEF was
    <3> QED
      BY <3>1, <3>2 DEF Precedes
  <2> QED
    BY <2>1, <2>2
<1>11. WinnerByRule(policy, Book(lower), is)
  BY <1>2, <1>5, <1>8, <1>10, WinnerPrecedes
<1> QED
  BY <1>2, <1>3, <1>5, <1>11, WinnerIsSettled DEF lower, was

\* A bid more on the list can only take the place of trade-downs that are no longer
\* cheap enough beside it.
THEOREM OneMoreBid ==
  ASSUME NEW policy \in PolicyTerms, NEW before \in BidList, NEW after \in BidList,
         NEW newcomer \in ScorableBid, Book(after) = Book(before) \cup {newcomer},
         settle(policy, after).winner \notin {settle(policy, before).winner, newcomer.supplier}
  PROVE  \E won \in Book(before) :
           /\ won.supplier = settle(policy, before).winner
           /\ WinnerByRule(policy, Book(before), won)
           /\ won.stars < policy.minStars
           /\ MeetsStars(policy, newcomer)
           /\ newcomer.price * (100 - policy.requiredDiscountPercentage) < won.price * 100
<1> DEFINE Old == Book(before)
           New == Book(after)
           share == 100 - policy.requiredDiscountPercentage
<1>1. Old \in SUBSET ScorableBid /\ New \in SUBSET ScorableBid
  BY ListPlaces DEF Book
<1>2. ASSUME NEW bid \in Qualified(policy, New), bid # newcomer
      PROVE  bid \in Qualified(policy, Old)
  BY <1>2 DEF Qualified, TradesDown
<1>3. ASSUME Qualified(policy, New) # {}
      PROVE  \E won \in Qualified(policy, New) :
               WinnerByRule(policy, New, won) /\ won.supplier = settle(policy, after).winner
  BY <1>1, <1>3, SettleFollowsRule, WinnerPrecedes
<1>4. settle(policy, before).winner # NoWinner
  <2> SUFFICES ASSUME settle(policy, before).winner = NoWinner PROVE FALSE
    OBVIOUS
  <2>1. settle(policy, after).winner # NoWinner
    OBVIOUS
  <2>2. PICK won \in New : /\ WinnerByRule(policy, New, won)
                           /\ won.supplier = settle(policy, after).winner
    BY <2>1, SettleFollowsRule
  <2>3. won \in Qualified(policy, Old)
    BY <1>1, <1>2, <2>2, WinnerPrecedes
  <2> QED
    BY <2>3, SettleFollowsRule
<1>5. PICK won \in Old : WinnerByRule(policy, Old, won) /\ won.supplier = settle(policy, before).winner
  BY <1>4, SettleFollowsRule
<1>6. won \in ScorableBid /\ won \in Qualified(policy, Old)
  BY <1>1, <1>5, WinnerPrecedes
<1>7. won \notin Qualified(policy, New)
  <2> SUFFICES ASSUME won \in Qualified(policy, New) PROVE FALSE
    OBVIOUS
  <2>1. PICK other \in Qualified(policy, New) :
          WinnerByRule(policy, New, other) /\ other.supplier = settle(policy, after).winner
    BY <1>3
  <2>2. other \in ScorableBid /\ other \in Qualified(policy, Old)
    BY <1>1, <1>2, <2>1 DEF Qualified
  <2>3. ~Precedes(policy, other, won) /\ ~Precedes(policy, won, other)
    BY <1>1, <1>5, <1>6, <2>1, <2>2, WinnerPrecedes
  <2> QED
    BY <1>5, <1>6, <2>1, <2>2, <2>3, PrecedesIsTotal
<1>8. ~MeetsStars(policy, won) /\ TradesDown(policy, Old, won) /\ ~TradesDown(policy, New, won)
  BY <1>6, <1>7 DEF Qualified
<1>9. PICK full \in New : MeetsStars(policy, full) /\ ~(won.price * 100 <= full.price * share)
  BY <1>8 DEF TradesDown
<1>10. full = newcomer
  BY <1>8, <1>9 DEF TradesDown
<1>11. newcomer.price * share < won.price * 100
  <2>1. newcomer.price \in Nat /\ won.price \in Nat /\ share \in Nat
    BY <1>6, BidFields, PolicyFields
  <2>2. newcomer.price * share \in Nat /\ won.price * 100 \in Nat
    BY <2>1, ShareGrows
  <2> QED
    BY <1>9, <1>10, <2>2
<1>12. won.stars < policy.minStars
  BY <1>8 DEF TradesDown
<1> QED
  BY <1>5, <1>9, <1>10, <1>11, <1>12
=============================================================================
