----------------------- MODULE MCSealedAuctionProofs -----------------------
(***************************************************************************)
(* The proof that the contract is solvent, for every number of auctions,   *)
(* accounts and stakes.  A sum over a set is awkward to reason about, a    *)
(* number of elements is not: what is owed is counted coin by coin.        *)
(***************************************************************************)
EXTENDS MCSealedAuction, SealedAuctionProofs

-----------------------------------------------------------------------------
(***************************************************************************)
(* Sums as cardinalities.                                                  *)
(***************************************************************************)

\* One coin, by its auction and its number, per unit that is owed to each.
Coins(owed) == {coin \in AuctionIds \X (Nat \ {0}) : coin[2] <= owed[coin[1]]}

\* The coins of one auction with the numbers of an interval.
LEMMA NewCoins ==
  ASSUME NEW id, NEW a \in Int, NEW b \in Int
  PROVE  /\ IsFiniteSet({id} \X (a..b))
         /\ Cardinality({id} \X (a..b)) = IF a > b THEN 0 ELSE b - a + 1
<1>1. /\ IsFiniteSet(a..b)
      /\ Cardinality(a..b) = IF a > b THEN 0 ELSE b - a + 1
  BY FS_Interval
<1>2. PICK n : n = IF a > b THEN 0 ELSE b - a + 1
  OBVIOUS
<1>3. IsFiniteSet({id}) /\ Cardinality({id}) = 1
  BY FS_Singleton
<1> DEFINE numbers == a..b
<1>4. IsFiniteSet(numbers) /\ Cardinality(numbers) = n
  BY <1>1, <1>2
<1> HIDE DEF numbers
<1>5. /\ IsFiniteSet({id} \X numbers)
      /\ Cardinality({id} \X numbers) = Cardinality({id}) * Cardinality(numbers)
  BY <1>3, <1>4, FS_Product
<1>6. Cardinality({id} \X numbers) = n
  <2>1. PICK one, many : one = Cardinality({id}) /\ many = Cardinality(numbers)
    OBVIOUS
  <2>2. n \in Nat
    BY <1>2
  <2>3. one * many = n
    BY <1>3, <1>4, <2>1, <2>2
  <2> QED
    BY <1>5, <2>1, <2>3
<1> QED
  BY <1>2, <1>5, <1>6 DEF numbers

\* Who is owed n more is owed that many coins more.
LEMMA CoinsGrow ==
  ASSUME NEW owed \in [AuctionIds -> Nat], IsFiniteSet(Coins(owed)),
         NEW id \in AuctionIds, NEW n \in Nat,
         NEW more, more = [owed EXCEPT ![id] = @ + n]
  PROVE  /\ IsFiniteSet(Coins(more))
         /\ Cardinality(Coins(more)) = Cardinality(Coins(owed)) + n
<1>1. PICK m \in Nat : m = owed[id]
  OBVIOUS
<1>2. PICK a \in Int, b \in Int : a = m + 1 /\ b = m + n
  BY <1>1
<1>3. /\ more \in [AuctionIds -> Nat] /\ more[id] = m + n
      /\ \A x \in AuctionIds : x # id => more[x] = owed[x]
  BY <1>1
<1> DEFINE new == {id} \X (a..b)
<1>4. IsFiniteSet(new) /\ Cardinality(new) = n
  <2>1. a \in Int /\ b \in Int
    BY <1>2
  <2>2. PICK s : s = {id} \X (a..b)
    OBVIOUS
  <2>3. IsFiniteSet(s) /\ Cardinality(s) = IF a > b THEN 0 ELSE b - a + 1
    BY <2>1, <2>2, NewCoins
  <2>4. PICK size : size = Cardinality(s)
    OBVIOUS
  <2>5. size = n
    BY <1>2, <2>3, <2>4
  <2> QED
    BY <2>2, <2>3, <2>4, <2>5
<1>5. Coins(more) = Coins(owed) \cup new
  <2>1. ASSUME NEW x \in AuctionIds, NEW k \in Nat \ {0}
        PROVE  k <= more[x] <=> k <= owed[x] \/ (x = id /\ k \in a..b)
    <3>1. CASE x = id
      BY <1>1, <1>2, <1>3, <3>1
    <3>2. CASE x # id
      BY <1>3, <3>2
    <3> QED
      BY <3>1, <3>2
  <2>2. ASSUME NEW coin
        PROVE  coin \in Coins(more) <=> coin \in Coins(owed) \cup new
    <3>1. CASE coin \in AuctionIds \X (Nat \ {0})
      <4>1. PICK x \in AuctionIds, k \in Nat \ {0} : coin = <<x, k>>
        BY <3>1
      <4> QED
        BY <2>1, <4>1 DEF Coins
    <3>2. CASE coin \notin AuctionIds \X (Nat \ {0})
      <4>1. new \subseteq AuctionIds \X (Nat \ {0})
        BY <1>2
      <4> QED
        BY <3>2, <4>1 DEF Coins
    <3> QED
      BY <3>1, <3>2
  <2> QED
    BY <2>2
<1>6. Coins(owed) \cap new = {}
  BY <1>1, <1>2 DEF Coins
<1> HIDE DEF new
<1>7. PICK one, two, both, all : /\ one = Cardinality(Coins(owed)) /\ two = Cardinality(new)
                                /\ both = Cardinality(Coins(owed) \cap new)
                                /\ all = Cardinality(Coins(owed) \cup new)
  OBVIOUS
<1>8. one \in Nat /\ both = 0
  BY <1>6, <1>7, FS_CardinalityType, FS_EmptySet
<1>9. IsFiniteSet(Coins(owed) \cup new) /\ all = one + two - both
  BY <1>4, <1>7, FS_Union
<1>10. all = one + n
  <2>1. two = n
    BY <1>4, <1>7
  <2> QED
    BY <1>8, <1>9, <2>1
<1> QED
  BY <1>5, <1>7, <1>9, <1>10

\* Of nothing there is no coin.
LEMMA NoCoins ==
  ASSUME NEW owed \in [AuctionIds -> {0}]
  PROVE  Coins(owed) = {} /\ IsFiniteSet(Coins(owed)) /\ Cardinality(Coins(owed)) = 0
<1>1. Coins(owed) = {}
  BY DEF Coins
<1> QED
  BY <1>1, FS_EmptySet
-----------------------------------------------------------------------------
\* What is owed to the open auctions of a set.
OwedTo(set) == [id \in AuctionIds |-> IF id \in set THEN Locked(id) ELSE 0]

\* MapThenSumSet, unfolded once.
LEMMA SumUnfolds ==
  ASSUME NEW S
  PROVE  MapThenSumSet(Locked, S) =
           (CHOOSE iter : iter =
             [s \in SUBSET S |->
               IF s = {} THEN 0
               ELSE Locked(CHOOSE x \in s : TRUE) + iter[s \ {CHOOSE x \in s : TRUE}]])[S]
BY DEF MapThenSumSet, MapThenFoldSet

\* A function that satisfies the equation of the sum gives the sum: two that do
\* agree on every subset, for there is no smallest one on which they differ.
LEMMA SumIsUnique ==
  ASSUME NEW S, IsFiniteSet(S), NEW f,
         f = [s \in SUBSET S |->
               IF s = {} THEN 0
               ELSE Locked(CHOOSE x \in s : TRUE) + f[s \ {CHOOSE x \in s : TRUE}]]
  PROVE  MapThenSumSet(Locked, S) = f[S]
<1> DEFINE Sums(iter) ==
             iter = [s \in SUBSET S |->
                      IF s = {} THEN 0
                      ELSE Locked(CHOOSE x \in s : TRUE) + iter[s \ {CHOOSE x \in s : TRUE}]]
<1>1. PICK g : g = CHOOSE iter : Sums(iter)
  OBVIOUS
<1>2. Sums(f) /\ Sums(g)
  <2>1. Sums(f)
    OBVIOUS
  <2> HIDE DEF Sums
  <2> QED
    BY <1>1, <2>1, Zenon
<1>3. MapThenSumSet(Locked, S) = g[S]
  BY <1>1, SumUnfolds
<1> DEFINE differ == {Cardinality(s) : s \in {t \in SUBSET S : f[t] # g[t]}}
<1>4. ASSUME f[S] # g[S] PROVE FALSE
  <2>1. \A s \in SUBSET S : IsFiniteSet(s) /\ Cardinality(s) \in Nat
    BY FS_Subset, FS_CardinalityType
  <2>2. differ \subseteq Nat /\ differ # {}
    <3>1. differ \subseteq Nat
      BY <2>1
    <3>2. Cardinality(S) \in differ
      BY <1>4
    <3> QED
      BY <3>1, <3>2
  <2>3. PICK k \in differ : \A l \in differ : k <= l
    BY <2>2, LeastNatural
  <2>4. PICK s \in SUBSET S : k = Cardinality(s) /\ f[s] # g[s]
    BY <2>3
  <2>5. s # {}
    BY <1>2, <2>4
  <2>6. PICK x : x = CHOOSE y \in s : TRUE
    OBVIOUS
  <2>7. x \in s
    BY <2>5, <2>6
  <2>8. s \ {x} \in SUBSET S /\ Cardinality(s \ {x}) = Cardinality(s) - 1
    BY <2>1, <2>7, FS_RemoveElement
  <2>9. Cardinality(s \ {x}) \notin differ
    <3>1. Cardinality(s) \in Nat
      BY <2>1
    <3> HIDE DEF differ
    <3> QED
      BY <2>3, <2>4, <2>8, <3>1
  <2>10. f[s \ {x}] = g[s \ {x}]
    BY <2>8, <2>9
  <2>11. f[s] = Locked(x) + f[s \ {x}] /\ g[s] = Locked(x) + g[s \ {x}]
    BY <1>2, <2>5, <2>6, ZenonT(40)
  <2> QED
    BY <2>4, <2>10, <2>11
<1> QED
  BY <1>3, <1>4

\* What the contract holds for one auction is a number, and what it owes to a
\* set of auctions is that number for each.
LEMMA OwedType ==
  ASSUME TypeOK, NEW set
  PROVE  /\ \A id \in AuctionIds : Locked(id) \in Nat
         /\ OwedTo(set) \in [AuctionIds -> Nat]
<1>1. ASSUME NEW id \in AuctionIds PROVE Locked(id) \in Nat
  <2>1. PICK n \in Nat : n = Len(committers[id])
    BY DEF TypeOK
  <2>2. SUPPLIER_STAKE * n \in Nat
    BY ContractAssumption
  <2> QED
    BY <2>1, <2>2, AuctionIdFields DEF Locked
<1> QED
  BY <1>1 DEF OwedTo

\* An auction more in the set is its escrow more that is owed.
LEMMA OwedWithout ==
  ASSUME TypeOK, NEW set, NEW x \in set, x \in AuctionIds
  PROVE  OwedTo(set) = [OwedTo(set \ {x}) EXCEPT ![x] = @ + Locked(x)]
<1>1. Locked(x) \in Nat
  BY OwedType
<1>2. PICK fewer, n : fewer = OwedTo(set \ {x}) /\ n = Locked(x)
  OBVIOUS
<1>3. /\ fewer \in [AuctionIds -> Nat] /\ fewer[x] = 0
      /\ OwedTo(set) \in [AuctionIds -> Nat] /\ OwedTo(set)[x] = n
      /\ \A y \in AuctionIds : y # x => OwedTo(set)[y] = fewer[y]
  BY <1>2, OwedType DEF OwedTo
<1>4. [fewer EXCEPT ![x] = @ + n] \in [AuctionIds -> Nat]
      /\ \A y \in AuctionIds : [fewer EXCEPT ![x] = @ + n][y] = OwedTo(set)[y]
  BY <1>1, <1>2, <1>3
<1>5. OwedTo(set) = [fewer EXCEPT ![x] = @ + n]
  BY <1>3, <1>4
<1> QED
  BY <1>2, <1>5

\* The sum over a set of auctions counts the coins owed to them.
LEMMA SumIsCount ==
  ASSUME TypeOK, NEW S \in SUBSET AuctionIds, IsFiniteSet(S), IsFiniteSet(Coins(OwedTo(S)))
  PROVE  MapThenSumSet(Locked, S) = Cardinality(Coins(OwedTo(S)))
<1>1. PICK f : f = [s \in SUBSET S |-> Cardinality(Coins(OwedTo(s)))]
  OBVIOUS
<1>2. ASSUME NEW s \in SUBSET S
      PROVE  IsFiniteSet(Coins(OwedTo(s))) /\ Cardinality(Coins(OwedTo(s))) \in Nat
  <2>1. \A id \in AuctionIds : OwedTo(s)[id] <= OwedTo(S)[id]
                              /\ OwedTo(s)[id] \in Nat /\ OwedTo(S)[id] \in Nat
    BY OwedType DEF OwedTo
  <2>2. Coins(OwedTo(s)) \subseteq Coins(OwedTo(S))
    BY <2>1 DEF Coins
  <2> QED
    BY <2>2, FS_Subset, FS_CardinalityType
<1>3. ASSUME NEW s \in SUBSET S, s # {}, NEW x, x = CHOOSE y \in s : TRUE
      PROVE  f[s] = Locked(x) + f[s \ {x}]
  <2>1. x \in s /\ x \in AuctionIds /\ s \ {x} \in SUBSET S
    BY <1>3
  <2>2. PICK owed, more, n : owed = OwedTo(s \ {x}) /\ more = OwedTo(s) /\ n = Locked(x)
    OBVIOUS
  <2>3. /\ owed \in [AuctionIds -> Nat] /\ IsFiniteSet(Coins(owed)) /\ n \in Nat
        /\ more = [owed EXCEPT ![x] = @ + n]
    BY <1>2, <2>1, <2>2, OwedType, OwedWithout
  <2>4. Cardinality(Coins(more)) = Cardinality(Coins(owed)) + n
    BY <2>1, <2>3, CoinsGrow
  <2>5. f[s] = f[s \ {x}] + n /\ f[s \ {x}] \in Nat
    BY <1>1, <1>2, <2>1, <2>2, <2>4
  <2> QED
    BY <2>2, <2>3, <2>5
<1>4. f[{}] = 0
  <2>1. OwedTo({}) \in [AuctionIds -> {0}]
    BY DEF OwedTo
  <2> QED
    BY <1>1, <2>1, NoCoins
<1>5. f = [s \in SUBSET S |->
            IF s = {} THEN 0
            ELSE Locked(CHOOSE x \in s : TRUE) + f[s \ {CHOOSE x \in s : TRUE}]]
  BY <1>1, <1>3, <1>4, ZenonT(40)
<1>6. MapThenSumSet(Locked, S) = f[S]
  BY <1>5, SumIsUnique
<1> QED
  BY <1>1, <1>6
-----------------------------------------------------------------------------
(***************************************************************************)
(* The inductive invariant: the contract holds as many units as there are  *)
(* coins owed to its open auctions.                                        *)
(***************************************************************************)

\* What the contract owes to each auction, nothing once it has ended.
Owed == OwedTo({id \in AuctionIds : state(id) \in Live})

EscrowIsCounted ==
  /\ IsFiniteSet(Coins(Owed))
  /\ held = Cardinality(Coins(Owed))

\* What is owed is a number per auction.
OwedIsPerAuction ==
  /\ Owed \in [AuctionIds -> Nat]
  /\ \A id \in AuctionIds : Owed[id] = IF state(id) \in Live THEN Locked(id) ELSE 0

\* It is one in every typed state.
LEMMA OwedPerAuction == TypeOK => OwedIsPerAuction
<1> SUFFICES ASSUME TypeOK PROVE OwedIsPerAuction
  OBVIOUS
<1>1. PICK set : set = {id \in AuctionIds : state(id) \in Live}
  OBVIOUS
<1>2. Owed = OwedTo(set)
  BY <1>1 DEF Owed
<1> QED
  BY <1>1, <1>2, OwedType DEF OwedTo, OwedIsPerAuction

\* And in the next one.
LEMMA OwedPerAuctionNext == TypeOK' => OwedIsPerAuction'
BY OwedPerAuction, PTL

\* Who is owed n more, and the contract holds n more: every coin is still there.
LEMMA PulledIsCounted ==
  ASSUME TypeOK, TypeOK', EscrowIsCounted, NEW id, NEW n,
         id \in AuctionIds, n \in Nat, held' = held + n,
         Owed'[id] = Owed[id] + n,
         \A x \in AuctionIds : x # id => Owed'[x] = Owed[x]
  PROVE  EscrowIsCounted'
<1>1. PICK before, after : before = Owed /\ after = Owed'
  OBVIOUS
<1>2. before \in [AuctionIds -> Nat] /\ after \in [AuctionIds -> Nat]
  BY <1>1, OwedPerAuction, OwedPerAuctionNext DEF OwedIsPerAuction
<1>3. after = [before EXCEPT ![id] = @ + n]
  BY <1>1, <1>2
<1>4. IsFiniteSet(Coins(before)) /\ held = Cardinality(Coins(before))
  BY <1>1 DEF EscrowIsCounted
<1>5. IsFiniteSet(Coins(after))
  BY <1>2, <1>3, <1>4, CoinsGrow
<1>6. Cardinality(Coins(after)) = Cardinality(Coins(before)) + n
  <2>1. PICK owed, more, k : owed = before /\ more = after /\ k = n
    OBVIOUS
  <2>2. /\ owed \in [AuctionIds -> Nat] /\ IsFiniteSet(Coins(owed))
        /\ id \in AuctionIds /\ k \in Nat
        /\ more = [owed EXCEPT ![id] = @ + k]
    BY <1>2, <1>3, <1>4, <2>1
  <2>3. Cardinality(Coins(more)) = Cardinality(Coins(owed)) + k
    BY <2>2, CoinsGrow
  <2> QED
    BY <2>1, <2>3
<1> QED
  BY <1>1, <1>4, <1>5, <1>6 DEF EscrowIsCounted

\* Who is owed n less, and the contract paid n: the other coins are still there.
LEMMA PaidIsCounted ==
  ASSUME TypeOK, TypeOK', EscrowIsCounted, NEW id, NEW n,
         id \in AuctionIds, n \in Nat, held' = held - n,
         Owed[id] = Owed'[id] + n,
         \A x \in AuctionIds : x # id => Owed'[x] = Owed[x]
  PROVE  EscrowIsCounted'
<1>1. PICK before, after : before = Owed /\ after = Owed'
  OBVIOUS
<1>2. before \in [AuctionIds -> Nat] /\ after \in [AuctionIds -> Nat]
  BY <1>1, OwedPerAuction, OwedPerAuctionNext DEF OwedIsPerAuction
<1>3. before = [after EXCEPT ![id] = @ + n]
  BY <1>1, <1>2
<1>4. IsFiniteSet(Coins(before)) /\ held = Cardinality(Coins(before))
  BY <1>1 DEF EscrowIsCounted
<1>5. IsFiniteSet(Coins(after))
  <2>1. \A x \in AuctionIds : after[x] <= before[x] /\ after[x] \in Nat /\ before[x] \in Nat
    BY <1>1, <1>2
  <2>2. Coins(after) \subseteq Coins(before)
    BY <2>1 DEF Coins
  <2> QED
    BY <1>4, <2>2, FS_Subset
<1>6. Cardinality(Coins(before)) = Cardinality(Coins(after)) + n
  <2>1. PICK owed, more, k : owed = after /\ more = before /\ k = n
    OBVIOUS
  <2>2. /\ owed \in [AuctionIds -> Nat] /\ IsFiniteSet(Coins(owed))
        /\ id \in AuctionIds /\ k \in Nat
        /\ more = [owed EXCEPT ![id] = @ + k]
    BY <1>2, <1>3, <1>5, <2>1
  <2>3. Cardinality(Coins(more)) = Cardinality(Coins(owed)) + k
    BY <2>2, CoinsGrow
  <2> QED
    BY <2>1, <2>3
<1>7. held' = Cardinality(Coins(after))
  <2>1. PICK left, all : left = Cardinality(Coins(after)) /\ all = Cardinality(Coins(before))
    OBVIOUS
  <2>2. left \in Nat /\ all = left + n /\ held' = all - n
    BY <1>4, <1>5, <1>6, <2>1, FS_CardinalityType
  <2> QED
    BY <2>1, <2>2
<1> QED
  BY <1>1, <1>5, <1>7 DEF EscrowIsCounted

\* createAuction pulls the cap, which is then owed to the new auction.
LEMMA CreateIsCounted ==
  ASSUME IInv, TypeOK', EscrowIsCounted, NEW id \in AuctionIds, createAuction(id)
  PROVE  EscrowIsCounted'
<1>1. /\ auctions[id].state = "None" /\ auctions'[id].state = "Created"
      /\ \A x \in AuctionIds : x # id => auctions'[x] = auctions[x]
      /\ committers' = committers
  BY DEF IInv, TypeOK, AuctionRecord, createAuction, CanCreate, state
<1>2. Len(committers[id]) = 0
  BY <1>1 DEF IInv, BookAgrees, state
<1>3. Locked(id)' = id.payoutCap
  <2>1. PICK n : n = Len(committers'[id])
    OBVIOUS
  <2>2. SUPPLIER_STAKE * n = 0
    BY <1>1, <1>2, <2>1, ContractAssumption
  <2>3. Locked(id)' = id.payoutCap + SUPPLIER_STAKE * n
    BY <2>1 DEF Locked
  <2> QED
    BY <2>2, <2>3, AuctionIdFields
<1>4. Owed[id] = 0 /\ Owed'[id] = id.payoutCap
  BY <1>1, <1>3, OwedPerAuction, OwedPerAuctionNext DEF IInv, OwedIsPerAuction, state, Live
<1>5. \A x \in AuctionIds : x # id => Owed'[x] = Owed[x]
  BY <1>1, OwedPerAuction, OwedPerAuctionNext DEF IInv, OwedIsPerAuction, state, Locked
<1>6. PICK n : n = id.payoutCap
  OBVIOUS
<1>7. n \in Nat /\ held' = held + n /\ Owed'[id] = Owed[id] + n
  BY <1>4, <1>6, AuctionIdFields DEF createAuction, Pull
<1> QED
  BY <1>5, <1>7, PulledIsCounted DEF IInv

\* commit pulls the stake, which is then owed to the auction it was posted to.
LEMMA CommitIsCounted ==
  ASSUME IInv, TypeOK', EscrowIsCounted, NEW id \in AuctionIds, NEW supplier \in Suppliers,
         NEW commitment \in Commitments, commit(id, supplier, commitment)
  PROVE  EscrowIsCounted'
<1>1. /\ auctions[id].state \in {"Created", "Bidding"} /\ auctions'[id].state = "Bidding"
      /\ \A x \in AuctionIds : x # id =>
           auctions'[x] = auctions[x] /\ committers'[x] = committers[x]
      /\ committers'[id] = Append(committers[id], supplier)
  BY DEF IInv, TypeOK, AuctionRecord, commit, CanCommit, state
<1>2. PICK n, m : n = Len(committers[id]) /\ m = Len(committers'[id])
  OBVIOUS
<1>3. n \in Nat /\ m = n + 1
  BY <1>1, <1>2 DEF IInv, TypeOK
<1>4. SUPPLIER_STAKE \in Nat /\ SUPPLIER_STAKE * n \in Nat
      /\ SUPPLIER_STAKE * m = SUPPLIER_STAKE * n + SUPPLIER_STAKE
  BY <1>3, ContractAssumption
<1>5. /\ Locked(id) = id.payoutCap + SUPPLIER_STAKE * n
      /\ Locked(id)' = id.payoutCap + SUPPLIER_STAKE * m
  BY <1>2 DEF Locked
<1>6. PICK stake, cap, before, after :
        /\ stake = SUPPLIER_STAKE /\ cap = id.payoutCap
        /\ before = SUPPLIER_STAKE * n /\ after = SUPPLIER_STAKE * m
  OBVIOUS
<1>7. /\ stake \in Nat /\ cap \in Nat /\ before \in Nat /\ after = before + stake
      /\ Locked(id) = cap + before /\ Locked(id)' = cap + after
  BY <1>4, <1>5, <1>6, AuctionIdFields
<1>8. Locked(id)' = Locked(id) + stake
  BY <1>7
<1>9. Owed[id] = Locked(id) /\ Owed'[id] = Locked(id)'
  BY <1>1, OwedPerAuction, OwedPerAuctionNext DEF IInv, OwedIsPerAuction, state, Live
<1>10. \A x \in AuctionIds : x # id => Owed'[x] = Owed[x]
  BY <1>1, OwedPerAuction, OwedPerAuctionNext DEF IInv, OwedIsPerAuction, state, Locked
<1>11. held' = held + stake /\ Owed'[id] = Owed[id] + stake
  BY <1>6, <1>8, <1>9 DEF commit, Pull
<1> QED
  BY <1>7, <1>10, <1>11, PulledIsCounted DEF IInv

\* The transfers of a terminal transition are the whole escrow of its auction.
LEMMA TotalIsLocked ==
  ASSUME TypeOK, NEW id \in AuctionIds, NEW winner, NEW payout \in Nat
  PROVE  TotalPaid(id, winner, payout) = Locked(id) /\ Locked(id) \in Nat
<1>1. PICK cap, stakes : cap = id.payoutCap /\ stakes = SUPPLIER_STAKE * Len(committers[id])
  OBVIOUS
<1>2. cap \in Nat /\ stakes \in Nat
  <2>1. PICK n \in Nat : n = Len(committers[id])
    BY DEF TypeOK
  <2>2. SUPPLIER_STAKE * n \in Nat
    BY ContractAssumption
  <2> QED
    BY <1>1, <2>1, <2>2, AuctionIdFields
<1>3. TotalPaid(id, winner, payout) = payout + (cap - payout) + stakes
  BY <1>1 DEF TotalPaid
<1>4. Locked(id) = cap + stakes
  BY <1>1 DEF Locked
<1> QED
  BY <1>2, <1>3, <1>4

\* A terminal transition pays out what was held for its auction, no coin more.
LEMMA CloseIsCounted ==
  ASSUME IInv, TypeOK', EscrowIsCounted, NEW id \in AuctionIds, NEW terminal \in Terminal,
         NEW winner, NEW payout \in Nat, state(id) \in Live,
         Close(id, terminal, winner, payout)
  PROVE  EscrowIsCounted'
<1>1. /\ auctions'[id].state = terminal
      /\ \A x \in AuctionIds : x # id => auctions'[x] = auctions[x]
      /\ committers' = committers
  BY DEF IInv, TypeOK, Close
<1>2. PICK n : n = Locked(id)
  OBVIOUS
<1>3. n \in Nat /\ held' = held - n
  BY <1>2, TotalIsLocked DEF IInv, Close
<1>4. Owed[id] = n /\ Owed'[id] = 0
  BY <1>1, <1>2, OwedPerAuction, OwedPerAuctionNext
     DEF IInv, OwedIsPerAuction, state, Live, Terminal
<1>5. \A x \in AuctionIds : x # id => Owed'[x] = Owed[x]
  BY <1>1, OwedPerAuction, OwedPerAuctionNext DEF IInv, OwedIsPerAuction, state, Locked
<1>6. Owed[id] = Owed'[id] + n
  BY <1>3, <1>4
<1> QED
  BY <1>3, <1>5, <1>6, PaidIsCounted DEF IInv

\* A claim and the passing of time move no money.
LEMMA IdleIsCounted ==
  ASSUME IInv, TypeOK', EscrowIsCounted, held' = held, committers' = committers,
         \A x \in AuctionIds : state(x)' \in Live <=> state(x) \in Live
  PROVE  EscrowIsCounted'
<1>1. PICK before, after : before = Owed /\ after = Owed'
  OBVIOUS
<1>2. before \in [AuctionIds -> Nat] /\ after \in [AuctionIds -> Nat]
  BY <1>1, OwedPerAuction, OwedPerAuctionNext DEF IInv, OwedIsPerAuction
<1>3. \A x \in AuctionIds : after[x] = before[x]
  BY <1>1, OwedPerAuction, OwedPerAuctionNext DEF IInv, OwedIsPerAuction, Locked
<1>4. after = before
  BY <1>2, <1>3
<1> QED
  BY <1>1, <1>4 DEF EscrowIsCounted

\* The constructor owes nothing and holds nothing.
LEMMA InitIsCounted == Init => EscrowIsCounted
<1> SUFFICES ASSUME Init PROVE EscrowIsCounted
  OBVIOUS
<1>1. Owed \in [AuctionIds -> {0}]
  <2>1. \A id \in AuctionIds : state(id) \notin Live
    BY DEF Init, state, Live
  <2> QED
    BY <2>1 DEF Owed, OwedTo
<1>2. PICK owed : owed = Owed
  OBVIOUS
<1>3. IsFiniteSet(Coins(owed)) /\ Cardinality(Coins(owed)) = 0
  BY <1>1, <1>2, NoCoins
<1> QED
  BY <1>2, <1>3 DEF EscrowIsCounted, Init

\* Every transaction keeps the count.
LEMMA NextIsCounted == IInv /\ EscrowIsCounted /\ [Next]_vars => EscrowIsCounted'
<1> SUFFICES ASSUME IInv, EscrowIsCounted, [Next]_vars PROVE EscrowIsCounted'
  OBVIOUS
<1>1. TypeOK'
  BY NextTypeOK DEF IInv
<1>2. CASE Create
  BY <1>1, <1>2, CreateIsCounted DEF Create
<1>3. CASE Commit
  BY <1>1, <1>3, CommitIsCounted DEF Commit
<1>4. CASE Claim
  <2>1. PICK id \in AuctionIds : _startSettling(id)
    BY <1>4 DEF Claim
  <2>2. \A x \in AuctionIds : state(x)' \in Live <=> state(x) \in Live
    BY <2>1 DEF IInv, TypeOK, AuctionRecord, _startSettling, CanClaim, state, Live
  <2> QED
    BY <1>1, <2>1, <2>2, IdleIsCounted DEF _startSettling, bids, money
<1>5. CASE Settle
  <2>1. PICK s : /\ s.auctionId \in AuctionIds
                 /\ s.winner \in Addresses \cup {NoAddress}
                 /\ s.payout \in Payouts
                 /\ _settle(s)
    BY <1>5 DEF Settle
  <2> QED
    BY <1>1, <2>1, SettleCloses, CloseIsCounted DEF Terminal
<1>6. CASE Refund
  <2>1. PICK id \in AuctionIds : timeoutRefund(id)
    BY <1>6 DEF Refund
  <2> QED
    BY <1>1, <2>1, RefundCloses, CloseIsCounted DEF Terminal
<1>7. CASE Tick
  BY <1>1, <1>7, IdleIsCounted DEF Tick, bids, money, state
<1>8. CASE UNCHANGED vars
  BY <1>1, <1>8, IdleIsCounted DEF vars, state
<1> QED
  BY <1>2, <1>3, <1>4, <1>5, <1>6, <1>7, <1>8 DEF Next

\* In every reachable state the contract holds one unit per coin it owes.
THEOREM CountInvariance == Spec => []EscrowIsCounted
<1>1. Init => EscrowIsCounted
  BY InitIsCounted
<1>2. IInv /\ EscrowIsCounted /\ [Next]_vars => EscrowIsCounted'
  BY NextIsCounted
<1> QED
  BY <1>1, <1>2, Invariance, PTL DEF Spec

-----------------------------------------------------------------------------
(***************************************************************************)
(* What follows from the count.                                            *)
(***************************************************************************)

\* Only finitely many auctions are open: the contract lists them.
LEMMA LiveIsFinite ==
  ASSUME IInv
  PROVE  IsFiniteSet({id \in AuctionIds : state(id) \in Live})
<1>1. PICK live : live = {id \in AuctionIds : state(id) \in Live}
  OBVIOUS
<1>2. PICK list, n : list = openAuctions /\ n = Len(openAuctions)
  OBVIOUS
<1>3. n \in Nat /\ DOMAIN list = 1..n /\ \A i \in 1..n : list[i] \in AuctionIds
  BY <1>2 DEF IInv, TypeOK
<1>4. PICK f : f = [i \in 1..n |-> list[i]]
  OBVIOUS
<1>5. \A id \in AuctionIds : id \in live <=> \E i \in 1..n : list[i] = id
  BY <1>1, <1>2, <1>3 DEF IInv, OpenListIsExact
<1>6. f \in Surjection(1..n, live)
  BY <1>3, <1>4, <1>5, <1>1 DEF Surjection
<1>7. IsFiniteSet(1..n)
  BY <1>3, FS_Interval
<1> QED
  BY <1>1, <1>6, <1>7, FS_Surjection

\* Solvency: the balance of the contract is the caps and stakes of its open
\* auctions, so createAuction, commit, _settle and timeoutRefund never pay one
\* auction out of another one's escrow.
THEOREM SolvencyCorrect == Spec => []Solvent
<1>1. IInv /\ EscrowIsCounted => Solvent
  <2> SUFFICES ASSUME IInv, EscrowIsCounted PROVE Solvent
    OBVIOUS
  <2>1. PICK live : live = {id \in AuctionIds : state(id) \in Live}
    OBVIOUS
  <2>2. live \in SUBSET AuctionIds /\ IsFiniteSet(live)
    BY <2>1, LiveIsFinite
  <2>3. IsFiniteSet(Coins(OwedTo(live))) /\ held = Cardinality(Coins(OwedTo(live)))
    BY <2>1 DEF EscrowIsCounted, Owed
  <2>4. MapThenSumSet(Locked, live) = Cardinality(Coins(OwedTo(live)))
    BY <2>2, <2>3, SumIsCount DEF IInv
  <2> QED
    BY <2>1, <2>3, <2>4 DEF Solvent
<1> QED
  BY <1>1, Invariance, CountInvariance, PTL

\* The escrow of one open auction is within what the contract holds.
LEMMA EscrowIsHeld ==
  ASSUME IInv, EscrowIsCounted, NEW id \in AuctionIds, state(id) \in Live
  PROVE  Locked(id) \in Nat /\ held >= Locked(id)
<1>1. PICK owed, n, one : owed = Owed /\ n = Locked(id) /\ one = 1
  OBVIOUS
<1>2. n \in Nat /\ owed[id] = n
  BY <1>1, OwedType, OwedPerAuction DEF IInv, OwedIsPerAuction
<1>3. one \in Int /\ n \in Int
  BY <1>1, <1>2
<1>4. PICK own : own = {id} \X (one..n)
  OBVIOUS
<1>5. PICK size : size = Cardinality(own)
  OBVIOUS
<1>6. size = IF one > n THEN 0 ELSE n - one + 1
  BY <1>3, <1>4, <1>5, NewCoins
<1>7. size = n
  BY <1>1, <1>2, <1>6
<1>8. own \subseteq Coins(owed)
  BY <1>1, <1>2, <1>4 DEF Coins
<1>9. PICK all : all = Cardinality(Coins(owed))
  OBVIOUS
<1>10. all \in Nat /\ size <= all /\ held = all
  BY <1>1, <1>5, <1>8, <1>9, FS_Subset, FS_CardinalityType DEF EscrowIsCounted
<1> QED
  BY <1>1, <1>2, <1>7, <1>10

\* No refund is blocked: from the finalize deadline on, timeoutRefund's check
\* passes for every auction that has not ended, and the contract can make all
\* its transfers.  This is RefundNeverBlocked without ENABLED.
THEOREM RefundCovered ==
  Spec => [](\A id \in AuctionIds :
               state(id) \in Live /\ now >= finalizeDeadline(id) =>
                 CanRefund(id) /\ held >= TotalPaid(id, NoAddress, 0))
<1>1. IInv /\ EscrowIsCounted =>
        \A id \in AuctionIds :
          state(id) \in Live /\ now >= finalizeDeadline(id) =>
            CanRefund(id) /\ held >= TotalPaid(id, NoAddress, 0)
  <2> SUFFICES ASSUME IInv, EscrowIsCounted, NEW id \in AuctionIds, state(id) \in Live,
                      now >= finalizeDeadline(id)
               PROVE  CanRefund(id) /\ held >= TotalPaid(id, NoAddress, 0)
    OBVIOUS
  <2>1. CanRefund(id)
    BY DEF CanRefund, Live
  <2>2. held >= Locked(id)
    BY EscrowIsHeld
  <2>3. TotalPaid(id, NoAddress, 0) = Locked(id)
    BY TotalIsLocked DEF IInv
  <2> QED
    BY <2>1, <2>2, <2>3
<1> QED
  BY <1>1, Invariance, CountInvariance, PTL

\* No settlement that passes the checks of _settle is stopped by a transfer: whatever other
\* auctions were paid, the payout, the rest of the cap and every stake are there.
THEOREM SettlementCovered ==
  Spec => [](\A s \in Settlement :
               CanSettle(s) => held >= TotalPaid(s.auctionId, s.winner, s.payout))
<1>1. IInv /\ EscrowIsCounted =>
        \A s \in Settlement :
          CanSettle(s) => held >= TotalPaid(s.auctionId, s.winner, s.payout)
  <2> SUFFICES ASSUME IInv, EscrowIsCounted, NEW s \in Settlement, CanSettle(s)
               PROVE  held >= TotalPaid(s.auctionId, s.winner, s.payout)
    OBVIOUS
  <2>1. s.auctionId \in AuctionIds /\ s.payout \in Payouts
    BY DEF Settlement
  <2>2. state(s.auctionId) \in Live
    BY DEF CanSettle, Live
  <2>3. held >= Locked(s.auctionId)
    BY <2>1, <2>2, EscrowIsHeld
  <2>4. TotalPaid(s.auctionId, s.winner, s.payout) = Locked(s.auctionId)
    BY <2>1, SettlePayout, TotalIsLocked DEF IInv
  <2> QED
    BY <2>3, <2>4
<1> QED
  BY <1>1, Invariance, CountInvariance, PTL
=============================================================================
