------------------------ MODULE SealedAuctionProofs ------------------------
(***************************************************************************)
(* Proofs about SealedAuction, for every value of its constants: the type  *)
(* invariant, the list of open auctions, the books, exact payment per      *)
(* auction, and the refinement of Escrow.                                  *)
(***************************************************************************)
EXTENDS SealedAuction, TLAPS, FiniteSetTheorems, WellFoundedInduction

-----------------------------------------------------------------------------
(***************************************************************************)
(* Operators.                                                              *)
(***************************************************************************)

\* _closeAuction: what the swap-and-pop leaves behind is a list of the same
\* kind, no longer than the one it was given.
LEMMA WithoutType ==
  ASSUME NEW S, NEW list \in Seq(S), NEW id
  PROVE  /\ Without(list, id) \in Seq(S)
         /\ Len(Without(list, id)) <= Len(list)
<1>1. CASE ~ \E i \in DOMAIN list : list[i] = id
  BY <1>1 DEF Without
<1>2. CASE \E i \in DOMAIN list : list[i] = id
  <2> DEFINE gap == CHOOSE i \in DOMAIN list :
                      list[i] = id /\ \A j \in 1..(i - 1) : list[j] # id
             rest == [k \in 1..(Len(list) - 1) |->
                        IF k = gap THEN list[Len(list)] ELSE list[k]]
  <2>1. Without(list, id) = rest
    BY <1>2 DEF Without
  <2>2. Len(list) \in Nat \ {0} /\ DOMAIN list = 1..Len(list)
    BY <1>2
  <2>3. \A k \in 1..(Len(list) - 1) : rest[k] \in S
    BY <2>2
  <2>4. rest \in Seq(S) /\ Len(rest) = Len(list) - 1
    BY <2>2, <2>3
  <2> QED
    BY <2>1, <2>2, <2>4
<1> QED
  BY <1>1, <1>2

\* _closeAuction: on a list without duplicates exactly the closed auction goes,
\* every other one stays, and there are still no duplicates.
LEMMA WithoutExact ==
  ASSUME NEW S, NEW list \in Seq(S), NEW id,
         \A i, j \in DOMAIN list : list[i] = list[j] => i = j,
         \E i \in DOMAIN list : list[i] = id
  PROVE  LET rest == Without(list, id)
         IN  /\ \A i, j \in DOMAIN rest : rest[i] = rest[j] => i = j
             /\ \A x : (\E i \in DOMAIN rest : rest[i] = x)
                        <=> (x # id /\ \E i \in DOMAIN list : list[i] = x)
<1> DEFINE n == Len(list)
           gap == CHOOSE i \in DOMAIN list :
                    list[i] = id /\ \A j \in 1..(i - 1) : list[j] # id
           rest == [k \in 1..(n - 1) |-> IF k = gap THEN list[n] ELSE list[k]]
<1>1. n \in Nat \ {0} /\ DOMAIN list = 1..n
  OBVIOUS
<1>2. Without(list, id) = rest
  BY DEF Without
<1>3. \E i \in DOMAIN list : list[i] = id /\ \A j \in 1..(i - 1) : list[j] # id
  BY <1>1
<1>4. gap \in 1..n /\ list[gap] = id
  BY <1>1, <1>3
<1>5. DOMAIN rest = 1..(n - 1)
  OBVIOUS
<1>6. \A k \in 1..(n - 1) : rest[k] = IF k = gap THEN list[n] ELSE list[k]
  OBVIOUS
<1> HIDE DEF gap, rest
<1>7. \A i, j \in DOMAIN rest : rest[i] = rest[j] => i = j
  BY <1>1, <1>4, <1>5, <1>6
<1>8. ASSUME NEW x, NEW k \in DOMAIN rest, rest[k] = x
      PROVE  x # id /\ \E i \in DOMAIN list : list[i] = x
  BY <1>1, <1>4, <1>5, <1>6, <1>8
<1>9. ASSUME NEW x, x # id, NEW i \in DOMAIN list, list[i] = x
      PROVE  \E k \in DOMAIN rest : rest[k] = x
  <2>1. CASE i = n
    <3>1. gap \in 1..(n - 1)
      BY <1>1, <1>4, <1>9, <2>1
    <3> QED
      BY <1>5, <1>6, <1>9, <2>1, <3>1
  <2>2. CASE i # n
    <3>1. i \in 1..(n - 1) /\ i # gap
      BY <1>1, <1>4, <1>9, <2>2
    <3> QED
      BY <1>5, <1>6, <1>9, <3>1
  <2> QED
    BY <2>1, <2>2
<1> QED
  BY <1>2, <1>7, <1>8, <1>9

\* _refundStakes over a list of committers: what one account gets back is some
\* number of USDC, and one stake exactly if it committed once.
LEMMA StakesBackType ==
  ASSUME TypeOK, NEW id \in AuctionIds, NEW winner, NEW a
  PROVE  StakesBack(id, winner, a) \in Nat
<1> DEFINE places == {i \in DOMAIN committers[id] : committers[id][i] = a}
<1>1. Len(committers[id]) \in Nat /\ DOMAIN committers[id] = 1..Len(committers[id])
  BY DEF TypeOK
<1>2. IsFiniteSet(1..Len(committers[id]))
  BY <1>1, FS_Interval
<1>3. IsFiniteSet(places)
  BY <1>1, <1>2, FS_Subset
<1>4. Cardinality(places) \in Nat
  BY <1>3, FS_CardinalityType
<1> QED
  BY <1>4, ContractAssumption DEF StakesBack

\* Under a book that agrees, a committer gets exactly its own stake back and
\* nobody else gets one.
LEMMA StakesBackExact ==
  ASSUME TypeOK, BookAgrees, NEW id \in AuctionIds, NEW winner, NEW a
  PROVE  StakesBack(id, winner, a) =
           IF a \in hasCommitted[id] THEN SUPPLIER_STAKE ELSE 0
<1> DEFINE places == {i \in DOMAIN committers[id] : committers[id][i] = a}
<1>1. CASE a \in hasCommitted[id]
  <2>1. PICK i \in DOMAIN committers[id] : committers[id][i] = a
    BY <1>1 DEF BookAgrees
  <2>2. places = {i}
    BY <2>1 DEF BookAgrees
  <2>3. Cardinality(places) = 1
    BY <2>2, FS_Singleton
  <2> QED
    BY <1>1, <2>3, ContractAssumption DEF StakesBack
<1>2. CASE a \notin hasCommitted[id]
  <2>1. places = {}
    BY <1>2 DEF BookAgrees
  <2>2. Cardinality(places) = 0
    BY <2>1, FS_EmptySet
  <2> QED
    BY <1>2, <2>2, ContractAssumption DEF StakesBack
<1> QED
  BY <1>1, <1>2

-----------------------------------------------------------------------------
(***************************************************************************)
(* Types.                                                                  *)
(***************************************************************************)

\* What the record behind an auction id (createAuction's hash) is made of.
LEMMA AuctionIdFields ==
  ASSUME NEW id \in AuctionIds
  PROVE  /\ id.buyer \in Buyers /\ id.buyer \in Addresses
         /\ id.createdAt \in Nat
         /\ id.policyHash \in Policies
         /\ id.payoutCap \in Caps /\ id.payoutCap \in Nat
<1>1. /\ id.buyer \in Buyers /\ id.createdAt \in 0..MaxCreatedAt
      /\ id.policyHash \in Policies /\ id.payoutCap \in Caps
  BY DEF AuctionIds
<1>2. id.createdAt \in Nat
  BY <1>1, ContractAssumption
<1>3. id.payoutCap \in Nat
  BY <1>1, ContractAssumption
<1> QED
  BY <1>1, <1>2, <1>3 DEF Addresses

\* A transfer into the contract leaves both balances natural numbers.
LEMMA PullType ==
  ASSUME TypeOK, NEW account \in Addresses, NEW amount \in Nat, Pull(account, amount)
  PROVE  usdc' \in [Addresses -> Nat] /\ held' \in Nat
<1>1. usdc[account] \in Nat /\ usdc[account] - amount \in Nat
  BY DEF TypeOK, Pull
<1> QED
  BY <1>1 DEF TypeOK, Pull

\* The constructor leaves every variable in its type.
LEMMA InitTypeOK == Init => TypeOK
BY ContractAssumption DEF Init, TypeOK, AuctionRecord, States

\* createAuction keeps the types; its limit check keeps the open list short.
LEMMA CreateTypeOK ==
  ASSUME TypeOK, NEW id \in AuctionIds, createAuction(id)
  PROVE  TypeOK'
<1>1. auctions' \in [AuctionIds -> AuctionRecord]
  BY DEF TypeOK, createAuction, AuctionRecord, States
<1>2. openAuctions' \in Seq(AuctionIds) /\ Len(openAuctions') <= MAX_OPEN_AUCTIONS
  BY ContractAssumption DEF TypeOK, createAuction, CanCreate
<1>3. usdc' \in [Addresses -> Nat] /\ held' \in Nat
  BY AuctionIdFields, PullType DEF createAuction
<1> QED
  BY <1>1, <1>2, <1>3 DEF TypeOK, createAuction

\* commit keeps the types; its limit check keeps the book short.
LEMMA CommitTypeOK ==
  ASSUME TypeOK, NEW id \in AuctionIds, NEW supplier \in Suppliers,
         NEW commitment \in Commitments, commit(id, supplier, commitment)
  PROVE  TypeOK'
<1>1. auctions' \in [AuctionIds -> AuctionRecord]
  BY DEF TypeOK, commit, AuctionRecord, States
<1>2. /\ commitments' \in [AuctionIds -> Seq(Commitments)]
      /\ committers' \in [AuctionIds -> Seq(Suppliers)]
      /\ hasCommitted' \in [AuctionIds -> SUBSET Suppliers]
  BY DEF TypeOK, commit
<1>3. \A other \in AuctionIds : Len(commitments'[other]) <= MAX_BIDS
  <2> SUFFICES ASSUME NEW other \in AuctionIds
               PROVE  Len(commitments'[other]) <= MAX_BIDS
    OBVIOUS
  <2>1. CASE other = id
    <3>1. commitments'[id] = Append(commitments[id], commitment)
      BY DEF TypeOK, commit
    <3>2. Len(commitments[id]) \in Nat /\ Len(commitments[id]) <= MAX_BIDS
          /\ Len(commitments[id]) # MAX_BIDS
      BY DEF TypeOK, commit, CanCommit
    <3>3. Len(commitments'[id]) = Len(commitments[id]) + 1
      BY <3>1 DEF TypeOK
    <3> QED
      BY <2>1, <3>2, <3>3, ContractAssumption
  <2>2. CASE other # id
    BY <2>2 DEF TypeOK, commit
  <2> QED
    BY <2>1, <2>2
<1>4. usdc' \in [Addresses -> Nat] /\ held' \in Nat
  BY PullType, ContractAssumption DEF commit, Addresses
<1> QED
  BY <1>1, <1>2, <1>3, <1>4 DEF TypeOK, commit

\* _startSettling changes a state and no type.
LEMMA ClaimTypeOK ==
  ASSUME TypeOK, NEW id \in AuctionIds, _startSettling(id)
  PROVE  TypeOK'
BY DEF TypeOK, _startSettling, AuctionRecord, States, bids, money

\* What the shares of a terminal transition add up from, account by account.
LEMMA PaymentsType ==
  ASSUME TypeOK, NEW id \in AuctionIds, NEW winner,
         NEW payout \in Nat, payout <= id.payoutCap
  PROVE  Payments(id, winner, payout) \in [Addresses -> Nat]
BY StakesBackType, AuctionIdFields DEF Payments

\* Either terminal transition keeps the types: no balance goes below zero.
LEMMA CloseTypeOK ==
  ASSUME TypeOK, NEW id \in AuctionIds, NEW terminal \in Terminal,
         NEW winner \in Addresses \cup {NoAddress},
         NEW payout \in Nat, payout <= id.payoutCap,
         Close(id, terminal, winner, payout)
  PROVE  TypeOK'
<1>1. auctions' \in [AuctionIds -> AuctionRecord]
  BY DEF TypeOK, Close, AuctionRecord, States, Terminal
<1>2. openAuctions' \in Seq(AuctionIds) /\ Len(openAuctions') <= MAX_OPEN_AUCTIONS
  <2>1. openAuctions' = Without(openAuctions, id)
    BY DEF Close
  <2>2. /\ Without(openAuctions, id) \in Seq(AuctionIds)
        /\ Len(Without(openAuctions, id)) <= Len(openAuctions)
    BY WithoutType DEF TypeOK
  <2> QED
    BY <2>1, <2>2, ContractAssumption DEF TypeOK
<1>3. held' \in Nat
  <2>1. TotalPaid(id, winner, payout) \in Nat
    <3>1. Len(committers[id]) \in Nat
      BY DEF TypeOK
    <3> QED
      BY <3>1, AuctionIdFields, ContractAssumption DEF TotalPaid
  <2> QED
    BY <2>1 DEF TypeOK, Close
<1>4. usdc' \in [Addresses -> Nat] /\ paidOut' \in [AuctionIds -> [Addresses -> Nat]]
  <2> DEFINE share == Payments(id, winner, payout)
  <2>1. share \in [Addresses -> Nat]
    BY PaymentsType
  <2>2. /\ usdc' = [a \in Addresses |-> usdc[a] + share[a]]
        /\ paidOut' = [paidOut EXCEPT ![id] = [a \in Addresses |-> @[a] + share[a]]]
    BY DEF Close
  <2> HIDE DEF share
  <2> QED
    BY <2>1, <2>2, SMTT(30) DEF TypeOK
<1> QED
  BY <1>1, <1>2, <1>3, <1>4 DEF TypeOK, Close

\* A settlement closes an auction under a payout within the cap.
LEMMA SettlePayout ==
  ASSUME NEW s, s.auctionId \in AuctionIds, s.payout \in Payouts, CanSettle(s)
  PROVE  s.payout \in Nat /\ s.payout <= s.auctionId.payoutCap
BY ContractAssumption DEF CanSettle

\* Every transaction of the contract keeps the types.
LEMMA NextTypeOK == TypeOK /\ [Next]_vars => TypeOK'
<1> SUFFICES ASSUME TypeOK, [Next]_vars PROVE TypeOK'
  OBVIOUS
<1>1. CASE Create
  BY <1>1, CreateTypeOK DEF Create
<1>2. CASE Commit
  BY <1>2, CommitTypeOK DEF Commit
<1>3. CASE Claim
  BY <1>3, ClaimTypeOK DEF Claim
<1>4. CASE Settle
  <2>1. PICK s : /\ s.auctionId \in AuctionIds
                 /\ s.winner \in Addresses \cup {NoAddress}
                 /\ s.payout \in Payouts
                 /\ _settle(s)
    BY <1>4 DEF Settle
  <2> QED
    BY <2>1, SettlePayout, CloseTypeOK DEF _settle, Terminal
<1>5. CASE Refund
  <2>1. PICK id \in AuctionIds : timeoutRefund(id)
    BY <1>5 DEF Refund
  <2> QED
    BY <2>1, CloseTypeOK, AuctionIdFields DEF timeoutRefund, Terminal
<1>6. CASE Tick
  BY <1>6, ContractAssumption DEF Tick, TypeOK, bids, money
<1>7. CASE UNCHANGED vars
  BY <1>7 DEF vars, TypeOK
<1> QED
  BY <1>1, <1>2, <1>3, <1>4, <1>5, <1>6, <1>7 DEF Next

\* Every behaviour of the contract keeps its types and its three limits.
THEOREM TypeCorrect == Spec => []TypeOK
<1>1. Init => TypeOK
  BY InitTypeOK
<1>2. TypeOK /\ [Next]_vars => TypeOK'
  BY NextTypeOK
<1> QED
  BY <1>1, <1>2, PTL DEF Spec

-----------------------------------------------------------------------------
(***************************************************************************)
(* The inductive invariant.  None of its parts stands alone: exact payment *)
(* needs each committer listed once, which needs hasCommitted to be the    *)
(* committers; the list stays exact on a close only because it has no      *)
(* duplicates, and on a create only because it holds no auction that does  *)
(* not exist yet.                                                          *)
(***************************************************************************)

\* The inductive invariant holds of a contract just deployed.
LEMMA InitIInv == Init => IInv
<1> SUFFICES ASSUME Init PROVE IInv
  OBVIOUS
<1>1. TypeOK
  BY InitTypeOK
<1>2. \A id \in AuctionIds : auctions[id] = [state |-> "None", winner |-> NoAddress, payout |-> 0]
  BY DEF Init
<1>3. OpenListIsExact
  BY <1>2 DEF OpenListIsExact, Init, state, Live
<1>4. BookAgrees
  BY <1>2 DEF BookAgrees, Init, state
<1>5. PaidExactly
  BY <1>2 DEF PaidExactly, Init, state, Terminal
<1>6. PayoutIsBacked
  <2> SUFFICES ASSUME NEW id \in AuctionIds
               PROVE  auctions[id].payout <= id.payoutCap
    BY <1>2 DEF PayoutIsBacked
  <2> QED
    BY <1>2, AuctionIdFields
<1> QED
  BY <1>1, <1>3, <1>4, <1>5, <1>6 DEF IInv

\* createAuction keeps the invariant: the id is new, so the list gets no
\* duplicate and no earlier payment is on record for it.
LEMMA CreateIInv ==
  ASSUME IInv, NEW id \in AuctionIds, createAuction(id)
  PROVE  IInv'
<1>1. TypeOK'
  BY CreateTypeOK DEF IInv
<1>2. /\ auctions[id].state = "None" /\ auctions'[id].state = "Created"
      /\ auctions'[id].winner = auctions[id].winner
      /\ auctions'[id].payout = auctions[id].payout
      /\ \A x \in AuctionIds : x # id => auctions'[x] = auctions[x]
  BY DEF IInv, TypeOK, AuctionRecord, createAuction, CanCreate, state
<1>3. OpenListIsExact'
  <2> DEFINE n == Len(openAuctions)
  <2>1. n \in Nat /\ DOMAIN openAuctions = 1..n
    BY DEF IInv, TypeOK
  <2>2. /\ DOMAIN openAuctions' = 1..(n + 1)
        /\ openAuctions'[n + 1] = id
        /\ \A k \in 1..n : openAuctions'[k] = openAuctions[k]
    BY DEF IInv, TypeOK, createAuction
  <2>3. \A k \in 1..n : openAuctions[k] # id
    BY <1>2, <2>1 DEF IInv, OpenListIsExact, state, Live
  <2> HIDE DEF n
  <2>4. \A i, j \in DOMAIN openAuctions' : openAuctions'[i] = openAuctions'[j] => i = j
    BY <2>1, <2>2, <2>3 DEF IInv, OpenListIsExact
  <2>5. ASSUME NEW x \in AuctionIds
        PROVE  state(x)' \in Live
                 <=> \E i \in DOMAIN openAuctions' : openAuctions'[i] = x
    <3>1. CASE x = id
      BY <1>2, <2>1, <2>2, <3>1 DEF state, Live
    <3>2. CASE x # id
      <4>1. state(x)' = state(x)
        BY <1>2, <3>2 DEF state
      <4>2. state(x) \in Live <=> \E i \in 1..n : openAuctions[i] = x
        BY <2>1 DEF IInv, OpenListIsExact
      <4>3. (\E i \in 1..n : openAuctions[i] = x)
              <=> \E i \in 1..(n + 1) : openAuctions'[i] = x
        BY <2>1, <2>2, <3>2
      <4> QED
        BY <2>2, <4>1, <4>2, <4>3
    <3> QED
      BY <3>1, <3>2
  <2> QED
    BY <2>4, <2>5 DEF OpenListIsExact
<1>4. BookAgrees'
  BY <1>2 DEF IInv, BookAgrees, createAuction, state
<1>5. PaidExactly'
  BY <1>2 DEF IInv, PaidExactly, Deposit, createAuction, state, Terminal
<1>6. PayoutIsBacked'
  BY <1>2 DEF IInv, PayoutIsBacked, createAuction, state
<1> QED
  BY <1>1, <1>3, <1>4, <1>5, <1>6 DEF IInv

\* commit keeps the invariant: the three records of the book grow together and
\* a second commitment from one address is turned away.
LEMMA CommitIInv ==
  ASSUME IInv, NEW id \in AuctionIds, NEW supplier \in Suppliers,
         NEW commitment \in Commitments, commit(id, supplier, commitment)
  PROVE  IInv'
<1>1. TypeOK'
  BY CommitTypeOK DEF IInv
<1>2. /\ auctions[id].state \in {"Created", "Bidding"} /\ auctions'[id].state = "Bidding"
      /\ auctions'[id].winner = auctions[id].winner
      /\ auctions'[id].payout = auctions[id].payout
      /\ \A x \in AuctionIds : x # id => auctions'[x] = auctions[x]
  BY DEF IInv, TypeOK, AuctionRecord, commit, CanCommit, state
<1>3. OpenListIsExact'
  <2>1. \A x \in AuctionIds : state(x)' \in Live <=> state(x) \in Live
    BY <1>2 DEF state, Live
  <2> QED
    BY <2>1 DEF IInv, OpenListIsExact, commit
<1>4. BookAgrees'
  <2> SUFFICES ASSUME NEW x \in AuctionIds
               PROVE  /\ Len(commitments'[x]) = Len(committers'[x])
                      /\ \A i, j \in DOMAIN committers'[x] :
                           committers'[x][i] = committers'[x][j] => i = j
                      /\ hasCommitted'[x] = {committers'[x][i] : i \in DOMAIN committers'[x]}
                      /\ state(x)' \in {"None", "Created"} => committers'[x] = <<>>
                      /\ state(x)' \in {"Bidding", "Settling"} => committers'[x] # <<>>
    BY DEF BookAgrees
  <2>1. CASE x # id
    <3>1. /\ commitments'[x] = commitments[x] /\ committers'[x] = committers[x]
          /\ hasCommitted'[x] = hasCommitted[x] /\ state(x)' = state(x)
      BY <1>2, <2>1 DEF IInv, TypeOK, commit, state
    <3> QED
      BY <3>1 DEF IInv, BookAgrees
  <2>2. CASE x = id
    <3> DEFINE n == Len(committers[id])
    <3>1. /\ n \in Nat /\ Len(commitments[id]) = n /\ DOMAIN committers[id] = 1..n
          /\ \A i, j \in 1..n : committers[id][i] = committers[id][j] => i = j
          /\ hasCommitted[id] = {committers[id][i] : i \in 1..n}
      BY DEF IInv, TypeOK, BookAgrees
    <3>2. /\ committers'[id] = Append(committers[id], supplier)
          /\ commitments'[id] = Append(commitments[id], commitment)
          /\ hasCommitted'[id] = hasCommitted[id] \cup {supplier}
      BY DEF IInv, TypeOK, commit
    <3>3. /\ DOMAIN committers'[id] = 1..(n + 1) /\ committers'[id][n + 1] = supplier
          /\ \A i \in 1..n : committers'[id][i] = committers[id][i]
          /\ Len(committers'[id]) = n + 1
      BY <3>2 DEF IInv, TypeOK
    <3>4. Len(commitments'[id]) = n + 1
      BY <3>1, <3>2 DEF IInv, TypeOK
    <3>5. supplier \notin hasCommitted[id]
      BY DEF commit, CanCommit
    <3> HIDE DEF n
    <3>6. \A i, j \in 1..(n + 1) : committers'[id][i] = committers'[id][j] => i = j
      BY <3>1, <3>3, <3>5
    <3>7. hasCommitted'[id] = {committers'[id][i] : i \in 1..(n + 1)}
      BY <3>1, <3>2, <3>3
    <3>8. committers'[id] # <<>>
      BY <3>1, <3>3
    <3>9. state(id)' = "Bidding"
      BY <1>2 DEF state
    <3> QED
      BY <2>2, <3>3, <3>4, <3>6, <3>7, <3>8, <3>9
  <2> QED
    BY <2>1, <2>2
<1>5. PaidExactly'
  <2> SUFFICES ASSUME NEW x \in AuctionIds, NEW a \in Addresses
               PROVE  paidOut'[x][a] =
                        IF state(x)' \in Terminal
                        THEN Deposit(x, a)'
                               + (IF a = auctions'[x].winner THEN auctions'[x].payout ELSE 0)
                               - (IF a = x.buyer THEN auctions'[x].payout ELSE 0)
                        ELSE 0
    BY DEF PaidExactly
  <2>1. CASE x = id
    BY <1>2, <2>1 DEF IInv, PaidExactly, commit, state, Terminal
  <2>2. CASE x # id
    BY <1>2, <2>2 DEF IInv, TypeOK, PaidExactly, Deposit, commit, state
  <2> QED
    BY <2>1, <2>2
<1>6. PayoutIsBacked'
  BY <1>2 DEF IInv, TypeOK, PayoutIsBacked, commit, state
<1> QED
  BY <1>1, <1>3, <1>4, <1>5, <1>6 DEF IInv

\* _startSettling keeps the invariant: one live state follows another.
LEMMA ClaimIInv ==
  ASSUME IInv, NEW id \in AuctionIds, _startSettling(id)
  PROVE  IInv'
<1>1. TypeOK'
  BY ClaimTypeOK DEF IInv
<1>2. /\ auctions[id].state = "Bidding" /\ auctions'[id].state = "Settling"
      /\ auctions'[id].winner = auctions[id].winner
      /\ auctions'[id].payout = auctions[id].payout
      /\ \A x \in AuctionIds : x # id => auctions'[x] = auctions[x]
  BY DEF IInv, TypeOK, AuctionRecord, _startSettling, CanClaim, state
<1>3. UNCHANGED <<openAuctions, commitments, committers, hasCommitted, paidOut>>
  BY DEF _startSettling, bids, money
<1>4. OpenListIsExact'
  <2>1. \A x \in AuctionIds : state(x)' \in Live <=> state(x) \in Live
    BY <1>2 DEF state, Live
  <2> QED
    BY <1>3, <2>1 DEF IInv, OpenListIsExact
<1>5. BookAgrees'
  BY <1>2, <1>3 DEF IInv, BookAgrees, state
<1>6. PaidExactly'
  BY <1>2, <1>3 DEF IInv, PaidExactly, Deposit, state, Terminal
<1>7. PayoutIsBacked'
  BY <1>2, <1>3 DEF IInv, PayoutIsBacked, state
<1> QED
  BY <1>1, <1>4, <1>5, <1>6, <1>7 DEF IInv

\* What a terminal transition pays an account is its deposit, with the payout
\* moved from the buyer to the winner.
LEMMA PaymentsExact ==
  ASSUME TypeOK, BookAgrees, NEW id \in AuctionIds, NEW winner, NEW payout \in Nat,
         NEW a \in Addresses
  PROVE  Payments(id, winner, payout)[a] =
           Deposit(id, a) + (IF a = winner THEN payout ELSE 0)
             - (IF a = id.buyer THEN payout ELSE 0)
<1>1. StakesBack(id, winner, a) = IF a \in hasCommitted[id] THEN SUPPLIER_STAKE ELSE 0
  BY StakesBackExact
<1>2. Payments(id, winner, payout)[a] =
        (IF a = winner THEN payout ELSE 0)
          + (IF a = id.buyer THEN id.payoutCap - payout ELSE 0)
          + StakesBack(id, winner, a)
  BY DEF Payments
<1> QED
  BY <1>1, <1>2, AuctionIdFields, ContractAssumption DEF Deposit

\* Either terminal transition keeps the invariant: exactly the closed auction
\* leaves the list, and the transfers add up to the deposits.
LEMMA CloseIInv ==
  ASSUME IInv, NEW id \in AuctionIds, NEW terminal \in Terminal,
         NEW winner \in Addresses \cup {NoAddress},
         NEW payout \in Nat, payout <= id.payoutCap,
         state(id) \in Live,
         winner = NoAddress <=> payout = 0,
         winner # NoAddress => terminal = "Finalized" /\ winner \in hasCommitted[id],
         Close(id, terminal, winner, payout)
  PROVE  IInv'
<1>1. TypeOK'
  BY CloseTypeOK DEF IInv
<1>2. /\ auctions'[id] = [state |-> terminal, winner |-> winner, payout |-> payout]
      /\ \A x \in AuctionIds : x # id => auctions'[x] = auctions[x]
  BY DEF IInv, TypeOK, Close
<1>3. UNCHANGED <<commitments, committers, hasCommitted>>
  BY DEF Close
<1>4. OpenListIsExact'
  <2>1. openAuctions' = Without(openAuctions, id)
    BY DEF Close
  <2>2. \E i \in DOMAIN openAuctions : openAuctions[i] = id
    BY DEF IInv, OpenListIsExact
  <2>3. /\ \A i, j \in DOMAIN openAuctions' :
             openAuctions'[i] = openAuctions'[j] => i = j
        /\ \A x : (\E i \in DOMAIN openAuctions' : openAuctions'[i] = x)
                   <=> (x # id /\ \E i \in DOMAIN openAuctions : openAuctions[i] = x)
    <3>1. /\ openAuctions \in Seq(AuctionIds)
          /\ \A i, j \in DOMAIN openAuctions : openAuctions[i] = openAuctions[j] => i = j
      BY DEF IInv, TypeOK, OpenListIsExact
    <3>2. LET rest == Without(openAuctions, id)
          IN  /\ \A i, j \in DOMAIN rest : rest[i] = rest[j] => i = j
              /\ \A x : (\E i \in DOMAIN rest : rest[i] = x)
                         <=> (x # id /\ \E i \in DOMAIN openAuctions : openAuctions[i] = x)
      BY <2>2, <3>1, WithoutExact
    <3> QED
      BY <2>1, <3>2
  <2>4. ASSUME NEW x \in AuctionIds
        PROVE  state(x)' \in Live <=> (x # id /\ state(x) \in Live)
    BY <1>2 DEF state, Live, Terminal
  <2> QED
    BY <2>3, <2>4 DEF IInv, OpenListIsExact
<1>5. BookAgrees'
  BY <1>2, <1>3 DEF IInv, BookAgrees, state, Live, Terminal
<1>6. PaidExactly'
  <2> SUFFICES ASSUME NEW x \in AuctionIds, NEW a \in Addresses
               PROVE  paidOut'[x][a] =
                        IF state(x)' \in Terminal
                        THEN Deposit(x, a)'
                               + (IF a = auctions'[x].winner THEN auctions'[x].payout ELSE 0)
                               - (IF a = x.buyer THEN auctions'[x].payout ELSE 0)
                        ELSE 0
    BY DEF PaidExactly
  <2>1. Deposit(x, a)' = Deposit(x, a)
    BY <1>3 DEF Deposit
  <2>2. CASE x = id
    <3>1. paidOut[id][a] = 0
      BY DEF IInv, PaidExactly, Live, Terminal
    <3>2. paidOut'[id][a] = paidOut[id][a] + Payments(id, winner, payout)[a]
      BY DEF IInv, TypeOK, Close
    <3>3. Payments(id, winner, payout)[a] \in Nat
      BY PaymentsType DEF IInv
    <3>4. Payments(id, winner, payout)[a] =
            Deposit(id, a) + (IF a = winner THEN payout ELSE 0)
              - (IF a = id.buyer THEN payout ELSE 0)
      BY PaymentsExact DEF IInv
    <3>5. paidOut'[id][a] = Payments(id, winner, payout)[a]
      BY <3>1, <3>2, <3>3
    <3> QED
      BY <1>2, <2>1, <2>2, <3>4, <3>5 DEF state, Terminal
  <2>3. CASE x # id
    <3>1. paidOut'[x] = paidOut[x] /\ auctions'[x] = auctions[x]
      BY <1>2, <2>3 DEF IInv, TypeOK, Close
    <3> QED
      BY <2>1, <3>1 DEF IInv, PaidExactly, state
  <2> QED
    BY <2>2, <2>3
<1>7. PayoutIsBacked'
  <2> SUFFICES ASSUME NEW x \in AuctionIds
               PROVE  /\ auctions'[x].payout <= x.payoutCap
                      /\ auctions'[x].winner = NoAddress <=> auctions'[x].payout = 0
                      /\ auctions'[x].winner # NoAddress =>
                           /\ state(x)' = "Finalized"
                           /\ auctions'[x].winner \in hasCommitted'[x]
    BY DEF PayoutIsBacked
  <2>1. CASE x = id
    BY <1>2, <1>3, <2>1 DEF state
  <2>2. CASE x # id
    BY <1>2, <1>3, <2>2 DEF IInv, PayoutIsBacked, state
  <2> QED
    BY <2>1, <2>2
<1> QED
  BY <1>1, <1>4, <1>5, <1>6, <1>7 DEF IInv

\* The two terminal transitions meet what CloseIInv asks of them.
LEMMA SettleCloses ==
  ASSUME IInv, NEW s, s.auctionId \in AuctionIds, s.payout \in Payouts,
         s.winner \in Addresses \cup {NoAddress}, _settle(s)
  PROVE  /\ s.payout \in Nat /\ s.payout <= s.auctionId.payoutCap
         /\ state(s.auctionId) \in Live
         /\ s.winner = NoAddress <=> s.payout = 0
         /\ s.winner # NoAddress => s.winner \in hasCommitted[s.auctionId]
         /\ Close(s.auctionId, "Finalized", s.winner, s.payout)
BY SettlePayout DEF _settle, CanSettle, Live

\* timeoutRefund is a terminal transition without winner or payout.
LEMMA RefundCloses ==
  ASSUME IInv, NEW id \in AuctionIds, timeoutRefund(id)
  PROVE  state(id) \in Live /\ Close(id, "Timeout", NoAddress, 0)
<1>1. state(id) \in States
  BY DEF IInv, TypeOK, AuctionRecord, state
<1> QED
  BY <1>1 DEF timeoutRefund, CanRefund, States, Live

\* The passing of time keeps the invariant.
LEMMA IdleIInv ==
  ASSUME IInv, TypeOK',
         UNCHANGED <<auctions, openAuctions, commitments, committers, hasCommitted, paidOut>>
  PROVE  IInv'
<1>1. OpenListIsExact'
  BY DEF IInv, OpenListIsExact, state
<1>2. BookAgrees'
  BY DEF IInv, BookAgrees, state
<1>3. PaidExactly'
  BY DEF IInv, PaidExactly, Deposit, state
<1>4. PayoutIsBacked'
  BY DEF IInv, PayoutIsBacked, state
<1> QED
  BY <1>1, <1>2, <1>3, <1>4 DEF IInv

\* Every transaction of the contract keeps the invariant.
LEMMA NextIInv == IInv /\ [Next]_vars => IInv'
<1> SUFFICES ASSUME IInv, [Next]_vars PROVE IInv'
  OBVIOUS
<1>1. TypeOK'
  BY NextTypeOK DEF IInv
<1>2. CASE Create
  BY <1>2, CreateIInv DEF Create
<1>3. CASE Commit
  BY <1>3, CommitIInv DEF Commit
<1>4. CASE Claim
  BY <1>4, ClaimIInv DEF Claim
<1>5. CASE Settle
  <2>1. PICK s : /\ s.auctionId \in AuctionIds
                 /\ s.winner \in Addresses \cup {NoAddress}
                 /\ s.payout \in Payouts
                 /\ _settle(s)
    BY <1>5 DEF Settle
  <2> QED
    BY <2>1, SettleCloses, CloseIInv DEF Terminal
<1>6. CASE Refund
  <2>1. PICK id \in AuctionIds : timeoutRefund(id)
    BY <1>6 DEF Refund
  <2> QED
    BY <2>1, RefundCloses, CloseIInv, AuctionIdFields DEF Terminal
<1>7. CASE Tick
  BY <1>1, <1>7, IdleIInv DEF Tick, bids, money
<1>8. CASE UNCHANGED vars
  BY <1>1, <1>8, IdleIInv DEF vars
<1> QED
  BY <1>2, <1>3, <1>4, <1>5, <1>6, <1>7, <1>8 DEF Next

\* The inductive invariant holds in every reachable state: the properties below
\* are its conjuncts.
THEOREM Invariance == Spec => []IInv
<1>1. Init => IInv
  BY InitIInv
<1>2. IInv /\ [Next]_vars => IInv'
  BY NextIInv
<1> QED
  BY <1>1, <1>2, PTL DEF Spec

\* The cron's list holds each live auction exactly once.
THEOREM OpenListCorrect == Spec => []OpenListIsExact
<1>1. IInv => OpenListIsExact
  BY DEF IInv
<1> QED
  BY <1>1, Invariance, PTL

\* Commitments, committers and hasCommitted never drift apart.
THEOREM BooksCorrect == Spec => []BookAgrees
<1>1. IInv => BookAgrees
  BY DEF IInv
<1> QED
  BY <1>1, Invariance, PTL

\* Every terminal path returns exactly what came in, account by account.
THEOREM PaymentCorrect == Spec => []PaidExactly
<1>1. IInv => PaidExactly
  BY DEF IInv
<1> QED
  BY <1>1, Invariance, PTL

\* A payout is recorded only for a winner that committed to that very auction, and
\* never above its cap.
THEOREM BackingCorrect == Spec => []PayoutIsBacked
<1>1. IInv => PayoutIsBacked
  BY DEF IInv
<1> QED
  BY <1>1, Invariance, PTL

-----------------------------------------------------------------------------
(***************************************************************************)
(* Action properties.                                                      *)
(***************************************************************************)

\* The state of an auction moves along one path, one place at a time: a refund may
\* leave it from anywhere, and a settlement only after a claim.
LEMMA NextMovesState ==
  ASSUME IInv, [Next]_vars, NEW x \in AuctionIds
  PROVE  \/ state(x)' = state(x)
         \/ state(x) = "None" /\ state(x)' = "Created"
         \/ state(x) = "Created" /\ state(x)' = "Bidding"
         \/ state(x) = "Bidding" /\ state(x)' = "Settling"
         \/ state(x) = "Settling" /\ state(x)' = "Finalized"
         \/ state(x) \in Live /\ state(x)' = "Timeout"
<1>1. ASSUME NEW id \in AuctionIds, createAuction(id)
      PROVE  state(x)' = state(x) \/ (state(x) = "None" /\ state(x)' = "Created")
  BY <1>1 DEF IInv, TypeOK, AuctionRecord, createAuction, CanCreate, state
<1>2. ASSUME NEW id \in AuctionIds, NEW supplier, NEW commitment,
             commit(id, supplier, commitment)
      PROVE  state(x)' = state(x) \/ (state(x) = "Created" /\ state(x)' = "Bidding")
  BY <1>2 DEF IInv, TypeOK, AuctionRecord, commit, CanCommit, state
<1>3. ASSUME NEW id \in AuctionIds, _startSettling(id)
      PROVE  state(x)' = state(x) \/ (state(x) = "Bidding" /\ state(x)' = "Settling")
  BY <1>3 DEF IInv, TypeOK, AuctionRecord, _startSettling, CanClaim, state
<1>4. CASE Settle
  <2>1. PICK s : s.auctionId \in AuctionIds /\ _settle(s)
    BY <1>4 DEF Settle
  <2>2. state(s.auctionId) = "Settling" /\ Close(s.auctionId, "Finalized", s.winner, s.payout)
    BY <2>1 DEF _settle, CanSettle
  <2> QED
    BY <2>1, <2>2 DEF IInv, TypeOK, Close, state
<1>5. ASSUME NEW id \in AuctionIds, timeoutRefund(id)
      PROVE  state(x)' = state(x) \/ (state(x) \in Live /\ state(x)' = "Timeout")
  <2>1. state(id) \in Live /\ Close(id, "Timeout", NoAddress, 0)
    BY <1>5, RefundCloses
  <2> QED
    BY <2>1 DEF IInv, TypeOK, Close, state
<1>6. CASE Tick
  BY <1>6 DEF Tick, state
<1>7. CASE UNCHANGED vars
  BY <1>7 DEF vars, state
<1> QED
  BY <1>1, <1>2, <1>3, <1>4, <1>5, <1>6, <1>7 DEF Next, Create, Commit, Claim, Refund

\* No transaction touches the outcome or the payments of a finished auction.
LEMMA NextKeepsFinished ==
  ASSUME IInv, [Next]_vars, NEW x \in AuctionIds, state(x) \in Terminal
  PROVE  auctions[x]' = auctions[x] /\ paidOut[x]' = paidOut[x]
<1>1. ASSUME NEW id \in AuctionIds, createAuction(id)
      PROVE  auctions[x]' = auctions[x] /\ paidOut[x]' = paidOut[x]
  BY <1>1 DEF IInv, TypeOK, createAuction, CanCreate, state, Terminal
<1>2. ASSUME NEW id \in AuctionIds, NEW supplier, NEW commitment,
             commit(id, supplier, commitment)
      PROVE  auctions[x]' = auctions[x] /\ paidOut[x]' = paidOut[x]
  BY <1>2 DEF IInv, TypeOK, commit, CanCommit, state, Terminal
<1>3. ASSUME NEW id \in AuctionIds, _startSettling(id)
      PROVE  auctions[x]' = auctions[x] /\ paidOut[x]' = paidOut[x]
  BY <1>3 DEF IInv, TypeOK, _startSettling, CanClaim, state, Terminal, money
<1>4. ASSUME NEW id \in AuctionIds, NEW terminal, NEW winner, NEW payout,
             state(id) \in Live, Close(id, terminal, winner, payout)
      PROVE  auctions[x]' = auctions[x] /\ paidOut[x]' = paidOut[x]
  <2>1. x # id
    BY <1>4 DEF Live, Terminal
  <2> QED
    BY <1>4, <2>1 DEF IInv, TypeOK, Close
<1>5. CASE Settle
  <2>1. PICK s : /\ s.auctionId \in AuctionIds
                 /\ s.winner \in Addresses \cup {NoAddress}
                 /\ s.payout \in Payouts
                 /\ _settle(s)
    BY <1>5 DEF Settle
  <2> QED
    BY <1>4, <2>1, SettleCloses
<1>6. CASE Refund
  BY <1>4, <1>6, RefundCloses DEF Refund
<1>7. CASE Tick
  BY <1>7 DEF Tick, money
<1>8. CASE UNCHANGED vars
  BY <1>8 DEF vars
<1> QED
  BY <1>1, <1>2, <1>3, <1>5, <1>6, <1>7, <1>8 DEF Next, Create, Commit, Claim

\* commit is the only transaction that writes a book.
LEMMA NextWritesBooks ==
  [Next]_vars => Commit \/ UNCHANGED <<commitments, committers, hasCommitted>>
<1>1. CASE Create
  BY <1>1 DEF Create, createAuction
<1>2. CASE Claim
  BY <1>2 DEF Claim, _startSettling, bids
<1>3. CASE Settle
  BY <1>3 DEF Settle, _settle, Close
<1>4. CASE Refund
  BY <1>4 DEF Refund, timeoutRefund, Close
<1>5. CASE Tick
  BY <1>5 DEF Tick, bids
<1>6. CASE UNCHANGED vars
  BY <1>6 DEF vars
<1> QED
  BY <1>1, <1>2, <1>3, <1>4, <1>5, <1>6 DEF Next

\* No transaction drops, moves or rewrites an entry of a book.
LEMMA NextExtendsBooks ==
  ASSUME IInv, [Next]_vars, NEW x \in AuctionIds
  PROVE  /\ Begins(commitments[x], commitments'[x])
         /\ Begins(committers[x], committers'[x])
         /\ hasCommitted[x] \subseteq hasCommitted'[x]
<1>1. ASSUME UNCHANGED <<commitments, committers, hasCommitted>>
      PROVE  /\ Begins(commitments[x], commitments'[x])
             /\ Begins(committers[x], committers'[x])
             /\ hasCommitted[x] \subseteq hasCommitted'[x]
  BY <1>1 DEF Begins
<1>2. ASSUME NEW S, NEW list \in Seq(S), NEW e
      PROVE  Begins(list, Append(list, e))
  BY <1>2 DEF Begins
<1>3. ASSUME NEW id \in AuctionIds, NEW supplier, NEW commitment,
             commit(id, supplier, commitment)
      PROVE  /\ Begins(commitments[x], commitments'[x])
             /\ Begins(committers[x], committers'[x])
             /\ hasCommitted[x] \subseteq hasCommitted'[x]
  <2>1. CASE x = id
    <3>1. /\ commitments'[x] = Append(commitments[x], commitment)
          /\ committers'[x] = Append(committers[x], supplier)
          /\ hasCommitted'[x] = hasCommitted[x] \cup {supplier}
      BY <1>3, <2>1 DEF IInv, TypeOK, commit
    <3>2. commitments[x] \in Seq(Commitments) /\ committers[x] \in Seq(Suppliers)
      BY DEF IInv, TypeOK
    <3> QED
      BY <1>2, <3>1, <3>2
  <2>2. CASE x # id
    BY <1>3, <2>2 DEF IInv, TypeOK, commit, Begins
  <2> QED
    BY <2>1, <2>2
<1> QED
  BY <1>1, <1>3, NextWritesBooks DEF Commit

\* No transaction adds to a book that can be claimed or was.
LEMMA NextKeepsClosedBook ==
  ASSUME IInv, [Next]_vars, NEW x \in AuctionIds,
         CanClaim(x) \/ state(x) \in {"Settling"} \cup Terminal
  PROVE  commitments[x]' = commitments[x] /\ committers[x]' = committers[x]
<1>1. ASSUME NEW id \in AuctionIds, NEW supplier, NEW commitment,
             commit(id, supplier, commitment)
      PROVE  commitments[x]' = commitments[x] /\ committers[x]' = committers[x]
  <2>1. now \in Int /\ bidDeadline(x) \in Int
    BY AuctionIdFields, ContractAssumption DEF IInv, TypeOK, bidDeadline
  <2>2. x # id
    BY <1>1, <2>1 DEF commit, CanCommit, CanClaim, state, Terminal
  <2> QED
    BY <1>1, <2>2 DEF IInv, TypeOK, commit
<1> QED
  BY <1>1, NextWritesBooks DEF Commit

\* A finished auction keeps its outcome and pays nothing more.
THEOREM FinalityCorrect == Spec => TerminalIsFinal
<1> DEFINE Kept == \A id \in AuctionIds :
                     state(id) \in Terminal =>
                       auctions[id]' = auctions[id] /\ paidOut[id]' = paidOut[id]
<1>1. IInv /\ [Next]_vars => [Kept]_vars
  BY NextKeepsFinished
<1> QED
  BY <1>1, Invariance, PTL DEF Spec, TerminalIsFinal

\* The root a claimed auction is settled against is the root it was claimed under.
THEOREM RootCorrect == Spec => RootIsFinal
<1> DEFINE Kept == \A id \in AuctionIds :
                     (CanClaim(id) \/ state(id) \in {"Settling"} \cup Terminal) =>
                       bidsRoot(id)' = bidsRoot(id) /\ committers[id]' = committers[id]
<1>1. IInv /\ [Next]_vars => [Kept]_vars
  BY NextKeepsClosedBook DEF bidsRoot
<1> QED
  BY <1>1, Invariance, PTL DEF Spec, RootIsFinal

-----------------------------------------------------------------------------
(***************************************************************************)
(* Refinement: the contract is an escrow.                                  *)
(***************************************************************************)

\* A contract just deployed is an escrow in which nothing is open.
LEMMA InitEscrow == Init => E!AbsInit
<1> SUFFICES ASSUME Init PROVE E!AbsInit
  OBVIOUS
<1>1. \A id \in AuctionIds : state(id) = "None"
  BY DEF Init, state
<1>2. phaseOf = [id \in AuctionIds |-> "none"]
  BY <1>1 DEF phaseOf
<1> QED
  BY <1>2 DEF Init, E!AbsInit

\* A transaction that changes the state of one auction changes one phase.
LEMMA PhaseStep ==
  ASSUME NEW id \in AuctionIds, NEW after,
         auctions'[id].state = after,
         \A x \in AuctionIds : x # id => auctions'[x] = auctions[x]
  PROVE  phaseOf' = [phaseOf EXCEPT ![id] =
                       IF after = "None" THEN "none"
                       ELSE IF after \in Live THEN "open" ELSE "closed"]
BY DEF phaseOf, state

\* createAuction opens one escrow and changes no other.
LEMMA CreateOpens ==
  ASSUME IInv, NEW id \in AuctionIds, createAuction(id)
  PROVE  E!Open(id)
<1>1. auctions'[id].state = "Created"
  BY DEF IInv, TypeOK, AuctionRecord, createAuction
<1>2. \A x \in AuctionIds : x # id => auctions'[x] = auctions[x]
  BY DEF IInv, TypeOK, createAuction
<1>3. phaseOf' = [phaseOf EXCEPT ![id] = "open"]
  BY <1>1, <1>2, PhaseStep DEF Live
<1>4. phaseOf[id] = "none"
  BY DEF createAuction, CanCreate, phaseOf
<1> QED
  BY <1>3, <1>4 DEF E!Open, createAuction

\* commit joins one party to one open escrow.
LEMMA CommitJoins ==
  ASSUME IInv, NEW id \in AuctionIds, NEW supplier \in Suppliers,
         NEW commitment \in Commitments, commit(id, supplier, commitment)
  PROVE  E!Join(id, supplier)
<1>1. auctions'[id].state = "Bidding"
  BY DEF IInv, TypeOK, AuctionRecord, commit
<1>2. \A x \in AuctionIds : x # id => auctions'[x] = auctions[x]
  BY DEF IInv, TypeOK, commit
<1>3. phaseOf[id] = "open"
  BY DEF commit, CanCommit, phaseOf, Live
<1>4. phaseOf' = [phaseOf EXCEPT ![id] = "open"]
  BY <1>1, <1>2, PhaseStep DEF Live
<1>5. phaseOf' = phaseOf
  BY <1>3, <1>4 DEF phaseOf
<1> QED
  BY <1>3, <1>5 DEF E!Join, commit, CanCommit

\* _startSettling cannot be seen from outside the escrow.
LEMMA ClaimStutters ==
  ASSUME IInv, NEW id \in AuctionIds, _startSettling(id)
  PROVE  UNCHANGED E!absVars
<1>1. auctions'[id].state = "Settling"
  BY DEF IInv, TypeOK, AuctionRecord, _startSettling
<1>2. \A x \in AuctionIds : x # id => auctions'[x] = auctions[x]
  BY DEF IInv, TypeOK, _startSettling
<1>3. phaseOf[id] = "open"
  BY DEF _startSettling, CanClaim, phaseOf, Live
<1>4. phaseOf' = [phaseOf EXCEPT ![id] = "open"]
  BY <1>1, <1>2, PhaseStep DEF Live
<1>5. phaseOf' = phaseOf
  BY <1>3, <1>4 DEF phaseOf
<1> QED
  BY <1>5 DEF E!absVars, _startSettling, bids, money

\* Either terminal transition closes one escrow and returns every deposit, the
\* payout moved from the buyer to the winner.
LEMMA CloseCloses ==
  ASSUME IInv, NEW id \in AuctionIds, NEW terminal \in Terminal,
         NEW winner, NEW payout \in Nat, payout <= id.payoutCap,
         state(id) \in Live, Close(id, terminal, winner, payout)
  PROVE  E!CloseWith(id, winner, payout)
<1>1. /\ auctions'[id].state = terminal
      /\ \A x \in AuctionIds : x # id => auctions'[x] = auctions[x]
  BY DEF IInv, TypeOK, Close
<1>2. phaseOf' = [phaseOf EXCEPT ![id] = "closed"]
  BY <1>1, PhaseStep DEF Live, Terminal
<1>3. phaseOf[id] = "open"
  BY DEF phaseOf, Live
<1>4. \A a \in Addresses : paidOut[id][a] = 0
  BY DEF IInv, PaidExactly, Live, Terminal
<1>5. Payments(id, winner, payout) \in [Addresses -> Nat]
  BY PaymentsType DEF IInv
<1>6. paidOut' = [paidOut EXCEPT ![id] =
                    [a \in Addresses |-> paidOut[id][a] + Payments(id, winner, payout)[a]]]
  BY DEF Close, IInv, TypeOK
<1>7. [a \in Addresses |-> paidOut[id][a] + Payments(id, winner, payout)[a]]
        = [a \in Addresses |-> Payments(id, winner, payout)[a]]
  BY <1>4, <1>5
<1>8. \A a \in Addresses :
        Payments(id, winner, payout)[a] =
          E!PutIn(id, a) + (IF a = winner THEN payout ELSE 0)
            - (IF a = id.buyer THEN payout ELSE 0)
  BY PaymentsExact DEF IInv, Deposit, E!PutIn
<1>9. [a \in Addresses |-> Payments(id, winner, payout)[a]] = E!Shares(id, winner, payout)
  BY <1>8 DEF E!Shares
<1>10. paidOut' = [paidOut EXCEPT ![id] = E!Shares(id, winner, payout)]
  BY <1>6, <1>7, <1>9
<1> QED
  BY <1>2, <1>3, <1>10 DEF E!CloseWith, Close

\* Every transaction of the contract is a step of the escrow or a stutter.
LEMMA NextEscrow == IInv /\ [Next]_vars => [E!AbsNext]_(E!absVars)
<1> SUFFICES ASSUME IInv, [Next]_vars PROVE E!AbsNext \/ UNCHANGED E!absVars
  OBVIOUS
<1>1. CASE Create
  BY <1>1, CreateOpens DEF Create, E!AbsNext
<1>2. CASE Commit
  BY <1>2, CommitJoins DEF Commit, E!AbsNext, Addresses
<1>3. CASE Claim
  BY <1>3, ClaimStutters DEF Claim
<1>4. CASE Settle
  <2>1. PICK s : /\ s.auctionId \in AuctionIds
                 /\ s.winner \in Addresses \cup {NoAddress}
                 /\ s.payout \in Payouts
                 /\ _settle(s)
    BY <1>4 DEF Settle
  <2>2. /\ s.payout \in Nat /\ s.payout <= s.auctionId.payoutCap
        /\ E!CloseWith(s.auctionId, s.winner, s.payout)
    BY <2>1, SettleCloses, CloseCloses DEF Terminal
  <2>3. CASE s.winner = NoAddress
    BY <2>1, <2>2, <2>3, SettleCloses DEF E!Return, E!AbsNext
  <2>4. CASE s.winner # NoAddress
    <3>1. s.winner \in hasCommitted[s.auctionId] /\ s.payout # 0
      BY <2>1, <2>4, SettleCloses
    <3>2. s.winner \in Addresses /\ s.payout \in 1..s.auctionId.payoutCap
      BY <2>1, <2>2, <2>4, <3>1, AuctionIdFields
    <3> QED
      BY <2>1, <2>2, <3>1, <3>2 DEF E!Pay, E!AbsNext
  <2> QED
    BY <2>3, <2>4
<1>5. CASE Refund
  <2>1. PICK id \in AuctionIds : timeoutRefund(id)
    BY <1>5 DEF Refund
  <2>2. E!CloseWith(id, NoAddress, 0)
    BY <2>1, RefundCloses, CloseCloses, AuctionIdFields DEF Terminal
  <2> QED
    BY <2>2 DEF E!Return, E!AbsNext
<1>6. CASE Tick
  BY <1>6 DEF Tick, bids, money, phaseOf, state, E!absVars
<1>7. CASE UNCHANGED vars
  BY <1>7 DEF vars, phaseOf, state, E!absVars
<1> QED
  BY <1>1, <1>2, <1>3, <1>4, <1>5, <1>6, <1>7 DEF Next

\* The contract implements the abstract escrow.
THEOREM EscrowRefinement == Spec => ImplementsEscrow
<1>1. Init => E!AbsInit
  BY InitEscrow
<1>2. IInv /\ [Next]_vars => [E!AbsNext]_(E!absVars)
  BY NextEscrow
<1> QED
  BY <1>1, <1>2, Invariance, PTL DEF Spec, ImplementsEscrow, E!AbsSpec

-----------------------------------------------------------------------------
(***************************************************************************)
(* The scan.                                                               *)
(***************************************************************************)

\* A set of natural numbers that is not empty has a least element.
LEMMA LeastNatural ==
  \A T \in SUBSET Nat : T # {} => \E m \in T : \A k \in T : m <= k
<1> SUFFICES ASSUME NEW T \in SUBSET Nat, T # {}
             PROVE  \E m \in T : \A k \in T : m <= k
  OBVIOUS
<1>1. PICK m \in T : \A k \in T : <<k, m>> \notin OpToRel(<, Nat)
  BY WFMin, NatLessThanWellFounded
<1>2. \A k \in T : ~(k < m)
  BY <1>1 DEF OpToRel
<1> QED
  BY <1>2

\* The scan stops at the first auction it can offer.
LEMMA ScanOffersClaimable ==
  ASSUME TypeOK, \E i \in DOMAIN openAuctions : CanClaim(openAuctions[i])
  PROVE  \E i \in DOMAIN openAuctions :
           pendingSettlement = openAuctions[i] /\ CanClaim(openAuctions[i])
<1> DEFINE due == {i \in DOMAIN openAuctions : CanClaim(openAuctions[i])}
<1>1. DOMAIN openAuctions = 1..Len(openAuctions) /\ Len(openAuctions) \in Nat
  BY DEF TypeOK
<1>2. due \in SUBSET Nat /\ due # {}
  BY <1>1
<1>3. PICK m \in due : \A k \in due : m <= k
  BY <1>2, LeastNatural
<1>4. /\ m \in DOMAIN openAuctions /\ CanClaim(openAuctions[m])
      /\ \A j \in 1..(m - 1) : ~CanClaim(openAuctions[j])
  BY <1>1, <1>3
<1> QED
  BY <1>4 DEF pendingSettlement

\* The cron is offered an auction exactly when one is due, and one it can claim.
THEOREM ScanCorrect == Spec => []ScanFindsDue
<1>1. IInv => ScanFindsDue
  <2> SUFFICES ASSUME IInv PROVE ScanFindsDue
    OBVIOUS
  <2>1. CASE \E i \in DOMAIN openAuctions : CanClaim(openAuctions[i])
    <3>1. PICK i \in DOMAIN openAuctions :
            pendingSettlement = openAuctions[i] /\ CanClaim(openAuctions[i])
      BY <2>1, ScanOffersClaimable DEF IInv
    <3>2. openAuctions[i] \in AuctionIds
      BY DEF IInv, TypeOK
    <3>3. pendingSettlement # NoAuction
      BY <3>1, <3>2, ContractAssumption
    <3> QED
      BY <3>1, <3>3 DEF ScanFindsDue
  <2>2. CASE ~ \E i \in DOMAIN openAuctions : CanClaim(openAuctions[i])
    <3>1. pendingSettlement = NoAuction
      BY <2>2 DEF pendingSettlement
    <3>2. ASSUME NEW id \in AuctionIds, CanClaim(id) PROVE FALSE
      <4>1. \E i \in DOMAIN openAuctions : openAuctions[i] = id
        BY <3>2 DEF IInv, OpenListIsExact, CanClaim, Live
      <4> QED
        BY <2>2, <3>2, <4>1
    <3> QED
      BY <3>1, <3>2 DEF ScanFindsDue
  <2> QED
    BY <2>1, <2>2
<1> QED
  BY <1>1, Invariance, PTL
=============================================================================
