-------------------------- MODULE PurchaserProofs --------------------------
(***************************************************************************)
(* Proofs about Purchaser, for every number of confirms, policies and      *)
(* wallets' nonces, and every bucket, ceiling and limit: what a confirm    *)
(* has uploaded, broadcast and been answered agrees with what is on chain. *)
(***************************************************************************)
EXTENDS Purchaser, SealedAuctionProofs

-----------------------------------------------------------------------------
(***************************************************************************)
(* Operators.                                                              *)
(***************************************************************************)

\* A multiple leaves no remainder.
LEMMA MultipleLeavesNothing ==
  ASSUME NEW b \in Nat \ {0}, NEW n \in Nat
  PROVE  (b * n) % b = 0
<1> DEFINE m == b * n
<1>1. m \in Nat /\ b \in Int /\ n \in Int
  OBVIOUS
<1> HIDE DEF m
<1>2. m = b * (m \div b) + (m % b) /\ m % b \in 0..(b - 1) /\ m \div b \in Int
  BY <1>1
<1>3. m = b * n
  BY DEF m
<1> DEFINE d == n - (m \div b)
<1>4. d \in Int /\ b * d = b * n - b * (m \div b)
  BY <1>1, <1>2
<1>5. b * d = m % b
  BY <1>2, <1>3, <1>4
<1> HIDE DEF d
<1>6. ASSUME d >= 1 PROVE FALSE
  <2>1. b * d >= b
    BY <1>4, <1>6
  <2> QED
    BY <1>2, <1>5, <2>1
<1>7. ASSUME d <= -1 PROVE FALSE
  <2>1. b * d <= -b
    BY <1>4, <1>7
  <2> QED
    BY <1>2, <1>5, <2>1
<1>8. d = 0
  BY <1>4, <1>6, <1>7
<1>9. b * d = 0
  BY <1>8
<1> QED
  BY <1>5, <1>9 DEF m

\* payoutCapFor: the next whole bucket strictly above a price is above it by one
\* bucket at most.
LEMMA CapArithmetic ==
  ASSUME NEW maxPrice \in Nat
  PROVE  /\ payoutCapFor(maxPrice) \in Nat
         /\ payoutCapFor(maxPrice) > maxPrice
         /\ payoutCapFor(maxPrice) - maxPrice <= Bucket
         /\ payoutCapFor(maxPrice) % Bucket = 0
<1>1. Bucket \in Nat \ {0}
  BY PurchaserAssumption
<1> DEFINE q == maxPrice \div Bucket
           rest == maxPrice % Bucket
<1>2. q \in Nat /\ rest \in 0..(Bucket - 1) /\ maxPrice = Bucket * q + rest
  BY <1>1
<1>3. payoutCapFor(maxPrice) = Bucket * (q + 1)
  BY <1>1, <1>2 DEF payoutCapFor
<1> HIDE DEF q, rest
<1>4. Bucket * q \in Nat /\ Bucket * (q + 1) = Bucket * q + Bucket
  BY <1>1, <1>2
<1>5. (Bucket * (q + 1)) % Bucket = 0
  BY <1>1, <1>2, MultipleLeavesNothing
<1> QED
  BY <1>1, <1>2, <1>3, <1>4, <1>5

\* What a confirm is funded with, by whom, and whether Privy signs it, is settled by
\* the policy it names.
LEMMA SamePolicy ==
  ASSUME NEW c, confirms'[c].policyHash = confirms[c].policyHash
  PROVE  /\ payoutCap(c)' = payoutCap(c)
         /\ signerOf(c)' = signerOf(c)
         /\ HasSigner(c)' <=> HasSigner(c)
         /\ PrivyAllows(c)' <=> PrivyAllows(c)
BY DEF payoutCap, signerOf, HasSigner, PrivyAllows, quorumSigned

\* signerFor: the cap alone decides which of the two wallets funds.
LEMMA SignerByCap ==
  ASSUME NEW c, confirms[c].policyHash \in Policies
  PROVE  /\ payoutCap(c) \in Caps /\ payoutCap(c) \in Nat
         /\ signerOf(c) \in Buyers
         /\ signerOf(c) = quorumWallet <=> payoutCap(c) > QuorumCeiling
         /\ HasSigner(c) /\ signerOf(c) = quorumWallet => HasQuorumKeys
<1>1. payoutCap(c) \in Caps /\ payoutCap(c) \in Nat
  BY PurchaserAssumption, ContractAssumption DEF payoutCap
<1> QED
  BY <1>1, PurchaserAssumption DEF signerOf, quorumSigned, HasSigner

\* The names a confirm's record is made of.
LEMMA RecordNames ==
  /\ "fresh" \in Stages /\ "intent" \in Stages /\ "draft" \in Stages /\ "upload" \in Stages
  /\ "approve" \in Stages /\ "signApprove" \in Stages /\ "approving" \in Stages
  /\ "create" \in Stages /\ "signCreate" \in Stages /\ "creating" \in Stages
  /\ "answered" \in Stages
  /\ "none" \in Receipts /\ "success" \in Receipts /\ "reverted" \in Receipts
  /\ 0 \in Statuses /\ 200 \in Statuses /\ 422 \in Statuses /\ 500 \in Statuses
  /\ 502 \in Statuses
BY DEF Stages, Receipts, Statuses

\* AnswerWith: the record is answered, and keeps all else.
LEMMA AnswerKeeps ==
  ASSUME PurTypeOK, NEW c \in Confirms, NEW status \in Statuses, AnswerWith(c, status)
  PROVE  LET k == confirms[c]
             l == confirms'[c]
         IN /\ confirms' = [confirms EXCEPT ![c] = l] /\ l \in ConfirmRecord
            /\ l.pc = "answered" /\ l.answer = status
            /\ l.sent = k.sent /\ l.auctionId = k.auctionId /\ l.receipt = k.receipt
            /\ l.policyHash = k.policyHash
<1>1. confirms \in [Confirms -> ConfirmRecord] /\ confirms[c] \in ConfirmRecord
  BY DEF PurTypeOK
<1>2. confirms'[c] = [confirms[c] EXCEPT !.pc = "answered", !.answer = status]
  BY <1>1 DEF AnswerWith
<1>3. [confirms[c] EXCEPT !.pc = "answered", !.answer = status] \in ConfirmRecord
  BY <1>1, RecordNames, ZenonT(40) DEF ConfirmRecord
<1>4. confirms' = [confirms EXCEPT ![c] = confirms'[c]]
  BY <1>1 DEF AnswerWith
<1> QED
  BY <1>1, <1>2, <1>3, <1>4 DEF ConfirmRecord

\* A stage of a confirm is known by what it has reached.
LEMMA FundingIsKnown ==
  ASSUME PurInv, NEW c \in Confirms, Funding(c) \/ confirms[c].sent > 0
  PROVE  confirms[c].policyHash \in Policies
BY DEF PurInv, ConfirmStands, Funding, Unsent, PurTypeOK, ConfirmRecord, Stages

-----------------------------------------------------------------------------
(***************************************************************************)
(* The contract under the service.                                         *)
(***************************************************************************)

\* The auction a confirm would open is one the contract can name.
LEMMA NewIdType ==
  ASSUME PurInv, NEW c \in Confirms, confirms[c].policyHash \in Policies, now <= MaxCreatedAt
  PROVE  newId(c) \in AuctionIds
<1>1. now \in 0..MaxCreatedAt
  BY ContractAssumption DEF PurInv, IInv, TypeOK
<1> QED
  BY <1>1, SignerByCap DEF newId, AuctionIds

\* A list's entries are of the kind the list is.
LEMMA EntryType ==
  ASSUME NEW S, NEW list \in Seq(S), NEW i \in DOMAIN list
  PROVE  list[i] \in S
OBVIOUS

\* Mine: the transaction at the head of a wallet's mempool is that of a confirm that
\* broadcast it.
LEMMA HeadOfMempool ==
  ASSUME PurInv, NEW w \in Buyers, mempool[w] # <<>>, NEW tx, tx = Head(mempool[w])
  PROVE  /\ tx \in Transaction /\ tx.confirm \in Confirms /\ Awaited(tx, w)
         /\ confirms[tx.confirm].policyHash \in Policies /\ confirms[tx.confirm].sent > 0
         /\ tx = mempool[w][1] /\ 1 \in DOMAIN mempool[w]
<1>1. PendingStands(w) /\ mempool[w] \in Seq(Transaction)
  BY DEF PurInv, PendingStands
<1>2. tx = mempool[w][1] /\ 1 \in DOMAIN mempool[w]
  BY <1>1
<1>3. tx \in Transaction
  BY <1>1, <1>2, EntryType
<1>4. tx.confirm \in Confirms
  BY <1>3 DEF Transaction
<1>5. Awaited(tx, w)
  BY <1>1, <1>2 DEF PendingStands
<1>6. confirms[tx.confirm].sent > 0
  BY <1>5 DEF Awaited
<1>7. confirms[tx.confirm].policyHash \in Policies
  BY <1>4, <1>6, FundingIsKnown
<1> QED
  BY <1>2, <1>3, <1>4, <1>5, <1>6, <1>7

\* The service drives the contract through its own transactions only.
LEMMA PurNextOnChain ==
  ASSUME PurInv, [PurNext]_purVars
  PROVE  [Next]_vars
<1>1. ASSUME NEW w \in Buyers, Mine(w)
      PROVE  [Next]_vars
  <2> DEFINE c == Head(mempool[w]).confirm
  <2>1. newId(c) \in AuctionIds
    BY <1>1, HeadOfMempool, NewIdType DEF Mine
  <2>2. createAuction(newId(c)) \/ UNCHANGED vars
    BY <1>1 DEF Mine
  <2> QED
    BY <2>1, <2>2 DEF Next, Create
<1>2. ASSUME NEW c \in Confirms, ConfirmStep(c)
      PROVE  UNCHANGED vars
  BY <1>2 DEF ConfirmStep, Send, Validated, Rejected, BackToTheSentence, Confirm, Upload, UploadThrows,
              Prepare, PrivyRefuses, Broadcast, Receipt, FundingThrows
<1> QED
  BY <1>1, <1>2 DEF PurNext, RestartRelay, StrangerUploads, OnChain, Next, purVars

\* An auction that exists does not cease to.
LEMMA NextKeepsExisting ==
  ASSUME PurInv, [PurNext]_purVars, NEW id \in AuctionIds, state(id) # "None"
  PROVE  state(id)' # "None"
<1>1. IInv /\ [Next]_vars
  BY PurNextOnChain DEF PurInv
<1> QED
  BY <1>1, NextMovesState DEF Live

\* An auction that a step opens is the one createAuction makes for a confirm that has
\* broadcast its two transactions.
LEMMA NextOpens ==
  ASSUME PurInv, [PurNext]_purVars, NEW id \in AuctionIds, state(id) = "None", state(id)' # "None"
  PROVE  \E c \in Confirms : id = newId(c) /\ confirms[c].sent > 0
<1>1. auctions \in [AuctionIds -> AuctionRecord]
  BY DEF PurInv, IInv, TypeOK
<1>2. ASSUME NEW w \in Buyers, Mine(w)
      PROVE  \E c \in Confirms : id = newId(c) /\ confirms[c].sent > 0
  <2> DEFINE c == Head(mempool[w]).confirm
  <2>1. c \in Confirms /\ confirms[c].sent > 0 /\ newId(c) \in AuctionIds
    BY <1>2, HeadOfMempool, NewIdType DEF Mine
  <2>2. createAuction(newId(c)) \/ UNCHANGED vars
    BY <1>2 DEF Mine
  <2>3. createAuction(newId(c))
    BY <2>2 DEF vars, state
  <2>4. id = newId(c)
    BY <1>1, <2>1, <2>3 DEF createAuction, state
  <2> QED
    BY <2>1, <2>4
<1>3. ASSUME NEW c \in Confirms, ConfirmStep(c)
      PROVE  FALSE
  BY <1>3 DEF ConfirmStep, Send, Validated, Rejected, BackToTheSentence, Confirm, Upload, UploadThrows,
              Prepare, PrivyRefuses, Broadcast, Receipt, FundingThrows, vars, state
<1>4. ~OnChain
  <2>1. ~Tick
    BY DEF Tick, state
  <2>2. ASSUME NEW other \in AuctionIds, timeoutRefund(other)
        PROVE  FALSE
    BY <1>1, <2>2 DEF timeoutRefund, CanRefund, Close, state
  <2> QED
    BY <2>1, <2>2 DEF OnChain, Refund
<1>5. ~RestartRelay /\ ~StrangerUploads /\ ~UNCHANGED purVars
  BY DEF RestartRelay, StrangerUploads, purVars, vars, state
<1> QED
  BY <1>2, <1>3, <1>4, <1>5 DEF PurNext

-----------------------------------------------------------------------------
(***************************************************************************)
(* The relay under the service.                                            *)
(***************************************************************************)

\* store: whoever puts a blob, no slot that holds one is emptied or overwritten.
LEMMA PutKeeps ==
  ASSUME PurInv, NEW hash \in Policies, NEW blob \in Policies \cup {Stranger}, R!putPolicy(hash, blob)
  PROVE  /\ policySlots' \in [Policies -> Policies \cup {Empty, Stranger}]
         /\ \A h \in Policies : policySlots[h] # Empty => policySlots'[h] = policySlots[h]
         /\ \A h \in Policies : policySlots'[h] = policySlots[h] \/ (h = hash /\ policySlots'[h] = blob)
         /\ policySlots'[hash] # Empty
BY PurchaserAssumption DEF PurInv, R!putPolicy, R!store

\* The relay forgets only when it restarts; and what a slot holds is its policy or a
\* stranger's blob.
LEMMA NextKeepsSlots ==
  ASSUME PurInv, [PurNext]_purVars
  PROVE  /\ policySlots' \in [Policies -> Policies \cup {Empty, Stranger}]
         /\ \A hash \in Policies : policySlots'[hash] \in {Empty, Stranger, hash}
         /\ restarted' \in BOOLEAN
         /\ \A hash \in Policies :
              policySlots[hash] # Empty \/ restarted => policySlots'[hash] # Empty \/ restarted'
<1>1. /\ policySlots \in [Policies -> Policies \cup {Empty, Stranger}]
      /\ \A hash \in Policies : policySlots[hash] \in {Empty, Stranger, hash}
      /\ restarted \in BOOLEAN
  BY DEF PurInv, PurTypeOK
<1>2. CASE UNCHANGED relay
  BY <1>1, <1>2 DEF relay
<1>3. CASE RestartRelay
  BY <1>3 DEF RestartRelay, R!Restart, R!NoPolicies
<1>4. CASE StrangerUploads
  BY <1>1, <1>4, PutKeeps DEF StrangerUploads
<1>5. ASSUME NEW c \in Confirms, Upload(c) \/ UploadThrows(c)
      PROVE  \/ UNCHANGED relay
             \/ /\ UNCHANGED restarted /\ confirms[c].policyHash \in Policies
                /\ R!putPolicy(confirms[c].policyHash, confirms[c].policyHash)
  BY <1>5 DEF Upload, UploadThrows, At, PurInv, ConfirmStands, relay
<1>6. ASSUME NEW c \in Confirms, Upload(c) \/ UploadThrows(c), ~UNCHANGED relay
      PROVE  /\ policySlots' \in [Policies -> Policies \cup {Empty, Stranger}]
             /\ \A hash \in Policies : policySlots'[hash] \in {Empty, Stranger, hash}
             /\ restarted' \in BOOLEAN
             /\ \A hash \in Policies :
                  policySlots[hash] # Empty \/ restarted => policySlots'[hash] # Empty \/ restarted'
  <2>1. /\ UNCHANGED restarted /\ confirms[c].policyHash \in Policies
        /\ R!putPolicy(confirms[c].policyHash, confirms[c].policyHash)
    BY <1>5, <1>6
  <2> QED
    BY <1>1, <2>1, PutKeeps
<1>7. ASSUME NEW c \in Confirms, ConfirmStep(c), ~(Upload(c) \/ UploadThrows(c))
      PROVE  UNCHANGED relay
  BY <1>7 DEF ConfirmStep, Send, Validated, Rejected, BackToTheSentence, Confirm, Prepare, PrivyRefuses,
              Broadcast, Receipt, FundingThrows
<1> QED
  BY <1>2, <1>3, <1>4, <1>6, <1>7 DEF PurNext, Mine, OnChain, purVars

-----------------------------------------------------------------------------
(***************************************************************************)
(* One confirm.                                                            *)
(***************************************************************************)

\* A confirm that a step leaves alone stands as it did: the relay keeps its policy,
\* unless it restarts, and the contract its auction.
LEMMA RestStands ==
  ASSUME PurInv, [PurNext]_purVars, NEW d \in Confirms, confirms'[d] = confirms[d]
  PROVE  ConfirmStands(d)'
<1> DEFINE k == confirms[d]
<1>1. ConfirmStands(d) /\ k \in ConfirmRecord
  BY DEF PurInv, PurTypeOK
<1>2. Funding(d) \/ k.sent > 0 => Uploaded(d)'
  BY FundingIsKnown, NextKeepsSlots, <1>1 DEF Uploaded, ConfirmStands
<1>3. k.auctionId # NoAuction => state(k.auctionId)' # "None"
  BY <1>1, NextKeepsExisting DEF ConfirmStands, ConfirmRecord
<1>4. Funding(d)' <=> Funding(d)
  BY DEF Funding
<1>5. Signing(d)' <=> Signing(d)
  BY DEF Signing, At
<1> QED
  BY <1>1, <1>2, <1>3, <1>4, <1>5, SamePolicy DEF ConfirmStands, state

\* The sentence, the draft and the upload: nothing is broadcast, and the draft that
\* is confirmed names a policy.
LEMMA EarlySteps ==
  ASSUME PurInv, NEW c \in Confirms,
         \/ Send(c) \/ (\E hash \in Policies : Validated(c, hash)) \/ Rejected(c)
         \/ BackToTheSentence(c) \/ Confirm(c) \/ Upload(c) \/ UploadThrows(c)
  PROVE  /\ confirms' = [confirms EXCEPT ![c] = confirms'[c]]
         /\ confirms'[c] \in ConfirmRecord
         /\ ConfirmStands(c)'
         /\ UNCHANGED <<vars, accounts>>
         /\ confirms'[c].auctionId = confirms[c].auctionId
         /\ confirms'[c].sent = confirms[c].sent /\ confirms[c].sent = 0
<1> DEFINE k == confirms[c]
           l == confirms'[c]
<1>1. /\ ConfirmStands(c) /\ k \in ConfirmRecord /\ confirms \in [Confirms -> ConfirmRecord]
  BY DEF PurInv, PurTypeOK
<1>2. k.pc \in {"fresh", "intent", "draft", "upload"}
  BY DEF Send, Validated, Rejected, BackToTheSentence, Confirm, Upload, UploadThrows, At
<1>3. k.sent = 0 /\ k.auctionId = NoAuction /\ k.receipt = "none" /\ k.answer = 0
  BY <1>1, <1>2 DEF ConfirmStands, Unsent, ConfirmRecord
<1>4. CASE Send(c)
  <2>1. l = [k EXCEPT !.pc = "intent", !.round = 1] /\ confirms' = [confirms EXCEPT ![c] = l]
    BY <1>1, <1>4 DEF Send
  <2>0. PICK round \in 0..ROUNDS : l = [k EXCEPT !.pc = "intent", !.round = round]
    <3>1. 1 \in 0..ROUNDS
      BY PurchaserAssumption
    <3> QED
      BY <2>1, <3>1, Zenon
  <2>2. l \in ConfirmRecord
    BY <1>1, <2>0, RecordNames, ZenonT(40) DEF ConfirmRecord
  <2>3. l.pc = "intent" /\ l.sent = 0 /\ l.auctionId = NoAuction /\ l.receipt = "none" /\ l.answer = 0
    BY <1>1, <1>3, <2>1 DEF ConfirmRecord
  <2> QED
    BY <1>3, <1>4, <2>1, <2>2, <2>3 DEF Send, ConfirmStands, Funding, Signing, At, Unsent
<1>5. ASSUME NEW hash \in Policies, Validated(c, hash)
      PROVE  /\ confirms' = [confirms EXCEPT ![c] = l] /\ l \in ConfirmRecord /\ ConfirmStands(c)'
             /\ UNCHANGED <<vars, accounts>> /\ l.auctionId = k.auctionId /\ l.sent = k.sent
  <2>1. /\ l = [k EXCEPT !.pc = "draft", !.round = 0, !.policyHash = hash]
        /\ confirms' = [confirms EXCEPT ![c] = l]
    BY <1>1, <1>5 DEF Validated
  <2>0. PICK round \in 0..ROUNDS : l = [k EXCEPT !.pc = "draft", !.round = round, !.policyHash = hash]
    <3>1. 0 \in 0..ROUNDS
      BY PurchaserAssumption
    <3> QED
      BY <2>1, <3>1, Zenon
  <2>2. l \in ConfirmRecord
    BY <1>1, <1>5, <2>0, RecordNames, ZenonT(40) DEF ConfirmRecord
  <2>3. /\ l.pc = "draft" /\ l.sent = 0 /\ l.auctionId = NoAuction /\ l.receipt = "none" /\ l.answer = 0
        /\ l.policyHash = hash
    BY <1>1, <1>3, <2>1 DEF ConfirmRecord
  <2> QED
    BY <1>3, <1>5, <2>1, <2>2, <2>3 DEF Validated, ConfirmStands, Funding, Signing, At, Unsent
<1>6. CASE Rejected(c)
  <2>1. l = [k EXCEPT !.round = @ + 1] /\ confirms' = [confirms EXCEPT ![c] = l]
    BY <1>1, <1>6 DEF Rejected
  <2>2. l \in ConfirmRecord
    BY <1>1, <1>6, <2>1, PurchaserAssumption, RecordNames DEF Rejected, ConfirmRecord
  <2>3. l.pc = "intent" /\ l.sent = 0 /\ l.auctionId = NoAuction /\ l.receipt = "none" /\ l.answer = 0
    BY <1>1, <1>3, <1>6, <2>1 DEF ConfirmRecord, Rejected, At
  <2> QED
    BY <1>3, <1>6, <2>1, <2>2, <2>3 DEF Rejected, ConfirmStands, Funding, Signing, At, Unsent
<1>7. CASE BackToTheSentence(c)
  <2>1. l = Fresh /\ confirms' = [confirms EXCEPT ![c] = l]
    BY <1>1, <1>7 DEF BackToTheSentence
  <2>2. l \in ConfirmRecord
    BY <2>1, PurchaserAssumption, RecordNames DEF ConfirmRecord, Fresh
  <2>3. l.pc = "fresh" /\ l.sent = 0 /\ l.auctionId = NoAuction /\ l.receipt = "none" /\ l.answer = 0
    BY <2>1 DEF Fresh
  <2> QED
    BY <1>3, <1>7, <2>1, <2>2, <2>3 DEF BackToTheSentence, ConfirmStands, Funding, Signing, At, Unsent
<1>8. CASE Confirm(c)
  <2>1. /\ confirms' = [confirms EXCEPT ![c] = l] /\ l \in ConfirmRecord
        /\ l.pc = "upload" /\ l.sent = 0 /\ l.auctionId = NoAuction /\ l.receipt = "none" /\ l.answer = 0
        /\ l.policyHash \in Policies
    <3>1. CASE At(c, "draft") /\ Go(c, "upload")
      <4>1. l = [k EXCEPT !.pc = "upload"] /\ confirms' = [confirms EXCEPT ![c] = l]
        BY <1>1, <3>1 DEF Go
      <4>2. k.policyHash \in Policies
        BY <1>1, <3>1 DEF ConfirmStands, At
      <4> QED
        BY <1>1, <1>3, <4>1, <4>2, RecordNames DEF ConfirmRecord
    <3>2. ASSUME NEW d \in Confirms, At(d, "answered"),
                 confirms' = [confirms EXCEPT ![c].pc = "upload", ![c].policyHash = confirms[d].policyHash]
          PROVE  /\ confirms' = [confirms EXCEPT ![c] = l] /\ l \in ConfirmRecord
                 /\ l.pc = "upload" /\ l.sent = 0 /\ l.auctionId = NoAuction /\ l.receipt = "none"
                 /\ l.answer = 0 /\ l.policyHash \in Policies
      <4>1. /\ l = [k EXCEPT !.pc = "upload", !.policyHash = confirms[d].policyHash]
            /\ confirms' = [confirms EXCEPT ![c] = l]
        BY <1>1, <3>2
      <4>2. confirms[d].policyHash \in Policies
        BY <3>2 DEF PurInv, ConfirmStands, At
      <4> QED
        BY <1>1, <1>3, <4>1, <4>2, RecordNames, ZenonT(40) DEF ConfirmRecord
    <3> QED
      BY <1>8, <3>1, <3>2 DEF Confirm
  <2> QED
    BY <1>3, <1>8, <2>1 DEF Confirm, ConfirmStands, Funding, Signing, At, Unsent
<1>9. CASE Upload(c) \/ UploadThrows(c)
  <2>0. UNCHANGED <<vars, accounts>> /\ k.pc = "upload" /\ k.policyHash \in Policies
    BY <1>1, <1>9 DEF Upload, UploadThrows, At, ConfirmStands
  <2>1. CASE Upload(c)
    <3>1. l = [k EXCEPT !.pc = "approve"] /\ confirms' = [confirms EXCEPT ![c] = l]
      BY <1>1, <2>1 DEF Upload, Go
    <3>2. l \in ConfirmRecord
      BY <1>1, <3>1, RecordNames DEF ConfirmRecord
    <3>3. /\ l.pc = "approve" /\ l.sent = 0 /\ l.auctionId = NoAuction /\ l.receipt = "none" /\ l.answer = 0
          /\ l.policyHash = k.policyHash
      BY <1>1, <1>3, <3>1 DEF ConfirmRecord
    <3>4. policySlots'[k.policyHash] # Empty
      BY <2>0, <2>1, PutKeeps DEF Upload
    <3> QED
      BY <1>3, <2>0, <3>1, <3>2, <3>3, <3>4 DEF ConfirmStands, Funding, Signing, At, Unsent, Uploaded
  <2>2. CASE UploadThrows(c)
    <3>1. AnswerWith(c, 502)
      BY <2>2 DEF UploadThrows
    <3>2. confirms' = [confirms EXCEPT ![c] = l] /\ l \in ConfirmRecord
      BY <3>1, AnswerKeeps, RecordNames DEF PurInv
    <3>3. /\ l.pc = "answered" /\ l.sent = k.sent /\ l.auctionId = k.auctionId /\ l.receipt = k.receipt
          /\ l.answer = 502 /\ l.policyHash = k.policyHash
      BY <3>1, AnswerKeeps, RecordNames DEF PurInv
    <3> QED
      BY <1>3, <2>0, <3>1, <3>2, <3>3 DEF ConfirmStands, Funding, Signing, At, Unsent
  <2> QED
    BY <1>9, <2>1, <2>2
<1> QED
  BY <1>3, <1>4, <1>5, <1>6, <1>7, <1>8, <1>9

\* The funding: a transaction is signed only for a cap that Privy allows, both its
\* rules carrying the amount; an answer of 200 comes with a receipt.
LEMMA FundingSteps ==
  ASSUME PurInv, NEW c \in Confirms,
         Prepare(c) \/ PrivyRefuses(c) \/ Broadcast(c) \/ Receipt(c) \/ FundingThrows(c)
  PROVE  /\ confirms' = [confirms EXCEPT ![c] = confirms'[c]]
         /\ confirms'[c] \in ConfirmRecord
         /\ ConfirmStands(c)'
         /\ confirms'[c].auctionId = confirms[c].auctionId
         /\ confirms'[c].policyHash = confirms[c].policyHash
         /\ UNCHANGED <<vars, relay>>
         /\ \/ /\ Signing(c) /\ Broadcast(c) /\ confirms'[c].sent = confirms[c].sent + 1
               /\ confirms'[c].receipt = "none"
               /\ confirms'[c].pc = IF At(c, "signApprove") THEN "approving" ELSE "creating"
            \/ /\ confirms'[c].sent = confirms[c].sent /\ UNCHANGED accounts
               /\ \/ confirms[c].pc \notin {"approving", "creating", "answered"}
                  \/ confirms[c].receipt = "success"
                  \/ confirms'[c].pc = "answered" /\ confirms'[c].receipt = confirms[c].receipt
<1> DEFINE k == confirms[c]
           l == confirms'[c]
<1>1. /\ ConfirmStands(c) /\ k \in ConfirmRecord /\ confirms \in [Confirms -> ConfirmRecord]
  BY DEF PurInv, PurTypeOK
<1>2. UNCHANGED <<vars, relay>>
  BY DEF Prepare, PrivyRefuses, Broadcast, Receipt, FundingThrows
<1>3. Funding(c)
  BY DEF Prepare, PrivyRefuses, Broadcast, Receipt, FundingThrows, Signing, Funding, At
<1>4. k.policyHash \in Policies /\ Uploaded(c) /\ k.pc # "answered" /\ k.answer = 0
  BY <1>1, <1>3, FundingIsKnown DEF ConfirmStands, Funding, ConfirmRecord
<1>5. l.policyHash = k.policyHash => Uploaded(c)'
  BY <1>2, <1>4 DEF Uploaded, relay
<1>6. UNCHANGED auctions
  BY <1>2 DEF vars
<1>7. CASE Prepare(c)
  <2> DEFINE pc == IF k.pc = "approve" THEN "signApprove" ELSE "signCreate"
  <2>1. l = [k EXCEPT !.pc = pc, !.nonce = nonceOf[signerOf(c)]] /\ confirms' = [confirms EXCEPT ![c] = l]
    BY <1>1, <1>7 DEF Prepare
  <2>2. nonceOf[signerOf(c)] \in Nat
    <3>1. signerOf(c) \in Buyers
      BY <1>4, SignerByCap
    <3>2. nonceOf[signerOf(c)] \in 0..(2 * Cardinality(Confirms))
      BY <3>1 DEF PurInv, PurTypeOK
    <3>3. Cardinality(Confirms) \in Nat
      BY PurchaserAssumption, FS_CardinalityType
    <3> QED
      BY <3>2, <3>3
  <2>3. l \in ConfirmRecord
    BY <1>1, <2>1, <2>2, RecordNames, ZenonT(40) DEF ConfirmRecord
  <2>4. /\ l.pc = pc /\ l.sent = k.sent /\ l.auctionId = k.auctionId /\ l.receipt = k.receipt
        /\ l.answer = k.answer /\ l.policyHash = k.policyHash
    BY <1>1, <2>1 DEF ConfirmRecord
  <2>5. k.pc \in {"approve", "create"} /\ HasSigner(c) /\ UNCHANGED accounts
    BY <1>7 DEF Prepare, At
  <2>6. k.receipt = "none" /\ k.auctionId = NoAuction
    BY <1>1, <2>5 DEF ConfirmStands, Unsent
  <2>7. ConfirmStands(c)'
    BY <1>1, <1>4, <1>5, <2>4, <2>5, <2>6, SamePolicy DEF ConfirmStands, Unsent
  <2> QED
    BY <1>2, <2>1, <2>3, <2>4, <2>5, <2>7
<1>8. CASE PrivyRefuses(c)
  <2>1. AnswerWith(c, 422)
    BY <1>8 DEF PrivyRefuses
  <2>2. confirms' = [confirms EXCEPT ![c] = l] /\ l \in ConfirmRecord
    BY <2>1, AnswerKeeps, RecordNames DEF PurInv
  <2>3. /\ l.pc = "answered" /\ l.sent = k.sent /\ l.auctionId = k.auctionId /\ l.receipt = k.receipt
        /\ l.answer = 422 /\ l.policyHash = k.policyHash
    BY <2>1, AnswerKeeps, RecordNames DEF PurInv
  <2>4. k.pc \in {"signApprove", "signCreate"} /\ UNCHANGED accounts /\ ~PrivyAllows(c)
    BY <1>8 DEF PrivyRefuses, Signing, At
  <2>5. k.sent = 0
    BY <1>1, <2>4 DEF ConfirmStands, ConfirmRecord
  <2>6. k.auctionId = NoAuction
    BY <1>1, <2>5 DEF ConfirmStands
  <2>7. ConfirmStands(c)'
    BY <1>4, <2>3, <2>5, <2>6 DEF ConfirmStands, Funding, Signing, At, Unsent
  <2> QED
    BY <1>2, <2>1, <2>2, <2>3, <2>4, <2>7
<1>9. CASE Broadcast(c)
  <2> DEFINE pc == IF k.pc = "signApprove" THEN "approving" ELSE "creating"
  <2>1. l = [k EXCEPT !.pc = pc, !.sent = @ + 1] /\ confirms' = [confirms EXCEPT ![c] = l]
    BY <1>1, <1>9 DEF Broadcast
  <2>2. k.pc \in {"signApprove", "signCreate"} /\ PrivyAllows(c) /\ Signing(c)
    BY <1>9 DEF Broadcast, Signing, At
  <2>3. k.sent = IF k.pc = "signApprove" THEN 0 ELSE 1
    BY <1>1, <2>2 DEF ConfirmStands, Unsent
  <2>4. l \in ConfirmRecord
    <3>1. pc \in Stages /\ k.sent + 1 \in 0..2
      BY <2>3, RecordNames
    <3>2. PICK stage \in Stages, sent \in 0..2 : l = [k EXCEPT !.pc = stage, !.sent = sent]
      BY <1>1, <2>1, <3>1 DEF ConfirmRecord
    <3> QED
      BY <1>1, <3>2 DEF ConfirmRecord
  <2>5. /\ l.pc = pc /\ l.sent = k.sent + 1 /\ l.auctionId = k.auctionId /\ l.receipt = k.receipt
        /\ l.answer = k.answer /\ l.policyHash = k.policyHash
    BY <1>1, <2>1 DEF ConfirmRecord
  <2>6. k.receipt = "none" /\ k.auctionId = NoAuction /\ HasSigner(c)
    BY <1>1, <2>2, <2>3 DEF ConfirmStands
  <2>7. ConfirmStands(c)'
    BY <1>4, <1>5, <2>2, <2>3, <2>5, <2>6, SamePolicy DEF ConfirmStands, Unsent, state
  <2> QED
    BY <1>2, <1>9, <2>1, <2>2, <2>4, <2>5, <2>6, <2>7 DEF At
<1>10. CASE Receipt(c)
  <2>1. k.receipt = "success" /\ UNCHANGED accounts
    BY <1>10 DEF Receipt
  <2>2. CASE k.pc = "approving" /\ confirms' = [confirms EXCEPT ![c].pc = "create", ![c].receipt = "none"]
    <3>1. l = [k EXCEPT !.pc = "create", !.receipt = "none"] /\ confirms' = [confirms EXCEPT ![c] = l]
      BY <1>1, <2>2
    <3>2. l \in ConfirmRecord
      BY <1>1, <3>1, RecordNames, ZenonT(40) DEF ConfirmRecord
    <3>3. /\ l.pc = "create" /\ l.sent = k.sent /\ l.auctionId = k.auctionId /\ l.receipt = "none"
          /\ l.answer = k.answer /\ l.policyHash = k.policyHash
      BY <1>1, <3>1 DEF ConfirmRecord
    <3>4. ConfirmStands(c)'
      BY <1>1, <1>4, <1>5, <1>6, <2>2, <3>3, SamePolicy DEF ConfirmStands, Unsent, state
    <3> QED
      BY <1>2, <2>1, <3>1, <3>2, <3>3, <3>4
  <2>3. CASE k.pc = "creating" /\ AnswerWith(c, 200)
    <3>1. AnswerWith(c, 200)
      BY <2>3
    <3>2. confirms' = [confirms EXCEPT ![c] = l] /\ l \in ConfirmRecord
      BY <3>1, AnswerKeeps, RecordNames DEF PurInv
    <3>3. /\ l.pc = "answered" /\ l.sent = k.sent /\ l.auctionId = k.auctionId /\ l.receipt = k.receipt
          /\ l.answer = 200 /\ l.policyHash = k.policyHash
      BY <3>1, AnswerKeeps, RecordNames DEF PurInv
    <3>4. ConfirmStands(c)'
      BY <1>1, <1>4, <1>5, <1>6, <2>1, <2>3, <3>3, SamePolicy DEF ConfirmStands, Unsent, state
    <3> QED
      BY <1>2, <2>1, <3>1, <3>2, <3>3, <3>4
  <2> QED
    BY <1>10, <2>2, <2>3 DEF Receipt, At
<1>11. CASE FundingThrows(c)
  <2>1. AnswerWith(c, 500)
    BY <1>11 DEF FundingThrows
  <2>2. confirms' = [confirms EXCEPT ![c] = l] /\ l \in ConfirmRecord
    BY <2>1, AnswerKeeps, RecordNames DEF PurInv
  <2>3. /\ l.pc = "answered" /\ l.sent = k.sent /\ l.auctionId = k.auctionId /\ l.receipt = k.receipt
        /\ l.answer = 500 /\ l.policyHash = k.policyHash
    BY <2>1, AnswerKeeps, RecordNames DEF PurInv
  <2>4. ~Funding(c)' /\ ~Signing(c)'
    BY <2>3 DEF Funding, Signing, At
  <2>5. ConfirmStands(c)'
    BY <1>1, <1>4, <1>5, <1>6, <2>3, <2>4, SamePolicy DEF ConfirmStands, Unsent, state
  <2> QED
    BY <1>2, <1>11, <2>1, <2>2, <2>3, <2>5 DEF FundingThrows
<1> QED
  BY <1>7, <1>8, <1>9, <1>10, <1>11

-----------------------------------------------------------------------------
(***************************************************************************)
(* The wallets: what is pending, and how many nonces are used.             *)
(***************************************************************************)

\* A wallet's confirms broadcast two transactions each at most.
LEMMA SendsAreFew ==
  ASSUME NEW S, S \subseteq Confirms \X {1, 2}
  PROVE  /\ IsFiniteSet(S)
         /\ Cardinality(S) \in Nat /\ Cardinality(S) <= 2 * Cardinality(Confirms)
<1>1. IsFiniteSet(Confirms) /\ Cardinality(Confirms) \in Nat
  BY PurchaserAssumption, FS_CardinalityType
<1>2. IsFiniteSet({1}) /\ Cardinality({1}) = 1
  BY FS_Singleton
<1>3. IsFiniteSet({1, 2}) /\ Cardinality({1, 2}) = 2
  <2>1. {1, 2} = {1} \cup {2} /\ 2 \notin {1}
    OBVIOUS
  <2> QED
    BY <1>2, <2>1, FS_AddElement
<1>4. /\ IsFiniteSet(Confirms \X {1, 2})
      /\ Cardinality(Confirms \X {1, 2}) = Cardinality(Confirms) * 2
  BY <1>1, <1>3, FS_Product
<1>5. IsFiniteSet(S) /\ Cardinality(S) <= Cardinality(Confirms \X {1, 2})
  BY <1>4, FS_Subset
<1>6. Cardinality(S) \in Nat
  BY <1>5, FS_CardinalityType
<1> QED
  BY <1>1, <1>4, <1>5, <1>6

\* A confirm that only moves on, without a broadcast, leaves the nonces it used.
LEMMA SentByKept ==
  ASSUME PurTypeOK, NEW w, NEW c \in Confirms,
         confirms' = [confirms EXCEPT ![c] = confirms'[c]],
         confirms'[c].sent = confirms[c].sent,
         confirms[c].sent > 0 => confirms'[c].policyHash = confirms[c].policyHash
  PROVE  SentBy(w)' = SentBy(w)
<1>1. \A d \in Confirms : confirms[d].sent \in 0..2
  BY DEF PurTypeOK, ConfirmRecord
<1>2. \A d \in Confirms : d # c => confirms'[d] = confirms[d]
  BY DEF PurTypeOK
<1>3. ASSUME NEW d \in Confirms, confirms[d].sent > 0
      PROVE  signerOf(d)' = signerOf(d)
  BY <1>2, <1>3, SamePolicy
<1>4. ASSUME NEW d \in Confirms, NEW n \in {1, 2}
      PROVE  (n <= confirms'[d].sent /\ signerOf(d)' = w) <=> (n <= confirms[d].sent /\ signerOf(d) = w)
  BY <1>1, <1>2, <1>3, <1>4
<1>5. ASSUME NEW p \in Confirms \X {1, 2}
      PROVE  (p[2] <= confirms'[p[1]].sent /\ signerOf(p[1])' = w)
               <=> (p[2] <= confirms[p[1]].sent /\ signerOf(p[1]) = w)
  BY <1>4
<1> QED
  BY <1>5 DEF SentBy

\* What is pending may be looked at one transaction at a time.
LEMMA PendingByEntry ==
  ASSUME NEW w, mempool'[w] \in Seq(Transaction),
         \A i, j \in DOMAIN mempool'[w] : mempool'[w][i].confirm = mempool'[w][j].confirm => i = j,
         \A i \in DOMAIN mempool'[w] : \A tx : tx = mempool'[w][i] => Awaited(tx, w)'
  PROVE  PendingStands(w)'
BY DEF PendingStands, Awaited

\* What a confirm waits for stays so while the confirm is left alone.
LEMMA AwaitedByRest ==
  ASSUME NEW tx, NEW w, Awaited(tx, w), confirms'[tx.confirm] = confirms[tx.confirm]
  PROVE  Awaited(tx, w)'
BY SamePolicy DEF Awaited

\* ... and what is pending still waits for confirms that wait, or were answered.
LEMMA PendingKept ==
  ASSUME PurInv, NEW w \in Buyers, NEW c \in Confirms,
         confirms' = [confirms EXCEPT ![c] = confirms'[c]],
         confirms'[c].sent = confirms[c].sent,
         confirms'[c].auctionId = confirms[c].auctionId,
         confirms[c].sent > 0 => confirms'[c].policyHash = confirms[c].policyHash,
         \/ confirms[c].pc \notin {"approving", "creating", "answered"}
         \/ confirms[c].receipt = "success"
         \/ confirms'[c].pc = "answered" /\ confirms'[c].receipt = confirms[c].receipt,
         NEW i \in DOMAIN mempool[w], NEW tx, tx = mempool[w][i]
  PROVE  Awaited(tx, w)'
<1>1. tx \in Transaction /\ Awaited(tx, w)
  <2>1. PendingStands(w)
    BY DEF PurInv
  <2> QED
    BY <2>1, EntryType DEF PendingStands
<1>2. tx.confirm \in Confirms
  BY <1>1 DEF Transaction
<1>3. CASE tx.confirm # c
  <2>1. confirms'[tx.confirm] = confirms[tx.confirm]
    BY <1>2, <1>3 DEF PurInv, PurTypeOK
  <2> QED
    BY <1>1, <2>1, AwaitedByRest
<1>4. CASE tx.confirm = c
  <2>1. /\ confirms[c].pc \in {"approving", "creating", "answered"}
        /\ confirms[c].sent > 0 /\ confirms[c].receipt = "none"
    BY <1>1, <1>4 DEF Awaited
  <2>2. confirms'[c].pc = "answered" /\ confirms'[c].receipt = "none"
    BY <2>1
  <2>3. signerOf(tx.confirm)' = signerOf(tx.confirm)
    BY <1>4, <2>1, SamePolicy
  <2> QED
    BY <1>1, <1>4, <2>2, <2>3 DEF Awaited
<1> QED
  BY <1>3, <1>4

\* A step that broadcasts nothing and mines nothing keeps the wallets as they were.
LEMMA WalletsKept ==
  ASSUME PurInv, NEW c \in Confirms, UNCHANGED accounts,
         confirms' = [confirms EXCEPT ![c] = confirms'[c]],
         confirms'[c].sent = confirms[c].sent,
         confirms'[c].auctionId = confirms[c].auctionId,
         confirms[c].sent > 0 => confirms'[c].policyHash = confirms[c].policyHash,
         \/ confirms[c].pc \notin {"approving", "creating", "answered"}
         \/ confirms[c].receipt = "success"
         \/ confirms'[c].pc = "answered" /\ confirms'[c].receipt = confirms[c].receipt
  PROVE  /\ mempool' = [w \in Buyers |-> mempool'[w]]
         /\ allowance' \in [Buyers -> 0..MaxPayoutCap]
         /\ nonceOf' \in [Buyers -> 0..(2 * Cardinality(Confirms))]
         /\ \A w \in Buyers : /\ PendingStands(w)'
                              /\ nonceOf'[w] = Cardinality(SentBy(w)')
                              /\ Len(mempool'[w]) <= nonceOf'[w]
<1>1. /\ mempool' = mempool /\ allowance' = allowance /\ nonceOf' = nonceOf /\ PurTypeOK
      /\ mempool = [w \in Buyers |-> mempool[w]]
  BY DEF accounts, PurInv
<1>2. ASSUME NEW w \in Buyers
      PROVE  PendingStands(w)'
  <2>1. PendingStands(w) /\ mempool'[w] = mempool[w]
    BY <1>1 DEF PurInv
  <2>2. \A i \in DOMAIN mempool[w] : \A tx : tx = mempool[w][i] => Awaited(tx, w)'
    BY PendingKept
  <2> QED
    BY <2>1, <2>2, PendingByEntry DEF PendingStands
<1>3. \A w \in Buyers : nonceOf[w] = Cardinality(SentBy(w)) /\ SentBy(w)' = SentBy(w)
  BY <1>1, SentByKept DEF PurInv
<1> QED
  BY <1>1, <1>2, <1>3 DEF PurTypeOK

\* eth_sendRawTransaction: the wallet's next nonce is used, and its last transaction is
\* the confirm's only one.
LEMMA BroadcastQueues ==
  ASSUME PurInv, NEW c \in Confirms, Broadcast(c)
  PROVE  /\ mempool' = [w \in Buyers |-> mempool'[w]]
         /\ allowance' \in [Buyers -> 0..MaxPayoutCap]
         /\ nonceOf' \in [Buyers -> 0..(2 * Cardinality(Confirms))]
         /\ \A w \in Buyers : /\ PendingStands(w)'
                              /\ nonceOf'[w] = Cardinality(SentBy(w)')
                              /\ Len(mempool'[w]) <= nonceOf'[w]
<1> DEFINE k == confirms[c]
           l == confirms'[c]
           new == [confirm |-> c, call |-> IF At(c, "signApprove") THEN "approve" ELSE "create"]
<1>1. /\ confirms' = [confirms EXCEPT ![c] = l] /\ l.policyHash = k.policyHash
      /\ l.sent = k.sent + 1 /\ l.receipt = "none" /\ l.auctionId = k.auctionId
      /\ l.pc = IF At(c, "signApprove") THEN "approving" ELSE "creating"
  <2>1. Signing(c)
    BY DEF Broadcast
  <2>2. l.sent = k.sent + 1
    <3>1. k \in ConfirmRecord /\ confirms \in [Confirms -> ConfirmRecord]
      BY DEF PurInv, PurTypeOK
    <3> QED
      BY <3>1 DEF Broadcast, ConfirmRecord
  <2>3. k.sent \in 0..2
    BY DEF PurInv, PurTypeOK, ConfirmRecord
  <2>4. l.sent # k.sent
    BY <2>2, <2>3
  <2> QED
    BY <2>4, FundingSteps
<1>2. /\ k.pc \in {"signApprove", "signCreate"} /\ k.sent = IF At(c, "signApprove") THEN 0 ELSE 1
      /\ k.auctionId = NoAuction /\ k.policyHash \in Policies
  <2>1. k.pc \in {"signApprove", "signCreate"} /\ ConfirmStands(c) /\ k \in ConfirmRecord
    BY DEF Broadcast, Signing, At, PurInv, PurTypeOK
  <2>2. k.sent = IF At(c, "signApprove") THEN 0 ELSE 1
    BY <2>1 DEF ConfirmStands, Unsent, At
  <2> QED
    BY <2>1, <2>2 DEF ConfirmStands
<1>3. PICK me \in Buyers : me = signerOf(c) /\ signerOf(c)' = me
  BY <1>1, <1>2, SignerByCap, SamePolicy
<1>4. /\ allowance' = allowance
      /\ nonceOf' = [nonceOf EXCEPT ![me] = @ + 1]
      /\ mempool' = [mempool EXCEPT ![me] = Append(@, new)]
  BY <1>3 DEF Broadcast
<1>5. \A d \in Confirms : d # c => confirms'[d] = confirms[d]
  BY <1>1 DEF PurInv, PurTypeOK
<1>6. \A d \in Confirms : signerOf(d)' = signerOf(d)
  BY <1>1, <1>5, SamePolicy
<1>7. /\ nonceOf \in [Buyers -> 0..(2 * Cardinality(Confirms))]
      /\ mempool = [w \in Buyers |-> mempool[w]]
      /\ \A w \in Buyers : /\ PendingStands(w) /\ nonceOf[w] = Cardinality(SentBy(w))
                           /\ Len(mempool[w]) <= nonceOf[w]
                           /\ mempool[w] \in Seq(Transaction)
  BY DEF PurInv, PurTypeOK, PendingStands
<1>8. ASSUME NEW w \in Buyers, NEW i \in DOMAIN mempool[w], NEW tx, tx = mempool[w][i]
      PROVE  /\ tx.confirm \in Confirms \ {c} /\ confirms'[tx.confirm] = confirms[tx.confirm]
             /\ Awaited(tx, w)'
  <2>1. tx \in Transaction /\ Awaited(tx, w)
    BY <1>7, <1>8, EntryType DEF PendingStands
  <2>2. tx.confirm \in Confirms /\ tx.confirm # c
    BY <1>2, <2>1 DEF Transaction, Awaited
  <2> QED
    BY <1>5, <2>1, <2>2, AwaitedByRest
<1>9. ASSUME NEW w \in Buyers, w # me
      PROVE  /\ PendingStands(w)' /\ nonceOf'[w] = Cardinality(SentBy(w)')
             /\ Len(mempool'[w]) <= nonceOf'[w]
  <2>1. mempool'[w] = mempool[w] /\ nonceOf'[w] = nonceOf[w]
    BY <1>3, <1>4, <1>7, <1>9
  <2>2. PendingStands(w)'
    BY <1>7, <1>8, <2>1, PendingByEntry DEF PendingStands
  <2>3. ASSUME NEW d \in Confirms, NEW n \in {1, 2}
        PROVE  (n <= confirms'[d].sent /\ signerOf(d)' = w)
                 <=> (n <= confirms[d].sent /\ signerOf(d) = w)
    BY <1>3, <1>5, <1>6, <1>9
  <2>4. ASSUME NEW p \in Confirms \X {1, 2}
        PROVE  (p[2] <= confirms'[p[1]].sent /\ signerOf(p[1])' = w)
                 <=> (p[2] <= confirms[p[1]].sent /\ signerOf(p[1]) = w)
    BY <2>3
  <2>5. SentBy(w)' = SentBy(w)
    BY <2>4 DEF SentBy
  <2> QED
    BY <1>7, <2>1, <2>2, <2>5
<1>10. PendingStands(me)'
  <2> DEFINE old == mempool[me]
             list == mempool'[me]
  <2>1. list = Append(old, new) /\ old \in Seq(Transaction)
    BY <1>4, <1>7
  <2>2. new \in Transaction
    BY DEF Transaction
  <2> HIDE DEF new
  <2>3. /\ list \in Seq(Transaction)
        /\ DOMAIN list = 1..(Len(old) + 1) /\ DOMAIN old = 1..Len(old) /\ Len(old) \in Nat
        /\ list[Len(old) + 1] = new /\ \A i \in 1..Len(old) : list[i] = old[i]
    <3>1. ASSUME NEW S, NEW xs \in Seq(S), NEW x \in S
          PROVE  /\ Append(xs, x) \in Seq(S)
                 /\ DOMAIN Append(xs, x) = 1..(Len(xs) + 1) /\ DOMAIN xs = 1..Len(xs) /\ Len(xs) \in Nat
                 /\ Append(xs, x)[Len(xs) + 1] = x /\ \A i \in 1..Len(xs) : Append(xs, x)[i] = xs[i]
      BY <3>1
    <3> QED
      BY <2>1, <2>2, <3>1
  <2>4. \A i, j \in DOMAIN list : list[i].confirm = list[j].confirm => i = j
    <3>1. \A i, j \in 1..Len(old) : old[i].confirm = old[j].confirm => i = j
      BY <1>7, <2>3 DEF PendingStands
    <3>2. \A i \in 1..Len(old) : old[i].confirm # c
      BY <1>8, <2>3
    <3>3. new.confirm = c
      BY DEF new
    <3> HIDE DEF old, list
    <3> QED
      BY <2>3, <3>1, <3>2, <3>3
  <2>5. ASSUME NEW i \in DOMAIN list, NEW tx, tx = list[i]
        PROVE  Awaited(tx, me)'
    <3>1. CASE i = Len(old) + 1
      <4>1. tx.confirm = c /\ tx.call = IF At(c, "signApprove") THEN "approve" ELSE "create"
        BY <2>3, <2>5, <3>1 DEF new
      <4> QED
        BY <1>1, <1>2, <1>3, <4>1 DEF Awaited
    <3>2. CASE i # Len(old) + 1
      <4>1. i \in DOMAIN old /\ tx = old[i]
        BY <2>3, <2>5, <3>2
      <4> QED
        BY <1>8, <4>1
    <3> QED
      BY <3>1, <3>2
  <2> QED
    BY <2>3, <2>4, <2>5, PendingByEntry
<1>11. /\ nonceOf'[me] = nonceOf[me] + 1
       /\ Len(mempool'[me]) = Len(mempool[me]) + 1
  BY <1>3, <1>4, <1>7
<1>12. nonceOf[me] \in Nat /\ Len(mempool[me]) \in Nat
  <2>1. SentBy(me) \subseteq Confirms \X {1, 2}
    BY DEF SentBy
  <2> QED
    BY <1>3, <1>7, <2>1, SendsAreFew
<1>13. nonceOf'[me] = Cardinality(SentBy(me)') /\ nonceOf'[me] <= 2 * Cardinality(Confirms)
  <2> DEFINE was == SentBy(me)
             p == <<c, k.sent + 1>>
  <2>1. was \subseteq Confirms \X {1, 2} /\ p \in Confirms \X {1, 2} /\ p \notin was
    BY <1>2 DEF SentBy
  <2>2. ASSUME NEW d \in Confirms, NEW n \in {1, 2}
        PROVE  (n <= confirms'[d].sent /\ signerOf(d)' = me)
                 <=> (n <= confirms[d].sent /\ signerOf(d) = me) \/ (d = c /\ n = k.sent + 1)
    <3>1. CASE d = c
      BY <1>1, <1>2, <1>3, <3>1
    <3>2. CASE d # c
      BY <1>5, <1>6, <3>2
    <3> QED
      BY <3>1, <3>2
  <2>3. SentBy(me)' = {q \in Confirms \X {1, 2} : q[2] <= confirms'[q[1]].sent /\ signerOf(q[1])' = me}
    BY <1>3 DEF SentBy
  <2>4. {q \in Confirms \X {1, 2} : q[2] <= confirms'[q[1]].sent /\ signerOf(q[1])' = me} = was \cup {p}
    <3>1. ASSUME NEW q \in Confirms \X {1, 2}
          PROVE  (q[2] <= confirms'[q[1]].sent /\ signerOf(q[1])' = me) <=> q \in was \/ q = p
      BY <2>2 DEF SentBy
    <3> QED
      BY <2>1, <3>1
  <2>5. Cardinality(was \cup {p}) = Cardinality(was) + 1
    BY <2>1, SendsAreFew, FS_AddElement
  <2>6. Cardinality(was \cup {p}) <= 2 * Cardinality(Confirms)
    BY <2>1, SendsAreFew
  <2> QED
    BY <1>3, <1>7, <1>11, <2>3, <2>4, <2>5, <2>6
<1>14. nonceOf' \in [Buyers -> 0..(2 * Cardinality(Confirms))]
  BY <1>3, <1>4, <1>7, <1>11, <1>12, <1>13
<1>15. Len(mempool'[me]) <= nonceOf'[me]
  BY <1>7, <1>11, <1>12
<1>16. mempool' = [w \in Buyers |-> mempool'[w]] /\ allowance' \in [Buyers -> 0..MaxPayoutCap]
  BY <1>4, <1>7 DEF PurInv, PurTypeOK
<1> QED
  BY <1>9, <1>10, <1>13, <1>14, <1>15, <1>16

-----------------------------------------------------------------------------
(***************************************************************************)
(* A block: a wallet's oldest transaction is mined.                        *)
(***************************************************************************)

\* Mine: the confirm of the transaction gets a receipt, and an auction of its own if
\* createAuction went through.
LEMMA MineMoves ==
  ASSUME PurInv, NEW w \in Buyers, Mine(w),
         NEW tx, tx = Head(mempool[w]), NEW c \in Confirms, c = tx.confirm
  PROVE  /\ confirms' = [confirms EXCEPT ![c] = confirms'[c]]
         /\ confirms'[c] \in ConfirmRecord
         /\ confirms'[c].pc = confirms[c].pc /\ confirms'[c].sent = confirms[c].sent
         /\ confirms'[c].answer = confirms[c].answer
         /\ confirms'[c].policyHash = confirms[c].policyHash
         /\ \/ /\ confirms'[c].receipt = "success" => confirms[c].pc # "creating"
               /\ confirms'[c].auctionId = NoAuction /\ UNCHANGED vars
               /\ \/ allowance' = allowance
                  \/ allowance' = [allowance EXCEPT ![w] = payoutCap(c)]
            \/ /\ confirms[c].sent = 2
               /\ confirms'[c].auctionId = newId(c) /\ newId(c) \in AuctionIds
               /\ createAuction(newId(c))
               /\ allowance[w] >= payoutCap(c)
               /\ allowance' = [allowance EXCEPT ![w] = @ - payoutCap(c)]
<1> DEFINE k == confirms[c]
           l == confirms'[c]
<1>1. /\ confirms \in [Confirms -> ConfirmRecord] /\ k \in ConfirmRecord
      /\ Awaited(tx, w) /\ k.policyHash \in Policies /\ newId(c) \in AuctionIds
  BY HeadOfMempool, NewIdType DEF Mine, PurInv, PurTypeOK
<1>2. k.auctionId = NoAuction /\ k.receipt = "none" /\ signerOf(c) = w
  BY <1>1 DEF Awaited
<1>3. ASSUME NEW receipt \in Receipts, confirms' = [confirms EXCEPT ![c].receipt = receipt]
      PROVE  /\ confirms' = [confirms EXCEPT ![c] = l] /\ l \in ConfirmRecord
             /\ l.pc = k.pc /\ l.sent = k.sent /\ l.answer = k.answer
             /\ l.policyHash = k.policyHash /\ l.auctionId = k.auctionId /\ l.receipt = receipt
  <2>1. l = [k EXCEPT !.receipt = receipt] /\ confirms' = [confirms EXCEPT ![c] = l]
    BY <1>1, <1>3
  <2> QED
    BY <1>1, <2>1 DEF ConfirmRecord
<1>4. CASE tx.call = "approve" /\ UNCHANGED vars
           /\ allowance' = [allowance EXCEPT ![w] = payoutCap(c)]
           /\ confirms' = [confirms EXCEPT ![c].receipt = "success"]
  <2>1. k.pc # "creating"
    BY <1>1, <1>4 DEF Awaited
  <2> QED
    BY <1>2, <1>3, <1>4, <2>1, RecordNames
<1>5. CASE tx.call = "create" /\ CreateGoesThrough(c) /\ createAuction(newId(c))
           /\ allowance' = [allowance EXCEPT ![w] = @ - payoutCap(c)]
           /\ confirms' = [confirms EXCEPT ![c].receipt = "success", ![c].auctionId = newId(c)]
  <2>1. PICK receipt \in Receipts : l = [k EXCEPT !.receipt = receipt, !.auctionId = newId(c)]
    <3>1. l = [k EXCEPT !.receipt = "success", !.auctionId = newId(c)]
      BY <1>1, <1>5
    <3> QED
      BY <3>1, RecordNames, Zenon
  <2>2. confirms' = [confirms EXCEPT ![c] = l]
    BY <1>1, <1>5
  <2> DEFINE id == newId(c)
  <2> HIDE DEF id
  <2>3. /\ l \in ConfirmRecord /\ l.pc = k.pc /\ l.sent = k.sent /\ l.answer = k.answer
        /\ l.policyHash = k.policyHash /\ l.auctionId = id
    <3>1. l = [k EXCEPT !.receipt = receipt, !.auctionId = id] /\ id \in AuctionIds
      BY <1>1, <2>1 DEF id
    <3> QED
      BY <1>1, <3>1 DEF ConfirmRecord
  <2>4. k.sent = 2 /\ allowance[w] >= payoutCap(c)
    BY <1>1, <1>2, <1>5 DEF Awaited, CreateGoesThrough
  <2> QED
    BY <1>1, <1>5, <2>2, <2>3, <2>4 DEF id
<1>6. CASE tx.call = "create" /\ UNCHANGED <<vars, allowance>>
           /\ confirms' = [confirms EXCEPT ![c].receipt = "reverted"]
  BY <1>2, <1>3, <1>6, RecordNames
<1> QED
  BY <1>4, <1>5, <1>6 DEF Mine

\* ... so the confirm stands: it tells of no auction but the one it opened.
LEMMA MinedStands ==
  ASSUME PurInv, NEW w \in Buyers, Mine(w),
         NEW tx, tx = Head(mempool[w]), NEW c \in Confirms, c = tx.confirm
  PROVE  ConfirmStands(c)'
<1> DEFINE k == confirms[c]
           l == confirms'[c]
<1>1. ConfirmStands(c) /\ Awaited(tx, w) /\ k.policyHash \in Policies /\ k.sent > 0
  BY HeadOfMempool DEF PurInv, Mine
<1>2. /\ k.auctionId = NoAuction /\ k.receipt = "none"
      /\ k.pc \in {"approving", "creating", "answered"}
  BY <1>1 DEF Awaited
<1>3. /\ l \in ConfirmRecord /\ l.pc = k.pc /\ l.sent = k.sent /\ l.answer = k.answer
      /\ l.policyHash = k.policyHash
  BY MineMoves
<1>4. Funding(c)' <=> Funding(c)
  BY <1>3 DEF Funding
<1>5. Signing(c)' <=> Signing(c)
  BY <1>3 DEF Signing, At
<1>6. Uploaded(c)' <=> Uploaded(c)
  BY <1>3 DEF Uploaded, Mine, relay
<1>7. ASSUME /\ l.answer = 200 => l.auctionId # NoAuction
             /\ l.pc = "creating" /\ l.receipt = "success" => l.auctionId # NoAuction
             /\ l.auctionId # NoAuction =>
                  /\ l.sent = 2
                  /\ auctions'[l.auctionId].state # "None"
                  /\ l.auctionId.policyHash = l.policyHash
      PROVE  ConfirmStands(c)'
  <2>1. (HasSigner(c)' <=> HasSigner(c)) /\ (PrivyAllows(c)' <=> PrivyAllows(c))
    BY <1>3, SamePolicy
  <2>2. /\ l.pc \in {"approving", "creating", "answered"}
        /\ l.pc \notin {"fresh", "intent"} => l.policyHash \in Policies
        /\ l.pc = "approving" => l.sent = 1
        /\ l.pc = "creating" => l.sent = 2
        /\ l.answer # 0 => l.pc = "answered"
        /\ l.answer \in {422, 502} => l.sent = 0
    <3>1. /\ k.pc = "approving" => k.sent = 1
          /\ k.pc = "creating" => k.sent = 2
          /\ k.answer # 0 => k.pc = "answered"
          /\ k.answer \in {422, 502} => k.sent = 0
      BY <1>1 DEF ConfirmStands
    <3> QED
      BY <1>1, <1>2, <1>3, <3>1
  <2>3. /\ l.sent > 0 => PrivyAllows(c)'
        /\ Funding(c)' \/ l.sent > 0 => Uploaded(c)'
        /\ Signing(c)' \/ l.sent > 0 => HasSigner(c)'
    BY <1>1, <1>3, <1>4, <1>5, <1>6, <2>1 DEF ConfirmStands
  <2> QED
    BY <1>7, <2>2, <2>3 DEF ConfirmStands, state, Unsent
<1>8. k.answer # 200
  BY <1>1, <1>2 DEF ConfirmStands
<1>9. CASE /\ l.receipt = "success" => k.pc # "creating"
           /\ l.auctionId = NoAuction
  BY <1>3, <1>7, <1>8, <1>9
<1>10. CASE /\ k.sent = 2 /\ l.auctionId = newId(c) /\ newId(c) \in AuctionIds
            /\ createAuction(newId(c))
  <2>1. newId(c).policyHash = k.policyHash
    BY DEF newId
  <2>2. PICK id \in AuctionIds : id = newId(c) /\ l.auctionId = id
    BY <1>10
  <2>3. id # NoAuction /\ createAuction(id) /\ id.policyHash = k.policyHash
    BY <1>10, <2>1, <2>2, ContractAssumption
  <2>4. state(id)' = "Created"
    BY <2>3 DEF createAuction, state, PurInv, IInv, TypeOK, AuctionRecord
  <2>5. auctions'[l.auctionId].state # "None"
    BY <2>2, <2>4 DEF state
  <2> QED
    BY <1>3, <1>7, <1>8, <1>10, <2>2, <2>3, <2>5, ZenonT(40)
<1> QED
  BY <1>9, <1>10, MineMoves

\* ... and what the wallets have pending after it is what they had, without it.
LEMMA MineDequeues ==
  ASSUME PurInv, NEW w \in Buyers, Mine(w)
  PROVE  /\ mempool' = [v \in Buyers |-> mempool'[v]]
         /\ allowance' \in [Buyers -> 0..MaxPayoutCap]
         /\ nonceOf' \in [Buyers -> 0..(2 * Cardinality(Confirms))]
         /\ \A v \in Buyers : /\ PendingStands(v)'
                              /\ nonceOf'[v] = Cardinality(SentBy(v)')
                              /\ Len(mempool'[v]) <= nonceOf'[v]
<1> PICK head : head = Head(mempool[w])
  OBVIOUS
<1>1. /\ head.confirm \in Confirms /\ Awaited(head, w) /\ confirms[head.confirm].policyHash \in Policies
      /\ confirms[head.confirm].sent > 0 /\ head = mempool[w][1] /\ 1 \in DOMAIN mempool[w]
  BY HeadOfMempool DEF Mine
<1> PICK c \in Confirms : c = head.confirm
  BY <1>1
<1>2. /\ confirms' = [confirms EXCEPT ![c] = confirms'[c]]
      /\ confirms'[c].sent = confirms[c].sent /\ confirms'[c].policyHash = confirms[c].policyHash
  BY MineMoves
<1>3. /\ allowance \in [Buyers -> 0..MaxPayoutCap]
      /\ nonceOf \in [Buyers -> 0..(2 * Cardinality(Confirms))]
      /\ mempool = [v \in Buyers |-> mempool[v]]
      /\ \A v \in Buyers : /\ PendingStands(v) /\ nonceOf[v] = Cardinality(SentBy(v))
                           /\ Len(mempool[v]) <= nonceOf[v]
                           /\ mempool[v] \in Seq(Transaction)
  BY DEF PurInv, PurTypeOK, PendingStands
<1>4. nonceOf' = nonceOf /\ mempool' = [mempool EXCEPT ![w] = Tail(@)]
  BY DEF Mine
<1>5. /\ mempool' = [v \in Buyers |-> mempool'[v]]
      /\ mempool'[w] = Tail(mempool[w])
      /\ \A v \in Buyers : v # w => mempool'[v] = mempool[v]
  BY <1>3, <1>4
<1>6. allowance' \in [Buyers -> 0..MaxPayoutCap]
  <2>1. payoutCap(c) \in 0..MaxPayoutCap
    <3>1. PrivyAllows(c) /\ payoutCap(c) \in Nat
      BY <1>1, SignerByCap DEF PurInv, ConfirmStands
    <3> QED
      BY <3>1, PurchaserAssumption DEF PrivyAllows
  <2>2. allowance[w] \in 0..MaxPayoutCap
    BY <1>3
  <2> DEFINE cap == payoutCap(c)
  <2>3. \/ allowance' = allowance \/ allowance' = [allowance EXCEPT ![w] = cap]
        \/ allowance[w] >= cap /\ allowance' = [allowance EXCEPT ![w] = @ - cap]
    BY MineMoves
  <2>4. cap \in 0..MaxPayoutCap
    BY <2>1
  <2> HIDE DEF cap
  <2>5. allowance[w] >= cap => allowance[w] - cap \in 0..MaxPayoutCap
    BY <2>2, <2>4, PurchaserAssumption
  <2> QED
    BY <1>3, <2>3, <2>4, <2>5
<1>7. ASSUME NEW tx, NEW v \in Buyers, tx \in Transaction, Awaited(tx, v), tx.confirm # c
      PROVE  Awaited(tx, v)'
  <2>1. tx.confirm \in Confirms
    BY <1>7 DEF Transaction
  <2>2. confirms'[tx.confirm] = confirms[tx.confirm]
    BY <1>2, <1>7, <2>1 DEF PurInv, PurTypeOK
  <2> QED
    BY <1>7, <2>2, AwaitedByRest
<1>8. ASSUME NEW v \in Buyers, v # w
      PROVE  PendingStands(v)'
  <2>1. mempool'[v] = mempool[v] /\ mempool[v] \in Seq(Transaction) /\ PendingStands(v)
    BY <1>3, <1>5, <1>8
  <2>2. ASSUME NEW i \in DOMAIN mempool[v], NEW tx, tx = mempool[v][i]
        PROVE  Awaited(tx, v)'
    <3>1. tx \in Transaction /\ Awaited(tx, v)
      BY <2>1, <2>2, EntryType DEF PendingStands
    <3>2. tx.confirm # c
      BY <1>1, <1>8, <3>1 DEF Awaited
    <3> QED
      BY <1>7, <3>1, <3>2
  <2> QED
    BY <2>1, <2>2, PendingByEntry DEF PendingStands
<1>9. PendingStands(w)' /\ Len(mempool'[w]) <= Len(mempool[w])
  <2> DEFINE old == mempool[w]
             list == mempool'[w]
  <2>1. ASSUME NEW S, NEW xs \in Seq(S), xs # <<>>
        PROVE  /\ Tail(xs) \in Seq(S) /\ Len(xs) \in Nat /\ DOMAIN xs = 1..Len(xs)
               /\ DOMAIN Tail(xs) = 1..(Len(xs) - 1) /\ Len(Tail(xs)) = Len(xs) - 1
               /\ \A i \in 1..(Len(xs) - 1) : Tail(xs)[i] = xs[i + 1]
    BY <2>1
  <2>2. old \in Seq(Transaction) /\ old # <<>> /\ list = Tail(old)
    BY <1>3, <1>5 DEF Mine
  <2>3. /\ list \in Seq(Transaction) /\ Len(old) \in Nat /\ DOMAIN old = 1..Len(old)
        /\ DOMAIN list = 1..(Len(old) - 1) /\ Len(list) = Len(old) - 1
        /\ \A i \in 1..(Len(old) - 1) : list[i] = old[i + 1]
    BY <2>1, <2>2
  <2>4. \A i, j \in 1..Len(old) : old[i].confirm = old[j].confirm => i = j
    BY <1>3, <2>3 DEF PendingStands
  <2>5. \A i \in 1..Len(old) : Awaited(old[i], w)
    BY <1>3, <2>3 DEF PendingStands
  <2>6. 1 \in 1..Len(old) /\ old[1].confirm = c
    BY <1>1, <2>3
  <2> HIDE DEF old, list
  <2>7. ASSUME NEW i \in DOMAIN list, NEW j \in DOMAIN list, list[i].confirm = list[j].confirm
        PROVE  i = j
    <3>1. /\ i \in 1..(Len(old) - 1) /\ j \in 1..(Len(old) - 1)
          /\ i + 1 \in 1..Len(old) /\ j + 1 \in 1..Len(old)
      BY <2>3, <2>7
    <3>2. old[i + 1].confirm = old[j + 1].confirm
      BY <2>3, <2>7, <3>1
    <3>3. i + 1 = j + 1
      BY <2>4, <3>1, <3>2
    <3> QED
      BY <3>1, <3>3
  <2>8. ASSUME NEW i \in DOMAIN list, NEW tx, tx = list[i]
        PROVE  Awaited(tx, w)'
    <3>1. i + 1 \in 1..Len(old) /\ i + 1 # 1 /\ tx = old[i + 1]
      BY <2>3, <2>8
    <3>2. tx \in Transaction /\ Awaited(tx, w) /\ tx.confirm # c
      BY <2>2, <2>3, <2>4, <2>5, <2>6, <3>1, EntryType
    <3> QED
      BY <1>7, <3>2
  <2>9. PendingStands(w)'
    <3> USE DEF list
    <3> QED
      BY <2>3, <2>7, <2>8, PendingByEntry
  <2>10. Len(list) <= Len(old)
    BY <2>3
  <2> QED
    BY <2>9, <2>10 DEF list, old
<1>10. ASSUME NEW v \in Buyers
       PROVE  /\ PendingStands(v)' /\ nonceOf'[v] = Cardinality(SentBy(v)')
              /\ Len(mempool'[v]) <= nonceOf'[v]
  <2>1. SentBy(v)' = SentBy(v)
    BY <1>2, SentByKept DEF PurInv
  <2>2. nonceOf[v] \in Nat /\ Len(mempool[v]) \in Nat
    <3>1. nonceOf[v] \in 0..(2 * Cardinality(Confirms)) /\ Cardinality(Confirms) \in Nat
      BY <1>3, PurchaserAssumption, FS_CardinalityType
    <3> QED
      BY <1>3, <3>1
  <2>3. Len(mempool'[v]) <= nonceOf[v]
    <3>1. CASE v = w
      <4>1. Len(Tail(mempool[w])) \in Nat
        BY <1>3 DEF Mine
      <4>2. Len(mempool'[w]) \in Nat /\ Len(mempool'[w]) <= Len(mempool[w])
        BY <1>5, <1>9, <4>1
      <4>3. nonceOf[w] \in Nat /\ Len(mempool[w]) \in Nat /\ Len(mempool[w]) <= nonceOf[w]
        BY <1>3, <2>2, <3>1
      <4> QED
        BY <3>1, <4>2, <4>3
    <3>2. CASE v # w
      BY <1>3, <1>5, <3>2
    <3> QED
      BY <3>1, <3>2
  <2> QED
    BY <1>3, <1>4, <1>8, <1>9, <2>1, <2>3
<1> QED
  BY <1>3, <1>4, <1>5, <1>6, <1>10

-----------------------------------------------------------------------------
(***************************************************************************)
(* One step of the service, the wallets, the relay or the chain.           *)
(***************************************************************************)

\* What the proof follows of the wallets.
WalletsStand ==
  /\ mempool = [w \in Buyers |-> mempool[w]]
  /\ allowance \in [Buyers -> 0..MaxPayoutCap]
  /\ nonceOf \in [Buyers -> 0..(2 * Cardinality(Confirms))]
  /\ \A w \in Buyers : /\ PendingStands(w)
                       /\ nonceOf[w] = Cardinality(SentBy(w))
                       /\ Len(mempool[w]) <= nonceOf[w]

\* Handlers interleave between their awaits: a step of one confirm leaves the others.
LEMMA OneConfirmMoves ==
  ASSUME PurInv, [PurNext]_purVars, NEW c \in Confirms,
         confirms' = [confirms EXCEPT ![c] = confirms'[c]],
         confirms'[c] \in ConfirmRecord, ConfirmStands(c)'
  PROVE  /\ confirms' \in [Confirms -> ConfirmRecord]
         /\ \A d \in Confirms : ConfirmStands(d)'
<1>1. confirms \in [Confirms -> ConfirmRecord]
  BY DEF PurInv, PurTypeOK
<1>2. confirms' \in [Confirms -> ConfirmRecord] /\ \A d \in Confirms : d # c => confirms'[d] = confirms[d]
  BY <1>1
<1>3. ASSUME NEW d \in Confirms
      PROVE  ConfirmStands(d)'
  <2>1. CASE d = c
    BY <2>1
  <2>2. CASE d # c
    BY <1>2, <2>2, RestStands
  <2> QED
    BY <2>1, <2>2
<1> QED
  BY <1>2, <1>3

\* A step that names no new auction leaves every auction to the confirm it had.
LEMMA NoNewAnswer ==
  ASSUME PurInv, \A d \in Confirms : confirms'[d].auctionId = confirms[d].auctionId
  PROVE  AuctionsAreTheirOwn'
BY DEF PurInv, AuctionsAreTheirOwn

\* A confirm's own handler.
LEMMA ConfirmStepStands ==
  ASSUME PurInv, NEW c \in Confirms, ConfirmStep(c)
  PROVE  /\ confirms' \in [Confirms -> ConfirmRecord]
         /\ \A d \in Confirms : ConfirmStands(d)'
         /\ WalletsStand' /\ AuctionsAreTheirOwn'
<1>0. PurTypeOK /\ [PurNext]_purVars
  BY DEF PurNext, PurInv
<1>1. CASE \/ Send(c) \/ (\E hash \in Policies : Validated(c, hash)) \/ Rejected(c)
           \/ BackToTheSentence(c) \/ Confirm(c) \/ Upload(c) \/ UploadThrows(c)
  <2>1. /\ confirms' = [confirms EXCEPT ![c] = confirms'[c]]
        /\ confirms'[c] \in ConfirmRecord /\ ConfirmStands(c)' /\ UNCHANGED accounts
        /\ confirms'[c].auctionId = confirms[c].auctionId
        /\ confirms'[c].sent = confirms[c].sent /\ confirms[c].sent = 0
    BY <1>1, EarlySteps
  <2>2. confirms[c].pc \notin {"approving", "creating", "answered"}
    BY <1>1 DEF Send, Validated, Rejected, BackToTheSentence, Confirm, Upload, UploadThrows, At
  <2>3. WalletsStand'
    BY <2>1, <2>2, WalletsKept DEF WalletsStand
  <2>4. \A d \in Confirms : confirms'[d].auctionId = confirms[d].auctionId
    BY <1>0, <2>1 DEF PurTypeOK
  <2> QED
    BY <1>0, <2>1, <2>3, <2>4, OneConfirmMoves, NoNewAnswer
<1>2. CASE Prepare(c) \/ PrivyRefuses(c) \/ Broadcast(c) \/ Receipt(c) \/ FundingThrows(c)
  <2>1. /\ confirms' = [confirms EXCEPT ![c] = confirms'[c]]
        /\ confirms'[c] \in ConfirmRecord /\ ConfirmStands(c)'
        /\ confirms'[c].auctionId = confirms[c].auctionId
        /\ confirms'[c].policyHash = confirms[c].policyHash
    BY <1>2, FundingSteps
  <2>2. ASSUME Broadcast(c)
        PROVE  WalletsStand'
    BY <2>2, BroadcastQueues DEF WalletsStand
  <2>3. ASSUME confirms'[c].sent = confirms[c].sent, UNCHANGED accounts,
               \/ confirms[c].pc \notin {"approving", "creating", "answered"}
               \/ confirms[c].receipt = "success"
               \/ confirms'[c].pc = "answered" /\ confirms'[c].receipt = confirms[c].receipt
        PROVE  WalletsStand'
    BY <2>1, <2>3, WalletsKept DEF WalletsStand
  <2>4. WalletsStand'
    BY <1>2, <2>2, <2>3, FundingSteps
  <2>5. \A d \in Confirms : confirms'[d].auctionId = confirms[d].auctionId
    BY <1>0, <2>1 DEF PurTypeOK
  <2> QED
    BY <1>0, <2>1, <2>4, <2>5, OneConfirmMoves, NoNewAnswer
<1> QED
  BY <1>1, <1>2 DEF ConfirmStep

\* A block: the id of a new auction had no auction behind it, so no other confirm was
\* told of it.
LEMMA MineStands ==
  ASSUME PurInv, NEW w \in Buyers, Mine(w)
  PROVE  /\ confirms' \in [Confirms -> ConfirmRecord]
         /\ \A d \in Confirms : ConfirmStands(d)'
         /\ WalletsStand' /\ AuctionsAreTheirOwn'
<1>0. PurTypeOK /\ [PurNext]_purVars
  BY DEF PurNext, PurInv
<1> PICK head : head = Head(mempool[w])
  OBVIOUS
<1> PICK c \in Confirms : c = head.confirm
  BY HeadOfMempool DEF Mine
<1>1. confirms' = [confirms EXCEPT ![c] = confirms'[c]] /\ confirms'[c] \in ConfirmRecord
  BY MineMoves
<1>2. ConfirmStands(c)'
  BY MinedStands
<1>3. WalletsStand'
  BY MineDequeues DEF WalletsStand
<1>4. \A d \in Confirms : d # c => confirms'[d] = confirms[d]
  BY <1>0, <1>1 DEF PurTypeOK
<1>5. ASSUME NEW id, id = confirms'[c].auctionId
      PROVE  id = NoAuction \/ (id \in AuctionIds /\ state(id) = "None")
  <2>1. CASE id = newId(c) /\ newId(c) \in AuctionIds /\ createAuction(newId(c))
    BY <2>1 DEF createAuction, CanCreate
  <2> QED
    BY <1>5, <2>1, MineMoves
<1>6. \A d \in Confirms : confirms[d].auctionId # NoAuction => state(confirms[d].auctionId) # "None"
  BY DEF PurInv, ConfirmStands
<1>7. AuctionsAreTheirOwn'
  <2> SUFFICES ASSUME NEW d \in Confirms, NEW e \in Confirms,
                      confirms'[d].auctionId # NoAuction,
                      confirms'[d].auctionId = confirms'[e].auctionId
               PROVE  d = e
    BY DEF AuctionsAreTheirOwn
  <2>1. CASE d # c /\ e # c
    BY <1>4, <2>1 DEF PurInv, AuctionsAreTheirOwn
  <2>2. CASE d = c /\ e # c
    BY <1>4, <1>5, <1>6, <2>2
  <2>3. CASE d # c /\ e = c
    BY <1>4, <1>5, <1>6, <2>3
  <2> QED
    BY <2>1, <2>2, <2>3
<1> QED
  BY <1>0, <1>1, <1>2, <1>3, <1>7, OneConfirmMoves

\* The relay, a stranger and time leave the confirms and the wallets.
LEMMA IdleStands ==
  ASSUME PurInv, [PurNext]_purVars, UNCHANGED <<accounts, confirms>>
  PROVE  /\ confirms' \in [Confirms -> ConfirmRecord]
         /\ \A d \in Confirms : ConfirmStands(d)'
         /\ WalletsStand' /\ AuctionsAreTheirOwn'
<1>1. \A d \in Confirms : ConfirmStands(d)'
  BY RestStands
<1>2. ASSUME NEW w \in Buyers
      PROVE  /\ PendingStands(w)' /\ SentBy(w)' = SentBy(w)
             /\ nonceOf'[w] = Cardinality(SentBy(w)') /\ Len(mempool'[w]) <= nonceOf'[w]
  <2>1. PendingStands(w) /\ mempool'[w] = mempool[w] /\ nonceOf' = nonceOf
    BY DEF PurInv, accounts
  <2>2. ASSUME NEW i \in DOMAIN mempool[w], NEW tx, tx = mempool[w][i]
        PROVE  Awaited(tx, w)'
    BY <2>1, <2>2, AwaitedByRest DEF PendingStands
  <2>3. PendingStands(w)'
    BY <2>1, <2>2, PendingByEntry DEF PendingStands
  <2>4. \A d : signerOf(d)' = signerOf(d)
    BY SamePolicy
  <2>5. SentBy(w)' = SentBy(w)
    BY <2>4 DEF SentBy
  <2> QED
    BY <2>1, <2>3, <2>5 DEF PurInv, PurTypeOK
<1>4. WalletsStand'
  BY <1>2 DEF PurInv, PurTypeOK, WalletsStand, accounts
<1>3. AuctionsAreTheirOwn'
  BY NoNewAnswer
<1> QED
  BY <1>1, <1>3, <1>4 DEF PurInv, PurTypeOK

\* Any step.
LEMMA NextStands ==
  ASSUME PurInv, [PurNext]_purVars
  PROVE  /\ confirms' \in [Confirms -> ConfirmRecord]
         /\ \A d \in Confirms : ConfirmStands(d)'
         /\ WalletsStand' /\ AuctionsAreTheirOwn'
<1>1. ASSUME RestartRelay \/ StrangerUploads \/ OnChain \/ UNCHANGED purVars
      PROVE  UNCHANGED <<accounts, confirms>>
  BY <1>1 DEF RestartRelay, StrangerUploads, OnChain, purVars
<1> QED
  BY <1>1, ConfirmStepStands, MineStands, IdleStands DEF PurNext

\* What is open on chain was uploaded, is signed for by the right wallet and locks the
\* cap of its policy.
LEMMA NextAuctionsStand ==
  ASSUME PurInv, [PurNext]_purVars
  PROVE  PolicyBeforeAuction' /\ QuorumAboveCeiling' /\ CapsAreDerived'
<1>1. ASSUME NEW id \in AuctionIds, state(id)' # "None"
      PROVE  /\ policySlots[id.policyHash] # Empty \/ restarted
             /\ id.buyer = quorumWallet <=> id.payoutCap > QuorumCeiling
             /\ id.buyer = quorumWallet => HasQuorumKeys
             /\ id.payoutCap = payoutCapFor(MaxPriceOf[id.policyHash])
  <2>1. CASE state(id) # "None"
    BY <2>1 DEF PurInv, PolicyBeforeAuction, QuorumAboveCeiling, CapsAreDerived
  <2>2. CASE state(id) = "None"
    <3>1. PICK c \in Confirms : id = newId(c) /\ confirms[c].sent > 0
      BY <1>1, <2>2, NextOpens
    <3>2. confirms[c].policyHash \in Policies /\ ConfirmStands(c)
      BY <3>1, FundingIsKnown DEF PurInv
    <3>3. Uploaded(c) /\ HasSigner(c)
      BY <3>1, <3>2 DEF ConfirmStands
    <3>4. /\ id.buyer = signerOf(c) /\ id.policyHash = confirms[c].policyHash
          /\ id.payoutCap = payoutCap(c)
      BY <3>1 DEF newId
    <3> QED
      BY <3>2, <3>3, <3>4, SignerByCap DEF Uploaded, payoutCap
  <2> QED
    BY <2>1, <2>2
<1>2. ASSUME NEW id \in AuctionIds, state(id)' # "None"
      PROVE  policySlots'[id.policyHash] # Empty \/ restarted'
  BY <1>1, <1>2, AuctionIdFields, NextKeepsSlots
<1>3. PolicyBeforeAuction'
  BY <1>2 DEF PolicyBeforeAuction
<1>4. QuorumAboveCeiling' /\ CapsAreDerived'
  BY <1>1 DEF QuorumAboveCeiling, CapsAreDerived
<1> QED
  BY <1>3, <1>4

-----------------------------------------------------------------------------
(***************************************************************************)
(* The invariant, and what it says of the service.                         *)
(***************************************************************************)

\* The service starts on a chain without auctions: no box has been used.
LEMMA InitPurInv == PurInit => PurInv
<1> SUFFICES ASSUME PurInit PROVE PurInv
  OBVIOUS
<1>1. IInv
  BY InitIInv DEF PurInit
<1>2. \A id \in AuctionIds : state(id) = "None"
  BY DEF PurInit, Init, state
<1>3. PolicyBeforeAuction /\ QuorumAboveCeiling /\ CapsAreDerived
  BY <1>2 DEF PolicyBeforeAuction, QuorumAboveCeiling, CapsAreDerived
<1>4. Fresh \in ConfirmRecord
  <2>1. PICK round \in 0..ROUNDS, n \in 0..2 :
          round = 0 /\ n = 0
    BY PurchaserAssumption
  <2> QED
    BY <2>1, RecordNames DEF Fresh, ConfirmRecord
<1>5. \A c \in Confirms : confirms[c] = Fresh
  BY DEF PurInit
<1>6. \A c \in Confirms : ConfirmStands(c)
  BY <1>5 DEF ConfirmStands, Fresh, Unsent, Funding, Signing, At
<1>7. AuctionsAreTheirOwn
  BY <1>5 DEF AuctionsAreTheirOwn, Fresh
<1>8. \A w \in Buyers : mempool[w] = <<>> /\ nonceOf[w] = 0
  BY DEF PurInit
<1>9. ASSUME NEW w \in Buyers
      PROVE  PendingStands(w) /\ nonceOf[w] = Cardinality(SentBy(w)) /\ Len(mempool[w]) <= nonceOf[w]
  <2>1. mempool[w] \in Seq(Transaction) /\ DOMAIN mempool[w] = {} /\ Len(mempool[w]) = 0
    <3>1. ASSUME NEW S
          PROVE  <<>> \in Seq(S) /\ DOMAIN <<>> = {} /\ Len(<<>>) = 0
      OBVIOUS
    <3> QED
      BY <1>8, <3>1
  <2>2. SentBy(w) = {}
    BY <1>5 DEF SentBy, Fresh
  <2> QED
    BY <1>8, <2>1, <2>2, FS_EmptySet DEF PendingStands
<1>10. /\ policySlots \in [Policies -> Policies \cup {Empty, Stranger}]
       /\ \A hash \in Policies : policySlots[hash] \in {Empty, Stranger, hash}
  BY DEF PurInit, R!NoPolicies
<1>11. PurTypeOK
  <2>1. confirms \in [Confirms -> ConfirmRecord]
    BY <1>4 DEF PurInit
  <2>2. Cardinality(Confirms) \in Nat
    BY PurchaserAssumption, FS_CardinalityType
  <2>3. /\ allowance \in [Buyers -> 0..MaxPayoutCap]
        /\ nonceOf \in [Buyers -> 0..(2 * Cardinality(Confirms))]
    BY <2>2, PurchaserAssumption DEF PurInit
  <2> QED
    BY <1>1, <1>9, <1>10, <2>1, <2>3 DEF PurTypeOK, IInv, PurInit
<1>12. mempool = [w \in Buyers |-> mempool[w]]
  BY DEF PurInit
<1> QED
  BY <1>1, <1>3, <1>6, <1>7, <1>9, <1>10, <1>11, <1>12 DEF PurInv

\* Every step keeps it.
LEMMA NextPurInv == PurInv /\ [PurNext]_purVars => PurInv'
<1> SUFFICES ASSUME PurInv, [PurNext]_purVars PROVE PurInv'
  OBVIOUS
<1>1. IInv'
  BY PurNextOnChain, NextIInv DEF PurInv
<1>2. PurTypeOK'
  BY <1>1, NextKeepsSlots, NextStands DEF IInv, PurTypeOK, WalletsStand
<1>3. policySlots' \in [Policies -> Policies \cup {Empty, Stranger}]
  BY NextKeepsSlots
<1>4. \A c \in Confirms : ConfirmStands(c)'
  BY NextStands
<1>5. WalletsStand' /\ AuctionsAreTheirOwn'
  BY NextStands
<1> QED
  BY <1>1, <1>2, <1>3, <1>4, <1>5, NextAuctionsStand DEF PurInv, WalletsStand

\* What the confirms, the relay, the wallets and the contract know of one another
\* agrees in every state.
THEOREM PurchaserInvariance == PurSpec => []PurInv
<1>1. PurInit => PurInv
  BY InitPurInv
<1>2. PurInv /\ [PurNext]_purVars => PurInv'
  BY NextPurInv
<1> QED
  BY <1>1, <1>2, PTL DEF PurSpec

\* Under the purchaser's service the contract takes only steps of its own specification,
\* so everything proved of the contract holds of the composition.
THEOREM PurchaserOnChain == PurSpec => Spec
<1>1. PurInit => Init
  BY DEF PurInit
<1>2. PurInv /\ [PurNext]_purVars => [Next]_vars
  BY PurNextOnChain
<1> QED
  BY <1>1, <1>2, PurchaserInvariance, PTL DEF PurSpec, Spec

\* The allowance left on a wallet is never more than the largest amount Privy signs, and
\* a wallet has used at most two nonces per confirm.
THEOREM PurchaserTypeCorrect == PurSpec => []PurTypeOK
<1>1. PurInv => PurTypeOK
  BY DEF PurInv
<1> QED
  BY <1>1, PurchaserInvariance, PTL

\* confirmPolicy uploads before it funds: no auction is open with an empty slot at a relay
\* that has not restarted.
THEOREM UploadCorrect == PurSpec => []PolicyBeforeAuction
<1>1. PurInv => PolicyBeforeAuction
  BY DEF PurInv
<1> QED
  BY <1>1, PurchaserInvariance, PTL

\* signerFor: an auction is the quorum's if and only if it locks more than the ceiling,
\* and only if there are keys to sign for it.
THEOREM QuorumCorrect == PurSpec => []QuorumAboveCeiling
<1>1. PurInv => QuorumAboveCeiling
  BY DEF PurInv
<1> QED
  BY <1>1, PurchaserInvariance, PTL

\* A confirm that Privy or the relay refused has broadcast nothing.
THEOREM RefusalCorrect == PurSpec => []RefusedCostsNothing
<1>1. PurInv => RefusedCostsNothing
  BY DEF PurInv, ConfirmStands, RefusedCostsNothing
<1> QED
  BY <1>1, PurchaserInvariance, PTL

\* payoutCapFor: every auction locks a whole number of buckets above the price its policy
\* accepts, by one bucket at most, whatever the bucket.
THEOREM CapCorrect == PurSpec => []CapHidesPrice
<1>1. PurInv => CapHidesPrice
  <2> SUFFICES ASSUME PurInv, NEW id \in AuctionIds, state(id) # "None"
               PROVE  /\ id.payoutCap > MaxPriceOf[id.policyHash]
                      /\ id.payoutCap - MaxPriceOf[id.policyHash] <= Bucket
                      /\ id.payoutCap % Bucket = 0
    BY DEF CapHidesPrice
  <2>1. MaxPriceOf[id.policyHash] \in Nat
    BY AuctionIdFields, PurchaserAssumption
  <2>2. id.payoutCap = payoutCapFor(MaxPriceOf[id.policyHash])
    BY DEF PurInv, CapsAreDerived
  <2> QED
    BY <2>1, <2>2, CapArithmetic
<1> QED
  BY <1>1, PurchaserInvariance, PTL

\* A confirm answered 200 names an auction that exists, under its own policy hash, and no
\* other confirm names it.
THEOREM AnswersCorrect == PurSpec => []AnswersNameTheirAuction
<1>1. PurInv => AnswersNameTheirAuction
  BY DEF PurInv, ConfirmStands, AuctionsAreTheirOwn, AnswersNameTheirAuction
<1> QED
  BY <1>1, PurchaserInvariance, PTL
=============================================================================
