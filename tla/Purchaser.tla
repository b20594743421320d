----------------------------- MODULE Purchaser -----------------------------
(***************************************************************************)
(* The purchaser service and the box of the page that calls it             *)
(* (purchaser/src/app.ts, ui/src/request.tsx).  POST /intent turns one     *)
(* sentence into a draft in a few rounds with a language model and changes *)
(* nothing.  POST /confirm takes the draft the buyer read: seal the        *)
(* policy, put it at the relay, then fund the auction with two             *)
(* transactions, an approve and a createAuction, each signed by Privy and  *)
(* broadcast by the service (funding.ts).  Confirms run side by side and   *)
(* share two wallets, so they share nonces, balances and one USDC          *)
(* allowance per wallet.  A confirm of the model is one draft box: a tab   *)
(* of the page, up to the answer of its request.                           *)
(*                                                                         *)
(* A request whose policy does not parse changes nothing and is left out.  *)
(* A node takes one transaction per nonce and mines a wallet's             *)
(* transactions in nonce order, so what is pending is a queue.  Signing    *)
(* touches no shared state, so Privy's answer and the broadcast that       *)
(* follows it are one step.                                                *)
(***************************************************************************)
EXTENDS SealedAuction

CONSTANTS
  Confirms,       \* boxes, each with one request to POST /confirm
  ROUNDS,         \* candidates one sentence buys
  wallet,         \* the account the spend policy signs for alone
  quorumWallet,   \* the account owned by the key quorum
  MaxPriceOf,     \* maxPrice of the policy behind a hash
  Bucket,         \* PAYOUT_CAP_BUCKET
  MaxPayoutCap,   \* MAX_PAYOUT_CAP, the amount in both rules of the spend policy
  QuorumCeiling,  \* PRIVY_QUORUM_CEILING
  HasQuorumKeys,  \* PRIVY_QUORUM_KEYS is not empty
  RpcFails,       \* the node, Privy or the network may fail a request
  Stranger,       \* a blob somebody else put under a policy hash
  Empty

\* Mutation: a maximum price on a boundary keeps its bucket.
payoutCapRoundedUp(maxPrice) == ((maxPrice + Bucket - 1) \div Bucket) * Bucket

\* The next whole bucket strictly above the maximum price.
payoutCapFor(maxPrice) == (maxPrice \div Bucket + 1) * Bucket

\* The caps of the contract's ids are the ones the service derives.  A Privy wallet
\* has one owner, so the quorum has a wallet of its own (index.ts), and the service
\* does not start if the largest cap needs a quorum that has no keys.  No blob is
\* the absence of one.
ASSUME PurchaserAssumption ==
  /\ Buyers = {wallet, quorumWallet}
  /\ wallet # quorumWallet
  /\ \A hash \in Policies : payoutCapFor(MaxPriceOf[hash]) \in Caps
  /\ IsFiniteSet(Confirms)
  /\ Stranger # Empty
  /\ Empty \notin Policies
  /\ \A hash \in Policies : MaxPriceOf[hash] \in Nat
  /\ Bucket \in Nat \ {0}
  /\ MaxPayoutCap \in Nat
  /\ QuorumCeiling \in Nat
  /\ HasQuorumKeys \in BOOLEAN
  /\ RpcFails \in BOOLEAN
  /\ ROUNDS \in Nat \ {0}
  /\ MaxPayoutCap > QuorumCeiling => HasQuorumKeys

VARIABLES
  policySlots,    \* the relay's policies
  restarted,      \* observed: the relay has restarted and lost its policies
  allowance,      \* USDC the contract may still pull from each wallet
  mempool,        \* broadcast and not mined, in nonce order
  nonceOf,        \* the next nonce of each wallet, pending transactions counted
  confirms        \* where each confirm is, and what it was answered

R == INSTANCE Relay
       WITH PolicyKeys <- Policies, AuctionKeys <- {}, SupplierKeys <- {}, bidSlots <- <<>>

relay == <<policySlots, restarted>>
accounts == <<allowance, mempool, nonceOf>>
purVars == <<vars, relay, accounts, confirms>>

Fresh ==
  [pc |-> "fresh", round |-> 0, policyHash |-> "none", nonce |-> 0, sent |-> 0,
   receipt |-> "none", auctionId |-> NoAuction, answer |-> 0]

PurInit ==
  /\ Init
  /\ policySlots = R!NoPolicies
  /\ restarted = FALSE
  /\ allowance = [w \in Buyers |-> 0]
  /\ mempool = [w \in Buyers |-> <<>>]
  /\ nonceOf = [w \in Buyers |-> 0]
  /\ confirms = [c \in Confirms |-> Fresh]

-----------------------------------------------------------------------------
At(c, pc) == confirms[c].pc = pc
Go(c, pc) == confirms' = [confirms EXCEPT ![c].pc = pc]
AnswerWith(c, status) ==
  confirms' = [confirms EXCEPT ![c].pc = "answered", ![c].answer = status]

payoutCap(c) == payoutCapFor(MaxPriceOf[confirms[c].policyHash])

\* Mutation: the ceiling is compared with the price and not with the cap.
quorumByPrice(c) == MaxPriceOf[confirms[c].policyHash] > QuorumCeiling

quorumSigned(c) == payoutCap(c) > QuorumCeiling

\* signerFor: the wallet is the cap's; a quorum without keys is an Error.
signerOf(c) == IF quorumSigned(c) THEN quorumWallet ELSE wallet
HasSigner(c) == quorumSigned(c) => HasQuorumKeys

-----------------------------------------------------------------------------
(***************************************************************************)
(* The box and POST /intent.                                               *)
(***************************************************************************)
\* The buyer sends a sentence; the box takes no other until it is answered.
Send(c) ==
  /\ At(c, "fresh")
  /\ confirms' = [confirms EXCEPT ![c].pc = "intent", ![c].round = 1]
  /\ UNCHANGED <<vars, relay, accounts>>

\* A candidate the schema takes becomes the draft, which names one policy from here
\* on.
Validated(c, hash) ==
  /\ At(c, "intent")
  /\ confirms' = [confirms EXCEPT ![c].pc = "draft", ![c].round = 0, ![c].policyHash = hash]
  /\ UNCHANGED <<vars, relay, accounts>>

\* A candidate the schema refuses is handed back with its problems while rounds are
\* left.
Rejected(c) ==
  /\ At(c, "intent")
  /\ confirms[c].round < ROUNDS
  /\ confirms' = [confirms EXCEPT ![c].round = @ + 1]
  /\ UNCHANGED <<vars, relay, accounts>>

\* Prose, a last candidate refused, or a model that does not answer: the page shows
\* an error and the box takes a sentence again.  "Start again" drops the draft.
BackToTheSentence(c) ==
  /\ At(c, "intent") \/ At(c, "draft")
  /\ confirms' = [confirms EXCEPT ![c] = Fresh]
  /\ UNCHANGED <<vars, relay, accounts>>

\* The draft goes to /confirm as it is.  An error leaves it in the box, so the buyer
\* can confirm it again: that is another request, in a box of its own.
Confirm(c) ==
  /\ \/ /\ At(c, "draft")
        /\ Go(c, "upload")
     \/ /\ At(c, "fresh")
        /\ \E d \in Confirms :
             /\ At(d, "answered")
             /\ confirms[d].answer # 200
             /\ confirms' = [confirms EXCEPT ![c].pc = "upload",
                                             ![c].policyHash = confirms[d].policyHash]
  /\ UNCHANGED <<vars, relay, accounts>>

-----------------------------------------------------------------------------
\* The relay answers 201 or 409, and both count as uploaded.
Upload(c) ==
  /\ At(c, "upload")
  /\ R!putPolicy(confirms[c].policyHash, confirms[c].policyHash)
  /\ Go(c, "approve")
  /\ UNCHANGED <<vars, restarted, accounts>>

\* Mutation: an upload that threw is logged, and the funding goes on.
UploadIgnored(c) ==
  /\ At(c, "upload")
  /\ \/ R!putPolicy(confirms[c].policyHash, confirms[c].policyHash)
     \/ UNCHANGED policySlots
  /\ Go(c, "approve")
  /\ UNCHANGED <<vars, restarted, accounts>>

\* Any other answer, or none; the relay may have stored the blob all the same.
UploadThrows(c) ==
  /\ At(c, "upload")
  /\ \/ R!putPolicy(confirms[c].policyHash, confirms[c].policyHash)
     \/ UNCHANGED policySlots
  /\ AnswerWith(c, 502)
  /\ UNCHANGED <<vars, restarted, accounts>>

-----------------------------------------------------------------------------
(***************************************************************************)
(* send, twice: nonce and gas, signature and broadcast, mined, receipt.    *)
(***************************************************************************)
\* The id createAuction gives this confirm's auction if it is mined now.
newId(c) == [buyer |-> signerOf(c), createdAt |-> now,
             policyHash |-> confirms[c].policyHash, payoutCap |-> payoutCap(c)]

CreateGoesThrough(c) ==
  /\ CanCreate(newId(c))
  /\ allowance[signerOf(c)] >= payoutCap(c)

\* estimateGas runs the call: createAuction has to be able to pull the cap.
Estimates(c) == At(c, "create") => CreateGoesThrough(c)

Prepare(c) ==
  /\ At(c, "approve") \/ At(c, "create")
  /\ HasSigner(c)
  /\ now <= MaxCreatedAt
  /\ Estimates(c)
  /\ confirms' = [confirms EXCEPT
                    ![c].pc = IF @ = "approve" THEN "signApprove" ELSE "signCreate",
                    ![c].nonce = nonceOf[signerOf(c)]]
  /\ UNCHANGED <<vars, relay, accounts>>

Signing(c) == At(c, "signApprove") \/ At(c, "signCreate")

\* Mutation: the spend policy reads the amount of createAuction only.
PrivyReadsCreateOnly(c) == At(c, "signApprove") \/ payoutCap(c) <= MaxPayoutCap

\* Both ALLOW rules carry the amount, in both wallets.
PrivyAllows(c) == payoutCap(c) <= MaxPayoutCap

PrivyRefuses(c) ==
  /\ Signing(c)
  /\ ~PrivyAllows(c)
  /\ AnswerWith(c, 422)
  /\ UNCHANGED <<vars, relay, accounts>>

Broadcast(c) ==
  LET w == signerOf(c)
  IN /\ Signing(c)
     /\ PrivyAllows(c)
     /\ confirms[c].nonce = nonceOf[w]
     /\ nonceOf' = [nonceOf EXCEPT ![w] = @ + 1]
     /\ mempool' = [mempool EXCEPT ![w] =
                      Append(@, [confirm |-> c,
                                 call |-> IF At(c, "signApprove") THEN "approve" ELSE "create"])]
     /\ confirms' = [confirms EXCEPT
                       ![c].pc = IF @ = "signApprove" THEN "approving" ELSE "creating",
                       ![c].sent = @ + 1]
     /\ UNCHANGED <<vars, relay, allowance>>

\* The oldest pending transaction of a wallet is mined.  approve sets the allowance,
\* whatever it was; createAuction uses it up or reverts.
Mine(w) ==
  /\ mempool[w] # <<>>
  /\ now <= MaxCreatedAt
  /\ mempool' = [mempool EXCEPT ![w] = Tail(@)]
  /\ LET tx == Head(mempool[w])
         c == tx.confirm
     IN \/ /\ tx.call = "approve"
           /\ allowance' = [allowance EXCEPT ![w] = payoutCap(c)]
           /\ confirms' = [confirms EXCEPT ![c].receipt = "success"]
           /\ UNCHANGED vars
        \/ /\ tx.call = "create" /\ CreateGoesThrough(c)
           /\ createAuction(newId(c))
           /\ allowance' = [allowance EXCEPT ![w] = @ - payoutCap(c)]
           /\ confirms' = [confirms EXCEPT ![c].receipt = "success", ![c].auctionId = newId(c)]
        \/ /\ tx.call = "create" /\ ~CreateGoesThrough(c)
           /\ confirms' = [confirms EXCEPT ![c].receipt = "reverted"]
           /\ UNCHANGED <<vars, allowance>>
  /\ UNCHANGED <<relay, nonceOf>>

Receipt(c) ==
  /\ confirms[c].receipt = "success"
  /\ \/ /\ At(c, "approving")
        /\ confirms' = [confirms EXCEPT ![c].pc = "create", ![c].receipt = "none"]
     \/ /\ At(c, "creating")
        /\ AnswerWith(c, 200)
  /\ UNCHANGED <<vars, relay, accounts>>

Funding(c) == confirms[c].pc \notin {"fresh", "intent", "draft", "upload", "answered"}

\* What the funding throws for by itself: no signer, a call that cannot be
\* estimated, a nonce another confirm took first, a receipt that says reverted.
MustThrow(c) ==
  \/ At(c, "approve") /\ ~HasSigner(c)
  \/ At(c, "create") /\ now <= MaxCreatedAt /\ ~Estimates(c)
  \/ Signing(c) /\ confirms[c].nonce # nonceOf[signerOf(c)]
  \/ confirms[c].receipt = "reverted"

\* Any other error is a 500, whatever was already broadcast.
FundingThrows(c) ==
  /\ Funding(c)
  /\ MustThrow(c) \/ RpcFails
  /\ AnswerWith(c, 500)
  /\ UNCHANGED <<vars, relay, accounts>>

-----------------------------------------------------------------------------
RestartRelay ==
  /\ R!Restart
  /\ restarted' = TRUE
  /\ UNCHANGED <<vars, accounts, confirms>>

StrangerUploads ==
  /\ \E hash \in Policies : R!putPolicy(hash, Stranger)
  /\ UNCHANGED <<vars, restarted, accounts, confirms>>

\* Time passes, and an auction nobody settles is refunded.
OnChain ==
  /\ Tick \/ Refund
  /\ UNCHANGED <<relay, accounts, confirms>>

ConfirmStep(c) ==
  \/ Send(c) \/ (\E hash \in Policies : Validated(c, hash)) \/ Rejected(c)
  \/ BackToTheSentence(c) \/ Confirm(c)
  \/ Upload(c) \/ UploadThrows(c)
  \/ Prepare(c) \/ PrivyRefuses(c) \/ Broadcast(c) \/ Receipt(c) \/ FundingThrows(c)

PurNext ==
  \/ \E c \in Confirms : ConfirmStep(c)
  \/ \E w \in Buyers : Mine(w)
  \/ RestartRelay \/ StrangerUploads \/ OnChain

PurSpec == PurInit /\ [][PurNext]_purVars

-----------------------------------------------------------------------------
(***************************************************************************)
(* Properties.                                                             *)
(***************************************************************************)
Stages ==
  {"fresh", "intent", "draft", "upload", "approve", "signApprove", "approving", "create",
   "signCreate", "creating", "answered"}
Receipts == {"none", "success", "reverted"}
Statuses == {0, 200, 422, 500, 502}

ConfirmRecord ==
  [pc: Stages, round: 0..ROUNDS, policyHash: Policies \cup {"none"}, nonce: Nat, sent: 0..2,
   receipt: Receipts, auctionId: AuctionIds \cup {NoAuction}, answer: Statuses]

\* Every variable keeps its type.  What may still be pulled from a wallet is a cap
\* the spend policy signs, and a wallet has as many nonces used as its confirms
\* broadcast.
PurTypeOK ==
  /\ TypeOK
  /\ \A hash \in Policies : policySlots[hash] \in {Empty, Stranger, hash}
  /\ restarted \in BOOLEAN
  /\ allowance \in [Buyers -> 0..MaxPayoutCap]
  /\ \A w \in Buyers : Len(mempool[w]) <= nonceOf[w]
  /\ nonceOf \in [Buyers -> 0..(2 * Cardinality(Confirms))]
  /\ confirms \in [Confirms -> ConfirmRecord]

\* docs/spec.md: the upload is first.  Whatever was retried, stored without an answer
\* or raced, an auction is never open with an empty slot at the relay, unless the
\* relay itself lost what it held.
PolicyBeforeAuction ==
  \A id \in AuctionIds :
    state(id) # "None" => policySlots[id.policyHash] # Empty \/ restarted

\* The ceiling is on what an auction locks: every auction above it was opened by the
\* quorum's wallet with the quorum's keys, and no other was.
QuorumAboveCeiling ==
  \A id \in AuctionIds :
    state(id) # "None" =>
      /\ id.buyer = quorumWallet <=> id.payoutCap > QuorumCeiling
      /\ id.buyer = quorumWallet => HasQuorumKeys

\* A refusal comes before anything is mined (docs/spec.md): a confirm answered 422 or
\* 502 has broadcast nothing and leaves no allowance of its own behind.
RefusedCostsNothing ==
  \A c \in Confirms : confirms[c].answer \in {422, 502} => confirms[c].sent = 0

\* The cap that every observer reads covers any price the policy accepts, is never that
\* price, and says no more than the band it falls in.
CapHidesPrice ==
  \A id \in AuctionIds :
    state(id) # "None" =>
      /\ id.payoutCap > MaxPriceOf[id.policyHash]
      /\ id.payoutCap - MaxPriceOf[id.policyHash] <= Bucket
      /\ id.payoutCap % Bucket = 0

\* What the buyer is told is on chain and is its own: a confirm answered 200 names an
\* auction opened under its policy hash, and no two confirms name the same one,
\* though they share a wallet, an allowance and a block.
AnswersNameTheirAuction ==
  \A c, d \in Confirms :
    confirms[c].answer = 200 =>
      /\ state(confirms[c].auctionId) # "None"
      /\ confirms[c].auctionId.policyHash = confirms[c].policyHash
      /\ confirms[c].auctionId = confirms[d].auctionId => c = d

-----------------------------------------------------------------------------
\* Every auction locks the cap of the policy behind it.
CapsAreDerived ==
  \A id \in AuctionIds :
    state(id) # "None" => id.payoutCap = payoutCapFor(MaxPriceOf[id.policyHash])

\* A confirm that funds has uploaded first, one that broadcast has a signer and an
\* amount that Privy allows, and it tells of an auction only if that is open under its
\* policy.
Uploaded(c) == policySlots[confirms[c].policyHash] # Empty \/ restarted

Unsent == {"fresh", "intent", "draft", "upload", "approve", "signApprove"}

ConfirmStands(c) ==
  LET k == confirms[c]
  IN /\ k.pc \notin {"fresh", "intent"} => k.policyHash \in Policies
     /\ k.pc \in Unsent => k.sent = 0
     /\ k.pc \in {"approving", "create", "signCreate"} => k.sent = 1
     /\ k.pc = "creating" => k.sent = 2
     /\ k.sent > 0 => PrivyAllows(c)
     /\ Funding(c) \/ k.sent > 0 => Uploaded(c)
     /\ Signing(c) \/ k.sent > 0 => HasSigner(c)
     /\ k.answer # 0 => k.pc = "answered"
     /\ k.answer \in {422, 502} => k.sent = 0
     /\ k.answer = 200 => k.auctionId # NoAuction
     /\ k.receipt # "none" => k.pc \in {"approving", "creating", "answered"}
     /\ k.pc = "creating" /\ k.receipt = "success" => k.auctionId # NoAuction
     /\ k.auctionId # NoAuction =>
          /\ k.sent = 2
          /\ state(k.auctionId) # "None" /\ k.auctionId.policyHash = k.policyHash

\* No auction is the answer of two confirms.
AuctionsAreTheirOwn ==
  \A c, d \in Confirms :
    confirms[c].auctionId # NoAuction /\ confirms[c].auctionId = confirms[d].auctionId => c = d

\* A pending transaction is the last that its confirm broadcast, from that wallet, and
\* the confirm waits for it or has been answered.
Awaited(tx, w) ==
  LET k == confirms[tx.confirm]
  IN /\ signerOf(tx.confirm) = w
     /\ k.pc \in {IF tx.call = "approve" THEN "approving" ELSE "creating", "answered"}
     /\ k.sent = IF tx.call = "approve" THEN 1 ELSE 2
     /\ k.receipt = "none"
     /\ k.auctionId = NoAuction

Transaction == [confirm: Confirms, call: {"approve", "create"}]

\* A wallet's mempool holds one transaction of a confirm at most.
PendingStands(w) ==
  /\ mempool[w] \in Seq(Transaction)
  /\ \A i, j \in DOMAIN mempool[w] : mempool[w][i].confirm = mempool[w][j].confirm => i = j
  /\ \A i \in DOMAIN mempool[w] : Awaited(mempool[w][i], w)

\* The transactions a wallet's confirms have broadcast, told apart by their place.
SentBy(w) ==
  {p \in Confirms \X {1, 2} : p[2] <= confirms[p[1]].sent /\ signerOf(p[1]) = w}

\* The invariant that carries the proofs.
PurInv ==
  /\ IInv /\ PurTypeOK
  /\ policySlots \in [Policies -> Policies \cup {Empty, Stranger}]
  /\ mempool = [w \in Buyers |-> mempool[w]]
  /\ PolicyBeforeAuction /\ QuorumAboveCeiling /\ CapsAreDerived
  /\ \A c \in Confirms : ConfirmStands(c)
  /\ AuctionsAreTheirOwn
  /\ \A w \in Buyers : PendingStands(w) /\ nonceOf[w] = Cardinality(SentBy(w))

-----------------------------------------------------------------------------
\* purchaser/src/policy-upload.ts: a hash already uploaded answers 409 and the buyer
\* never opens a second auction behind it.
NoSecondAuction ==
  \A i, j \in AuctionIds :
    state(i) # "None" /\ state(j) # "None" /\ i.policyHash = j.policyHash => i = j
=============================================================================
