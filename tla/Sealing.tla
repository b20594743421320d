------------------------------ MODULE Sealing ------------------------------
(***************************************************************************)
(* What shared/envelope.ts, sealed-bid.ts, sealed-policy.ts and bid.ts     *)
(* promise the rest of the code, as terms: an envelope keeps the info its  *)
(* key was derived from, a hash is equal only for equal arguments, and a   *)
(* signature names its signer and what was signed.  Anybody who holds the  *)
(* enclave's public key can seal anything under any info; nobody but the   *)
(* enclave opens it.                                                       *)
(***************************************************************************)
EXTENDS Sequences

\* DOMAIN of sealed-bid.ts and of sealed-policy.ts.
BidDomain == "perdiem/sealed-bid/v1"
PolicyDomain == "perdiem/sealed-policy/v1"

\* One domain and the one identifier the envelope belongs to.
envelopeInfo(domain, binding) == <<domain, binding>>

seal(plaintext, info) == [info |-> info, plaintext |-> plaintext]

\* open gives the plaintext back for the info it was sealed with, and throws for
\* any other.
Opens(envelope, info) == envelope.info = info

-----------------------------------------------------------------------------
(***************************************************************************)
(* The three hashes that come off a bid.                                   *)
(***************************************************************************)
\* The EIP-712 struct hash: the members of the bid, and neither salt nor contract.
bidHash(bid) == <<"Bid", bid>>

\* What is signed: the hash under the domain of one deployment.
bidDigest(bid, verifyingContract) == <<verifyingContract, bidHash(bid)>>

\* What goes on chain.
bidCommitment(hash, salt) == <<hash, salt>>

\* A signature, and the check of it: an account's own key (recoverSigner) or the
\* account's own contract (ERC-1271) vouches for exactly what was signed.
signed(account, digest) == [signer |-> account, digest |-> digest]
IsSigned(account, digest, signature) == signature = signed(account, digest)

-----------------------------------------------------------------------------
(***************************************************************************)
(* The sealed bid.                                                         *)
(***************************************************************************)
sealBid(payload, auctionId) == seal(payload, envelopeInfo(BidDomain, auctionId))

\* Mutation: the auction the bid names is not compared with the one it was sealed
\* for.
openSealedBidUnnamed(envelope, auctionId) ==
  Opens(envelope, envelopeInfo(BidDomain, auctionId))

\* Whether openSealedBid returns envelope.plaintext rather than throw: the envelope
\* is one of this auction, and so is the bid inside it.
openSealedBid(envelope, auctionId) ==
  /\ Opens(envelope, envelopeInfo(BidDomain, auctionId))
  /\ envelope.plaintext.bid.auctionId = auctionId

-----------------------------------------------------------------------------
(***************************************************************************)
(* The sealed policy.  hashOf is the policy hash as a function: the module *)
(* that says which policies there are gives it.                            *)
(***************************************************************************)
sealPolicy(policy, policyHash) == seal(policy, envelopeInfo(PolicyDomain, policyHash))

\* Whether openSealedPolicy returns envelope.plaintext: it was sealed for this hash,
\* and hashes to it.
openSealedPolicy(envelope, hashOf, policyHash) ==
  /\ Opens(envelope, envelopeInfo(PolicyDomain, policyHash))
  /\ hashOf[envelope.plaintext] = policyHash
=============================================================================
