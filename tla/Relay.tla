------------------------------- MODULE Relay -------------------------------
(***************************************************************************)
(* The relay of relay/src/app.ts: two maps of ciphertexts it cannot read,  *)
(* in memory, first write wins.  A handler reads the request body first    *)
(* and then checks and sets the map without another await, so one request  *)
(* is one step.  It asks nobody who they are: what a slot holds is any     *)
(* blob anybody sent.                                                      *)
(***************************************************************************)
CONSTANTS
  PolicyKeys,     \* policy hashes
  AuctionKeys,    \* auction ids
  SupplierKeys,   \* supplier addresses, in one case
  Empty           \* what an unknown key answers: 404

VARIABLES
  policySlots,    \* policies: policy hash -> ciphertext
  bidSlots        \* bids: auction id -> supplier -> ciphertext

relayVars == <<policySlots, bidSlots>>

NoPolicies == [hash \in PolicyKeys |-> Empty]
NoBids == [id \in AuctionKeys |-> [s \in SupplierKeys |-> Empty]]

RelayInit == policySlots = NoPolicies /\ bidSlots = NoBids

\* store: 201 into an empty slot, 409 and no change otherwise.
store(slots, key, blob) == [slots EXCEPT ![key] = IF @ = Empty THEN blob ELSE @]

putPolicy(hash, blob) ==
  /\ policySlots' = store(policySlots, hash, blob)
  /\ UNCHANGED bidSlots

putBid(id, supplier, blob) ==
  /\ bidSlots' = [bidSlots EXCEPT ![id] = store(@, supplier, blob)]
  /\ UNCHANGED policySlots

\* The process ends and starts again with both maps empty.
Restart == policySlots' = NoPolicies /\ bidSlots' = NoBids
=============================================================================
