-------------------------- MODULE MCSealedAuction --------------------------
(***************************************************************************)
(* SealedAuction on a small instance.  The second buyer is a supplier too, *)
(* so an account can bid on its own auction and win it.                    *)
(***************************************************************************)
EXTENDS SealedAuction, FiniteSetsExt

CONSTANTS alice, bob, carol, hash, c1, c2, nobody, noAuction

MCBuyers == {alice, bob}
MCSuppliers == {bob, carol}

\* What the contract holds for one auction that has not ended.
Locked(id) == id.payoutCap + SUPPLIER_STAKE * Len(committers[id])

\* The contract holds exactly the caps and stakes of its open auctions: no
\* auction is ever paid out of another one's escrow.
Solvent ==
  held = MapThenSumSet(Locked, {id \in AuctionIds : state(id) \in Live})
=============================================================================
