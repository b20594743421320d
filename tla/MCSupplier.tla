---------------------------- MODULE MCSupplier ----------------------------
(***************************************************************************)
(* Supplier on a small instance: two auctions, one of each buyer.          *)
(***************************************************************************)
EXTENDS Supplier, TLC

CONSTANTS alice, bob, me, hash, c1, c2, c3, nobody, noAuction, stranger, empty

\* Neither the calls nor the buyers are told apart by anything but their names.
Interchangeable == Permutations(Calls) \cup Permutations(Buyers)
=============================================================================
