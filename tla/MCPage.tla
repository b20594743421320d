------------------------------ MODULE MCPage ------------------------------
(***************************************************************************)
(* Page on a small instance: one buyer and its auctions, one after another *)
(* or side by side.                                                        *)
(***************************************************************************)
EXTENDS Page

CONSTANTS alice, s1, s2, hash, k, nobody, noAuction

\* Two suppliers for one auction, which may place the same commitment.
BothThenOne == << {s1, s2}, {s1} >>

\* The buyer bids on its own auction too; nobody on the next one.
BuyerTooThenNone == << {alice, s2}, {} >>
OneThenOne == << {s1}, {s1} >>
=============================================================================
