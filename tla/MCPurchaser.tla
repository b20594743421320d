---------------------------- MODULE MCPurchaser ----------------------------
(***************************************************************************)
(* Purchaser on a small instance.  In buckets of 2, the policies below     *)
(* fall in three bands: "cheap" inside the first, "edge" on its boundary   *)
(* and so in the second, "dear" in the third.                              *)
(***************************************************************************)
EXTENDS Purchaser, TLC

CONSTANTS treasury, quorum, confirm1, confirm2, confirm3, cheap, edge, dear, nobody, noAuction,
          stranger, empty

Prices == cheap :> 1 @@ edge :> 2 @@ dear :> 4

\* The requests are told apart by nothing but their names.
Interchangeable == Permutations(Confirms)
=============================================================================
