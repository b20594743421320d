------------------------------- MODULE Escrow -------------------------------
(***************************************************************************)
(* What SealedAuction promises the people whose money it holds, without    *)
(* deadlines, reports, lists or transfers.  Every auction is one escrow:   *)
(* a payer locks a cap, parties join behind one stake each, and the escrow *)
(* closes once.  When it closes everyone has back exactly what they put    *)
(* in, but for one payout that moves from the payer to one party that      *)
(* joined and that never exceeds the cap.                                  *)
(***************************************************************************)
EXTENDS Integers

CONSTANTS
  Escrows,      \* records with at least the fields buyer and payoutCap
  Parties,      \* every account
  Stake,        \* what a party locks to join
  Nobody        \* the recipient of no payout

VARIABLES
  phase,        \* phase[e]: "none", "open" or "closed"
  joined,       \* joined[e]: the parties that staked
  returned      \* returned[e][a]: what account a got out of e

absVars == <<phase, joined, returned>>

\* What one account put into an escrow.
PutIn(e, a) ==
  (IF a = e.buyer THEN e.payoutCap ELSE 0) + (IF a \in joined[e] THEN Stake ELSE 0)

\* Everyone's deposits, with one payout moved from the payer to the winner.
Shares(e, winner, payout) ==
  [a \in Parties |->
     PutIn(e, a) + (IF a = winner THEN payout ELSE 0) - (IF a = e.buyer THEN payout ELSE 0)]

AbsInit ==
  /\ phase = [e \in Escrows |-> "none"]
  /\ joined = [e \in Escrows |-> {}]
  /\ returned = [e \in Escrows |-> [a \in Parties |-> 0]]

Open(e) ==
  /\ phase[e] = "none"
  /\ phase' = [phase EXCEPT ![e] = "open"]
  /\ UNCHANGED <<joined, returned>>

Join(e, a) ==
  /\ phase[e] = "open"
  /\ a \notin joined[e]
  /\ joined' = [joined EXCEPT ![e] = @ \cup {a}]
  /\ UNCHANGED <<phase, returned>>

CloseWith(e, winner, payout) ==
  /\ phase[e] = "open"
  /\ phase' = [phase EXCEPT ![e] = "closed"]
  /\ returned' = [returned EXCEPT ![e] = Shares(e, winner, payout)]
  /\ UNCHANGED joined

\* One party that joined is paid, something and at most the cap.
Pay(e, winner, payout) ==
  /\ winner \in joined[e]
  /\ 0 < payout
  /\ payout <= e.payoutCap
  /\ CloseWith(e, winner, payout)

\* Nobody is paid.
Return(e) == CloseWith(e, Nobody, 0)

AbsNext ==
  \E e \in Escrows :
    \/ Open(e)
    \/ \E a \in Parties : Join(e, a)
    \/ \E a \in Parties, payout \in 1..e.payoutCap : Pay(e, a, payout)
    \/ Return(e)

AbsSpec == AbsInit /\ [][AbsNext]_absVars
=============================================================================
