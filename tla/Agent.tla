------------------------------- MODULE Agent -------------------------------
(***************************************************************************)
(* What a supplier agent promises about its own money, without polls,      *)
(* calls, allowances, receipts or retries.  In every auction it stakes at  *)
(* most once, behind one bid.  Only that bid goes to the relay, into a     *)
(* slot that is empty, and only from a run that knows of the stake.  What  *)
(* a run says moves up from "no bid" through a locked stake to a bid, each *)
(* time after it became true, and is forgotten only when the process ends. *)
(***************************************************************************)
CONSTANTS
  Auctions,
  Bids,         \* what the agent may stake behind, and post
  Empty,        \* nothing at the relay
  Stranger      \* what somebody else put at the relay

VARIABLES
  staked,       \* staked[id]: the bids of the agent with a stake in the auction
  posted,       \* posted[id]: what the relay holds under the agent's name
  told          \* told[id]: what the run of an auction says of it

agentVars == <<staked, posted, told>>

AgentInit ==
  /\ staked = [id \in Auctions |-> {}]
  /\ posted = [id \in Auctions |-> Empty]
  /\ told = [id \in Auctions |-> "no bid"]

Stake(id, bid) ==
  /\ staked[id] = {}
  /\ staked' = [staked EXCEPT ![id] = {bid}]
  /\ UNCHANGED <<posted, told>>

\* The receipt of the stake is in.
Know(id) ==
  /\ staked[id] # {}
  /\ told[id] = "no bid"
  /\ told' = [told EXCEPT ![id] = "stake locked, nothing at the relay"]
  /\ UNCHANGED <<staked, posted>>

\* The relay takes the bid that was staked, and its answer comes back or does not.
Place(id, bid) ==
  /\ bid \in staked[id]
  /\ posted[id] = Empty
  /\ told[id] = "stake locked, nothing at the relay"
  /\ posted' = [posted EXCEPT ![id] = bid]
  /\ told' \in {told, [told EXCEPT ![id] = "bid"]}
  /\ UNCHANGED staked

Squat(id) ==
  /\ posted[id] = Empty
  /\ posted' = [posted EXCEPT ![id] = Stranger]
  /\ UNCHANGED <<staked, told>>

Forget ==
  /\ told' = [id \in Auctions |-> "no bid"]
  /\ UNCHANGED <<staked, posted>>

AgentNext ==
  \/ \E id \in Auctions :
       \/ \E bid \in Bids : Stake(id, bid) \/ Place(id, bid)
       \/ Know(id) \/ Squat(id)
  \/ Forget

AgentSpec == AgentInit /\ [][AgentNext]_agentVars
=============================================================================
