------------------------------- MODULE OneSwap -------------------------------
(***************************************************************************)
(* What _execute_logged_swap (src/main.py) promises its callers of a swap: *)
(* it is broadcast at most once for a call, a call that returns has        *)
(* broadcast it (or filled it on paper), and a call that raises leaves     *)
(* open whether it did.  Whether what was broadcast executes is up to the  *)
(* chain, before the call is over or after.                                *)
(***************************************************************************)
EXTENDS Naturals

VARIABLES sent,         \* swaps broadcast, or filled on paper, for the call
          fate,         \* "none", "paper", "pending", "mined" or "reverted"
          report        \* "none", "returned" or "raised"

Init == sent = 0 /\ fate = "none" /\ report = "none"

Broadcasts == sent = 0 /\ sent' = 1 /\ fate' = "pending"

Broadcast == report = "none" /\ Broadcasts /\ UNCHANGED report
PaperFill == /\ report = "none" /\ sent = 0
             /\ sent' = 1 /\ fate' = "paper" /\ UNCHANGED report
Settle    == fate = "pending" /\ fate' \in {"mined", "reverted"} /\ UNCHANGED <<sent, report>>
Return    == report = "none" /\ sent = 1 /\ report' = "returned" /\ UNCHANGED <<sent, fate>>
Raise     == report = "none" /\ report' = "raised" /\ (Broadcasts \/ UNCHANGED <<sent, fate>>)
NewCall   == report # "none" /\ report' = "none" /\ sent' = 0 /\ fate' = "none"

Next == Broadcast \/ PaperFill \/ Settle \/ Return \/ Raise \/ NewCall

Spec == Init /\ [][Next]_<<sent, fate, report>>
=============================================================================
