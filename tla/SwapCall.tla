------------------------------- MODULE SwapCall -------------------------------
(***************************************************************************)
(* One swap after another of the same token, each a call from run_agent    *)
(* through PancakeSwapRouter (src/execution/swap_router.py) to the TWAK    *)
(* command line (src/execution/twak_interface.py), with the recovery of a  *)
(* missing ERC-20 allowance, the read of the balance that verifies a sale, *)
(* and what the ExecutionReconciler makes of the answer.  TradeLifecycle   *)
(* has the same call as one step that is refused or answered.              *)
(*                                                                         *)
(* The chain is the token's allowance and the transaction of the call: all *)
(* that the program learns of it is a hash, and it is mined or reverts in  *)
(* its own time, before the call is over or after.  Time is counted in     *)
(* approval_retry_delay_seconds.                                           *)
(***************************************************************************)
EXTENDS Integers

CONSTANTS
    RetryMax,       \* approval_retry_max
    ReadRetries,    \* retries of _read_balance_with_timeout
    Modes,          \* "live", "paper"
    Worths,         \* what a token may be worth: "less" than a dollar, "one", "more"
    MaxMining,      \* bound: delays until an approval is mined
    MaxCalls        \* bound: calls made

ASSUME SwapCallAssumption ==
    /\ RetryMax \in Nat /\ ReadRetries \in Nat
    /\ Modes \subseteq {"live", "paper"} /\ Worths \subseteq {"less", "one", "more"}
    /\ MaxMining \in Nat /\ MaxCalls \in Nat

VARIABLES
    mode, worth, right, \* constants of a run: the mode, the price, is the spender right
    allowance,          \* of the token, on the chain
    pc, side,           \* where the call is; "buy" or "sell"
    reads,              \* attempts of the balance read that are over
    tries, explicit,    \* retries and explicit_approval_sent
    failure,            \* "race" or "bare": the allowance failure being handled
    sent, fate,         \* swaps broadcast for this call, and what became of it
    answer, report,     \* what the command answered, how the call ended
    held,               \* is there a position
    calls,              \* how many calls were made
    hist                \* history of the call, for the properties

env  == <<mode, worth, right>>
loop == <<tries, explicit, failure>>
swap == <<sent, fate>>
vars == <<env, allowance, pc, side, reads, loop, swap, answer, report, held, calls, hist>>

NoApproval == [state |-> "none", left |-> 0]
Granted    == [state |-> "granted", left |-> 0]
Sent(n)    == IF n = 0 THEN Granted ELSE [state |-> "sent", left |-> n]

(* How many unlimited approvals the call has sent, and the delays that the *)
(* approval its first run sent or led to takes to be mined (0: none).      *)
NoHistory == [unlimited |-> 0, takes |-> 0]

(* An approval is broadcast, and mined some delays later, unless one is    *)
(* under way already.                                                      *)
Approve ==
    IF allowance.state = "none" THEN \E n \in 1 .. MaxMining : allowance' = Sent(n)
                                ELSE UNCHANGED allowance

TookSince(early) == IF early /\ allowance.state = "none" THEN allowance'.left ELSE hist.takes

Fails(why) == /\ report' = "raised" /\ answer' = why /\ pc' = "over"

-----------------------------------------------------------------------------
(* A cycle calls: to buy, or to sell what is held and is more than dust    *)
(* (the live balance read before a sale is in TradeLifecycle).  What       *)
(* becomes of an earlier call's transaction is no longer followed.         *)

Begin ==
    /\ pc = "idle"
    /\ calls < MaxCalls
    /\ calls' = calls + 1
    /\ side' = IF held THEN "sell" ELSE "buy"
    /\ pc' = "check"
    /\ reads' = 0 /\ tries' = 0 /\ explicit' = FALSE /\ failure' = "none"
    /\ sent' = 0 /\ fate' = "none" /\ answer' = "none" /\ report' = "none"
    /\ hist' = NoHistory
    /\ UNCHANGED <<env, allowance, held>>

-----------------------------------------------------------------------------
(* PancakeSwapRouter.swap_exact_in and TWAKInterface.swap.                 *)

(* A slippage or an amount that is not accepted, or no command on the path.*)
Rejected ==
    /\ pc = "check"
    /\ Fails("rejected")
    /\ UNCHANGED <<env, allowance, side, reads, loop, swap, held, calls, hist>>

(* In paper mode nothing is run; the fill is imaginary.                    *)
PaperFill ==
    /\ pc = "check" /\ mode = "paper"
    /\ sent' = 1 /\ fate' = "paper"
    /\ answer' = "paper" /\ pc' = "floor"
    /\ UNCHANGED <<env, allowance, side, reads, loop, report, held, calls, hist>>

Run ==
    /\ pc = "check" /\ mode = "live"
    /\ pc' = "run"
    /\ UNCHANGED <<env, allowance, side, reads, loop, swap, answer, report, held, calls, hist>>

(* What _swap_payload_from_result finds in the output of exit code 0: hash *)
(* and amount, a hash alone, neither, or an amount below the floor.        *)
Payloads == {"full", "hash", "text", "floor"}

Broadcast == sent' = sent + 1 /\ fate' = "pending"

(* The transactions of a wallet are mined in their order, so that what the *)
(* swap will use of the allowance is gone for whatever is sent after it.   *)
RunSwaps ==
    /\ pc = "run" /\ allowance.state = "granted"
    /\ Broadcast
    /\ answer' \in Payloads
    /\ allowance' \in {allowance, NoApproval}
    /\ pc' = "floor"
    /\ UNCHANGED <<env, side, reads, loop, report, held, calls, hist>>

(* Exit code 1 for want of allowance: "race" if the command has sent an    *)
(* approval of its own (APPROVAL_SENT_SWAP_FAILED), "bare" if not.  A swap *)
(* that has reverted for it (TX_FAILED) changed nothing.                   *)
RunLacksAllowance ==
    /\ pc = "run" /\ allowance.state # "granted"
    /\ \/ /\ failure' = "race" /\ Approve
          /\ hist' = [hist EXCEPT !.takes = TookSince(tries = 0)]
       \/ failure' = "bare" /\ UNCHANGED <<allowance, hist>>
    /\ pc' = "decide"
    /\ UNCHANGED <<env, side, reads, tries, explicit, swap, answer, report, held, calls>>

(* Any other failure of the command, before or after the swap was          *)
(* broadcast: raised, not retried.                                         *)
MaybeBroadcast == (allowance.state = "granted" /\ Broadcast) \/ UNCHANGED swap

RunFails ==
    /\ pc = "run"
    /\ MaybeBroadcast
    /\ Fails("failed")
    /\ UNCHANGED <<env, allowance, side, reads, loop, held, calls, hist>>

(* Mutated: a timeout is retried like a missing allowance.                 *)
RunTimesOutRetried ==
    /\ pc = "run"
    /\ MaybeBroadcast
    /\ failure' = "race" /\ pc' = "decide"
    /\ UNCHANGED <<env, allowance, side, reads, tries, explicit, answer, report, held, calls, hist>>

(* EXEC_TIMEOUT_SECONDS: the command is killed, before or after the swap   *)
(* was broadcast; raised, not retried.                                     *)
RunTimesOut ==
    /\ pc = "run"
    /\ MaybeBroadcast
    /\ Fails("timeout")
    /\ UNCHANGED <<env, allowance, side, reads, loop, held, calls, hist>>

(* Mutated: one retry less.                                                *)
RetriesSpentEarly == tries + 1 >= RetryMax

(* Mutated: one retry more.                                                *)
RetriesSpentLate == tries > RetryMax

RetriesSpent == tries >= RetryMax

GiveUp ==
    /\ pc = "decide" /\ RetriesSpent
    /\ Fails("allowance")
    /\ UNCHANGED <<env, allowance, side, reads, loop, swap, held, calls, hist>>

(* Mutated: explicit_approval_sent is never set.                           *)
ApprovesEveryTime == failure = "bare"

Approves == failure = "bare" /\ ~explicit

(* Mutated: the retries are not counted.                                   *)
RetryUncounted ==
    /\ pc = "decide" /\ ~RetriesSpent
    /\ pc' = IF Approves THEN "approve" ELSE "sleep"
    /\ UNCHANGED <<env, allowance, side, reads, tries, explicit, failure, swap, answer, report,
                   held, calls, hist>>

Retry ==
    /\ pc = "decide" /\ ~RetriesSpent
    /\ tries' = tries + 1
    /\ pc' = IF Approves THEN "approve" ELSE "sleep"
    /\ UNCHANGED <<env, allowance, side, reads, explicit, failure, swap, answer, report, held,
                   calls, hist>>

(* _approve_swap_spender: an unlimited approval of the configured spender. *)
ApproveSpender ==
    /\ pc = "approve"
    /\ explicit' = TRUE
    /\ IF right THEN Approve ELSE UNCHANGED allowance
    /\ hist' = [hist EXCEPT !.unlimited = @ + 1,
                            !.takes = IF right THEN TookSince(tries = 1) ELSE @]
    /\ pc' = "sleep"
    /\ UNCHANGED <<env, side, reads, tries, failure, swap, answer, report, held, calls>>

(* The approval is refused (native BNB, a bad address), fails or times out *)
(* in its turn, broadcast or not: raised.                                  *)
ApprovalFails ==
    /\ pc = "approve"
    /\ \/ UNCHANGED <<allowance, hist>>
       \/ /\ IF right THEN Approve ELSE UNCHANGED allowance
          /\ hist' = [hist EXCEPT !.unlimited = @ + 1]
    /\ Fails("approval")
    /\ UNCHANGED <<env, side, reads, loop, swap, held, calls>>

Sleep ==
    /\ pc = "sleep"
    /\ pc' = "run"
    /\ allowance' = IF allowance.state = "sent" THEN Sent(allowance.left - 1) ELSE allowance
    /\ UNCHANGED <<env, side, reads, loop, swap, answer, report, held, calls, hist>>

(* The transaction of the call is mined, or reverts although the command   *)
(* has answered with its hash.                                             *)
ChainSettles ==
    /\ fate = "pending"
    /\ fate' \in {"mined", "reverted"}
    /\ UNCHANGED <<env, allowance, pc, side, reads, loop, sent, answer, report, held, calls, hist>>

(* An approval may also be mined while a command runs.                     *)
ApprovalMined ==
    /\ allowance.state = "sent"
    /\ allowance' = Granted
    /\ UNCHANGED <<env, pc, side, reads, loop, swap, answer, report, held, calls, hist>>

-----------------------------------------------------------------------------
(* _enforce_output_floor, after the swap.  A live answer may name an       *)
(* amount below it; a paper fill names the amount paid for the amount      *)
(* received.                                                               *)

BelowFloor ==
    \/ answer = "floor"
    \/ answer = "paper" /\ worth = (IF side = "buy" THEN "less" ELSE "more")

FloorRaises ==
    /\ pc = "floor" /\ BelowFloor
    /\ Fails(answer)
    /\ UNCHANGED <<env, allowance, side, reads, loop, swap, held, calls, hist>>

(* The swap's call returns.                                                *)
SwapReturns ==
    /\ pc = "floor" /\ ~BelowFloor
    /\ report' = "returned"
    /\ UNCHANGED <<env, allowance, side, reads, loop, swap, answer, calls, hist>>

(* TWAK's own hash with an amount out that can be parsed.                  *)
NamesAmount == answer = "full"

(* The receipt and the balance that _tx_for_reconciliation adds in paper   *)
(* mode.                                                                   *)
PaperProof == answer = "paper"

(* reconcile wants one or the other of a purchase.                         *)
EntryConfirmed == NamesAmount \/ PaperProof

FinishEntry ==
    /\ side = "buy"
    /\ SwapReturns
    /\ held' = EntryConfirmed
    /\ pc' = "over"

(* An exit without a hash is over, the position stays open; with one its   *)
(* balance is read.                                                        *)
AskBalance ==
    /\ side = "sell"
    /\ SwapReturns
    /\ pc' = IF answer = "text" THEN "over" ELSE "read"
    /\ UNCHANGED held

-----------------------------------------------------------------------------
(* _read_balance_with_timeout: each attempt submits the read to a pool of  *)
(* one thread; leaving the pool's with block waits for its worker.         *)

(* Mutated: the exit is judged as reconcile judges an entry.               *)
ExitConfirmedByAmount == answer = "full"

(* reconcile_exit trusts a hash of TWAK's; a paper fill has neither that,  *)
(* nor a receipt, nor does it change the balance.                          *)
ExitConfirmed == answer \in {"full", "hash"}

ReadAnswers ==
    /\ pc = "read"
    /\ held' = ~ExitConfirmed
    /\ pc' = "over"
    /\ UNCHANGED <<env, allowance, side, reads, loop, swap, answer, report, calls, hist>>

(* An attempt is over without a balance: the next one, or the position     *)
(* stays open.                                                             *)
AttemptOver ==
    /\ reads' = reads + 1
    /\ pc' = IF reads < ReadRetries THEN "read" ELSE "over"
    /\ UNCHANGED <<env, allowance, side, loop, swap, answer, report, held, calls, hist>>

ReadRaises == pc = "read" /\ AttemptOver

ReadTimesOut ==
    /\ pc = "read"
    /\ pc' = "join"
    /\ UNCHANGED <<env, allowance, side, reads, loop, swap, answer, report, held, calls, hist>>

(* The node answers, or its connection times out, after all.               *)
WorkerEnds == pc = "join" /\ AttemptOver

(* The cycle ends; the next one may call again.                            *)
NextCycle ==
    /\ pc = "over"
    /\ pc' = "idle"
    /\ UNCHANGED <<env, allowance, side, reads, loop, swap, answer, report, held, calls, hist>>

-----------------------------------------------------------------------------

Init ==
    /\ mode \in Modes /\ worth \in Worths /\ right \in BOOLEAN
    /\ allowance \in {NoApproval, Granted}
    /\ pc = "idle" /\ side = "buy" /\ reads = 0
    /\ tries = 0 /\ explicit = FALSE /\ failure = "none"
    /\ sent = 0 /\ fate = "none" /\ answer = "none" /\ report = "none"
    /\ held = FALSE /\ calls = 0
    /\ hist = NoHistory

Agent ==
    \/ Begin
    \/ Rejected \/ PaperFill \/ Run \/ RunSwaps \/ RunLacksAllowance \/ RunFails \/ RunTimesOut
    \/ GiveUp \/ Retry \/ ApproveSpender \/ ApprovalFails \/ Sleep
    \/ FloorRaises \/ FinishEntry \/ AskBalance
    \/ ReadAnswers \/ ReadRaises \/ ReadTimesOut \/ NextCycle

Next == Agent \/ WorkerEnds \/ ApprovalMined \/ ChainSettles

Spec == Init /\ [][Next]_vars

(* The process runs; nothing is assumed of the node it reads from.         *)
AgentSpec == Spec /\ WF_vars(Agent)

(* The HTTP provider of web3 has a timeout of its own.                     *)
FairSpec == AgentSpec /\ WF_vars(WorkerEnds)

-----------------------------------------------------------------------------
(* Properties.                                                             *)

(* The types of the variables.                                             *)
TypeOK ==
    /\ mode \in Modes /\ worth \in Worths /\ right \in BOOLEAN
    /\ allowance \in [state : {"none", "sent", "granted"}, left : 0 .. MaxMining]
    /\ pc \in {"idle", "check", "run", "decide", "approve", "sleep", "floor", "read", "join", "over"}
    /\ side \in {"buy", "sell"} /\ held \in BOOLEAN
    /\ reads \in 0 .. ReadRetries + 1 /\ tries \in 0 .. RetryMax
    /\ explicit \in BOOLEAN /\ failure \in {"none", "race", "bare"}
    /\ sent \in Nat /\ fate \in {"none", "paper", "pending", "mined", "reverted"}
    /\ calls \in 0 .. MaxCalls
    /\ answer \in {"none", "rejected", "failed", "timeout", "allowance", "approval",
                   "paper"} \cup Payloads
    /\ report \in {"none", "returned", "raised"}
    /\ hist \in [unlimited : 0 .. RetryMax, takes : 0 .. MaxMining]

(* A call, with all its retries and approvals, is one swap to its caller:  *)
(* broadcast at most once, however often the command is run, and broadcast *)
(* (or filled on paper) if it returns.  That it executes is not promised.  *)
Swapping == INSTANCE OneSwap

ImplementsOneSwap == Swapping!Spec

(* A call sends at most one unlimited approval, and none if it may not     *)
(* retry.                                                                  *)
OneUnlimitedApproval == hist.unlimited <= 1 /\ (RetryMax = 0 => hist.unlimited = 0)

(* A call gives up for want of an allowance only if the approval that its  *)
(* first run led to takes longer to be mined than all the delays together. *)
PatientWithApprovals == answer = "allowance" /\ hist.takes > 0 => hist.takes > RetryMax

(* The book follows the chain as far as a hash can tell: it changes after  *)
(* a broadcast only, and without an executed swap only on a hash that was  *)
(* trusted although the transaction was still pending, or reverts.  An     *)
(* executed swap goes unnoticed only if its command timed out or failed,   *)
(* its output was below the floor, the answer did not name what the side   *)
(* of the trade needs, or the balance could not be read.                   *)
BookFollowsSwap ==
    pc = "over" /\ mode = "live" =>
        LET changed == held = (side = "buy")
        IN  /\ fate = "none" => ~changed
            /\ changed /\ fate # "mined" => answer \in {"full", "hash"}
            /\ ~changed /\ fate = "mined" =>
                   \/ answer \in {"timeout", "failed", "floor", "text"}
                   \/ answer = "hash" /\ side = "buy"
                   \/ reads > ReadRetries

(* execution_reconciler.py: execution is reconciled on the chain before a  *)
(* position is opened, the receipt's success and the balance validated; so *)
(* none is opened for a purchase that has reverted.                        *)
OpenedOnReceipt == [][~held /\ held' /\ mode = "live" => fate # "reverted"]_vars

(* Every call ends, whatever the command line, the chain and the node do.  *)
CallEnds == pc # "idle" ~> pc = "over"

(* main.py, _read_balance_with_timeout: a transient hiccup of the node     *)
(* never blocks the trading cycle.                                         *)
ReadNeverBlocks == pc = "read" ~> pc = "over"

(* DEVELOPMENT.md: paper mode executes; so a paper sale that returns has   *)
(* closed its position.                                                    *)
PaperSaleCloses ==
    pc = "over" /\ mode = "paper" /\ side = "sell" /\ report = "returned"
        /\ reads <= ReadRetries => ~held
=============================================================================
