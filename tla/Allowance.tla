------------------------------ MODULE Allowance ------------------------------
(***************************************************************************)
(* What X402SpendGovernor (src/data/x402_spend_governor.py) promises: a    *)
(* purse for paid calls of one price, with a daily allowance that is       *)
(* renewed at UTC midnight and a total one that is not.                    *)
(***************************************************************************)
EXTENDS Integers

CONSTANTS DailyBudget, TotalBudget,     \* 0: no limit
          Cost                          \* cost_per_call_usdc

VARIABLES date,             \* the UTC date
          today, total      \* spent on that date, and in all

Fits(spent, budget) == budget > 0 => spent + Cost <= budget

Init == date = 0 /\ today = 0 /\ total = 0

Spend ==
    /\ Fits(today, DailyBudget)
    /\ Fits(total, TotalBudget)
    /\ today' = today + Cost
    /\ total' = total + Cost
    /\ UNCHANGED date

NewDay == date' = date + 1 /\ today' = 0 /\ UNCHANGED total

Next == Spend \/ NewDay

Spec == Init /\ [][Next]_<<date, today, total>>
=============================================================================
