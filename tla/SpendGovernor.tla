---------------------------- MODULE SpendGovernor ----------------------------
(***************************************************************************)
(* The budget governor of the x402 micropayments                           *)
(* (src/data/x402_spend_governor.py) around the paid calls of CMCMCPClient *)
(* (_call_tool_x402), with the ledger file, the BudgetCircuitBreaker and   *)
(* the deaths of the process.  Whether a call was really paid is decided   *)
(* by the endpoint; the governor only sees how the call ended.             *)
(*                                                                         *)
(* Amounts are integers, time within a day is left out except for the      *)
(* seconds that a failure cooldown still lasts.                            *)
(***************************************************************************)
EXTENDS Integers

CONSTANTS
    DailyBudget, TotalBudget,   \* 0: no limit
    Cost,                       \* cost_per_call_usdc
    BackoffBase, BackoffMax,    \* _failure_cooldown_base, _failure_cooldown_max
    LoopSeconds,                \* seconds from one cycle of run_agent to the next
    Faults,                     \* faults of the host: "crash", "torn", "full"
    MaxFaults,                  \* bound: how many of them happen
    MaxDay,                     \* bound: the last day explored
    MaxPaid                     \* bound: what may really be paid

ASSUME GovernorAssumption ==
    /\ DailyBudget \in Nat /\ TotalBudget \in Nat
    /\ Cost \in Nat \ {0}
    /\ BackoffBase \in Nat \ {0} /\ BackoffMax \in Nat \ {0}
    /\ LoopSeconds \in Nat \ {0}
    /\ Faults \subseteq {"crash", "torn", "full"}
    /\ MaxFaults \in Nat /\ MaxDay \in Nat /\ MaxPaid \in Nat

VARIABLES
    day,            \* the UTC date
    phase,          \* "down", "idle" or "calling": a paid request is under way
    gov,            \* the fields of the governor
    ledger, torn,   \* the ledger file; is it unreadable
    breaker,        \* the BudgetCircuitBreaker
    faults, seen,   \* how many faults happened, and which
    hist            \* history: what was really paid, for the properties

vars == <<day, phase, gov, ledger, torn, breaker, faults, seen, hist>>

Fault(kind) ==
    /\ kind \in Faults
    /\ faults < MaxFaults
    /\ faults' = faults + 1
    /\ seen' = seen \cup {kind}

NoFault == UNCHANGED <<faults, seen>>

-----------------------------------------------------------------------------
(* The governor.                                                           *)

NoLedger == [day |-> 0, daily |-> 0, total |-> 0]
Off      == [day |-> 0, daily |-> 0, total |-> 0, wait |-> 0, cool |-> 0]

Smaller(a, b) == IF a < b THEN a ELSE b

RollDay(g) == IF g.day = day THEN g ELSE [g EXCEPT !.day = day, !.daily = 0]

(* _save: an OSError is only logged; it may leave a truncated file.        *)
Save(g) ==
    \/ /\ ledger' = [day |-> g.day, daily |-> g.daily, total |-> g.total]
       /\ torn' = FALSE
       /\ NoFault
    \/ Fault("full") /\ torn' \in BOOLEAN /\ UNCHANGED ledger

(* Mutated: the ledger's day is not compared with today.                   *)
LoadZero ==
    [Off EXCEPT !.day = day, !.total = IF torn THEN 0 ELSE ledger.total]

(* _load: an unreadable ledger counts as an empty one.                     *)
Load ==
    IF torn THEN [Off EXCEPT !.day = day]
    ELSE [Off EXCEPT !.day = day, !.total = ledger.total,
                     !.daily = IF ledger.day = day THEN ledger.daily ELSE 0]

(* Mutated: the check ignores the price of the call it admits.             *)
FitsBefore(spent, budget) == budget > 0 => spent < budget

(* Does one more call fit?                                                 *)
Fits(spent, budget) == budget > 0 => spent + Cost <= budget

(* Mutated: the total budget is not checked.                               *)
AllowCallToday(g) == g.cool = 0 /\ Fits(g.daily, DailyBudget)

AllowCall(g) ==
    /\ g.cool = 0
    /\ Fits(g.daily, DailyBudget)
    /\ Fits(g.total, TotalBudget)

Charge(g, amount) ==
    [RollDay(g) EXCEPT !.daily = @ + amount, !.total = @ + amount]

(* Mutated: a successful call is charged to the day only.                  *)
RecordDailySpend(g) == [RollDay(g) EXCEPT !.daily = @ + Cost, !.wait = 0, !.cool = 0]

(* record_spend.                                                           *)
RecordSpend(g) == [Charge(g, Cost) EXCEPT !.wait = 0, !.cool = 0]

(* record_failure: the cooldown doubles with every consecutive failure;    *)
(* wait is the cooldown of the last one (0: no failure since a success).   *)
NextWait(g) == IF g.wait = 0 THEN Smaller(BackoffMax, BackoffBase)
               ELSE Smaller(BackoffMax, 2 * g.wait)

(* Mutated: a failed call that is not charged is refunded.                 *)
RecordRefund(g, charged) ==
    [Charge(g, IF charged = 0 THEN -Cost ELSE charged)
        EXCEPT !.wait = NextWait(g), !.cool = NextWait(g)]

RecordFailure(g, charged) ==
    [Charge(g, charged) EXCEPT !.wait = NextWait(g), !.cool = NextWait(g)]

-----------------------------------------------------------------------------
(* The BudgetCircuitBreaker lives in memory.                               *)

BreakerRecord(amount) ==
    breaker' = [day |-> day,
                actual |-> (IF breaker.day = day THEN breaker.actual ELSE 0) + amount]

(* throttled_refresh_age doubles the refresh interval.                     *)
Throttled == (IF breaker.day = day THEN breaker.actual ELSE 0) > DailyBudget

-----------------------------------------------------------------------------
(* The process and its paid calls.                                         *)

Init ==
    /\ day = 0 /\ phase = "down"
    /\ gov = Off /\ ledger = NoLedger /\ torn = FALSE
    /\ breaker = [day |-> 0, actual |-> 0]
    /\ faults = 0 /\ seen = {}
    /\ hist = [paid |-> 0, paidToday |-> 0, missed |-> 0, missedToday |-> 0,
               billed |-> FALSE, billedBefore |-> FALSE]

Start ==
    /\ phase = "down"
    /\ phase' = "idle"
    /\ gov' = Load
    /\ breaker' = [day |-> day, actual |-> 0]
    /\ UNCHANGED <<day, ledger, torn, faults, seen, hist>>

(* allow_call says yes and the request is sent.  Rolling the day saves.    *)
(* Left out: the posts of the handshake (initialize and its notification), *)
(* which go through the same paying session.  If the endpoint bills them,  *)
(* those payments are on no record.                                        *)
SendCall ==
    /\ phase = "idle"
    /\ hist.paid < MaxPaid
    /\ AllowCall(RollDay(gov))
    /\ phase' = "calling"
    /\ gov' = RollDay(gov)
    /\ IF gov.day = day THEN NoFault /\ UNCHANGED <<ledger, torn>> ELSE Save(gov')
    /\ UNCHANGED <<day, breaker, hist>>

(* allow_call says no: the caller falls back to the keyless layer.         *)
RefuseCall ==
    /\ phase = "idle"
    /\ ~AllowCall(RollDay(gov))
    /\ gov' = RollDay(gov)
    /\ IF gov.day = day THEN NoFault /\ UNCHANGED <<ledger, torn>> ELSE Save(gov')
    /\ UNCHANGED <<day, phase, breaker, hist>>

(* How a call ends: what was paid, and what the governor counts.           *)
Missed(paid, counted) == IF paid > counted THEN paid ELSE 0

Paid(paid, counted) ==
    [hist EXCEPT !.paid = @ + paid, !.paidToday = @ + paid,
                 !.missed = @ + Missed(paid, counted),
                 !.missedToday = @ + Missed(paid, counted)]

Answered(g, counted) ==
    /\ phase = "calling"
    /\ phase' = "idle"
    /\ gov' = g
    /\ Save(g)
    /\ BreakerRecord(counted)
    /\ UNCHANGED day

CallSucceeds ==
    /\ Answered(RecordSpend(gov), Cost)
    /\ hist' = Paid(Cost, Cost)

(* HTTP 5xx: the payment may have settled, and is counted.                 *)
ServerError ==
    /\ Answered(RecordFailure(gov, Cost), Cost)
    /\ \E paid \in {0, Cost} : hist' = [Paid(paid, Cost) EXCEPT !.billed = TRUE]

(* HTTP 4xx, or None from request_with_x402 (a payment error, a timeout,   *)
(* an answer that cannot be parsed): it is not counted, although the       *)
(* payment may have settled.                                               *)
UncountedFailure ==
    /\ Answered(RecordFailure(gov, 0), 0)
    /\ \E paid \in {0, Cost} : hist' = Paid(paid, 0)

(* The process dies; a request under way may have been paid, a save in     *)
(* progress (the record of a call, the roll of the day) may leave a        *)
(* truncated ledger.                                                       *)
Crash ==
    /\ phase # "down"
    /\ \/ Fault("crash") /\ UNCHANGED torn
       \/ (phase = "calling" \/ gov.day # day) /\ Fault("torn") /\ torn' = TRUE
    /\ phase' = "down"
    /\ gov' = Off
    /\ \E paid \in IF phase = "calling" THEN {0, Cost} ELSE {0} : hist' = Paid(paid, 0)
    /\ UNCHANGED <<day, ledger, breaker>>

(* The next cycle of run_agent: the cooldown has run for LoopSeconds.      *)
NextCycle ==
    /\ phase = "idle"
    /\ gov' = [gov EXCEPT !.cool = IF @ > LoopSeconds THEN @ - LoopSeconds ELSE 0]
    /\ hist' = [hist EXCEPT !.billedBefore = hist.billed, !.billed = FALSE]
    /\ UNCHANGED <<day, phase, ledger, torn, breaker, faults, seen>>

Midnight ==
    /\ day < MaxDay
    /\ day' = day + 1
    /\ hist' = [hist EXCEPT !.paidToday = 0, !.missedToday = 0]
    /\ UNCHANGED <<phase, gov, ledger, torn, breaker, faults, seen>>

Next ==
    \/ Start \/ SendCall \/ RefuseCall
    \/ CallSucceeds \/ ServerError \/ UncountedFailure
    \/ Crash \/ NextCycle \/ Midnight

Spec == Init /\ [][Next]_vars

-----------------------------------------------------------------------------
(* Properties.                                                             *)

LedgerType == [day : Nat, daily : Nat, total : Nat]
GovType    == [day : Nat, daily : Nat, total : Nat, wait : Nat, cool : Nat]
HistType   == [paid : Nat, paidToday : Nat, missed : Nat, missedToday : Nat,
               billed : BOOLEAN, billedBefore : BOOLEAN]

(* The types of the variables.                                             *)
TypeOK ==
    /\ day \in Nat
    /\ phase \in {"down", "idle", "calling"}
    /\ gov \in GovType
    /\ ledger \in LedgerType /\ torn \in BOOLEAN
    /\ breaker \in [day : Nat, actual : Nat]
    /\ faults \in Nat /\ seen \subseteq Faults
    /\ hist \in HistType

Sound == seen \cap {"torn", "full"} = {}

(* What is really paid, over every restart, stays within the total budget  *)
(* plus the payments that no record was made of, as long as the ledger     *)
(* file was never damaged.                                                 *)
PaidWithinTotal ==
    TotalBudget > 0 /\ Sound => hist.paid <= TotalBudget + hist.missed

(* The same of one UTC day and the daily budget, though the day may turn   *)
(* between allow_call and the record, or between two processes.            *)
PaidWithinDay ==
    DailyBudget > 0 /\ Sound => hist.paidToday <= DailyBudget + hist.missedToday

(* The circuit breaker, built on the governor's own daily budget, never    *)
(* finds that budget exceeded: its throttle is out of reach.               *)
NeverThrottled == DailyBudget > 0 => ~Throttled

(* The ledger as an Allowance: what the process has in mind or, when it is *)
(* down, what the file says.                                               *)
Book  == IF phase = "down" THEN ledger ELSE gov
Purse == INSTANCE Allowance WITH
            date  <- day,
            today <- IF Book.day = day THEN Book.daily ELSE 0,
            total <- Book.total

(* With a ledger file that is never damaged the governor, its restarts and *)
(* its midnights implement the purse.                                      *)
ImplementsAllowance == Purse!Spec

(* x402_spend_governor.py: a broken endpoint cannot re-bill every cycle.   *)
NoRebillNextCycle == ~(hist.billedBefore /\ hist.billed)
=============================================================================
