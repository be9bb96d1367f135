------------------------------ MODULE Guardrails ------------------------------
(***************************************************************************)
(* The risk guardrails of the agent (src/strategy/guardrails.py) driven in *)
(* the order in which run_agent (src/main.py) calls them: one evaluate per *)
(* cycle, then the exits of the cycle, then at most one entry, then the    *)
(* daily-minimum compliance swap.  The process may die between any two     *)
(* steps and is started again by the supervisor; what it still knows then  *)
(* is what _save_state wrote.                                              *)
(*                                                                         *)
(* Money is counted in whole dollars and percentages in whole percents.    *)
(* Time is a UTC day number and a tick of that day.                        *)
(***************************************************************************)
EXTENDS Integers

CONSTANTS
    DayLen,             \* ticks in a UTC day
    MaxDay,             \* bound: the last day explored
    TriggerTick,        \* first tick of COMPLIANCE_TRIGGER_HOUR_UTC
    LocalOffset,        \* ticks by which the host's local clock leads UTC
    Values,             \* portfolio values a cycle may observe
    Losses,             \* realised losses of one exit (0: not a loss)
    Regimes,            \* market regimes
    RegimeMax,          \* max_daily_trades_by_regime
    GlobalMax,          \* global_max_daily_trades (0: no limit)
    MaxDailyLossPct,
    KillPct,
    SoftPct,
    StreakReduce,
    StreakPause,
    MaxOpen,            \* bound: open positions
    MaxFaults,          \* bound: deaths of the process and unreported swaps
    MaxCycleTicks,      \* ticks a cycle may take (its calls all time out)
    TornWrites          \* may a crash truncate the state file being written?

ASSUME GuardrailsAssumption ==
    /\ DayLen \in Nat \ {0}
    /\ MaxDay \in Nat
    /\ TriggerTick \in 0 .. DayLen
    /\ LocalOffset \in (1 - DayLen) .. (DayLen - 1)
    /\ Values \subseteq Nat
    /\ Losses \subseteq Nat
    /\ Regimes # {}
    /\ RegimeMax \in [Regimes -> Nat]
    /\ GlobalMax \in Nat
    /\ MaxDailyLossPct \in Nat \ {0}
    /\ KillPct \in Nat \ {0}
    /\ SoftPct \in Nat \ {0}
    /\ StreakReduce \in Nat \ {0}
    /\ StreakPause \in Nat \ {0}
    /\ MaxOpen \in Nat
    /\ MaxFaults \in Nat
    /\ MaxCycleTicks \in Nat
    /\ TornWrites \in BOOLEAN

VARIABLES
    day, tick,      \* the UTC clock
    phase,          \* where run_agent is in its cycle ("down": no process)
    mem,            \* the fields of the Guardrails object
    disk, torn,     \* the guardrail state file; is it unreadable
    cycle,          \* what this cycle's evaluate decided
    open,           \* number of open positions (held by the PositionManager)
    stamp,          \* the now_utc captured by the compliance swap in progress
    hist            \* history: what really happened, for the properties

clock == <<day, tick>>
vars  == <<day, tick, phase, mem, disk, torn, cycle, open, stamp, hist>>

-----------------------------------------------------------------------------
(* Time.  A moment is a <<day, tick>> pair.                                *)

Moment      == Nat \X (0 .. DayLen - 1)
Later(a, b) == a[1] > b[1] \/ (a[1] = b[1] /\ a[2] > b[2])
Never       == <<0, 0>>     \* as a pause: never later than now

(* The date a naive-local timestamp taken now carries.                     *)
LocalDay ==
    IF tick + LocalOffset >= DayLen THEN day + 1
    ELSE IF tick + LocalOffset < 0 THEN day - 1
    ELSE day

-----------------------------------------------------------------------------
(* The Guardrails object, as functions from its fields to its fields.      *)

States == {"NORMAL", "REDUCED_RISK", "PAUSED_STREAK", "PAUSED_DAILY", "KILL_SWITCH"}

(* Mutated: the kill latch is not saved either.                            *)
PersistentUnlatched(m) ==
    [date |-> m.date, count |-> m.count, loss |-> m.loss, streak |-> m.streak,
     ath |-> m.ath, kill |-> FALSE, compDay |-> m.compDay]

(* _save_state: every field but _paused_until reaches the file.            *)
Persistent(m) ==
    [date |-> m.date, count |-> m.count, loss |-> m.loss, streak |-> m.streak,
     ath |-> m.ath, kill |-> m.kill, compDay |-> m.compDay]

(* Mutated: a fresh process starts with no loss.                           *)
LoadedLossless(d) ==
    [date |-> d.date, count |-> d.count, loss |-> 0, streak |-> d.streak,
     ath |-> d.ath, kill |-> d.kill, compDay |-> d.compDay, pausedUntil |-> Never]

(* _load_state in a fresh process: the pause starts out as None.           *)
Loaded(d) ==
    [date |-> d.date, count |-> d.count, loss |-> d.loss, streak |-> d.streak,
     ath |-> d.ath, kill |-> d.kill, compDay |-> d.compDay, pausedUntil |-> Never]

(* _reset_daily_if_needed with the date of the timestamp it is given.      *)
ResetDaily(m, date) ==
    IF m.date = date THEN m
    ELSE [m EXCEPT !.date = date, !.count = 0, !.loss = 0,
                   !.pausedUntil = IF Later(@, clock) THEN @ ELSE Never]

LossLimitHit(m, value) ==
    value > 0 /\ m.loss * 100 >= value * MaxDailyLossPct

DrawdownAtLeast(m, value, pct) ==
    m.ath > 0 /\ (m.ath - value) * 100 >= pct * m.ath

(* Mutated: a sale gives its slot of the daily budget back.                *)
RecordTradeNet(m, side, loss, value, date) ==
    LET m1 == ResetDaily(m, date)
    IN  [m1 EXCEPT !.count = IF side = "buy" THEN @ + 1 ELSE @ - 1, !.loss = @ + loss]

(* Mutated: only sales are counted.                                        *)
RecordTradeOfSales(m, side, loss, value, date) ==
    LET m1 == ResetDaily(m, date)
    IN  [m1 EXCEPT !.count = IF side = "sell" THEN @ + 1 ELSE @, !.loss = @ + loss]

(* record_trade for a trade stamped with the given date.                   *)
RecordTrade(m, side, loss, value, date) ==
    LET m1 == ResetDaily(m, date)
        m2 == [m1 EXCEPT !.count = IF side = "buy" THEN @ + 1 ELSE @,
                         !.loss  = @ + loss]
    IN  [m2 EXCEPT !.pausedUntil =
            IF LossLimitHit(m2, value) THEN <<day + 1, tick>> ELSE @]

(* record_trade_result; pct is in tenths of a percent.                     *)
RecordTradeResult(m, pct) ==
    [m EXCEPT !.streak = IF pct < -5 THEN @ + 1 ELSE IF pct > 0 THEN 0 ELSE @]

(* Mutated: the swap is not marked as the day's.                           *)
RecordUnmarkedTrade(m, date) == ResetDaily(m, date)

RecordComplianceTrade(m, date) ==
    [ResetDaily(m, date) EXCEPT !.count = @ + 1, !.compDay = date]

UpdateAth(m, value) == [m EXCEPT !.ath = IF value > @ THEN value ELSE @]

(* The state evaluate reports; fragile stands for the sentiment and        *)
(* volatility-breaker inputs, which only ever reduce size.                 *)
RiskState(m, value, fragile) ==
    CASE DrawdownAtLeast(m, value, KillPct) -> "KILL_SWITCH"
      [] ~DrawdownAtLeast(m, value, KillPct) /\ LossLimitHit(m, value) -> "PAUSED_DAILY"
      [] ~DrawdownAtLeast(m, value, KillPct) /\ ~LossLimitHit(m, value)
           /\ m.streak >= StreakPause -> "PAUSED_STREAK"
      [] OTHER ->
           IF \/ DrawdownAtLeast(m, value, SoftPct)
              \/ m.streak >= StreakReduce
              \/ fragile
           THEN "REDUCED_RISK" ELSE "NORMAL"

(* _risk_decision: the daily budget that goes with a state.                *)
MaxDailyTrades(state, regime) ==
    CASE state = "NORMAL" -> RegimeMax[regime]
      [] state = "REDUCED_RISK" ->
            IF RegimeMax[regime] \div 2 > 1 THEN RegimeMax[regime] \div 2 ELSE 1
      [] OTHER -> 0

(* Mutated: the open positions are not compared with the budget.           *)
RiskAllowsCount(m, state, regime) ==
    /\ state \in {"NORMAL", "REDUCED_RISK"}
    /\ GlobalMax = 0 \/ m.count < GlobalMax

(* main._risk_allows_new_entries: note that it reads neither the kill      *)
(* latch nor the pause.                                                    *)
RiskAllowsNewEntries(m, state, regime) ==
    /\ state \in {"NORMAL", "REDUCED_RISK"}
    /\ GlobalMax = 0 \/ m.count < GlobalMax
    /\ open < MaxDailyTrades(state, regime)

(* validate_new_trade returns (does not raise) for a sized candidate.  Its *)
(* checks of the symbol and of the position size against max_position_pct  *)
(* and max_slippage_pct are left out: they read no field of the object,    *)
(* and a candidate that fails one makes the call raise like the others.    *)
ValidatesNewTrade(m, value, regime) ==
    /\ ~m.kill
    /\ ~Later(m.pausedUntil, clock)
    /\ open < RegimeMax[regime]
    /\ GlobalMax = 0 \/ m.count < GlobalMax
    /\ ~LossLimitHit(m, value)
-----------------------------------------------------------------------------
(* The agent.                                                              *)

EmptyMem ==
    [date |-> 0, count |-> 0, loss |-> 0, streak |-> 0, ath |-> 0,
     kill |-> FALSE, compDay |-> -1, pausedUntil |-> Never]

NoHistory ==
    [loss |-> 0, buys |-> 0, lostBuys |-> 0, comps |-> 0, lostComps |-> 0,
     traded |-> FALSE, straddled |-> FALSE, killed |-> FALSE,
     pauseUntil |-> Never, losers |-> 0, faults |-> 0]

(* Outside a cycle its locals do not exist.                                *)
NoCycle == [value |-> 0, regime |-> CHOOSE r \in Regimes : TRUE,
            allowed |-> FALSE, ticks |-> 0]

EndCycle  == phase' = "top"  /\ cycle' = NoCycle /\ stamp' = 0
Die(last) == phase' = last   /\ cycle' = NoCycle /\ stamp' = 0 /\ mem' = EmptyMem

Init ==
    /\ day = 0 /\ tick = 0
    /\ phase = "down"
    /\ mem = EmptyMem /\ disk = Persistent(EmptyMem) /\ torn = FALSE
    /\ cycle = NoCycle
    /\ open = 0
    /\ stamp = 0
    /\ hist = NoHistory

Running == phase \notin {"down", "raised"}

(* Every Guardrails method that changes a field saves before it returns.   *)
Save(m) == mem' = m /\ disk' = Persistent(m)

(* __init__ in a new process: load (a torn file raises), then reset.  The  *)
(* number of open positions is what the load of the book, its startup      *)
(* reconciliation or its reconstruction from the wallet makes of it.       *)
Start ==
    /\ ~Running
    /\ ~torn
    /\ Save(ResetDaily(Loaded(disk), day))
    /\ phase' = "top"
    /\ open' \in 0 .. MaxOpen
    /\ UNCHANGED <<day, tick, torn, cycle, stamp, hist>>

(* evaluate and the entry gate.  In KILL_SWITCH the book is liquidated     *)
(* (a position whose swap fails stays) and the cycle goes straight to the  *)
(* compliance swap.                                                        *)
Evaluate ==
    /\ phase = "top"
    /\ \E value \in Values, regime \in Regimes, fragile \in BOOLEAN :
        LET m == UpdateAth(ResetDaily(mem, day), value)
            state == RiskState(m, value, fragile)
            killed == state = "KILL_SWITCH"
        IN  /\ Save([m EXCEPT !.kill = @ \/ killed])
            /\ cycle' = [value |-> value, regime |-> regime, ticks |-> 0,
                         allowed |-> RiskAllowsNewEntries(m, state, regime)]
            /\ IF killed
               THEN /\ phase' = "comp"
                    /\ open' \in 0 .. open
                    /\ hist' = [hist EXCEPT !.killed = TRUE]
               ELSE phase' = "exits" /\ UNCHANGED <<open, hist>>
    /\ UNCHANGED <<day, tick, torn, stamp>>

(* A verified exit: close_position, then record_trade with the local date. *)
RecordExit ==
    /\ phase = "exits"
    /\ open > 0
    /\ \E loss \in Losses :
        LET m == RecordTrade(mem, "sell", loss, cycle.value, LocalDay)
        IN  /\ Save(m)
            /\ hist' = [hist EXCEPT !.loss = @ + loss,
                            !.losers = IF loss = 0 THEN 0
                                       ELSE IF @ < StreakPause THEN @ + 1 ELSE @,
                            !.pauseUntil = IF m.pausedUntil = <<day + 1, tick>>
                                           THEN m.pausedUntil ELSE @]
    /\ open' = open - 1
    /\ UNCHANGED <<day, tick, phase, torn, cycle, stamp>>

(* Exits that closed a position as stale told the guardrails nothing.      *)
ExitsDone ==
    /\ phase = "exits"
    /\ phase' = IF cycle.allowed THEN "entry" ELSE "comp"
    /\ open' \in 0 .. open
    /\ UNCHANGED <<day, tick, mem, disk, torn, cycle, stamp, hist>>

(* No candidate, one that _attempt_entry_v25 turns down before             *)
(* validate_new_trade, or one whose swap fails with nothing broadcast.     *)
NoEntry ==
    /\ phase = "entry"
    /\ phase' = "comp"
    /\ UNCHANGED <<day, tick, mem, disk, torn, cycle, open, stamp, hist>>

(* validate_new_trade raises outside any try: the process dies.            *)
ValidateRaises ==
    /\ phase = "entry"
    /\ LET m == ResetDaily(mem, day)
       IN  /\ ~ValidatesNewTrade(m, cycle.value, cycle.regime)
           /\ disk' = Persistent(m)
    /\ hist.faults < MaxFaults
    /\ hist' = [hist EXCEPT !.faults = @ + 1]
    /\ Die("raised")
    /\ UNCHANGED <<day, tick, torn, open>>

(* validate_new_trade returns and the entry swap is broadcast.             *)
SubmitEntry ==
    /\ phase = "entry"
    /\ open < MaxOpen
    /\ LET m == ResetDaily(mem, day)
       IN  ValidatesNewTrade(m, cycle.value, cycle.regime) /\ Save(m)
    /\ phase' = "bought"
    /\ stamp' = day
    /\ hist' = [hist EXCEPT !.buys = @ + 1, !.traded = TRUE]
    /\ UNCHANGED <<day, tick, torn, cycle, open>>

(* The position is opened, then record_trade and record_trade_result(0.0). *)
(* An entry ends the cycle: the compliance swap is not tried.              *)
RecordEntry ==
    /\ phase = "bought"
    /\ open' = open + 1
    /\ Save(RecordTradeResult(RecordTrade(mem, "buy", 0, cycle.value, day), 0))
    /\ EndCycle
    /\ hist' = [hist EXCEPT !.straddled = @ \/ stamp # day]
    /\ UNCHANGED <<day, tick, torn>>

(* The swap was broadcast but the call raises (the TWAK timeout, no hash,  *)
(* an output found below the floor after the execution) or its             *)
(* reconciliation is not SUCCESS: the live process records nothing, opens  *)
(* no position, goes on to the compliance swap and may buy again in the    *)
(* next cycle.                                                             *)
EntryUnreported ==
    /\ phase = "bought"
    /\ hist.faults < MaxFaults
    /\ phase' = "comp"
    /\ stamp' = 0
    /\ hist' = [hist EXCEPT !.faults = @ + 1,
                            !.lostBuys = IF stamp = day THEN @ + 1 ELSE @]
    /\ UNCHANGED <<day, tick, mem, disk, torn, cycle, open>>

(* Mutated: the first tick of the trigger hour is left out.                *)
ComplianceDueLate ==
    /\ mem.count = 0
    /\ mem.compDay # day
    /\ tick > TriggerTick

(* The guards of _ensure_daily_minimum_trade.                              *)
ComplianceDue ==
    /\ mem.count = 0
    /\ mem.compDay # day
    /\ tick >= TriggerTick

ComplianceDeclined ==
    /\ phase = "comp"
    /\ ~ComplianceDue
    /\ EndCycle
    /\ UNCHANGED <<day, tick, mem, disk, torn, open, hist>>

(* Floor, blackout or liquidity check says no, or the swap fails with      *)
(* nothing broadcast: retried next cycle.                                  *)
ComplianceFailed ==
    /\ phase = "comp"
    /\ ComplianceDue
    /\ EndCycle
    /\ UNCHANGED <<day, tick, mem, disk, torn, open, hist>>

SubmitCompliance ==
    /\ phase = "comp"
    /\ ComplianceDue
    /\ phase' = "compSwapped"
    /\ stamp' = day
    /\ hist' = [hist EXCEPT !.comps = @ + 1, !.traded = TRUE]
    /\ UNCHANGED <<day, tick, mem, disk, torn, cycle, open>>

RecordCompliance ==
    /\ phase = "compSwapped"
    /\ Save(RecordComplianceTrade(mem, stamp))
    /\ EndCycle
    /\ UNCHANGED <<day, tick, torn, open, hist>>

(* The compliance swap was broadcast but execute_swap raises or returns no *)
(* hash: logged as failed, not recorded, and due again in the next cycle.  *)
ComplianceUnreported ==
    /\ phase = "compSwapped"
    /\ hist.faults < MaxFaults
    /\ EndCycle
    /\ hist' = [hist EXCEPT !.faults = @ + 1,
                            !.lostComps = IF stamp = day THEN @ + 1 ELSE @]
    /\ UNCHANGED <<day, tick, mem, disk, torn, open>>

(* The process dies.  A buy that was swapped may or may not have reached   *)
(* the position book; the guardrails never hear of it.                     *)
Crash ==
    /\ Running
    /\ hist.faults < MaxFaults
    /\ Die("down")
    /\ torn' \in IF TornWrites THEN BOOLEAN ELSE {FALSE}
    /\ open' \in IF phase = "bought" THEN {open, open + 1} ELSE {open}
    /\ hist' = [hist EXCEPT
            !.faults = @ + 1,
            !.lostBuys  = IF phase = "bought" /\ stamp = day THEN @ + 1 ELSE @,
            !.lostComps = IF phase = "compSwapped" /\ stamp = day THEN @ + 1 ELSE @]
    /\ UNCHANGED <<day, tick, disk>>

Tick ==
    /\ day < MaxDay \/ tick + 1 < DayLen
    /\ phase \in {"top", "down", "raised"} \/ cycle.ticks < MaxCycleTicks
    /\ IF tick + 1 < DayLen
       THEN tick' = tick + 1 /\ UNCHANGED <<day, hist>>
       ELSE /\ tick' = 0
            /\ day' = day + 1
            /\ hist' = [hist EXCEPT !.loss = 0, !.buys = 0, !.lostBuys = 0,
                            !.comps = 0, !.lostComps = 0,
                            !.traded = FALSE, !.straddled = FALSE]
    /\ cycle' = IF phase \in {"top", "down", "raised"} THEN cycle
                ELSE [cycle EXCEPT !.ticks = @ + 1]
    /\ UNCHANGED <<phase, mem, disk, torn, open, stamp>>

Next ==
    \/ Start \/ Evaluate \/ RecordExit \/ ExitsDone \/ NoEntry
    \/ ValidateRaises \/ SubmitEntry \/ RecordEntry \/ EntryUnreported
    \/ ComplianceDeclined \/ ComplianceFailed
    \/ SubmitCompliance \/ RecordCompliance \/ ComplianceUnreported
    \/ Crash \/ Tick

Spec == Init /\ [][Next]_vars

-----------------------------------------------------------------------------
(* Properties.                                                             *)

PersistentFields ==
    [date : Int, count : Nat, loss : Nat, streak : Nat, ath : Nat,
     kill : BOOLEAN, compDay : Int]

(* The types of the variables; of the guardrail fields, in memory and on   *)
(* disk, in particular.                                                    *)
TypeOK ==
    /\ day \in Nat /\ tick \in 0 .. DayLen - 1
    /\ phase \in {"down", "raised", "top", "exits", "entry", "bought", "comp", "compSwapped"}
    /\ mem \in [date : Int, count : Nat, loss : Nat, streak : Nat, ath : Nat,
                kill : BOOLEAN, compDay : Int, pausedUntil : Moment]
    /\ disk \in PersistentFields
    /\ torn \in BOOLEAN
    /\ cycle \in [value : Nat, regime : Regimes, allowed : BOOLEAN, ticks : Nat]
    /\ open \in Nat
    /\ stamp \in Nat
    /\ hist \in [loss : Nat, buys : Nat, lostBuys : Nat, comps : Nat, lostComps : Nat,
                 traded : BOOLEAN, straddled : BOOLEAN, killed : BOOLEAN,
                 pauseUntil : Moment, losers : Nat, faults : Nat]

EntrySwap == phase = "entry" /\ phase' = "bought"

(* Once evaluate has reported KILL_SWITCH no discretionary entry is ever   *)
(* swapped again: the latch outlives a recovered drawdown, a new day, a    *)
(* crash between any two steps and a torn state file.                      *)
NoEntryAfterKill == [][EntrySwap => ~hist.killed]_vars

(* No entry is swapped on a UTC day whose recorded exits have already lost *)
(* the daily limit of the portfolio value the cycle saw, whatever crashes, *)
(* restarts and midnights lie between the exits and the entry.             *)
DailyLossRespected ==
    [][EntrySwap => hist.loss * 100 < cycle.value * MaxDailyLossPct \/ cycle.value = 0]_vars

(* The entries swapped on one UTC day never exceed the global daily budget *)
(* by more than those that were never recorded: their process died before  *)
(* record_trade, or their call was taken for failed after the broadcast.   *)
DailyBudget == GlobalMax > 0 => hist.buys <= GlobalMax + hist.lostBuys

(* At most one compliance swap a UTC day, plus those that were never       *)
(* recorded: their process died before record_compliance_trade, or their   *)
(* call was taken for failed after the broadcast.                          *)
OneComplianceSwap == hist.comps <= 1 + hist.lostComps

(* Within the compliance window the backstop declines only on a day that   *)
(* has its on-chain trade, or whose count was taken by a buy swapped       *)
(* before midnight and recorded after it.                                  *)
BackstopDeclinesOnlyAfterTrade ==
    [][phase = "comp" /\ ~ComplianceDue /\ phase' = "top" /\ tick >= TriggerTick
        => hist.traded \/ hist.straddled]_vars

(* The gate of the agent loop and validate_new_trade agree on the trade    *)
(* budgets: a validation that kills the process does so because of the     *)
(* kill latch, the pause or the loss limit, never because a budget that    *)
(* the gate had granted was gone when the candidate was validated.         *)
BudgetNeverRaises ==
    [][phase = "entry" /\ phase' = "raised" =>
        \/ mem.kill
        \/ Later(mem.pausedUntil, clock)
        \/ LossLimitHit(mem, cycle.value)]_vars

(* DEVELOPMENT.md: "Max daily loss | 2% -> 24h pause".                     *)
PauseLasts24h == [][EntrySwap => ~Later(hist.pauseUntil, clock)]_vars

(* record_trade_result: real exits build the loss streak that pauses       *)
(* entries.                                                                *)
LossStreakPauses == [][EntrySwap => hist.losers < StreakPause]_vars
=============================================================================
