------------------------------ MODULE ExitLevels ------------------------------
(***************************************************************************)
(* The exit levels of one position of the PositionManager                  *)
(* (src/strategy/position_manager.py): set when it is opened, ratcheted    *)
(* with every price that _process_position_exits (src/main.py) passes to   *)
(* update_price, re-anchored for a row marked reconstructed, and compared  *)
(* with that price.  Every change is persisted before the call returns, so *)
(* that a restart continues from the same row.                             *)
(*                                                                         *)
(* Percentages are in thousandths; the stop and the target are in          *)
(* thousandths of a price unit.                                            *)
(***************************************************************************)
EXTENDS Integers

CONSTANTS
    Prices,                     \* market prices
    Atrs,                       \* average true ranges (0: unknown or cold)
    BaseStop, BaseTarget,       \* trailing_stop_pct, take_profit_pct
    Step1Profit, Step1Stop,     \* trail_step1_profit_pct, trail_step1_stop_pct
    Step2Profit, Step2Stop,     \* trail_step2_profit_pct, trail_step2_stop_pct
    MaxHold,                    \* max_hold_hours (0: no time stop)
    MayMiss,                    \* may a market snapshot lack the token?
    MaxAge,                     \* bound: hours counted
    MaxRebuilds                 \* bound: losses of positions.json

ASSUME ExitAssumption ==
    /\ Prices \subseteq Nat \ {0}
    /\ Atrs \subseteq Nat
    /\ BaseStop \in 0 .. 1000 /\ Step1Stop \in 0 .. 1000 /\ Step2Stop \in 0 .. 1000
    /\ BaseTarget \in Nat /\ Step1Profit \in Nat /\ Step2Profit \in Nat
    /\ MaxHold \in Nat /\ MaxAge \in Nat /\ MaxRebuilds \in Nat
    /\ MayMiss \in BOOLEAN

VARIABLES
    market,         \* the token's price on the market
    held,           \* is the position open
    pos,            \* its row
    rebuilds        \* how often the book was rebuilt from the wallet

vars == <<market, held, pos, rebuilds>>

Smaller(a, b) == IF a < b THEN a ELSE b
Larger(a, b)  == IF a > b THEN a ELSE b
Clamp(x, lo, hi) == Larger(lo, Smaller(hi, x))

Regimes == {"risk_off", "trending_up", "ranging"}

(* Mutated: a percentage where the code has a fraction.                    *)
BelowPercent(price, pct) == price * (1000 - 100 * pct)

(* Levels in thousandths of a price unit.                                  *)
Below(price, pct) == price * (1000 - pct)

Above(price, pct) == price * (1000 + pct)

-----------------------------------------------------------------------------
(* calculate_exit_levels.                                                  *)

ExitPcts(atr, regime) ==
    LET stop   == Clamp((3 * atr) \div 2, 35, 100)
        target == Clamp(3 * atr, 80, 200)
    IN  CASE regime = "risk_off" -> [stop |-> 25, target |-> 50]
          [] regime # "risk_off" /\ atr = 0 -> [stop |-> BaseStop, target |-> BaseTarget]
          [] regime = "trending_up" /\ atr # 0 -> [stop |-> stop, target |-> target]
          [] OTHER -> [stop |-> Smaller(stop, BaseStop), target |-> Smaller(target, BaseTarget)]

(* _active_trailing_stop_pct: the stop tightens with the best gain so far. *)
Gained(entry, high, pct) == (high - entry) * 1000 >= pct * entry

(* Mutated: the wider of the two stops is the active one.                  *)
ActiveStopWidest(entry, high) ==
    IF Gained(entry, high, Step2Profit) THEN Larger(BaseStop, Step2Stop)
    ELSE IF Gained(entry, high, Step1Profit) THEN Larger(BaseStop, Step1Stop)
    ELSE BaseStop

ActiveStop(entry, high) ==
    IF entry = 0 THEN BaseStop
    ELSE IF Gained(entry, high, Step2Profit) THEN Smaller(BaseStop, Step2Stop)
    ELSE IF Gained(entry, high, Step1Profit) THEN Smaller(BaseStop, Step1Stop)
    ELSE BaseStop

-----------------------------------------------------------------------------
(* update_price, in two parts: what it stores and what it returns.         *)

Reanchored(p, price) ==
    [p EXCEPT !.high = Larger(p.high, price),
              !.stop = Below(price, BaseStop),
              !.target = IF p.target = 0 THEN Above(price, BaseTarget) ELSE p.target,
              !.recon = FALSE]

(* Mutated: the raised stop replaces a tighter one.                        *)
RatchetedAnew(p, price) ==
    [p EXCEPT !.high = price, !.stop = Below(price, ActiveStop(p.entry, price))]

(* Mutated: the steps of the trail are not taken.                          *)
RatchetedLoosely(p, price) ==
    [p EXCEPT !.high = price, !.stop = Larger(p.stop, Below(price, BaseStop))]

Ratcheted(p, price) ==
    [p EXCEPT !.high = price,
              !.stop = Larger(p.stop, Below(price, ActiveStop(p.entry, price)))]

Updated(p, price) ==
    IF p.recon THEN Reanchored(p, price)
    ELSE IF price > p.high THEN Ratcheted(p, price)
    ELSE p

(* Mutated: the losers are left alone.                                     *)
TimeStopOfWinners(p, price) == MaxHold > 0 /\ price >= p.entry /\ p.age >= MaxHold

(* _time_stop_triggered: a position at or above its entry is left alone.   *)
TimeStop(p, price) == MaxHold > 0 /\ price < p.entry /\ p.age >= MaxHold

(* The reason, for the row p as it was before the call.                    *)
ExitReason(p, price) ==
    LET q == Updated(p, price)
    IN  IF p.recon THEN "none"
        ELSE IF price * 1000 >= q.target THEN "take_profit"
        ELSE IF price * 1000 <= q.stop THEN "trailing_stop"
        ELSE IF TimeStop(q, price) THEN "time_stop"
        ELSE "none"

-----------------------------------------------------------------------------

Row(entry, pcts) ==
    [entry |-> entry, high |-> entry, stop |-> Below(entry, pcts.stop),
     target |-> Above(entry, pcts.target), age |-> 0, recon |-> FALSE]

(* A row written with unknown entry data, to be re-anchored.               *)
SyntheticRow == [entry |-> 0, high |-> 0, stop |-> 0, target |-> 0, age |-> 0, recon |-> TRUE]

Init ==
    /\ market \in Prices
    /\ held \in BOOLEAN
    /\ pos = SyntheticRow
    /\ rebuilds = 0

(* open_position at the market price.                                      *)
Open ==
    /\ ~held
    /\ held' = TRUE
    /\ \E atr \in Atrs, regime \in Regimes : pos' = Row(market, ExitPcts(atr, regime))
    /\ UNCHANGED <<market, rebuilds>>

(* One position of _process_position_exits.  A token the snapshot lacks is *)
(* given its entry price; a sale that fails leaves the position open.      *)
Evaluate(quoted, sold) ==
    /\ held
    /\ quoted \/ MayMiss
    /\ LET price == IF quoted THEN market ELSE pos.entry
       IN  /\ pos' = Updated(pos, price)
           /\ held' = (ExitReason(pos, price) = "none" \/ ~sold)
    /\ UNCHANGED <<market, rebuilds>>

MarketMoves ==
    /\ market' \in Prices
    /\ UNCHANGED <<held, pos, rebuilds>>

Age ==
    /\ held /\ pos.age < MaxAge
    /\ pos' = [pos EXCEPT !.age = @ + 1]
    /\ UNCHANGED <<market, held, rebuilds>>

(* positions.json is lost and the process restarts: the position is        *)
(* reconstructed from the wallet at the snapshot's price, or at 1.         *)
Rebuild ==
    /\ held
    /\ rebuilds < MaxRebuilds
    /\ rebuilds' = rebuilds + 1
    /\ \E price \in {market} \cup (IF MayMiss THEN {1} ELSE {}) :
        pos' = Row(price, [stop |-> BaseStop, target |-> BaseTarget])
    /\ UNCHANGED <<market, held>>

Next ==
    \/ Open \/ MarketMoves \/ Age \/ Rebuild
    \/ \E quoted, sold \in BOOLEAN : Evaluate(quoted, sold)

Spec == Init /\ [][Next]_vars

(* Cycles, and hours, keep coming; a token that stays due for sale is      *)
(* quoted and sold in one of them.                                         *)
FairSpec == Spec /\ WF_vars(Age) /\ WF_vars(Evaluate(TRUE, TRUE))

-----------------------------------------------------------------------------
(* Properties.                                                             *)

Rows == [entry : Nat, high : Nat, stop : Nat, target : Nat, age : Nat, recon : BOOLEAN]

(* The types of the variables; no level is negative.                       *)
TypeOK ==
    /\ market \in Prices
    /\ held \in BOOLEAN
    /\ pos \in Rows
    /\ rebuilds \in Nat

(* The stop of an open position never falls, whatever prices come, however *)
(* often its sale fails and whichever snapshots lack the token; only a row *)
(* to be re-anchored or a rebuilt book starts anew.                        *)
StopRatchets ==
    [][held /\ held' /\ ~pos.recon /\ rebuilds' = rebuilds => pos'.stop >= pos.stop]_vars

(* Once a position has risen, its stop trails the highest price that any   *)
(* cycle has seen by no more than the step that this price has reached.    *)
StopFollowsPeak ==
    held /\ 0 < pos.entry /\ pos.entry < pos.high
        => pos.stop >= Below(pos.high, ActiveStop(pos.entry, pos.high))

(* A position that has once reached the first step of the trail is stopped *)
(* out no lower than its entry.                                            *)
GainKept ==
    held /\ 0 < pos.entry /\ pos.entry < pos.high /\ Gained(pos.entry, pos.high, Step1Profit)
        => pos.stop >= pos.entry * 1000

(* With the time stop on (max_hold_hours is 0.0 by default, which is off), *)
(* a position does not stay open for ever below its entry.                 *)
LosersTurnOver == MaxHold > 0 => ~<>[](held /\ market < pos.entry)

(* settings.py: the time stop is forced on positions that never hit their  *)
(* target or their trailing stop.                                          *)
HeldPositionsTurnOver == held ~> ~held
=============================================================================
