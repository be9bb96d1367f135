--------------------------- MODULE ExitLevelsProofs ---------------------------
(***************************************************************************)
(* Proofs about the exit levels of ExitLevels.                             *)
(***************************************************************************)
EXTENDS ExitLevels, TLAPS

-----------------------------------------------------------------------------
(* Arithmetic of levels.                                                   *)

(* The stop widths, in tenths of a percent; opaque to most of the leaves.  *)
Pcts == 0 .. 1000

LEMMA SettingsType ==
    /\ BaseStop \in Pcts /\ Step1Stop \in Pcts /\ Step2Stop \in Pcts
    /\ BaseTarget \in Nat /\ Step1Profit \in Nat /\ Step2Profit \in Nat
  BY ExitAssumption DEF Pcts

LEMMA TimesMonotone ==
    ASSUME NEW x \in Nat, NEW y \in Nat, NEW k \in Nat, x <= y
    PROVE  x * k <= y * k
  OBVIOUS

LEMMA TimesCancels ==
    ASSUME NEW x \in Int, NEW y \in Int, 1000 * x <= 1000 * y
    PROVE  x <= y
  OBVIOUS

LEMMA BelowType ==
    ASSUME NEW price \in Nat, NEW pct \in Pcts
    PROVE  Below(price, pct) \in Nat
<1>1. 1000 - pct \in Nat
  BY DEF Pcts
<1>2. price * (1000 - pct) \in Nat
  BY <1>1
<1> QED
  BY <1>2 DEF Below

LEMMA AboveType ==
    ASSUME NEW price \in Nat, NEW pct \in Nat
    PROVE  Above(price, pct) \in Nat
  BY DEF Above

LEMMA ActiveStopType ==
    ASSUME NEW entry \in Nat, NEW high \in Nat
    PROVE  ActiveStop(entry, high) \in Pcts
  BY SettingsType DEF ActiveStop, Smaller

LEMMA TwentyFive == 25 \in Pcts
  BY DEF Pcts

LEMMA ExitPctsType ==
    ASSUME NEW atr \in Atrs, NEW regime \in Regimes
    PROVE  /\ ExitPcts(atr, regime).stop \in Pcts
           /\ ExitPcts(atr, regime).target \in Nat
<1> DEFINE stop   == Clamp((3 * atr) \div 2, 35, 100)
           target == Clamp(3 * atr, 80, 200)
<1>1. atr \in Nat
  BY ExitAssumption
<1>2. stop \in Pcts /\ target \in Nat
  BY <1>1 DEF Clamp, Larger, Smaller, Pcts
<1> HIDE DEF stop, target
<1>3. Smaller(stop, BaseStop) \in Pcts /\ Smaller(target, BaseTarget) \in Nat
  BY <1>2, SettingsType DEF Smaller
<1>4. ExitPcts(atr, regime) \in
        {[stop |-> 25, target |-> 50],
         [stop |-> BaseStop, target |-> BaseTarget],
         [stop |-> stop, target |-> target],
         [stop |-> Smaller(stop, BaseStop), target |-> Smaller(target, BaseTarget)]}
  BY DEF ExitPcts, stop, target, Regimes
<1> QED
  BY <1>2, <1>3, <1>4, SettingsType, TwentyFive

LEMMA RowType ==
    ASSUME NEW entry \in Nat, NEW pcts, pcts.stop \in Pcts, pcts.target \in Nat
    PROVE  Row(entry, pcts) \in Rows
<1>1. Below(entry, pcts.stop) \in Nat /\ Above(entry, pcts.target) \in Nat
  BY BelowType, AboveType
<1> QED
  BY <1>1 DEF Row, Rows

-----------------------------------------------------------------------------
(* update_price.                                                           *)

(* The raised stop.                                                        *)
LEMMA RaisedType ==
    ASSUME NEW p \in Rows, NEW price \in Nat
    PROVE  Below(price, ActiveStop(p.entry, price)) \in Nat
<1> DEFINE pct == ActiveStop(p.entry, price)
<1>1. p.entry \in Nat
  BY DEF Rows
<1>2. pct \in Pcts
  BY <1>1, ActiveStopType
<1> HIDE DEF pct
<1>3. Below(price, pct) \in Nat
  BY <1>2, BelowType
<1> QED
  BY <1>3 DEF pct

LEMMA UpdatedType ==
    ASSUME NEW p \in Rows, NEW price \in Nat
    PROVE  Updated(p, price) \in Rows
<1>1. CASE p.recon
  <2> DEFINE high   == Larger(p.high, price)
             stop   == Below(price, BaseStop)
             target == IF p.target = 0 THEN Above(price, BaseTarget) ELSE p.target
  <2>1. high \in Nat
    BY DEF Larger, Rows
  <2>2. stop \in Nat
    BY BelowType, SettingsType
  <2>3. target \in Nat
    BY AboveType, SettingsType DEF Rows
  <2> HIDE DEF high, stop, target
  <2>4. [p EXCEPT !.high = high, !.stop = stop, !.target = target, !.recon = FALSE] \in Rows
    BY <2>1, <2>2, <2>3 DEF Rows
  <2> QED
    BY <1>1, <2>4 DEF Updated, Reanchored, high, stop, target
<1>2. CASE ~p.recon /\ price > p.high
  <2> DEFINE stop == Larger(p.stop, Below(price, ActiveStop(p.entry, price)))
  <2>1. stop \in Nat
    BY RaisedType DEF Larger, Rows
  <2> HIDE DEF stop
  <2>2. [p EXCEPT !.high = price, !.stop = stop] \in Rows
    BY <2>1 DEF Rows
  <2> QED
    BY <1>2, <2>2 DEF Updated, Ratcheted, stop
<1>3. CASE ~p.recon /\ ~(price > p.high)
  BY <1>3 DEF Updated
<1> QED
  BY <1>1, <1>2, <1>3

(* A row that is not to be re-anchored only ever tightens its stop, and    *)
(* one whose high moves follows it.                                        *)
LEMMA UpdatedRatchets ==
    ASSUME NEW p \in Rows, NEW price \in Nat, ~p.recon
    PROVE  LET q == Updated(p, price)
           IN  /\ q.stop >= p.stop
               /\ q.entry = p.entry
               /\ ~q.recon
               /\ q.high # p.high => q.stop >= Below(q.high, ActiveStop(q.entry, q.high))
               /\ q.high = p.high => q.stop = p.stop
<1>1. CASE price > p.high
  <2> DEFINE level == Below(price, ActiveStop(p.entry, price))
             stop  == Larger(p.stop, level)
  <2>1. level \in Nat
    BY RaisedType
  <2>2. stop >= p.stop /\ stop >= level
    BY <2>1 DEF Larger, Rows
  <2>3. Updated(p, price) = [p EXCEPT !.high = price, !.stop = stop]
    BY <1>1 DEF Updated, Ratcheted
  <2> HIDE DEF stop
  <2> DEFINE q == [p EXCEPT !.high = price, !.stop = stop]
  <2>4. q.stop = stop /\ q.high = price /\ q.entry = p.entry /\ q.recon = p.recon
    BY DEF Rows
  <2>5. price # p.high
    BY <1>1 DEF Rows
  <2> HIDE DEF q
  <2> QED
    BY <2>2, <2>3, <2>4, <2>5 DEF q
<1>2. CASE ~(price > p.high)
  BY <1>2 DEF Updated, Rows
<1> QED
  BY <1>1, <1>2

-----------------------------------------------------------------------------
(* The types.                                                              *)

LEMMA SyntheticType == SyntheticRow \in Rows
  BY DEF SyntheticRow, Rows

LEMMA TypeInit == Init => TypeOK
  BY SyntheticType, ExitAssumption DEF Init, TypeOK

LEMMA TypeNext == TypeOK /\ [Next]_vars => TypeOK'
<1> SUFFICES ASSUME TypeOK, [Next]_vars PROVE TypeOK'
  OBVIOUS
<1> USE DEF TypeOK
<1>0. market \in Nat
  BY ExitAssumption
<1>1. CASE Open
  <2>1. PICK atr \in Atrs, regime \in Regimes : pos' = Row(market, ExitPcts(atr, regime))
    BY <1>1 DEF Open
  <2>2. pos' \in Rows
    BY <2>1, <1>0, ExitPctsType, RowType
  <2> QED
    BY <1>1, <2>2 DEF Open
<1>2. CASE MarketMoves
  BY <1>2 DEF MarketMoves
<1>3. CASE Age
  <2>1. pos.age + 1 \in Nat
    BY DEF Rows
  <2>2. [pos EXCEPT !.age = pos.age + 1] \in Rows
    BY <2>1 DEF Rows
  <2> QED
    BY <1>3, <2>2 DEF Age
<1>4. CASE Rebuild
  <2> DEFINE pcts == [stop |-> BaseStop, target |-> BaseTarget]
  <2>1. PICK price \in Nat : pos' = Row(price, pcts)
    BY <1>4, <1>0 DEF Rebuild
  <2>2. pcts.stop \in Pcts /\ pcts.target \in Nat
    BY SettingsType
  <2>3. pos' \in Rows
    BY <2>1, <2>2, RowType
  <2> QED
    BY <1>4, <2>3 DEF Rebuild
<1>5. ASSUME NEW quoted \in BOOLEAN, NEW sold \in BOOLEAN, Evaluate(quoted, sold)
      PROVE  TypeOK'
  <2> DEFINE price == IF quoted THEN market ELSE pos.entry
  <2>1. price \in Nat
    BY <1>0 DEF Rows
  <2>2. pos' \in Rows
    BY <1>5, <2>1, UpdatedType DEF Evaluate
  <2>3. held' \in BOOLEAN
    BY <1>5 DEF Evaluate
  <2> QED
    BY <1>5, <2>2, <2>3 DEF Evaluate
<1>6. CASE UNCHANGED vars
  BY <1>6 DEF vars
<1> QED
  BY <1>1, <1>2, <1>3, <1>4, <1>5, <1>6 DEF Next

(* The types, and so that no level is ever negative, in every instance.    *)
THEOREM TypeCorrect == Spec => []TypeOK
  BY TypeInit, TypeNext, PTL DEF Spec

-----------------------------------------------------------------------------
(* The stop of an open position never falls: update_price only raises it,  *)
(* and nothing else changes the row of a position that stays open.         *)
THEOREM StopsRatchet == Spec => StopRatchets
<1>1. ASSUME TypeOK, [Next]_vars,
             held, held', ~pos.recon, rebuilds' = rebuilds
      PROVE  pos'.stop >= pos.stop
  <2> USE DEF TypeOK
  <2>0. pos.stop \in Nat /\ market \in Nat /\ pos.entry \in Nat
    BY <1>1, ExitAssumption DEF Rows
  <2>1. CASE MarketMoves \/ UNCHANGED vars
    BY <2>0, <2>1 DEF MarketMoves, vars
  <2>2. CASE Age
    <3>1. pos'.stop = pos.stop
      BY <1>1, <2>2 DEF Age, Rows
    <3> QED
      BY <2>0, <3>1
  <2>3. CASE Open \/ Rebuild
    BY <1>1, <2>3 DEF Open, Rebuild
  <2>4. ASSUME NEW quoted \in BOOLEAN, NEW sold \in BOOLEAN, Evaluate(quoted, sold)
        PROVE  pos'.stop >= pos.stop
    <3> DEFINE price == IF quoted THEN market ELSE pos.entry
    <3>1. price \in Nat
      BY <2>0
    <3>2. pos' = Updated(pos, price)
      BY <2>4 DEF Evaluate
    <3> HIDE DEF price
    <3> QED
      BY <1>1, <3>1, <3>2, UpdatedRatchets
  <2> QED
    BY <1>1, <2>1, <2>2, <2>3, <2>4 DEF Next
<1>2. TypeOK /\ [Next]_vars
        => [held /\ held' /\ ~pos.recon /\ rebuilds' = rebuilds => pos'.stop >= pos.stop]_vars
  BY <1>1
<1> QED
  BY <1>2, TypeCorrect, PTL DEF Spec, StopRatchets

-----------------------------------------------------------------------------
(* The stop follows the peak.                                              *)

(* The inductive invariant: a row to be re-anchored has no entry price,    *)
(* so that it is never subject to the trail, and the stop trails the peak  *)
(* whether or not the position is still held.                              *)
TrailInv ==
    /\ pos.recon => pos.entry = 0
    /\ 0 < pos.entry /\ pos.entry < pos.high
         => pos.stop >= Below(pos.high, ActiveStop(pos.entry, pos.high))

LEMMA FreshRowTrails ==
    ASSUME NEW entry \in Nat, NEW pcts, pos' = Row(entry, pcts)
    PROVE  TrailInv'
<1>1. pos'.entry = entry /\ pos'.high = entry /\ pos'.recon = FALSE
  BY DEF Row
<1> QED
  BY <1>1 DEF TrailInv

LEMMA TrailNext == TypeOK /\ TrailInv /\ [Next]_vars => TrailInv'
<1> SUFFICES ASSUME TypeOK, TrailInv, [Next]_vars PROVE TrailInv'
  OBVIOUS
<1>0. market \in Nat /\ pos \in Rows
  BY ExitAssumption DEF TypeOK
<1>1. CASE Open
  BY <1>0, <1>1, FreshRowTrails DEF Open
<1>2. CASE Rebuild
  BY <1>0, <1>2, FreshRowTrails DEF Rebuild
<1>3. CASE MarketMoves \/ UNCHANGED vars
  BY <1>3 DEF MarketMoves, vars, TrailInv
<1>4. CASE Age
  <2>1. /\ pos'.entry = pos.entry /\ pos'.high = pos.high
        /\ pos'.stop = pos.stop /\ pos'.recon = pos.recon
    BY <1>0, <1>4 DEF Age, Rows
  <2> QED
    BY <2>1 DEF TrailInv
<1>5. ASSUME NEW quoted \in BOOLEAN, NEW sold \in BOOLEAN, Evaluate(quoted, sold)
      PROVE  TrailInv'
  <2> DEFINE price == IF quoted THEN market ELSE pos.entry
  <2>1. price \in Nat
    BY <1>0 DEF Rows
  <2>2. pos' = Updated(pos, price)
    BY <1>5 DEF Evaluate
  <2> HIDE DEF price
  <2>3. CASE pos.recon
    <3>1. pos'.entry = pos.entry /\ pos'.recon = FALSE
      BY <1>0, <2>2, <2>3 DEF Updated, Reanchored, Rows
    <3> QED
      BY <2>3, <3>1 DEF TrailInv
  <2>4. CASE ~pos.recon
    <3>1. /\ pos'.entry = pos.entry /\ ~pos'.recon
          /\ pos'.high # pos.high
               => pos'.stop >= Below(pos'.high, ActiveStop(pos'.entry, pos'.high))
          /\ pos'.high = pos.high => pos'.stop = pos.stop
      BY <1>0, <2>1, <2>2, <2>4, UpdatedRatchets
    <3> QED
      BY <3>1 DEF TrailInv
  <2> QED
    BY <2>3, <2>4
<1> QED
  BY <1>1, <1>2, <1>3, <1>4, <1>5 DEF Next

LEMMA TrailHolds == Spec => []TrailInv
<1>1. Init => TrailInv
  BY DEF Init, SyntheticRow, TrailInv
<1> QED
  BY <1>1, TrailNext, TypeCorrect, PTL DEF Spec

(* The stop of a position that has risen trails the highest price any      *)
(* cycle has seen by no more than the step that this price has reached.    *)
THEOREM StopsFollowPeak == Spec => []StopFollowsPeak
<1>1. TrailInv => StopFollowsPeak
  BY DEF TrailInv, StopFollowsPeak
<1> QED
  BY <1>1, TrailHolds, PTL

-----------------------------------------------------------------------------
(* A gain is kept.                                                         *)

(* A gain of profit pays for a stop of that width.                         *)
Pays(profit, stop) == (1000 + profit) * (1000 - stop) >= 1000000

(* A stop of that width below a peak with that gain is not below entry.    *)
Keeps(profit, stop) ==
    \A entry, high \in Nat : Gained(entry, high, profit) => Below(high, stop) >= entry * 1000

LEMMA GainPaysForStop ==
    ASSUME NEW profit \in Nat, NEW stop \in Pcts, Pays(profit, stop)
    PROVE  Keeps(profit, stop)
<1> SUFFICES ASSUME NEW entry \in Nat, NEW high \in Nat, Gained(entry, high, profit)
             PROVE  Below(high, stop) >= entry * 1000
  BY DEF Keeps
<1> DEFINE k == 1000 - stop
<1>1. k \in Nat
  BY DEF Pcts
<1>2. (1000 + profit) * entry <= 1000 * high
  BY DEF Gained
<1>3. (1000 + profit) * k >= 1000000
  BY DEF Pays
<1> HIDE DEF k
<1>4. ((1000 + profit) * entry) * k <= (1000 * high) * k
  BY <1>1, <1>2, TimesMonotone
<1>5. 1000000 * entry <= ((1000 + profit) * k) * entry
  BY <1>1, <1>3, TimesMonotone
<1>6. ((1000 + profit) * k) * entry = ((1000 + profit) * entry) * k
  BY <1>1
<1>7. (1000 * high) * k = 1000 * (high * k)
  BY <1>1
<1>8. 1000 * (entry * 1000) <= 1000 * (high * k)
  BY <1>1, <1>4, <1>5, <1>6, <1>7
<1>9. entry * 1000 <= high * k
  BY <1>1, <1>8, TimesCancels
<1> QED
  BY <1>1, <1>9 DEF Below, k

LEMMA TighterIsHigher ==
    ASSUME NEW high \in Nat, NEW stop \in Pcts, NEW tight \in Pcts, tight <= stop
    PROVE  Below(high, tight) >= Below(high, stop)
<1> DEFINE x == 1000 - stop
           y == 1000 - tight
<1>1. x \in Nat /\ y \in Nat /\ x <= y
  BY DEF Pcts
<1> HIDE DEF x, y
<1>2. high * y >= high * x
  BY <1>1, TimesMonotone
<1> QED
  BY <1>2 DEF Below, x, y

LEMMA ActiveStopKeepsGain ==
    ASSUME Pays(Step1Profit, Step1Stop), Pays(Step2Profit, Step2Stop),
           NEW entry \in Nat, NEW high \in Nat, entry # 0,
           Gained(entry, high, Step1Profit)
    PROVE  Below(high, ActiveStop(entry, high)) >= entry * 1000
<1>1. CASE Gained(entry, high, Step2Profit)
  <2> DEFINE a == Smaller(BaseStop, Step2Stop)
  <2>1. a \in Pcts /\ a <= Step2Stop
    BY SettingsType DEF Smaller, Pcts
  <2>2. ActiveStop(entry, high) = a
    BY <1>1 DEF ActiveStop
  <2> HIDE DEF a
  <2>3. Step2Stop \in Pcts /\ Keeps(Step2Profit, Step2Stop)
    BY SettingsType, GainPaysForStop
  <2>4. Below(high, a) \in Nat /\ Below(high, Step2Stop) \in Nat
    BY <2>1, <2>3, BelowType
  <2>5. Below(high, Step2Stop) >= entry * 1000
    BY <1>1, <2>3 DEF Keeps
  <2>6. Below(high, a) >= Below(high, Step2Stop)
    BY <2>1, <2>3, TighterIsHigher
  <2> QED
    BY <2>2, <2>4, <2>5, <2>6
<1>2. CASE ~Gained(entry, high, Step2Profit)
  <2> DEFINE a == Smaller(BaseStop, Step1Stop)
  <2>1. a \in Pcts /\ a <= Step1Stop
    BY SettingsType DEF Smaller, Pcts
  <2>2. ActiveStop(entry, high) = a
    BY <1>2 DEF ActiveStop
  <2> HIDE DEF a
  <2>3. Step1Stop \in Pcts /\ Keeps(Step1Profit, Step1Stop)
    BY SettingsType, GainPaysForStop
  <2>4. Below(high, a) \in Nat /\ Below(high, Step1Stop) \in Nat
    BY <2>1, <2>3, BelowType
  <2>5. Below(high, Step1Stop) >= entry * 1000
    BY <2>3 DEF Keeps
  <2>6. Below(high, a) >= Below(high, Step1Stop)
    BY <2>1, <2>3, TighterIsHigher
  <2> QED
    BY <2>2, <2>4, <2>5, <2>6
<1> QED
  BY <1>1, <1>2

(* When both steps of the trail pay for their stops, a position that has   *)
(* once reached the first is stopped out no lower than its entry.          *)
THEOREM GainsAreKept ==
    ASSUME Pays(Step1Profit, Step1Stop), Pays(Step2Profit, Step2Stop)
    PROVE  Spec => []GainKept
<1>1. ASSUME TypeOK, TrailInv, 0 < pos.entry, pos.entry < pos.high,
             Gained(pos.entry, pos.high, Step1Profit)
      PROVE  pos.stop >= pos.entry * 1000
  <2> DEFINE level == Below(pos.high, ActiveStop(pos.entry, pos.high))
  <2>1. pos.entry \in Nat /\ pos.high \in Nat /\ pos.stop \in Nat
    BY <1>1 DEF TypeOK, Rows
  <2>2. level \in Nat
    BY <2>1, ActiveStopType, BelowType
  <2>3. level >= pos.entry * 1000
    BY <1>1, <2>1, ActiveStopKeepsGain
  <2>4. pos.stop >= level
    BY <1>1 DEF TrailInv
  <2> QED
    BY <2>1, <2>2, <2>3, <2>4
<1>2. TypeOK /\ TrailInv => GainKept
  BY <1>1 DEF GainKept
<1> QED
  BY <1>2, TypeCorrect, TrailHolds, PTL
=============================================================================
