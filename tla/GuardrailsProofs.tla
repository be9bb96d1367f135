--------------------------- MODULE GuardrailsProofs ---------------------------
(***************************************************************************)
(* Theorems about Guardrails for every value of its constants.             *)
(***************************************************************************)
EXTENDS Guardrails, TLAPS

-----------------------------------------------------------------------------
(* Lemmas about the functions the Guardrails object is made of.            *)

Fields ==
    [date : Int, count : Nat, loss : Nat, streak : Nat, ath : Nat,
     kill : BOOLEAN, compDay : Int, pausedUntil : Moment]

LEMMA NeverIsMoment == Never \in Moment
  BY GuardrailsAssumption, SMT DEF Never, Moment

(* The in-memory fields after a restart have their types.                  *)
LEMMA LoadedType ==
  ASSUME NEW d \in PersistentFields
  PROVE  Loaded(d) \in Fields
  BY NeverIsMoment, SMT DEF PersistentFields, Loaded, Fields

LEMMA PersistentType ==
  ASSUME NEW m \in Fields
  PROVE  Persistent(m) \in PersistentFields
  BY SMT DEF PersistentFields, Persistent, Fields

LEMMA EmptyMemType == EmptyMem \in Fields
  BY NeverIsMoment, SMT DEF EmptyMem, Fields

(* A reset keeps the fields it does not name and types every field.        *)
LEMMA ResetDailyFacts ==
  ASSUME NEW m \in Fields, NEW date \in Int
  PROVE  /\ ResetDaily(m, date) \in Fields
         /\ ResetDaily(m, date).date = date
         /\ ResetDaily(m, date).kill = m.kill
         /\ ResetDaily(m, date).compDay = m.compDay
         /\ m.date = date => ResetDaily(m, date) = m
         /\ m.date # date => /\ ResetDaily(m, date).count = 0
                            /\ ResetDaily(m, date).loss = 0
<1>1. CASE m.date = date
  BY <1>1 DEF ResetDaily
<1>2. CASE m.date # date
  <2> DEFINE p == IF Later(m.pausedUntil, clock) THEN m.pausedUntil ELSE Never
  <2>1. p \in Moment
    BY NeverIsMoment DEF Fields
  <2> HIDE DEF p
  <2>2. [m EXCEPT !.date = date, !.count = 0, !.loss = 0, !.pausedUntil = p] \in Fields
    BY <2>1 DEF Fields
  <2>3. ResetDaily(m, date)
          = [m EXCEPT !.date = date, !.count = 0, !.loss = 0, !.pausedUntil = p]
    BY <1>2 DEF ResetDaily, p
  <2> QED
    BY <1>2, <2>2, <2>3 DEF Fields
<1> QED
  BY <1>1, <1>2

(* n is m after a trade of that side and loss was recorded under date.     *)
Recorded(m, n, side, loss, date) ==
    /\ n \in Fields
    /\ n.date = date /\ n.compDay = m.compDay /\ n.kill = m.kill
    /\ n.loss = ResetDaily(m, date).loss + loss
    /\ n.count = IF side = "buy" THEN ResetDaily(m, date).count + 1
                                 ELSE ResetDaily(m, date).count

LEMMA RecordTradeFacts ==
  ASSUME NEW m \in Fields, NEW date \in Int, NEW side \in {"buy", "sell"},
         NEW loss \in Nat, NEW value \in Nat, <<day + 1, tick>> \in Moment
  PROVE  Recorded(m, RecordTrade(m, side, loss, value, date), side, loss, date)
<1> DEFINE m1 == ResetDaily(m, date)
           c  == IF side = "buy" THEN m1.count + 1 ELSE m1.count
           l  == m1.loss + loss
           m2 == [m1 EXCEPT !.count = c, !.loss = l]
           p  == IF LossLimitHit(m2, value) THEN <<day + 1, tick>> ELSE m2.pausedUntil
           n  == [m2 EXCEPT !.pausedUntil = p]
<1>1. m1 \in Fields /\ m1.date = date /\ m1.kill = m.kill /\ m1.compDay = m.compDay
  BY ResetDailyFacts
<1>2. RecordTrade(m, side, loss, value, date) = n
  BY DEF RecordTrade
<1>3. c \in Nat /\ l \in Nat
  BY <1>1 DEF Fields
<1>4. c = (IF side = "buy" THEN m1.count + 1 ELSE m1.count) /\ l = m1.loss + loss
  OBVIOUS
<1> HIDE DEF m1, c, l
<1>5. m2 \in Fields
  BY <1>1, <1>3 DEF Fields
<1>6. /\ m2.date = m1.date /\ m2.count = c /\ m2.loss = l /\ m2.compDay = m1.compDay
      /\ m2.kill = m1.kill
  BY <1>1 DEF Fields
<1> HIDE DEF m2
<1>7. p \in Moment
  BY <1>5 DEF Fields
<1> HIDE DEF p
<1>8. n \in Fields
  BY <1>5, <1>7 DEF Fields
<1>9. /\ n.date = m2.date /\ n.count = m2.count /\ n.loss = m2.loss
      /\ n.compDay = m2.compDay /\ n.kill = m2.kill
  BY <1>5 DEF Fields
<1> HIDE DEF n
<1> QED
  BY <1>1, <1>2, <1>4, <1>6, <1>8, <1>9 DEF m1, Recorded

-----------------------------------------------------------------------------
(* Types.                                                                  *)

Histories ==
    [loss : Nat, buys : Nat, lostBuys : Nat, comps : Nat, lostComps : Nat,
     traded : BOOLEAN, straddled : BOOLEAN, killed : BOOLEAN,
     pauseUntil : Moment, losers : Nat, faults : Nat]

Cycles == [value : Nat, regime : Regimes, allowed : BOOLEAN, ticks : Nat]

LEMMA ClockFacts ==
  ASSUME TypeOK
  PROVE  <<day + 1, tick>> \in Moment /\ LocalDay \in Int
  BY GuardrailsAssumption DEF TypeOK, Moment, LocalDay

LEMMA NoCycleType == NoCycle \in Cycles
<1>1. PICK regime \in Regimes : TRUE
  BY GuardrailsAssumption
<1>2. (CHOOSE r \in Regimes : TRUE) \in Regimes
  BY <1>1
<1> QED
  BY <1>2 DEF NoCycle, Cycles

(* What Save leaves in memory and on disk.                                 *)
LEMMA SaveFacts ==
  ASSUME NEW m \in Fields, Save(m)
  PROVE  /\ mem' = m /\ mem' \in Fields
         /\ disk' \in PersistentFields
         /\ disk' = Persistent(mem')
         /\ disk'.date = m.date /\ disk'.count = m.count /\ disk'.loss = m.loss
         /\ disk'.compDay = m.compDay /\ disk'.kill = m.kill
  BY PersistentType DEF Save, Persistent

(* What evaluate stores.                                                   *)
LEMMA UpdateAthFacts ==
  ASSUME NEW m \in Fields, NEW value \in Nat, NEW killed \in BOOLEAN
  PROVE  LET n == [UpdateAth(m, value) EXCEPT !.kill = @ \/ killed]
         IN  /\ n \in Fields
             /\ n.date = m.date /\ n.count = m.count
             /\ n.loss = m.loss /\ n.compDay = m.compDay
             /\ n.kill = (m.kill \/ killed)
<1> DEFINE a == IF value > m.ath THEN value ELSE m.ath
           m1 == [m EXCEPT !.ath = a]
<1>1. a \in Nat
  BY DEF Fields
<1>2. UpdateAth(m, value) = m1
  BY DEF UpdateAth
<1> HIDE DEF a
<1>3. m1 \in Fields
  BY <1>1 DEF Fields
<1>4. m1.date = m.date /\ m1.count = m.count /\ m1.loss = m.loss /\ m1.compDay = m.compDay
  BY <1>1 DEF Fields
<1>5. m1.kill = m.kill
  BY <1>1 DEF Fields
<1> HIDE DEF m1
<1> DEFINE k == m1.kill \/ killed
           n == [m1 EXCEPT !.kill = k]
<1>6. k \in BOOLEAN
  BY <1>3 DEF Fields
<1>7. k = (m.kill \/ killed)
  BY <1>5
<1>8. [UpdateAth(m, value) EXCEPT !.kill = @ \/ killed] = n
  BY <1>2
<1> HIDE DEF k
<1>9. n \in Fields
  BY <1>3, <1>6 DEF Fields
<1>10. n.date = m1.date /\ n.count = m1.count /\ n.loss = m1.loss /\ n.compDay = m1.compDay
  BY <1>3 DEF Fields
<1>11. n.kill = k
  BY <1>3 DEF Fields
<1> HIDE DEF n
<1> QED
  BY <1>4, <1>7, <1>8, <1>9, <1>10, <1>11

LEMMA RecordTradeResultFacts ==
  ASSUME NEW m \in Fields, NEW pct \in Int
  PROVE  LET n == RecordTradeResult(m, pct)
         IN  /\ n \in Fields
             /\ n.date = m.date /\ n.count = m.count
             /\ n.loss = m.loss /\ n.compDay = m.compDay
             /\ n.kill = m.kill
<1> DEFINE s == IF pct < -5 THEN m.streak + 1 ELSE IF pct > 0 THEN 0 ELSE m.streak
           n == [m EXCEPT !.streak = s]
<1>1. s \in Nat
  BY DEF Fields
<1>2. RecordTradeResult(m, pct) = n
  BY DEF RecordTradeResult
<1> HIDE DEF s
<1>3. n \in Fields
  BY <1>1 DEF Fields
<1>4. n.date = m.date /\ n.count = m.count /\ n.loss = m.loss /\ n.compDay = m.compDay
  BY DEF Fields
<1>5. n.kill = m.kill
  BY DEF Fields
<1> HIDE DEF n
<1> QED
  BY <1>2, <1>3, <1>4, <1>5

LEMMA RecordComplianceTradeFacts ==
  ASSUME NEW m \in Fields, NEW date \in Int
  PROVE  LET n == RecordComplianceTrade(m, date)
         IN  /\ n \in Fields
             /\ n.date = date /\ n.compDay = date
             /\ n.count = ResetDaily(m, date).count + 1
             /\ n.loss = ResetDaily(m, date).loss
             /\ n.kill = m.kill
<1> DEFINE m1 == ResetDaily(m, date)
           c  == m1.count + 1
           n  == [m1 EXCEPT !.count = c, !.compDay = date]
<1>1. m1 \in Fields /\ m1.date = date /\ m1.kill = m.kill
  BY ResetDailyFacts
<1>2. RecordComplianceTrade(m, date) = n
  BY DEF RecordComplianceTrade
<1> HIDE DEF m1
<1>3. c \in Nat /\ c = m1.count + 1
  BY <1>1 DEF Fields
<1> HIDE DEF c
<1>4. n \in Fields
  BY <1>1, <1>3 DEF Fields
<1>5. n.date = m1.date /\ n.count = c /\ n.loss = m1.loss /\ n.compDay = date
  BY <1>1, <1>3 DEF Fields
<1>6. n.kill = m1.kill
  BY <1>1 DEF Fields
<1> HIDE DEF n
<1> QED
  BY <1>1, <1>2, <1>3, <1>4, <1>5, <1>6 DEF m1
(* Every step keeps every variable in its type.                            *)
LEMMA TypeStep == TypeOK /\ [Next]_vars => TypeOK'
<1> SUFFICES ASSUME TypeOK, [Next]_vars PROVE TypeOK'
  OBVIOUS
<1> USE DEF Fields, Cycles, Histories
<1>0. /\ day \in Nat /\ tick \in 0 .. DayLen - 1
      /\ mem \in Fields /\ disk \in PersistentFields /\ torn \in BOOLEAN
      /\ cycle \in Cycles /\ open \in Nat /\ stamp \in Nat /\ hist \in Histories
      /\ <<day + 1, tick>> \in Moment /\ LocalDay \in Int
      /\ NoCycle \in Cycles /\ EmptyMem \in Fields
  BY ClockFacts, NoCycleType, EmptyMemType DEF TypeOK
<1> HIDE DEF Fields, Cycles, Histories
<1> USE DEF TypeOK, vars
<1>1. CASE Start
  <2>1. Loaded(disk) \in Fields
    BY <1>0, LoadedType
  <2>2. ResetDaily(Loaded(disk), day) \in Fields
    BY <1>0, <2>1, ResetDailyFacts
  <2> QED
    BY <1>1, <2>2, SaveFacts DEF Start, Fields
<1>2. CASE Evaluate
  <2>1. PICK value \in Values, regime \in Regimes, fragile \in BOOLEAN :
          LET m == UpdateAth(ResetDaily(mem, day), value)
              state == RiskState(m, value, fragile)
              killed == state = "KILL_SWITCH"
          IN  /\ Save([m EXCEPT !.kill = @ \/ killed])
              /\ cycle' = [value |-> value, regime |-> regime, ticks |-> 0,
                           allowed |-> RiskAllowsNewEntries(m, state, regime)]
              /\ IF killed
                 THEN /\ phase' = "comp"
                      /\ open' \in 0 .. open
                      /\ hist' = [hist EXCEPT !.killed = TRUE]
                 ELSE phase' = "exits" /\ UNCHANGED <<open, hist>>
    BY <1>2 DEF Evaluate
  <2> DEFINE m == UpdateAth(ResetDaily(mem, day), value)
             state == RiskState(m, value, fragile)
             killed == state = "KILL_SWITCH"
             allowed == RiskAllowsNewEntries(m, state, regime)
  <2>2. value \in Nat
    BY GuardrailsAssumption
  <2>3. [m EXCEPT !.kill = @ \/ killed] \in Fields
    <3>1. ResetDaily(mem, day) \in Fields
      BY <1>0, ResetDailyFacts
    <3>2. killed \in BOOLEAN
      OBVIOUS
    <3> HIDE DEF state
    <3> QED
      BY <2>2, <3>1, <3>2, UpdateAthFacts
  <2>4. mem' \in Fields /\ disk' \in PersistentFields
    BY <2>1, <2>3, SaveFacts
  <2>5. allowed \in BOOLEAN
    BY DEF RiskAllowsNewEntries
  <2>6. cycle' \in Cycles
    BY <2>1, <2>2, <2>5 DEF Cycles
  <2>7. phase' \in {"comp", "exits"} /\ open' \in Nat
    BY <1>0, <2>1
  <2>8. hist' \in Histories
    BY <1>0, <2>1 DEF Histories
  <2> QED
    BY <1>2, <2>4, <2>6, <2>7, <2>8 DEF Evaluate, Fields, Cycles, Histories
<1>3. CASE RecordExit
  <2>1. PICK loss \in Losses :
          LET m == RecordTrade(mem, "sell", loss, cycle.value, LocalDay)
          IN  /\ Save(m)
              /\ hist' = [hist EXCEPT !.loss = @ + loss,
                              !.losers = IF loss = 0 THEN 0
                                         ELSE IF @ < StreakPause THEN @ + 1 ELSE @,
                              !.pauseUntil = IF m.pausedUntil = <<day + 1, tick>>
                                             THEN m.pausedUntil ELSE @]
    BY <1>3 DEF RecordExit
  <2> DEFINE m == RecordTrade(mem, "sell", loss, cycle.value, LocalDay)
             losers == IF loss = 0 THEN 0
                       ELSE IF hist.losers < StreakPause THEN hist.losers + 1 ELSE hist.losers
             total == hist.loss + loss
             until == IF m.pausedUntil = <<day + 1, tick>> THEN m.pausedUntil ELSE hist.pauseUntil
  <2>2. loss \in Nat /\ cycle.value \in Nat
    BY <1>0, GuardrailsAssumption DEF Cycles
  <2>3. m \in Fields
    BY <1>0, <2>2, RecordTradeFacts DEF Recorded
  <2>4. mem' \in Fields /\ disk' \in PersistentFields
    BY <2>1, <2>3, SaveFacts
  <2>5. losers \in Nat /\ total \in Nat /\ until \in Moment
    BY <1>0, <2>2, GuardrailsAssumption DEF Histories
  <2>6. hist' = [hist EXCEPT !.loss = total, !.losers = losers, !.pauseUntil = until]
    BY <2>1
  <2> HIDE DEF losers, total, until
  <2>7. hist' \in Histories
    BY <1>0, <2>5, <2>6 DEF Histories
  <2> QED
    BY <1>0, <1>3, <2>4, <2>7 DEF RecordExit, Fields, Histories
<1>4. CASE ExitsDone \/ NoEntry
  BY <1>4 DEF ExitsDone, NoEntry
<1>5. CASE ValidateRaises
  <2>1. ResetDaily(mem, day) \in Fields
    BY <1>0, ResetDailyFacts
  <2>2. disk' \in PersistentFields
    BY <1>5, <2>1, PersistentType DEF ValidateRaises
  <2>3. hist' \in Histories
    <3> DEFINE n1 == hist.faults + 1
    <3>1. hist' = [hist EXCEPT !.faults = n1]
      BY <1>5 DEF ValidateRaises
    <3>2. n1 \in Nat
      BY <1>0 DEF Histories
    <3> HIDE DEF n1
    <3> QED
      BY <1>0, <3>1, <3>2 DEF Histories
  <2> QED
    BY <1>0, <1>5, <2>2, <2>3 DEF ValidateRaises, Die, Fields, Cycles, Histories
<1>6. CASE SubmitEntry
  <2>1. ResetDaily(mem, day) \in Fields
    BY <1>0, ResetDailyFacts
  <2>2. mem' \in Fields /\ disk' \in PersistentFields
    BY <1>6, <2>1, SaveFacts DEF SubmitEntry
  <2>3. hist' \in Histories
    <3> DEFINE n1 == hist.buys + 1
               n2 == TRUE
    <3>1. hist' = [hist EXCEPT !.buys = n1, !.traded = n2]
      BY <1>6 DEF SubmitEntry
    <3>2. n1 \in Nat /\ n2 \in BOOLEAN
      BY <1>0 DEF Histories
    <3> HIDE DEF n1, n2
    <3> QED
      BY <1>0, <3>1, <3>2 DEF Histories
  <2> QED
    BY <1>6, <2>2, <2>3 DEF SubmitEntry, Fields, Histories
<1>7. CASE RecordEntry
  <2> DEFINE m == RecordTrade(mem, "buy", 0, cycle.value, day)
  <2>1. m \in Fields
    <3>1. cycle.value \in Nat /\ 0 \in Nat /\ day \in Int
      BY <1>0 DEF Cycles
    <3> QED
      BY <1>0, <3>1, RecordTradeFacts DEF Recorded
  <2>2. RecordTradeResult(m, 0) \in Fields
    BY <2>1, RecordTradeResultFacts
  <2>3. mem' \in Fields /\ disk' \in PersistentFields
    BY <1>7, <2>2, SaveFacts DEF RecordEntry
  <2>4. hist' \in Histories
    <3> DEFINE n1 == hist.straddled \/ stamp # day
    <3>1. hist' = [hist EXCEPT !.straddled = n1]
      BY <1>7 DEF RecordEntry
    <3>2. n1 \in BOOLEAN
      BY <1>0 DEF Histories
    <3> HIDE DEF n1
    <3> QED
      BY <1>0, <3>1, <3>2 DEF Histories
  <2> QED
    BY <1>0, <1>7, <2>3, <2>4 DEF RecordEntry, EndCycle, Fields, Cycles, Histories
<1>8. CASE ComplianceDeclined \/ ComplianceFailed
  BY <1>0, <1>8 DEF ComplianceDeclined, ComplianceFailed, EndCycle, Cycles
<1>9. CASE SubmitCompliance
  <2>1. hist' \in Histories
    <3> DEFINE n1 == hist.comps + 1
               n2 == TRUE
    <3>1. hist' = [hist EXCEPT !.comps = n1, !.traded = n2]
      BY <1>9 DEF SubmitCompliance
    <3>2. n1 \in Nat /\ n2 \in BOOLEAN
      BY <1>0 DEF Histories
    <3> HIDE DEF n1, n2
    <3> QED
      BY <1>0, <3>1, <3>2 DEF Histories
  <2> QED
    BY <1>9, <2>1 DEF SubmitCompliance, Histories
<1>10. CASE RecordCompliance
  <2>1. RecordComplianceTrade(mem, stamp) \in Fields
    BY <1>0, RecordComplianceTradeFacts
  <2>2. mem' \in Fields /\ disk' \in PersistentFields
    BY <1>10, <2>1, SaveFacts DEF RecordCompliance
  <2> QED
    BY <1>0, <1>10, <2>2 DEF RecordCompliance, EndCycle, Fields, Cycles
<1>11. CASE Crash
  <2>1. hist' \in Histories
    <3> DEFINE n1 == hist.faults + 1
               n2 == IF phase = "bought" /\ stamp = day THEN hist.lostBuys + 1 ELSE hist.lostBuys
               n3 == IF phase = "compSwapped" /\ stamp = day THEN hist.lostComps + 1 ELSE hist.lostComps
    <3>1. hist' = [hist EXCEPT !.faults = n1, !.lostBuys = n2, !.lostComps = n3]
      BY <1>11 DEF Crash
    <3>2. n1 \in Nat /\ n2 \in Nat /\ n3 \in Nat
      BY <1>0 DEF Histories
    <3> HIDE DEF n1, n2, n3
    <3> QED
      BY <1>0, <3>1, <3>2 DEF Histories
  <2>2. open' \in Nat /\ torn' \in BOOLEAN
    <3>1. open' \in {open, open + 1} /\ torn' \in BOOLEAN
      BY <1>11 DEF Crash
    <3> QED
      BY <1>0, <3>1
  <2> QED
    BY <1>0, <1>11, <2>1, <2>2 DEF Crash, Die, Fields, Cycles, Histories
<1>12. CASE Tick
  <2>1. hist' \in Histories
    <3> DEFINE reset == [hist EXCEPT !.loss = 0, !.buys = 0, !.lostBuys = 0,
                              !.comps = 0, !.lostComps = 0,
                              !.traded = FALSE, !.straddled = FALSE]
    <3>1. reset \in Histories
      BY <1>0 DEF Histories
    <3>2. hist' \in {hist, reset}
      BY <1>12 DEF Tick
    <3> QED
      BY <1>0, <3>1, <3>2
  <2>2. cycle' \in Cycles
    BY <1>0, <1>12 DEF Tick, Cycles
  <2>3. day' \in Nat /\ tick' \in 0 .. DayLen - 1
    BY <1>0, <1>12, GuardrailsAssumption DEF Tick
  <2> QED
    BY <1>12, <2>1, <2>2, <2>3 DEF Tick, Cycles, Histories
<1>13. CASE EntryUnreported
  <2>1. hist' \in Histories
    <3> DEFINE n1 == hist.faults + 1
               n2 == IF stamp = day THEN hist.lostBuys + 1 ELSE hist.lostBuys
    <3>1. hist' = [hist EXCEPT !.faults = n1, !.lostBuys = n2]
      BY <1>13 DEF EntryUnreported
    <3>2. n1 \in Nat /\ n2 \in Nat
      BY <1>0 DEF Histories
    <3> HIDE DEF n1, n2
    <3> QED
      BY <1>0, <3>1, <3>2 DEF Histories
  <2> QED
    BY <1>13, <2>1 DEF EntryUnreported, Histories
<1>14. CASE ComplianceUnreported
  <2>1. hist' \in Histories
    <3> DEFINE n1 == hist.faults + 1
               n2 == IF stamp = day THEN hist.lostComps + 1 ELSE hist.lostComps
    <3>1. hist' = [hist EXCEPT !.faults = n1, !.lostComps = n2]
      BY <1>14 DEF ComplianceUnreported
    <3>2. n1 \in Nat /\ n2 \in Nat
      BY <1>0 DEF Histories
    <3> HIDE DEF n1, n2
    <3> QED
      BY <1>0, <3>1, <3>2 DEF Histories
  <2> QED
    BY <1>0, <1>14, <2>1 DEF ComplianceUnreported, EndCycle, Cycles, Histories
<1>15. CASE UNCHANGED vars
  BY <1>15
<1> QED
  BY <1>1, <1>2, <1>3, <1>4, <1>5, <1>6, <1>7, <1>8, <1>9, <1>10, <1>11, <1>12, <1>13,
     <1>14, <1>15 DEF Next

LEMMA InitTypeOK == Init => TypeOK
<1> SUFFICES ASSUME Init PROVE TypeOK
  OBVIOUS
<1>1. mem \in Fields /\ disk \in PersistentFields /\ cycle \in Cycles
  BY EmptyMemType, PersistentType, NoCycleType DEF Init
<1>2. hist \in Histories
  BY NeverIsMoment DEF Init, NoHistory, Histories
<1>3. day \in Nat /\ tick \in 0 .. DayLen - 1
  BY GuardrailsAssumption DEF Init
<1> QED
  BY <1>1, <1>2, <1>3 DEF Init, TypeOK, Fields, Cycles, Histories

(* The types of the variables hold in every reachable state.               *)
THEOREM TypeCorrect == Spec => []TypeOK
  BY InitTypeOK, TypeStep, PTL DEF Spec

-----------------------------------------------------------------------------
(* What each step does to the guardrail file and to the history, given     *)
(* that a running process holds in memory what the file says.              *)

Synced == Running => disk = Persistent(mem)

CountOn(date) == IF disk.date = date THEN disk.count ELSE 0
LossOn(date)  == IF disk.date = date THEN disk.loss ELSE 0

(* A reset seen through the file it is saved to.                           *)
LEMMA ResetSeen ==
  ASSUME NEW m \in Fields, NEW date \in Int, TypeOK,
         m.date = disk.date, m.count = disk.count, m.loss = disk.loss,
         m.compDay = disk.compDay, m.kill = disk.kill
  PROVE  LET n == ResetDaily(m, date)
         IN  /\ n \in Fields
             /\ n.date = date /\ n.count = CountOn(date) /\ n.loss = LossOn(date)
             /\ n.compDay = disk.compDay /\ n.kill = disk.kill
  BY ResetDailyFacts DEF CountOn, LossOn

(* Memory seen through the file.                                           *)
LEMMA MemSeen ==
  ASSUME TypeOK, Synced, Running
  PROVE  /\ mem \in Fields
         /\ mem.date = disk.date /\ mem.count = disk.count /\ mem.loss = disk.loss
         /\ mem.compDay = disk.compDay /\ mem.kill = disk.kill
  BY DEF TypeOK, Synced, Persistent, Fields

LEMMA StartFacts ==
  ASSUME TypeOK, Start
  PROVE  /\ Synced'
         /\ disk'.date = day /\ disk'.count = CountOn(day) /\ disk'.loss = LossOn(day)
         /\ disk'.compDay = disk.compDay /\ disk'.kill = disk.kill
         /\ UNCHANGED <<day, stamp, hist>> /\ phase # "bought" /\ phase # "compSwapped"
         /\ phase' = "top"
<1> DEFINE m == Loaded(disk)
<1>1. m \in Fields
  BY LoadedType DEF TypeOK
<1>2. /\ m.date = disk.date /\ m.count = disk.count /\ m.loss = disk.loss
      /\ m.compDay = disk.compDay /\ m.kill = disk.kill
  BY DEF Loaded
<1>3. Save(ResetDaily(m, day)) /\ day \in Int
  BY DEF Start, TypeOK
<1> HIDE DEF m
<1> DEFINE n == ResetDaily(m, day)
<1>4. /\ n \in Fields
      /\ n.date = day /\ n.count = CountOn(day) /\ n.loss = LossOn(day)
      /\ n.compDay = disk.compDay /\ n.kill = disk.kill
  BY <1>1, <1>2, <1>3, ResetSeen
<1>5. Save(n)
  BY <1>3
<1> HIDE DEF n
<1>6. /\ disk' = Persistent(mem')
      /\ disk'.date = n.date /\ disk'.count = n.count /\ disk'.loss = n.loss
      /\ disk'.compDay = n.compDay /\ disk'.kill = n.kill
  BY <1>4, <1>5, SaveFacts
<1>7. UNCHANGED <<day, stamp, hist>> /\ phase' = "top"
  BY DEF Start
<1>8. phase # "bought" /\ phase # "compSwapped"
  BY DEF Start, Running
<1> QED
  BY <1>4, <1>6, <1>7, <1>8 DEF Synced

LEMMA EvaluateFacts ==
  ASSUME TypeOK, Synced, Evaluate
  PROVE  /\ Synced'
         /\ disk'.date = day /\ disk'.count = CountOn(day) /\ disk'.loss = LossOn(day)
         /\ disk'.compDay = disk.compDay
         /\ disk.kill => disk'.kill
         /\ hist'.killed => hist.killed \/ disk'.kill
         /\ UNCHANGED <<day, stamp>>
         /\ hist'.loss = hist.loss /\ hist'.buys = hist.buys /\ hist'.lostBuys = hist.lostBuys
         /\ hist'.comps = hist.comps /\ hist'.lostComps = hist.lostComps
         /\ phase = "top" /\ phase' \in {"comp", "exits"}
<1>1. PICK value \in Values, regime \in Regimes, fragile \in BOOLEAN :
        LET m == UpdateAth(ResetDaily(mem, day), value)
            state == RiskState(m, value, fragile)
            killed == state = "KILL_SWITCH"
        IN  /\ Save([m EXCEPT !.kill = @ \/ killed])
            /\ IF killed
               THEN /\ phase' = "comp"
                    /\ hist' = [hist EXCEPT !.killed = TRUE]
               ELSE phase' = "exits" /\ UNCHANGED hist
  BY DEF Evaluate
<1> DEFINE r == ResetDaily(mem, day)
           killed == RiskState(UpdateAth(r, value), value, fragile) = "KILL_SWITCH"
           n == [UpdateAth(r, value) EXCEPT !.kill = @ \/ killed]
<1>2. Running /\ day \in Int /\ value \in Nat /\ killed \in BOOLEAN
  BY GuardrailsAssumption DEF Evaluate, Running, TypeOK
<1>3. /\ r \in Fields
      /\ r.date = day /\ r.count = CountOn(day) /\ r.loss = LossOn(day)
      /\ r.compDay = disk.compDay /\ r.kill = disk.kill
  BY <1>2, MemSeen, ResetSeen
<1>4. /\ Save(n)
      /\ \/ killed /\ phase' = "comp" /\ hist' = [hist EXCEPT !.killed = TRUE]
         \/ ~killed /\ phase' = "exits" /\ UNCHANGED hist
  BY <1>1
<1> HIDE DEF r, killed
<1>5. /\ n \in Fields
      /\ n.date = r.date /\ n.count = r.count /\ n.loss = r.loss /\ n.compDay = r.compDay
      /\ n.kill = (r.kill \/ killed)
  BY <1>2, <1>3, UpdateAthFacts
<1> HIDE DEF n
<1>6. /\ disk' = Persistent(mem')
      /\ disk'.date = n.date /\ disk'.count = n.count /\ disk'.loss = n.loss
      /\ disk'.compDay = n.compDay /\ disk'.kill = n.kill
  BY <1>4, <1>5, SaveFacts
<1>7. disk'.kill = (disk.kill \/ killed)
  BY <1>3, <1>5, <1>6
<1>8. /\ hist'.loss = hist.loss /\ hist'.buys = hist.buys /\ hist'.lostBuys = hist.lostBuys
      /\ hist'.comps = hist.comps /\ hist'.lostComps = hist.lostComps
  BY <1>4 DEF TypeOK
<1>9. hist'.killed => hist.killed \/ killed
  BY <1>4 DEF TypeOK
<1>10. phase = "top" /\ phase' \in {"comp", "exits"} /\ UNCHANGED <<day, stamp>>
  BY <1>4 DEF Evaluate
<1> QED
  BY <1>3, <1>5, <1>6, <1>7, <1>8, <1>9, <1>10 DEF Synced

LEMMA RecordExitFacts ==
  ASSUME TypeOK, Synced, RecordExit
  PROVE  /\ Synced'
         /\ \E loss \in Nat : /\ disk'.loss = LossOn(LocalDay) + loss
                             /\ hist'.loss = hist.loss + loss
         /\ disk'.date = LocalDay /\ disk'.count = CountOn(LocalDay)
         /\ disk'.compDay = disk.compDay /\ disk'.kill = disk.kill
         /\ hist'.killed = hist.killed
         /\ hist'.buys = hist.buys /\ hist'.lostBuys = hist.lostBuys
         /\ hist'.comps = hist.comps /\ hist'.lostComps = hist.lostComps
         /\ UNCHANGED <<day, stamp, phase>> /\ phase = "exits"
<1>1. PICK loss \in Losses :
        LET m == RecordTrade(mem, "sell", loss, cycle.value, LocalDay)
        IN  /\ Save(m)
            /\ hist' = [hist EXCEPT !.loss = @ + loss,
                            !.losers = IF loss = 0 THEN 0
                                       ELSE IF @ < StreakPause THEN @ + 1 ELSE @,
                            !.pauseUntil = IF m.pausedUntil = <<day + 1, tick>>
                                           THEN m.pausedUntil ELSE @]
  BY DEF RecordExit
<1> DEFINE m == RecordTrade(mem, "sell", loss, cycle.value, LocalDay)
           r == ResetDaily(mem, LocalDay)
<1>2. /\ Running /\ loss \in Nat /\ cycle.value \in Nat
      /\ LocalDay \in Int /\ <<day + 1, tick>> \in Moment
  BY GuardrailsAssumption, ClockFacts DEF RecordExit, Running, TypeOK
<1>3. /\ mem \in Fields /\ r \in Fields
      /\ r.count = CountOn(LocalDay) /\ r.loss = LossOn(LocalDay)
      /\ mem.compDay = disk.compDay /\ mem.kill = disk.kill
  BY <1>2, MemSeen, ResetSeen
<1>4. /\ m \in Fields /\ m.date = LocalDay /\ m.count = r.count /\ m.loss = r.loss + loss
      /\ m.compDay = mem.compDay /\ m.kill = mem.kill
  <2>1. "sell" \in {"buy", "sell"} /\ "sell" # "buy"
    OBVIOUS
  <2>2. Recorded(mem, m, "sell", loss, LocalDay)
    BY <1>2, <1>3, <2>1, RecordTradeFacts
  <2> HIDE DEF m
  <2> QED
    BY <2>1, <2>2 DEF Recorded
<1>5. Save(m)
  BY <1>1
<1> HIDE DEF m, r
<1>6. /\ disk' = Persistent(mem')
      /\ disk'.date = m.date /\ disk'.count = m.count /\ disk'.loss = m.loss
      /\ disk'.compDay = m.compDay /\ disk'.kill = m.kill
  BY <1>4, <1>5, SaveFacts
<1>7. /\ hist'.loss = hist.loss + loss
      /\ hist'.buys = hist.buys /\ hist'.lostBuys = hist.lostBuys
      /\ hist'.comps = hist.comps /\ hist'.lostComps = hist.lostComps
  BY <1>1 DEF TypeOK
<1>8. hist'.killed = hist.killed
  BY <1>1 DEF TypeOK
<1>9. UNCHANGED <<day, stamp, phase>> /\ phase = "exits"
  BY DEF RecordExit
<1>10. disk'.loss = LossOn(LocalDay) + loss
  BY <1>3, <1>4, <1>6
<1>11. \E l \in Nat : disk'.loss = LossOn(LocalDay) + l /\ hist'.loss = hist.loss + l
  BY <1>2, <1>7, <1>10
<1> QED
  BY <1>3, <1>4, <1>6, <1>7, <1>8, <1>9, <1>11 DEF Synced

(* ValidateRaises and SubmitEntry both reset before they validate.         *)
LEMMA ValidateFacts ==
  ASSUME TypeOK, Synced, phase = "entry"
  PROVE  LET n == ResetDaily(mem, day)
         IN  /\ n \in Fields
             /\ n.date = day /\ n.count = CountOn(day) /\ n.loss = LossOn(day)
             /\ n.compDay = disk.compDay /\ n.kill = disk.kill
<1>1. Running /\ day \in Int
  BY DEF Running, TypeOK
<1> QED
  BY <1>1, MemSeen, ResetSeen

LEMMA ValidateRaisesFacts ==
  ASSUME TypeOK, Synced, ValidateRaises
  PROVE  /\ Synced'
         /\ disk'.date = day /\ disk'.count = CountOn(day) /\ disk'.loss = LossOn(day)
         /\ disk'.compDay = disk.compDay /\ disk'.kill = disk.kill
         /\ hist'.killed = hist.killed /\ hist'.loss = hist.loss
         /\ hist'.buys = hist.buys /\ hist'.lostBuys = hist.lostBuys
         /\ hist'.comps = hist.comps /\ hist'.lostComps = hist.lostComps
         /\ day' = day /\ stamp' = 0 /\ phase = "entry" /\ phase' = "raised"
<1> DEFINE n == ResetDaily(mem, day)
<1>1. phase = "entry" /\ phase' = "raised" /\ day' = day /\ stamp' = 0
  BY DEF ValidateRaises, Die
<1>2. /\ n \in Fields
      /\ n.date = day /\ n.count = CountOn(day) /\ n.loss = LossOn(day)
      /\ n.compDay = disk.compDay /\ n.kill = disk.kill
  BY <1>1, ValidateFacts
<1>3. disk' = Persistent(n)
  BY DEF ValidateRaises
<1> HIDE DEF n
<1>4. /\ disk'.date = n.date /\ disk'.count = n.count /\ disk'.loss = n.loss
      /\ disk'.compDay = n.compDay /\ disk'.kill = n.kill
  BY <1>3 DEF Persistent
<1>5. hist' = [hist EXCEPT !.faults = hist.faults + 1]
  BY DEF ValidateRaises
<1>6. /\ hist'.loss = hist.loss /\ hist'.buys = hist.buys /\ hist'.lostBuys = hist.lostBuys
      /\ hist'.comps = hist.comps /\ hist'.lostComps = hist.lostComps
  BY <1>5 DEF TypeOK
<1>7. hist'.killed = hist.killed
  BY <1>5 DEF TypeOK
<1>8. Synced'
  BY <1>1 DEF Synced, Running
<1> QED
  BY <1>1, <1>2, <1>4, <1>6, <1>7, <1>8

LEMMA SubmitEntryFacts ==
  ASSUME TypeOK, Synced, SubmitEntry
  PROVE  /\ Synced'
         /\ disk'.date = day /\ disk'.count = CountOn(day) /\ disk'.loss = LossOn(day)
         /\ disk'.compDay = disk.compDay /\ disk'.kill = disk.kill
         /\ hist'.killed = hist.killed /\ hist'.loss = hist.loss
         /\ hist'.buys = hist.buys + 1 /\ hist'.lostBuys = hist.lostBuys
         /\ hist'.comps = hist.comps /\ hist'.lostComps = hist.lostComps
         /\ day' = day /\ stamp' = day /\ phase = "entry" /\ phase' = "bought"
<1> DEFINE n == ResetDaily(mem, day)
<1>1. phase = "entry" /\ phase' = "bought" /\ day' = day /\ stamp' = day
  BY DEF SubmitEntry
<1>2. /\ n \in Fields
      /\ n.date = day /\ n.count = CountOn(day) /\ n.loss = LossOn(day)
      /\ n.compDay = disk.compDay /\ n.kill = disk.kill
  BY <1>1, ValidateFacts
<1>3. Save(n)
  BY DEF SubmitEntry
<1> HIDE DEF n
<1>4. /\ disk' = Persistent(mem')
      /\ disk'.date = n.date /\ disk'.count = n.count /\ disk'.loss = n.loss
      /\ disk'.compDay = n.compDay /\ disk'.kill = n.kill
  BY <1>2, <1>3, SaveFacts
<1>5. hist' = [hist EXCEPT !.buys = hist.buys + 1, !.traded = TRUE]
  BY DEF SubmitEntry
<1>6. /\ hist'.loss = hist.loss /\ hist'.buys = hist.buys + 1 /\ hist'.lostBuys = hist.lostBuys
      /\ hist'.comps = hist.comps /\ hist'.lostComps = hist.lostComps
  BY <1>5 DEF TypeOK
<1>7. hist'.killed = hist.killed
  BY <1>5 DEF TypeOK
<1> QED
  BY <1>1, <1>2, <1>4, <1>6, <1>7 DEF Synced

LEMMA RecordEntryFacts ==
  ASSUME TypeOK, Synced, RecordEntry
  PROVE  /\ Synced'
         /\ disk'.date = day /\ disk'.count = CountOn(day) + 1 /\ disk'.loss = LossOn(day)
         /\ disk'.compDay = disk.compDay /\ disk'.kill = disk.kill
         /\ hist'.killed = hist.killed /\ hist'.loss = hist.loss
         /\ hist'.buys = hist.buys /\ hist'.lostBuys = hist.lostBuys
         /\ hist'.comps = hist.comps /\ hist'.lostComps = hist.lostComps
         /\ day' = day /\ stamp' = 0 /\ phase = "bought" /\ phase' = "top"
<1> DEFINE r == ResetDaily(mem, day)
           m == RecordTrade(mem, "buy", 0, cycle.value, day)
           n == RecordTradeResult(m, 0)
<1>1. phase = "bought" /\ phase' = "top" /\ day' = day /\ stamp' = 0
  BY DEF RecordEntry, EndCycle
<1>2. /\ Running /\ cycle.value \in Nat /\ day \in Int /\ 0 \in Nat /\ 0 \in Int
      /\ <<day + 1, tick>> \in Moment
  BY <1>1, ClockFacts DEF Running, TypeOK
<1>3. /\ mem \in Fields /\ r \in Fields
      /\ r.count = CountOn(day) /\ r.loss = LossOn(day)
      /\ mem.compDay = disk.compDay /\ mem.kill = disk.kill
  BY <1>2, MemSeen, ResetSeen
<1>4. "buy" \in {"buy", "sell"}
  OBVIOUS
<1>5. Recorded(mem, m, "buy", 0, day)
  BY <1>2, <1>3, <1>4, RecordTradeFacts
<1>6. Save(n)
  BY DEF RecordEntry
<1> HIDE DEF m
<1>7. /\ m \in Fields /\ m.date = day /\ m.count = r.count + 1 /\ m.loss = r.loss
      /\ m.compDay = mem.compDay /\ m.kill = mem.kill
  BY <1>3, <1>5 DEF Recorded, Fields
<1>8. /\ n \in Fields /\ n.date = m.date /\ n.count = m.count /\ n.loss = m.loss
      /\ n.compDay = m.compDay /\ n.kill = m.kill
  BY <1>2, <1>7, RecordTradeResultFacts
<1> HIDE DEF n, r
<1>9. /\ disk' = Persistent(mem')
      /\ disk'.date = n.date /\ disk'.count = n.count /\ disk'.loss = n.loss
      /\ disk'.compDay = n.compDay /\ disk'.kill = n.kill
  BY <1>6, <1>8, SaveFacts
<1>10. hist' = [hist EXCEPT !.straddled = @ \/ stamp # day]
  BY DEF RecordEntry
<1>11. /\ hist'.loss = hist.loss /\ hist'.buys = hist.buys /\ hist'.lostBuys = hist.lostBuys
       /\ hist'.comps = hist.comps /\ hist'.lostComps = hist.lostComps
  BY <1>10 DEF TypeOK
<1>12. hist'.killed = hist.killed
  BY <1>10 DEF TypeOK
<1> QED
  BY <1>1, <1>3, <1>7, <1>8, <1>9, <1>11, <1>12 DEF Synced

LEMMA SubmitComplianceFacts ==
  ASSUME TypeOK, Synced, SubmitCompliance
  PROVE  /\ Synced' /\ disk' = disk /\ disk.compDay # day
         /\ hist'.killed = hist.killed /\ hist'.loss = hist.loss
         /\ hist'.buys = hist.buys /\ hist'.lostBuys = hist.lostBuys
         /\ hist'.comps = hist.comps + 1 /\ hist'.lostComps = hist.lostComps
         /\ day' = day /\ stamp' = day /\ phase = "comp" /\ phase' = "compSwapped"
<1>1. phase = "comp" /\ phase' = "compSwapped" /\ day' = day /\ stamp' = day
      /\ disk' = disk /\ mem' = mem /\ mem.compDay # day
  BY DEF SubmitCompliance, ComplianceDue
<1>2. Running
  BY <1>1 DEF Running
<1>3. disk = Persistent(mem) /\ mem.compDay = disk.compDay
  BY <1>2, MemSeen DEF Synced
<1>4. hist' = [hist EXCEPT !.comps = hist.comps + 1, !.traded = TRUE]
  BY DEF SubmitCompliance
<1>5. /\ hist'.loss = hist.loss /\ hist'.buys = hist.buys /\ hist'.lostBuys = hist.lostBuys
      /\ hist'.comps = hist.comps + 1 /\ hist'.lostComps = hist.lostComps
  BY <1>4 DEF TypeOK
<1>6. hist'.killed = hist.killed
  BY <1>4 DEF TypeOK
<1> QED
  BY <1>1, <1>3, <1>5, <1>6 DEF Synced

LEMMA RecordComplianceFacts ==
  ASSUME TypeOK, Synced, RecordCompliance
  PROVE  /\ Synced'
         /\ disk'.date = stamp /\ disk'.compDay = stamp
         /\ disk'.count = CountOn(stamp) + 1 /\ disk'.loss = LossOn(stamp)
         /\ disk'.kill = disk.kill
         /\ UNCHANGED <<day, hist>> /\ stamp' = 0
         /\ phase = "compSwapped" /\ phase' = "top"
<1> DEFINE r == ResetDaily(mem, stamp)
           n == RecordComplianceTrade(mem, stamp)
<1>1. /\ phase = "compSwapped" /\ phase' = "top" /\ day' = day /\ hist' = hist /\ stamp' = 0
      /\ Save(n)
  BY DEF RecordCompliance, EndCycle
<1>2. Running /\ stamp \in Int
  BY <1>1 DEF Running, TypeOK
<1>3. /\ mem \in Fields
      /\ r.count = CountOn(stamp) /\ r.loss = LossOn(stamp) /\ mem.kill = disk.kill
  BY <1>2, MemSeen, ResetSeen
<1>4. /\ n \in Fields /\ n.date = stamp /\ n.compDay = stamp
      /\ n.count = r.count + 1 /\ n.loss = r.loss /\ n.kill = mem.kill
  BY <1>2, <1>3, RecordComplianceTradeFacts
<1> HIDE DEF n, r
<1>5. /\ disk' = Persistent(mem')
      /\ disk'.date = n.date /\ disk'.count = n.count /\ disk'.loss = n.loss
      /\ disk'.compDay = n.compDay /\ disk'.kill = n.kill
  BY <1>1, <1>4, SaveFacts
<1> QED
  BY <1>1, <1>3, <1>4, <1>5 DEF Synced

LEMMA CrashFacts ==
  ASSUME TypeOK, Crash
  PROVE  /\ Synced' /\ disk' = disk
         /\ hist'.killed = hist.killed /\ hist'.loss = hist.loss
         /\ hist'.buys = hist.buys /\ hist'.comps = hist.comps
         /\ hist'.lostBuys = IF phase = "bought" /\ stamp = day
                             THEN hist.lostBuys + 1 ELSE hist.lostBuys
         /\ hist'.lostComps = IF phase = "compSwapped" /\ stamp = day
                              THEN hist.lostComps + 1 ELSE hist.lostComps
         /\ day' = day /\ stamp' = 0 /\ phase' = "down"
<1> DEFINE lb == IF phase = "bought" /\ stamp = day THEN hist.lostBuys + 1 ELSE hist.lostBuys
           lc == IF phase = "compSwapped" /\ stamp = day
                 THEN hist.lostComps + 1 ELSE hist.lostComps
<1>1. hist' = [hist EXCEPT !.faults = hist.faults + 1, !.lostBuys = lb, !.lostComps = lc]
  BY DEF Crash
<1>2. /\ hist'.loss = hist.loss /\ hist'.buys = hist.buys /\ hist'.comps = hist.comps
      /\ hist'.lostBuys = lb /\ hist'.lostComps = lc
  <2> HIDE DEF lb, lc
  <2> QED
    BY <1>1 DEF TypeOK
<1>3. hist'.killed = hist.killed
  <2> HIDE DEF lb, lc
  <2> QED
    BY <1>1 DEF TypeOK
<1>4. disk' = disk /\ day' = day /\ stamp' = 0 /\ phase' = "down"
  BY DEF Crash, Die
<1>5. Synced'
  BY <1>4 DEF Synced, Running
<1> QED
  BY <1>2, <1>3, <1>4, <1>5

(* A swap that was broadcast and never recorded, by a process that lives.  *)
Unreported == EntryUnreported \/ ComplianceUnreported

LEMMA UnreportedFacts ==
  ASSUME TypeOK, Synced, Unreported
  PROVE  /\ Synced' /\ disk' = disk
         /\ hist'.killed = hist.killed /\ hist'.loss = hist.loss
         /\ hist'.buys = hist.buys /\ hist'.comps = hist.comps
         /\ hist'.lostBuys = IF phase = "bought" /\ stamp = day
                             THEN hist.lostBuys + 1 ELSE hist.lostBuys
         /\ hist'.lostComps = IF phase = "compSwapped" /\ stamp = day
                              THEN hist.lostComps + 1 ELSE hist.lostComps
         /\ day' = day /\ stamp' = 0
         /\ \/ phase = "bought" /\ phase' = "comp"
            \/ phase = "compSwapped" /\ phase' = "top"
<1> DEFINE lb == IF phase = "bought" /\ stamp = day THEN hist.lostBuys + 1 ELSE hist.lostBuys
           lc == IF phase = "compSwapped" /\ stamp = day
                 THEN hist.lostComps + 1 ELSE hist.lostComps
<1>1. /\ disk' = disk /\ mem' = mem /\ day' = day /\ stamp' = 0
      /\ \/ phase = "bought" /\ phase' = "comp"
         \/ phase = "compSwapped" /\ phase' = "top"
  BY DEF Unreported, EntryUnreported, ComplianceUnreported, EndCycle
<1>2. hist' = [hist EXCEPT !.faults = hist.faults + 1, !.lostBuys = lb, !.lostComps = lc]
  <2>1. CASE EntryUnreported
    BY <2>1 DEF EntryUnreported, TypeOK
  <2>2. CASE ComplianceUnreported
    BY <2>2 DEF ComplianceUnreported, TypeOK
  <2> QED
    BY <2>1, <2>2 DEF Unreported
<1>3. /\ hist'.loss = hist.loss /\ hist'.buys = hist.buys /\ hist'.comps = hist.comps
      /\ hist'.lostBuys = lb /\ hist'.lostComps = lc
  <2> HIDE DEF lb, lc
  <2> QED
    BY <1>2 DEF TypeOK
<1>4. hist'.killed = hist.killed
  <2> HIDE DEF lb, lc
  <2> QED
    BY <1>2 DEF TypeOK
<1>5. Synced'
  BY <1>1 DEF Synced, Running
<1> QED
  BY <1>1, <1>3, <1>4, <1>5

LEMMA TickFacts ==
  ASSUME TypeOK, Synced, Tick
  PROVE  /\ Synced' /\ UNCHANGED <<disk, stamp, phase>>
         /\ hist'.killed = hist.killed
         /\ \/ UNCHANGED <<day, hist>>
            \/ /\ day' = day + 1
               /\ hist'.loss = 0 /\ hist'.buys = 0 /\ hist'.lostBuys = 0
               /\ hist'.comps = 0 /\ hist'.lostComps = 0
<1>1. UNCHANGED <<disk, stamp, phase, mem>>
  BY DEF Tick
<1> DEFINE reset == [hist EXCEPT !.loss = 0, !.buys = 0, !.lostBuys = 0,
                              !.comps = 0, !.lostComps = 0,
                              !.traded = FALSE, !.straddled = FALSE]
<1>2. UNCHANGED <<day, hist>> \/ (day' = day + 1 /\ hist' = reset)
  BY DEF Tick
<1>3. /\ reset.loss = 0 /\ reset.buys = 0 /\ reset.lostBuys = 0
      /\ reset.comps = 0 /\ reset.lostComps = 0
  BY DEF TypeOK
<1>4. reset.killed = hist.killed
  BY DEF TypeOK
<1> HIDE DEF reset
<1> QED
  BY <1>1, <1>2, <1>3, <1>4 DEF Synced, Running

-----------------------------------------------------------------------------
(* The kill latch.                                                         *)

KillInv == TypeOK /\ Synced /\ (hist.killed => disk.kill)

(* The steps that write neither the file nor the history.                  *)
Idle == ExitsDone \/ NoEntry \/ ComplianceDeclined \/ ComplianceFailed

LEMMA IdleFacts ==
  ASSUME Synced, Idle
  PROVE  /\ Synced' /\ UNCHANGED <<day, disk, hist>> /\ stamp' \in {stamp, 0}
         /\ phase \in {"exits", "entry", "comp"} /\ phase' \in {"entry", "comp", "top"}
  BY DEF Idle, ExitsDone, NoEntry, ComplianceDeclined, ComplianceFailed, EndCycle,
         Synced, Running

LEMMA InitSynced == Init => Synced
  BY DEF Init, Synced, Running

LEMMA KillStep == KillInv /\ [Next]_vars => KillInv'
<1> SUFFICES ASSUME TypeOK, Synced, hist.killed => disk.kill, [Next]_vars
             PROVE  KillInv'
  BY DEF KillInv
<1>0. TypeOK'
  BY TypeStep
<1>1. CASE Start
  BY <1>0, <1>1, StartFacts DEF KillInv
<1>2. CASE Evaluate
  <2>1. Synced' /\ (disk.kill => disk'.kill) /\ (hist'.killed => hist.killed \/ disk'.kill)
    BY <1>2, EvaluateFacts
  <2> QED
    BY <1>0, <2>1 DEF KillInv
<1>3. CASE RecordExit
  BY <1>0, <1>3, RecordExitFacts DEF KillInv
<1>4. CASE Idle
  BY <1>0, <1>4, IdleFacts DEF KillInv
<1>5. CASE ValidateRaises
  BY <1>0, <1>5, ValidateRaisesFacts DEF KillInv
<1>6. CASE SubmitEntry
  BY <1>0, <1>6, SubmitEntryFacts DEF KillInv
<1>7. CASE RecordEntry
  BY <1>0, <1>7, RecordEntryFacts DEF KillInv
<1>8. CASE SubmitCompliance
  BY <1>0, <1>8, SubmitComplianceFacts DEF KillInv
<1>9. CASE RecordCompliance
  BY <1>0, <1>9, RecordComplianceFacts DEF KillInv
<1>10. CASE Crash
  BY <1>0, <1>10, CrashFacts DEF KillInv
<1>11. CASE Tick
  BY <1>0, <1>11, TickFacts DEF KillInv
<1>12. CASE Unreported
  BY <1>0, <1>12, UnreportedFacts DEF KillInv
<1>13. CASE UNCHANGED vars
  BY <1>0, <1>13 DEF KillInv, Synced, Running, vars
<1> QED
  BY <1>1, <1>2, <1>3, <1>4, <1>5, <1>6, <1>7, <1>8, <1>9, <1>10, <1>11, <1>12, <1>13
     DEF Next, Idle, Unreported

LEMMA KillInvariant == Spec => []KillInv
<1>1. Init => KillInv
  <2> SUFFICES ASSUME Init PROVE KillInv
    OBVIOUS
  <2>1. TypeOK /\ Synced
    BY InitTypeOK, InitSynced
  <2>2. ~hist.killed
    BY DEF Init, NoHistory
  <2> QED
    BY <2>1, <2>2 DEF KillInv
<1> QED
  BY <1>1, KillStep, PTL DEF Spec

(* After a KILL_SWITCH evaluation no entry is swapped again, whatever      *)
(* crashes, torn files, midnights and recoveries follow: the latch is in   *)
(* the file whenever history has a kill, memory agrees with the file while *)
(* the process runs, and validate_new_trade reads it.                      *)
THEOREM KillSwitchHolds == Spec => NoEntryAfterKill
<1>1. KillInv /\ [Next]_vars => [EntrySwap => ~hist.killed]_vars
  <2> SUFFICES ASSUME KillInv, Next, EntrySwap PROVE ~hist.killed
    BY DEF vars
  <2>1. SubmitEntry
    BY DEF EntrySwap, Next, Start, Evaluate, RecordExit, ExitsDone, NoEntry,
           ValidateRaises, Die, RecordEntry, EndCycle, ComplianceDeclined,
           ComplianceFailed, SubmitCompliance, RecordCompliance, EntryUnreported,
           ComplianceUnreported, Crash, Tick
  <2>2. ValidatesNewTrade(ResetDaily(mem, day), cycle.value, cycle.regime)
    BY <2>1 DEF SubmitEntry
  <2>3. ~ResetDaily(mem, day).kill
    BY <2>2 DEF ValidatesNewTrade
  <2>4. ResetDaily(mem, day).kill = disk.kill
    BY <2>1, ValidateFacts DEF KillInv, SubmitEntry
  <2> QED
    BY <2>3, <2>4 DEF KillInv
<1> QED
  BY <1>1, KillInvariant, PTL DEF Spec, NoEntryAfterKill

-----------------------------------------------------------------------------
(* The compliance swap.                                                    *)

CompInv ==
    /\ TypeOK /\ Synced
    /\ stamp <= day /\ disk.compDay <= day
    /\ phase = "compSwapped" => disk.compDay < stamp
    /\ hist.comps <= hist.lostComps + 1
    /\ disk.compDay # day /\ ~(phase = "compSwapped" /\ stamp = day)
         => hist.comps <= hist.lostComps

LEMMA CompStep == CompInv /\ [Next]_vars => CompInv'
<1> SUFFICES ASSUME CompInv, [Next]_vars PROVE CompInv'
  OBVIOUS
<1>0. TypeOK' /\ TypeOK /\ Synced
  BY TypeStep DEF CompInv
<1>a. /\ day \in Nat /\ stamp \in Nat /\ disk.compDay \in Int
      /\ hist.comps \in Nat /\ hist.lostComps \in Nat
  BY <1>0 DEF TypeOK, PersistentFields
<1>1. CASE Start
  BY <1>0, <1>a, <1>1, StartFacts DEF CompInv
<1>2. CASE Evaluate
  <2>1. /\ Synced' /\ disk'.compDay = disk.compDay /\ UNCHANGED <<day, stamp>>
        /\ hist'.comps = hist.comps /\ hist'.lostComps = hist.lostComps
        /\ phase = "top" /\ phase' \in {"comp", "exits"}
    BY <1>0, <1>2, EvaluateFacts
  <2> QED
    BY <1>0, <1>a, <2>1 DEF CompInv
<1>3. CASE RecordExit
  <2>1. /\ Synced' /\ disk'.compDay = disk.compDay /\ UNCHANGED <<day, stamp, phase>>
        /\ hist'.comps = hist.comps /\ hist'.lostComps = hist.lostComps
    BY <1>0, <1>3, RecordExitFacts
  <2> QED
    BY <1>0, <1>a, <2>1 DEF CompInv
<1>4. CASE Idle
  BY <1>0, <1>a, <1>4, IdleFacts DEF CompInv
<1>5. CASE ValidateRaises
  BY <1>0, <1>a, <1>5, ValidateRaisesFacts DEF CompInv
<1>6. CASE SubmitEntry
  BY <1>0, <1>a, <1>6, SubmitEntryFacts DEF CompInv
<1>7. CASE RecordEntry
  BY <1>0, <1>a, <1>7, RecordEntryFacts DEF CompInv
<1>8. CASE SubmitCompliance
  BY <1>0, <1>a, <1>8, SubmitComplianceFacts DEF CompInv
<1>9. CASE RecordCompliance
  BY <1>0, <1>a, <1>9, RecordComplianceFacts DEF CompInv
<1>10. CASE Crash
  BY <1>0, <1>a, <1>10, CrashFacts DEF CompInv
<1>11. CASE Tick
  BY <1>0, <1>a, <1>11, TickFacts DEF CompInv
<1>12. CASE Unreported
  BY <1>0, <1>a, <1>12, UnreportedFacts DEF CompInv
<1>13. CASE UNCHANGED vars
  BY <1>0, <1>13 DEF CompInv, Synced, Running, vars
<1> QED
  BY <1>1, <1>2, <1>3, <1>4, <1>5, <1>6, <1>7, <1>8, <1>9, <1>10, <1>11, <1>12, <1>13
     DEF Next, Idle, Unreported

(* At most one compliance swap a UTC day but for those never recorded, by  *)
(* a death or a call that raised after the broadcast: the recorded day only*)
(* moves forward, and a swap in flight at midnight is recorded under the   *)
(* day it was stamped with.                                                *)
THEOREM OneComplianceSwapHolds == Spec => []OneComplianceSwap
<1>1. Init => CompInv
  <2> SUFFICES ASSUME Init PROVE CompInv
    OBVIOUS
  <2>1. TypeOK /\ Synced
    BY InitTypeOK, InitSynced
  <2>2. /\ stamp = 0 /\ day = 0 /\ phase = "down" /\ disk.compDay = -1
        /\ hist.comps = 0 /\ hist.lostComps = 0
    BY DEF Init, NoHistory, Persistent, EmptyMem
  <2> QED
    BY <2>1, <2>2 DEF CompInv
<1>2. CompInv => OneComplianceSwap
  BY DEF CompInv, OneComplianceSwap, TypeOK
<1> QED
  BY <1>1, <1>2, CompStep, PTL DEF Spec

-----------------------------------------------------------------------------
(* The daily counters, on a host whose local date is the UTC date.         *)

InFlight == IF phase = "bought" /\ stamp = day THEN 1 ELSE 0

DayInv ==
    /\ TypeOK /\ Synced
    /\ stamp <= day /\ disk.date <= day
    /\ phase = "compSwapped" => disk.date <= stamp
    /\ disk.date = day => /\ hist.buys <= disk.count + hist.lostBuys + InFlight
                          /\ hist.loss <= disk.loss
    /\ disk.date # day => hist.buys = 0 /\ hist.loss = 0
    /\ GlobalMax > 0 => hist.buys <= GlobalMax + hist.lostBuys

LEMMA DayStep ==
  ASSUME LocalOffset = 0
  PROVE  DayInv /\ [Next]_vars => DayInv'
<1> SUFFICES ASSUME DayInv, [Next]_vars PROVE DayInv'
  OBVIOUS
<1>0. TypeOK' /\ TypeOK /\ Synced
  BY TypeStep DEF DayInv
<1>a. /\ day \in Nat /\ stamp \in Nat /\ disk.date \in Int /\ disk.count \in Nat
      /\ disk.loss \in Nat /\ hist.buys \in Nat /\ hist.lostBuys \in Nat
      /\ hist.loss \in Nat /\ GlobalMax \in Nat
  BY <1>0, GuardrailsAssumption DEF TypeOK, PersistentFields
<1>b. LocalDay = day
  BY <1>0, GuardrailsAssumption DEF TypeOK, LocalDay
<1> USE DEF InFlight, CountOn, LossOn
<1>1. CASE Start
  BY <1>0, <1>a, <1>1, StartFacts DEF DayInv
<1>2. CASE Evaluate
  <2>1. /\ Synced' /\ UNCHANGED <<day, stamp>>
        /\ disk'.date = day /\ disk'.count = CountOn(day) /\ disk'.loss = LossOn(day)
        /\ hist'.loss = hist.loss /\ hist'.buys = hist.buys /\ hist'.lostBuys = hist.lostBuys
        /\ phase = "top" /\ phase' \in {"comp", "exits"}
    BY <1>0, <1>2, EvaluateFacts
  <2> QED
    BY <1>0, <1>a, <2>1 DEF DayInv
<1>3. CASE RecordExit
  <2>1. PICK loss \in Nat : disk'.loss = LossOn(day) + loss /\ hist'.loss = hist.loss + loss
    BY <1>0, <1>b, <1>3, RecordExitFacts
  <2>2. /\ Synced' /\ UNCHANGED <<day, stamp, phase>> /\ phase = "exits"
        /\ disk'.date = day /\ disk'.count = CountOn(day)
        /\ hist'.buys = hist.buys /\ hist'.lostBuys = hist.lostBuys
    BY <1>0, <1>b, <1>3, RecordExitFacts
  <2> QED
    BY <1>0, <1>a, <2>1, <2>2 DEF DayInv
<1>4. CASE Idle
  BY <1>0, <1>a, <1>4, IdleFacts DEF DayInv
<1>5. CASE ValidateRaises
  BY <1>0, <1>a, <1>5, ValidateRaisesFacts DEF DayInv
<1>6. CASE SubmitEntry
  <2>1. /\ Synced' /\ disk'.date = day /\ disk'.count = CountOn(day) /\ disk'.loss = LossOn(day)
        /\ hist'.loss = hist.loss /\ hist'.buys = hist.buys + 1 /\ hist'.lostBuys = hist.lostBuys
        /\ day' = day /\ stamp' = day /\ phase = "entry" /\ phase' = "bought"
    BY <1>0, <1>6, SubmitEntryFacts
  <2>2. ValidatesNewTrade(ResetDaily(mem, day), cycle.value, cycle.regime)
    BY <1>6 DEF SubmitEntry
  <2>3. ResetDaily(mem, day).count = CountOn(day)
    BY <1>0, <2>1, ValidateFacts
  <2>4. GlobalMax = 0 \/ CountOn(day) < GlobalMax
    BY <2>2, <2>3 DEF ValidatesNewTrade
  <2> QED
    BY <1>0, <1>a, <2>1, <2>4 DEF DayInv
<1>7. CASE RecordEntry
  BY <1>0, <1>a, <1>7, RecordEntryFacts DEF DayInv
<1>8. CASE SubmitCompliance
  BY <1>0, <1>a, <1>8, SubmitComplianceFacts DEF DayInv
<1>9. CASE RecordCompliance
  BY <1>0, <1>a, <1>9, RecordComplianceFacts DEF DayInv
<1>10. CASE Crash
  BY <1>0, <1>a, <1>10, CrashFacts DEF DayInv
<1>11. CASE Tick
  BY <1>0, <1>a, <1>11, TickFacts DEF DayInv
<1>12. CASE Unreported
  BY <1>0, <1>a, <1>12, UnreportedFacts DEF DayInv
<1>13. CASE UNCHANGED vars
  BY <1>0, <1>13 DEF DayInv, Synced, Running, vars
<1> QED
  BY <1>1, <1>2, <1>3, <1>4, <1>5, <1>6, <1>7, <1>8, <1>9, <1>10, <1>11, <1>12, <1>13
     DEF Next, Idle, Unreported

LEMMA DayInvariant == ASSUME LocalOffset = 0 PROVE Spec => []DayInv
<1>1. Init => DayInv
  <2> SUFFICES ASSUME Init PROVE DayInv
    OBVIOUS
  <2>1. TypeOK /\ Synced
    BY InitTypeOK, InitSynced
  <2>2. /\ stamp = 0 /\ day = 0 /\ phase = "down" /\ disk.date = 0 /\ disk.count = 0
        /\ disk.loss = 0 /\ hist.buys = 0 /\ hist.lostBuys = 0 /\ hist.loss = 0
    BY DEF Init, NoHistory, Persistent, EmptyMem
  <2> QED
    BY <2>1, <2>2, GuardrailsAssumption DEF DayInv, InFlight
<1>2. DayInv /\ [Next]_vars => DayInv'
  BY DayStep
<1> QED
  BY <1>1, <1>2, PTL DEF Spec

(* On a UTC host the entries of a day exceed the global budget by no more  *)
(* than the entries never recorded: their process died before record_trade *)
(* or their call was taken for failed after the broadcast.                 *)
THEOREM DailyBudgetHolds == ASSUME LocalOffset = 0 PROVE Spec => []DailyBudget
<1>1. DayInv => DailyBudget
  BY DEF DayInv, DailyBudget
<1> QED
  BY <1>1, DayInvariant, PTL

(* On a UTC host no entry follows a day's realised losses over the limit:  *)
(* whatever was recorded today is in the file's counter, a restart reads   *)
(* it back, and no record can move the file's day back before a midnight   *)
(* it has already passed.                                                  *)
THEOREM DailyLossHolds == ASSUME LocalOffset = 0 PROVE Spec => DailyLossRespected
<1>1. DayInv /\ [Next]_vars =>
        [EntrySwap => hist.loss * 100 < cycle.value * MaxDailyLossPct \/ cycle.value = 0]_vars
  <2> SUFFICES ASSUME DayInv, Next, EntrySwap, cycle.value # 0
               PROVE  hist.loss * 100 < cycle.value * MaxDailyLossPct
    BY DEF vars
  <2>1. SubmitEntry
    BY DEF EntrySwap, Next, Start, Evaluate, RecordExit, ExitsDone, NoEntry,
           ValidateRaises, Die, RecordEntry, EndCycle, ComplianceDeclined,
           ComplianceFailed, SubmitCompliance, RecordCompliance, EntryUnreported,
           ComplianceUnreported, Crash, Tick
  <2> DEFINE n == ResetDaily(mem, day)
             limit == cycle.value * MaxDailyLossPct
  <2>2. ~LossLimitHit(n, cycle.value)
    BY <2>1 DEF SubmitEntry, ValidatesNewTrade
  <2>3. n.loss = LossOn(day)
    BY <2>1, ValidateFacts DEF DayInv, SubmitEntry
  <2>4. /\ cycle.value \in Nat /\ MaxDailyLossPct \in Nat
        /\ disk.loss \in Nat /\ hist.loss \in Nat
    BY GuardrailsAssumption DEF DayInv, TypeOK, PersistentFields
  <2>5. limit \in Nat
    BY <2>4
  <2>6. hist.loss <= n.loss /\ n.loss \in Nat
    BY <2>3, <2>4 DEF DayInv, LossOn
  <2>7. ~(n.loss * 100 >= limit)
    BY <2>2, <2>4 DEF LossLimitHit
  <2> HIDE DEF n, limit
  <2>8. hist.loss * 100 < limit
    BY <2>4, <2>5, <2>6, <2>7
  <2> QED
    BY <2>8 DEF limit
<1> QED
  BY <1>1, DayInvariant, PTL DEF Spec, DailyLossRespected

-----------------------------------------------------------------------------
(* The compliance backstop.  A count above zero may be yesterday's: the    *)
(* loop compares it without a reset.  The invariant says that it then lies *)
(* no further back than the cycle has lasted.                              *)

Busy == phase \in {"exits", "entry", "bought", "comp", "compSwapped"}

Marked == hist.traded \/ hist.straddled

(* The books of today, and a swap of today on its way to them, stem from a *)
(* trade of today.                                                         *)
TradedInv ==
    /\ stamp <= day /\ disk.compDay <= day
    /\ disk.compDay = day => hist.traded
    /\ phase \in {"bought", "compSwapped"} /\ stamp = day => hist.traded
    /\ disk.count > 0 => disk.date <= day
    /\ disk.count > 0 /\ disk.date = day => Marked

(* A cycle that works with yesterday's count has had its midnight.         *)
StaleInv ==
    /\ Busy => cycle.ticks <= MaxCycleTicks
    /\ Busy /\ disk.count > 0 /\ disk.date # day => tick < cycle.ticks

BackstopInv == TypeOK /\ Synced /\ TradedInv /\ StaleInv

(* Most steps leave alone what history says of the day's trades.           *)
LEMMA MarksKept ==
  ASSUME TypeOK,
         Start \/ Evaluate \/ RecordExit \/ Idle \/ ValidateRaises
               \/ RecordCompliance \/ Crash \/ Unreported
  PROVE  /\ hist.traded => hist'.traded
         /\ hist.straddled => hist'.straddled
<1>1. CASE Start \/ Idle \/ RecordCompliance
  BY <1>1 DEF Start, Idle, ExitsDone, NoEntry, ComplianceDeclined, ComplianceFailed,
              RecordCompliance
<1>2. CASE Evaluate
  <2>1. hist' = hist \/ hist' = [hist EXCEPT !.killed = TRUE]
    BY <1>2 DEF Evaluate
  <2> QED
    BY <2>1 DEF TypeOK
<1>3. CASE RecordExit
  <2>1. PICK loss, losers, until :
          hist' = [hist EXCEPT !.loss = loss, !.losers = losers, !.pauseUntil = until]
    BY <1>3 DEF RecordExit
  <2> QED
    BY <2>1 DEF TypeOK
<1>4. CASE ValidateRaises
  <2>1. PICK n : hist' = [hist EXCEPT !.faults = n]
    BY <1>4 DEF ValidateRaises
  <2> QED
    BY <2>1 DEF TypeOK
<1>5. CASE Crash
  <2>1. PICK n, b, c : hist' = [hist EXCEPT !.faults = n, !.lostBuys = b, !.lostComps = c]
    BY <1>5 DEF Crash
  <2> QED
    BY <2>1 DEF TypeOK
<1>6. CASE Unreported
  <2>1. PICK n, b, c : \/ hist' = [hist EXCEPT !.faults = n, !.lostBuys = b]
                       \/ hist' = [hist EXCEPT !.faults = n, !.lostComps = c]
    BY <1>6 DEF Unreported, EntryUnreported, ComplianceUnreported
  <2> QED
    BY <2>1 DEF TypeOK
<1> QED
  BY <1>1, <1>2, <1>3, <1>4, <1>5, <1>6

(* The two swaps mark the day.                                             *)
LEMMA SwapsMark ==
  ASSUME TypeOK, SubmitEntry \/ SubmitCompliance
  PROVE  hist'.traded
<1>1. PICK n, m : \/ hist' = [hist EXCEPT !.buys = n, !.traded = TRUE]
                  \/ hist' = [hist EXCEPT !.comps = m, !.traded = TRUE]
  BY DEF SubmitEntry, SubmitCompliance
<1> QED
  BY <1>1 DEF TypeOK

(* A buy recorded on another day than it was swapped marks that day.       *)
LEMMA RecordEntryMarks ==
  ASSUME TypeOK, RecordEntry
  PROVE  /\ hist.traded => hist'.traded
         /\ stamp # day => hist'.straddled
<1>1. hist' = [hist EXCEPT !.straddled = @ \/ stamp # day]
  BY DEF RecordEntry
<1>2. hist.traded => hist'.traded
  BY <1>1 DEF TypeOK
<1>3. stamp # day => hist'.straddled
  <2> SUFFICES ASSUME stamp # day PROVE hist'.straddled
    OBVIOUS
  <2>1. hist' = [hist EXCEPT !.straddled = TRUE]
    BY <1>1
  <2> QED
    BY <2>1 DEF TypeOK
<1> QED
  BY <1>2, <1>3

LEMMA TradedStep == BackstopInv /\ [Next]_vars => TradedInv'
<1> SUFFICES ASSUME TypeOK, Synced, TradedInv, [Next]_vars PROVE TradedInv'
  BY DEF BackstopInv
<1>a. /\ day \in Nat /\ stamp \in Nat /\ LocalDay \in Int
      /\ disk.date \in Int /\ disk.count \in Nat /\ disk.compDay \in Int
  BY ClockFacts DEF TypeOK, PersistentFields
<1> USE DEF TradedInv, Marked, CountOn
<1>1. CASE Start
  BY <1>a, <1>1, StartFacts, MarksKept
<1>2. CASE Evaluate
  <2>1. /\ disk'.date = day /\ disk'.count = CountOn(day) /\ disk'.compDay = disk.compDay
        /\ UNCHANGED <<day, stamp>> /\ phase' \in {"comp", "exits"}
    BY <1>2, EvaluateFacts
  <2> QED
    BY <1>a, <1>2, <2>1, MarksKept
<1>3. CASE RecordExit
  <2>1. /\ disk'.date = LocalDay /\ disk'.count = CountOn(LocalDay)
        /\ disk'.compDay = disk.compDay /\ UNCHANGED <<day, stamp, phase>>
    BY <1>3, RecordExitFacts
  <2> QED
    BY <1>a, <1>3, <2>1, MarksKept
<1>4. CASE Idle
  BY <1>a, <1>4, IdleFacts, MarksKept
<1>5. CASE ValidateRaises
  BY <1>a, <1>5, ValidateRaisesFacts, MarksKept
<1>6. CASE SubmitEntry
  BY <1>a, <1>6, SubmitEntryFacts, SwapsMark
<1>7. CASE RecordEntry
  BY <1>a, <1>7, RecordEntryFacts, RecordEntryMarks
<1>8. CASE SubmitCompliance
  BY <1>a, <1>8, SubmitComplianceFacts, SwapsMark
<1>9. CASE RecordCompliance
  BY <1>a, <1>9, RecordComplianceFacts, MarksKept
<1>10. CASE Crash
  BY <1>a, <1>10, CrashFacts, MarksKept
<1>11. CASE Tick
  BY <1>a, <1>11, TickFacts
<1>12. CASE Unreported
  BY <1>a, <1>12, UnreportedFacts, MarksKept
<1>13. CASE UNCHANGED vars
  BY <1>13 DEF vars
<1> QED
  BY <1>1, <1>2, <1>3, <1>4, <1>5, <1>6, <1>7, <1>8, <1>9, <1>10, <1>11, <1>12, <1>13
     DEF Next, Idle, Unreported

LEMMA StaleStep == BackstopInv /\ [Next]_vars => StaleInv'
<1> SUFFICES ASSUME TypeOK, Synced, TradedInv, StaleInv, [Next]_vars PROVE StaleInv'
  BY DEF BackstopInv
<1>a. /\ day \in Nat /\ tick \in Nat /\ LocalDay \in Int /\ cycle.ticks \in Nat
      /\ disk.date \in Int /\ disk.count \in Nat /\ MaxCycleTicks \in Nat
  BY ClockFacts, GuardrailsAssumption DEF TypeOK, PersistentFields
<1> USE DEF StaleInv, Busy, CountOn
<1>1. CASE Start
  BY <1>1, StartFacts
<1>2. CASE Evaluate
  <2>1. disk'.date = day /\ day' = day
    BY <1>2, EvaluateFacts
  <2>2. cycle'.ticks = 0
    BY <1>2 DEF Evaluate
  <2> QED
    BY <1>a, <2>1, <2>2
<1>3. CASE RecordExit
  <2>1. disk'.date = LocalDay /\ disk'.count = CountOn(LocalDay) /\ UNCHANGED <<day, phase>>
    BY <1>3, RecordExitFacts
  <2>2. UNCHANGED <<tick, cycle>>
    BY <1>3 DEF RecordExit
  <2> QED
    BY <1>a, <2>1, <2>2
<1>4. CASE Idle
  <2>1. UNCHANGED <<day, tick, disk>> /\ (cycle' = cycle \/ phase' = "top")
        /\ phase \in {"exits", "entry", "comp"}
    BY <1>4 DEF Idle, ExitsDone, NoEntry, ComplianceDeclined, ComplianceFailed, EndCycle
  <2> QED
    BY <1>a, <2>1
<1>5. CASE ValidateRaises \/ RecordEntry \/ RecordCompliance \/ Crash
  BY <1>5 DEF ValidateRaises, RecordEntry, RecordCompliance, Crash, Die, EndCycle
<1>6. CASE SubmitEntry
  <2>1. disk'.date = day /\ day' = day /\ phase = "entry"
    BY <1>6, SubmitEntryFacts
  <2>2. cycle' = cycle
    BY <1>6 DEF SubmitEntry
  <2> QED
    BY <1>a, <2>1, <2>2
<1>7. CASE SubmitCompliance
  BY <1>a, <1>7 DEF SubmitCompliance
<1>8. CASE Tick
  <2> SUFFICES ASSUME Busy' PROVE StaleInv'
    BY DEF StaleInv
  <2>1. /\ UNCHANGED <<disk, phase>>
        /\ \/ UNCHANGED day /\ tick' = tick + 1
           \/ day' = day + 1 /\ tick' = 0
    BY <1>8 DEF Tick
  <2>2. Busy /\ phase \notin {"top", "down", "raised"}
    BY <2>1
  <2>3. cycle.ticks < MaxCycleTicks /\ cycle' = [cycle EXCEPT !.ticks = @ + 1]
    BY <1>8, <2>2 DEF Tick
  <2>4. cycle'.ticks = cycle.ticks + 1
    BY <2>3 DEF TypeOK
  <2> QED
    BY <1>a, <2>1, <2>2, <2>3, <2>4
<1>9. CASE Unreported
  <2>1. UNCHANGED <<day, tick, disk>> /\ (cycle' = cycle \/ phase' = "top")
        /\ phase \in {"bought", "compSwapped"}
    BY <1>9 DEF Unreported, EntryUnreported, ComplianceUnreported, EndCycle
  <2> QED
    BY <1>a, <2>1
<1>10. CASE UNCHANGED vars
  BY <1>10 DEF vars
<1> QED
  BY <1>1, <1>2, <1>3, <1>4, <1>5, <1>6, <1>7, <1>8, <1>9, <1>10 DEF Next, Idle, Unreported

(* Whatever the next step, memory and the file agree while the process     *)
(* runs.                                                                   *)
LEMMA SyncedStep == TypeOK /\ Synced /\ [Next]_vars => Synced'
<1> SUFFICES ASSUME TypeOK, Synced, [Next]_vars PROVE Synced'
  OBVIOUS
<1>1. CASE UNCHANGED vars
  BY <1>1 DEF Synced, Running, vars
<1> QED
  BY <1>1, StartFacts, EvaluateFacts, RecordExitFacts, IdleFacts, ValidateRaisesFacts,
     SubmitEntryFacts, RecordEntryFacts, SubmitComplianceFacts, RecordComplianceFacts,
     CrashFacts, UnreportedFacts, TickFacts DEF Next, Idle, Unreported

LEMMA BackstopInvariant == Spec => []BackstopInv
<1>1. Init => BackstopInv
  <2> SUFFICES ASSUME Init PROVE BackstopInv
    OBVIOUS
  <2>1. TypeOK /\ Synced
    BY InitTypeOK, InitSynced
  <2>2. /\ stamp = 0 /\ day = 0 /\ phase = "down" /\ disk.compDay = -1 /\ disk.count = 0
    BY DEF Init, Persistent, EmptyMem
  <2> QED
    BY <2>1, <2>2 DEF BackstopInv, TradedInv, StaleInv, Busy
<1>2. BackstopInv /\ [Next]_vars => BackstopInv'
  BY TypeStep, SyncedStep, TradedStep, StaleStep DEF BackstopInv
<1> QED
  BY <1>1, <1>2, PTL DEF Spec

(* In the compliance window the backstop declines only on a day that has   *)
(* its trade, provided that no cycle is so long that it starts before a    *)
(* midnight and is still running when the window opens.  Nothing is        *)
(* assumed about the host's time zone: an exit stamped with another date   *)
(* resets the count, which never makes the backstop decline.               *)
THEOREM BackstopNeverSkipsADay ==
  ASSUME MaxCycleTicks <= TriggerTick
  PROVE  Spec => BackstopDeclinesOnlyAfterTrade
<1>1. BackstopInv /\ [Next]_vars =>
        [phase = "comp" /\ ~ComplianceDue /\ phase' = "top" /\ tick >= TriggerTick
           => hist.traded \/ hist.straddled]_vars
  <2> SUFFICES ASSUME BackstopInv, phase = "comp", ~ComplianceDue, tick >= TriggerTick
               PROVE  Marked
    BY DEF Marked
  <2>1. /\ tick \in Nat /\ day \in Nat /\ disk.count \in Nat /\ disk.date \in Int
        /\ cycle.ticks \in Nat /\ MaxCycleTicks \in Nat /\ TriggerTick \in Nat
    BY GuardrailsAssumption DEF BackstopInv, TypeOK, PersistentFields
  <2>2. mem.count = disk.count /\ mem.compDay = disk.compDay
    BY MemSeen DEF BackstopInv, Running
  <2>3. disk.count > 0 \/ disk.compDay = day
    BY <2>1, <2>2 DEF ComplianceDue
  <2>4. CASE disk.compDay = day
    BY <2>4 DEF BackstopInv, TradedInv, Marked
  <2>5. CASE disk.count > 0
    <3>1. disk.date = day
      BY <2>1, <2>5 DEF BackstopInv, StaleInv, Busy
    <3> QED
      BY <2>5, <3>1 DEF BackstopInv, TradedInv
  <2> QED
    BY <2>3, <2>4, <2>5
<1> QED
  BY <1>1, BackstopInvariant, PTL DEF Spec, BackstopDeclinesOnlyAfterTrade

-----------------------------------------------------------------------------
(* The two gates of an entry and the budgets.                              *)

Granted ==
    /\ open < RegimeMax[cycle.regime]
    /\ GlobalMax = 0 \/ disk.count < GlobalMax

(* What the gate of the loop granted at evaluate still holds when the      *)
(* candidate is validated: exits only close positions, and the count only  *)
(* grows with entries and compliance swaps, which come later.              *)
BudgetInv ==
    /\ TypeOK /\ Synced
    /\ phase = "exits" /\ cycle.allowed => Granted
    /\ phase = "entry" => Granted

(* The budget of reduced risk is within the regime's, unless that is zero. *)
LEMMA GateWithinBudget ==
  ASSUME TypeOK, NEW regime \in Regimes, RegimeMax[regime] > 0, NEW m, NEW state,
         RiskAllowsNewEntries(m, state, regime)
  PROVE  /\ open < RegimeMax[regime]
         /\ GlobalMax = 0 \/ m.count < GlobalMax
<1>1. /\ state \in {"NORMAL", "REDUCED_RISK"}
      /\ open < MaxDailyTrades(state, regime)
      /\ GlobalMax = 0 \/ m.count < GlobalMax
  BY DEF RiskAllowsNewEntries
<1>2. RegimeMax[regime] \in Nat /\ open \in Nat
  BY GuardrailsAssumption DEF TypeOK
<1>3. CASE state = "NORMAL"
  BY <1>1, <1>2, <1>3 DEF MaxDailyTrades
<1>4. CASE state = "REDUCED_RISK"
  <2> DEFINE half == RegimeMax[regime] \div 2
  <2>1. MaxDailyTrades(state, regime) = IF half > 1 THEN half ELSE 1
    BY <1>4 DEF MaxDailyTrades
  <2>2. half \in Nat /\ half <= RegimeMax[regime]
    BY <1>2
  <2> HIDE DEF half
  <2> QED
    BY <1>1, <1>2, <2>1, <2>2
<1> QED
  BY <1>1, <1>3, <1>4

LEMMA BudgetStep ==
  ASSUME \A r \in Regimes : RegimeMax[r] > 0
  PROVE  BudgetInv /\ [Next]_vars => BudgetInv'
<1> SUFFICES ASSUME BudgetInv, [Next]_vars PROVE BudgetInv'
  OBVIOUS
<1>0. TypeOK /\ Synced /\ TypeOK' /\ Synced'
  BY TypeStep, SyncedStep DEF BudgetInv
<1>a. /\ open \in Nat /\ disk.count \in Nat /\ GlobalMax \in Nat
      /\ LocalDay \in Int /\ RegimeMax[cycle.regime] \in Nat
  BY <1>0, ClockFacts, GuardrailsAssumption DEF TypeOK, PersistentFields
<1> USE DEF BudgetInv
<1>1. CASE Start
  BY <1>0, <1>1 DEF Start
<1>2. CASE Evaluate
  <2>1. PICK value \in Values, regime \in Regimes, fragile \in BOOLEAN :
          LET m == UpdateAth(ResetDaily(mem, day), value)
              state == RiskState(m, value, fragile)
              killed == state = "KILL_SWITCH"
          IN  /\ Save([m EXCEPT !.kill = @ \/ killed])
              /\ cycle' = [value |-> value, regime |-> regime, ticks |-> 0,
                           allowed |-> RiskAllowsNewEntries(m, state, regime)]
              /\ phase' = "comp" \/ (phase' = "exits" /\ UNCHANGED open)
    BY <1>2 DEF Evaluate
  <2> DEFINE r == ResetDaily(mem, day)
             m == UpdateAth(r, value)
             state == RiskState(m, value, fragile)
  <2> SUFFICES ASSUME phase' = "exits", cycle'.allowed PROVE Granted'
    BY <1>0, <2>1
  <2>2. cycle'.regime = regime /\ open' = open /\ RiskAllowsNewEntries(m, state, regime)
    BY <2>1
  <2>3. m.count = disk'.count
    <3>1. r \in Fields /\ r.count = CountOn(day)
      <4>1. Running /\ day \in Int
        BY <1>0, <1>2 DEF Evaluate, Running, TypeOK
      <4> QED
        BY <1>0, <4>1, MemSeen, ResetSeen
    <3>2. m.count = r.count
      BY <3>1 DEF UpdateAth, Fields
    <3>3. disk'.count = CountOn(day)
      BY <1>0, <1>2, EvaluateFacts
    <3> QED
      BY <3>1, <3>2, <3>3
  <2> HIDE DEF m, state
  <2>4. open < RegimeMax[regime] /\ (GlobalMax = 0 \/ m.count < GlobalMax)
    BY <1>0, <2>2, GateWithinBudget
  <2> QED
    BY <2>2, <2>3, <2>4 DEF Granted
<1>3. CASE RecordExit
  <2>1. disk'.count = CountOn(LocalDay) /\ UNCHANGED phase /\ phase = "exits"
    BY <1>0, <1>3, RecordExitFacts
  <2>2. UNCHANGED cycle /\ open' = open - 1
    BY <1>3 DEF RecordExit
  <2>3. disk'.count <= disk.count /\ disk'.count \in Nat
    BY <1>a, <2>1 DEF CountOn
  <2> QED
    BY <1>0, <1>a, <2>1, <2>2, <2>3 DEF Granted
<1>4. CASE ExitsDone
  <2>1. /\ phase = "exits" /\ phase' = (IF cycle.allowed THEN "entry" ELSE "comp")
        /\ open' \in 0 .. open /\ UNCHANGED <<cycle, disk>>
    BY <1>4 DEF ExitsDone
  <2> QED
    BY <1>0, <1>a, <2>1 DEF Granted
<1>5. CASE \/ NoEntry \/ ValidateRaises \/ SubmitEntry \/ RecordEntry \/ EntryUnreported
           \/ ComplianceDeclined \/ ComplianceUnreported \/ ComplianceFailed \/ SubmitCompliance \/ RecordCompliance \/ Crash
  BY <1>0, <1>5 DEF NoEntry, ValidateRaises, SubmitEntry, RecordEntry, EntryUnreported,
     ComplianceDeclined, ComplianceUnreported, ComplianceFailed, SubmitCompliance, RecordCompliance, Crash, Die, EndCycle
<1>6. CASE Tick
  <2>1. UNCHANGED <<phase, disk, open>>
        /\ (cycle' = cycle \/ cycle' = [cycle EXCEPT !.ticks = @ + 1])
    BY <1>6 DEF Tick
  <2>2. cycle'.regime = cycle.regime /\ (cycle'.allowed => cycle.allowed)
    BY <1>0, <2>1 DEF TypeOK
  <2> QED
    BY <1>0, <2>1, <2>2 DEF Granted
<1>7. CASE UNCHANGED vars
  BY <1>0, <1>7 DEF Granted, vars
<1> QED
  BY <1>1, <1>2, <1>3, <1>4, <1>5, <1>6, <1>7 DEF Next

(* A validation that kills the process does so for the latch, the pause or *)
(* the loss limit, provided that every regime has a budget: with none the  *)
(* gate grants one entry in reduced risk, max(1, 0 // 2), which validation *)
(* refuses.                                                                *)
THEOREM GrantedBudgetsLast ==
  ASSUME \A r \in Regimes : RegimeMax[r] > 0
  PROVE  Spec => BudgetNeverRaises
<1>1. Init => BudgetInv
  <2> SUFFICES ASSUME Init PROVE BudgetInv
    OBVIOUS
  <2>1. phase = "down"
    BY DEF Init
  <2> QED
    BY <2>1, InitTypeOK, InitSynced DEF BudgetInv
<1>2. BudgetInv /\ [Next]_vars => BudgetInv'
  BY BudgetStep
<1>3. BudgetInv /\ [Next]_vars =>
        [phase = "entry" /\ phase' = "raised" =>
           \/ mem.kill
           \/ Later(mem.pausedUntil, clock)
           \/ LossLimitHit(mem, cycle.value)]_vars
  <2> SUFFICES ASSUME BudgetInv, Next, phase = "entry", phase' = "raised",
                      ~mem.kill, ~Later(mem.pausedUntil, clock),
                      ~LossLimitHit(mem, cycle.value)
               PROVE  FALSE
    OBVIOUS
  <2> DEFINE n == ResetDaily(mem, day)
  <2>1. ValidateRaises
    BY DEF Next, Start, Evaluate, RecordExit, ExitsDone, NoEntry, SubmitEntry, RecordEntry,
           EndCycle, ComplianceDeclined, ComplianceFailed, SubmitCompliance,
           RecordCompliance, EntryUnreported, ComplianceUnreported, Crash, Die, Tick
  <2>2. ~ValidatesNewTrade(n, cycle.value, cycle.regime)
    BY <2>1 DEF ValidateRaises
  <2>3. /\ mem \in Fields /\ day \in Nat /\ tick \in Nat /\ cycle.value \in Nat
        /\ disk.count \in Nat /\ GlobalMax \in Nat /\ MaxDailyLossPct \in Nat \ {0}
    BY GuardrailsAssumption DEF BudgetInv, TypeOK, Fields, PersistentFields
  <2>4. n.kill = mem.kill /\ n.count = CountOn(day)
    BY ValidateFacts, <2>3, ResetDailyFacts DEF BudgetInv
  <2>5. ~Later(n.pausedUntil, clock)
    <3>1. n.pausedUntil = mem.pausedUntil \/ n.pausedUntil = Never
      BY <2>3 DEF ResetDaily, Fields
    <3>2. ~Later(Never, clock)
      BY <2>3 DEF Later, Never, clock
    <3> QED
      BY <3>1, <3>2
  <2>6. ~LossLimitHit(n, cycle.value)
    <3>1. CASE mem.date = day
      BY <3>1 DEF ResetDaily
    <3>2. CASE mem.date # day
      <4> DEFINE limit == cycle.value * MaxDailyLossPct
      <4>1. n.loss = 0
        BY <2>3, <3>2, ResetDailyFacts
      <4>2. cycle.value > 0 => limit > 0
        BY <2>3
      <4>3. limit \in Nat /\ n.loss * 100 = 0
        BY <2>3, <4>1
      <4>4. cycle.value > 0 => ~(n.loss * 100 >= limit)
        <5> HIDE DEF limit, n
        <5> QED
          BY <4>2, <4>3
      <4> QED
        BY <4>4 DEF LossLimitHit
    <3> QED
      BY <3>1, <3>2
  <2>7. open < RegimeMax[cycle.regime] /\ (GlobalMax = 0 \/ n.count < GlobalMax)
    BY <2>3, <2>4 DEF BudgetInv, Granted, CountOn
  <2> HIDE DEF n
  <2> QED
    BY <2>2, <2>4, <2>5, <2>6, <2>7 DEF ValidatesNewTrade
<1> QED
  BY <1>1, <1>2, <1>3, PTL DEF Spec, BudgetNeverRaises
=============================================================================
