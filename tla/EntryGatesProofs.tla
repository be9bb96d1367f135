--------------------------- MODULE EntryGatesProofs ---------------------------
(***************************************************************************)
(* Proofs about EntryGates: its type, that a halt stops trades, that the   *)
(* last good calendar is in force, and that trades avoid its events, but   *)
(* for a backup whose stamp was taken for another text; for every          *)
(* calendar, every set of saves and every number of the operator's acts.   *)
(***************************************************************************)
EXTENDS EntryGates, TLAPS

USE DEF world, cal, cycle, Loop

Loading == {"load", "read"}

(* A load changes nothing but the calendar in force and its stamp.         *)
LEMMA LoadReads ==
    ASSUME Load
    PROVE  /\ file # NoFile /\ events' = Versions[file.stamp] /\ due' = events'
           /\ mtime' = stat /\ misread' = (file.stamp # stat)
BY DEF Load, Whole

LEMMA CalendarsAreCalendars == \A m \in Stamps : IsCalendar(Versions[m])
BY GatesAssumption

LEMMA StampsAreStamps == \A m \in Stamps : m \in Nat /\ m # NoStamp
BY GatesAssumption

-----------------------------------------------------------------------------
(* Types.  The steps before a choice have no candidate, also while they    *)
(* wait for a load.                                                        *)
NoChoiceYet ==
    /\ pc \in {"top", "global", "exits", "minimum", "backstop"} => candidate = "none"
    /\ pc \in Loading /\ ret = "global" => candidate = "none"

FileOK ==
    /\ file \in [stamp : Stamps \cup {NoStamp}, torn : BOOLEAN]
    /\ file # NoFile => file.stamp \in Stamps
    /\ pc \in {"read", "boot"} => stat \in Stamps

TypeInv == TypeOK /\ FileOK /\ NoChoiceYet

LEMMA TypeInit == Init => TypeInv
<1> SUFFICES ASSUME Init PROVE TypeInv
  OBVIOUS
<1>1. IsCalendar(events) /\ IsCalendar(due)
  <2>1. IsCalendar({})
    BY DEF IsCalendar
  <2> QED
    BY <2>1, CalendarsAreCalendars DEF Init
<1>2. FileOK
  <2>1. CASE file = NoFile
    BY <2>1 DEF FileOK, NoFile, Init
  <2>2. CASE \E m \in Stamps : file = [stamp |-> m, torn |-> FALSE]
    BY <2>2 DEF FileOK, Init
  <2> QED
    BY <2>1, <2>2 DEF Init
<1>3. NoChoiceYet
  BY DEF Init, NoChoiceYet, Loading
<1>4. TypeOK
  <2>1. now \in 0 .. MaxTime /\ acts \in 0 .. MaxActs /\ at \in 0 .. now
    BY GatesAssumption DEF Init
  <2>2. mtime \in Stamps \cup {NoStamp} /\ stat \in Stamps \cup {NoStamp}
    BY DEF Init
  <2>3. file.stamp \in Stamps \cup {NoStamp} /\ file.torn \in BOOLEAN
    BY <1>2 DEF FileOK
  <2> QED
    BY <1>1, <2>1, <2>2, <2>3 DEF Init, TypeOK, Asking
<1> QED
  BY <1>2, <1>3, <1>4 DEF TypeInv

LEMMA TypeStep == TypeInv /\ [Next]_vars => TypeInv'
<1> SUFFICES ASSUME TypeInv, [Next]_vars PROVE TypeInv'
  OBVIOUS
<1> USE DEF TypeInv, TypeOK, FileOK, NoChoiceYet, Asking, Loading
<1>1. CASE SetHalt
  BY <1>1, GatesAssumption DEF SetHalt, Act
<1>2. CASE LiftHalt
  <2>1. acts' \in 0 .. MaxActs
    BY <1>2, GatesAssumption DEF LiftHalt, Act
  <2>2. halt' \in BOOLEAN /\ firm' \in BOOLEAN
    BY <1>2 DEF LiftHalt
  <2> QED
    BY <1>2, <2>1, <2>2 DEF LiftHalt
<1>3. CASE BeginSave
  BY <1>3, GatesAssumption DEF BeginSave, Act
<1>4. CASE EndSave
  <2>1. file' = [stamp |-> file.stamp, torn |-> FALSE]
    BY <1>4 DEF EndSave
  <2>2. file # NoFile /\ file.stamp \in Stamps
    BY <1>4 DEF EndSave, NoFile
  <2> QED
    <3>1. FileOK'
      BY <1>4, <2>1, <2>2 DEF EndSave
    <3>2. file'.stamp \in Stamps \cup {NoStamp} /\ file'.torn \in BOOLEAN
      BY <2>1, <2>2
    <3> QED
      BY <1>4, <3>1, <3>2 DEF EndSave
<1>5. CASE DeleteFile
  BY <1>5, GatesAssumption DEF DeleteFile, Act, NoFile
<1>6. CASE Tick
  BY <1>6, GatesAssumption DEF Tick
<1>7. CASE LoadStat
  <2>1. CASE file = NoFile
    <3>1. /\ mtime' \in Stamps \cup {NoStamp} /\ misread' \in BOOLEAN
          /\ misread' => mtime' \in Stamps
      BY <1>7, <2>1 DEF LoadStat
    <3>2. pc' \in Asking /\ pc' = ret /\ IsCalendar(due') /\ stat' = stat
      BY <1>7, <2>1 DEF LoadStat
    <3>3. UNCHANGED <<world, events, ret, cycle, haltWas, firm>> /\ pc = "load"
      BY <1>7 DEF LoadStat
    <3> QED
      BY <3>1, <3>2, <3>3
  <2>2. CASE file # NoFile
    <3>1. stat' \in Stamps /\ pc' = "read" /\ UNCHANGED <<mtime, misread, due>>
      BY <1>7, <2>2 DEF LoadStat
    <3>2. UNCHANGED <<world, events, ret, cycle, haltWas, firm>> /\ pc = "load"
      BY <1>7 DEF LoadStat
    <3> QED
      BY <3>1, <3>2
  <2> QED
    BY <2>1, <2>2
<1>8. CASE LoadGood
  <2>1. IsCalendar(events') /\ IsCalendar(due') /\ mtime' \in Stamps /\ misread' \in BOOLEAN
    BY <1>8, LoadReads, CalendarsAreCalendars DEF LoadGood
  <2> QED
    BY <1>8, <2>1 DEF LoadGood
<1>9. CASE LoadKeepsLastGood
  BY <1>9 DEF LoadKeepsLastGood, StampKept
<1>10. CASE LoadRaises
  BY <1>10 DEF LoadRaises
<1>11. CASE Restart \/ Boot
  <2>1. IsCalendar({})
    BY DEF IsCalendar
  <2>2. CASE Restart
    <3>1. CASE file = NoFile
      BY <2>1, <2>2, <3>1 DEF Restart
    <3>2. CASE file # NoFile
      <4>1. stat' \in Stamps /\ pc' = "boot" /\ UNCHANGED <<events, due, mtime, misread>>
        BY <2>2, <3>2 DEF Restart
      <4>2. UNCHANGED <<world, ret, cycle, firm>> /\ haltWas' \in BOOLEAN
        BY <2>2 DEF Restart
      <4> QED
        BY <4>1, <4>2
    <3> QED
      BY <3>1, <3>2
  <2>3. CASE Boot
    <3>1. CASE Load /\ pc' = "start"
      <4>1. IsCalendar(events') /\ IsCalendar(due') /\ mtime' \in Stamps /\ misread' \in BOOLEAN
        BY <2>3, <3>1, LoadReads, CalendarsAreCalendars DEF Boot
      <4> QED
        BY <2>3, <3>1, <4>1 DEF Boot
    <3>2. CASE pc' = "dead" /\ UNCHANGED <<events, due, mtime, misread>>
      BY <2>3, <3>2 DEF Boot
    <3> QED
      BY <2>3, <3>1, <3>2 DEF Boot
  <2> QED
    BY <1>11, <2>2, <2>3
<1>12. CASE SleepPoll \/ SleepOver \/ StartCycle
  <2>1. CASE SleepPoll
    BY <2>1 DEF SleepPoll, Goto
  <2>2. CASE SleepOver
    BY <2>2 DEF SleepOver, Goto
  <2>3. CASE StartCycle
    <3>1. at' \in 0 .. now'
      BY <2>3, GatesAssumption DEF StartCycle
    <3>2. haltSeen' \in BOOLEAN /\ firm' \in BOOLEAN
      BY <2>3 DEF StartCycle
    <3> QED
      BY <2>3, <3>1, <3>2 DEF StartCycle, Goto
  <2> QED
    BY <1>12, <2>1, <2>2, <2>3
<1>13. CASE TopHalt \/ TopEvents \/ Exits
  BY <1>13, CalendarsAreCalendars DEF TopHalt, TopEvents, Exits, Blocked, Reload, Whole, Goto
<1>14. CASE Select
  BY <1>14, CalendarsAreCalendars DEF Select, Chosen, Reload, Whole, Goto
<1>15. CASE Minimum
  BY <1>15, CalendarsAreCalendars DEF Minimum, Chosen, Reload, Whole, Goto
<1>16. CASE Confirm \/ ConfirmMinimum \/ Final
  <2>1. CASE Confirm
    BY <2>1 DEF Confirm, Drop, Goto
  <2>2. CASE ConfirmMinimum
    BY <2>2 DEF ConfirmMinimum, Drop, Goto
  <2>3. CASE Final
    BY <2>3 DEF Final, HaltNow, Drop, Goto
  <2> QED
    BY <1>16, <2>1, <2>2, <2>3
<1>17. CASE Enter \/ Decline \/ CounterGate \/ Comply
  BY <1>17 DEF Enter, Decline, CounterGate, Comply, Drop, Goto
<1>18. CASE Backstop
  BY <1>18, CalendarsAreCalendars DEF Backstop, Reload, Whole, Goto
<1>19. CASE UNCHANGED vars
  BY <1>19 DEF vars
<1> QED
  BY <1>1, <1>2, <1>3, <1>4, <1>5, <1>6, <1>7, <1>8, <1>9, <1>10, <1>11, <1>12, <1>13, <1>14,
     <1>15, <1>16, <1>17, <1>18, <1>19 DEF Next, Operator, Agent

LEMMA TypeAlways == Spec => []TypeInv
BY TypeInit, TypeStep, PTL DEF Spec

(* The variables of the gates are always of their types, and a candidate   *)
(* that was dropped is forgotten (run_agent, main.py).                     *)
THEOREM TypeCorrect == Spec => []TypeOK
<1>1. TypeInv => TypeOK
  BY DEF TypeInv
<1> QED
  BY TypeAlways, <1>1, PTL

-----------------------------------------------------------------------------
(* Halts.  firm never outlives the control file; what a gate without a     *)
(* halt lets pass may still be loading the calendar.                       *)
HaltInv ==
    /\ firm => halt
    /\ pc \in {"counter", "attempt", "comply"} => ~firm
    /\ pc \in Loading /\ ret = "counter" => ~firm

LEMMA HaltStep == TypeOK /\ HaltInv /\ [Next]_vars => HaltInv'
<1> SUFFICES ASSUME TypeOK, HaltInv, [Next]_vars PROVE HaltInv'
  OBVIOUS
<1> USE DEF HaltInv, Loading
<1>1. CASE SetHalt \/ LiftHalt \/ BeginSave \/ EndSave \/ DeleteFile \/ Tick
  BY <1>1 DEF SetHalt, LiftHalt, BeginSave, EndSave, DeleteFile, Tick
<1>2. CASE LoadStat \/ LoadGood \/ LoadKeepsLastGood \/ LoadRaises \/ Restart \/ Boot
  BY <1>2 DEF LoadStat, LoadGood, LoadKeepsLastGood, LoadRaises, Restart, Boot, TypeOK, Asking
<1>3. CASE SleepPoll \/ SleepOver \/ StartCycle
  BY <1>3 DEF SleepPoll, SleepOver, StartCycle, Goto
<1>4. CASE TopHalt \/ TopEvents \/ Exits
  BY <1>4 DEF TopHalt, TopEvents, Exits, Reload, Goto
<1>5. CASE Select \/ Minimum
  BY <1>5 DEF Select, Minimum, Chosen, Reload, Goto
<1>6. CASE Confirm \/ ConfirmMinimum \/ Final
  BY <1>6 DEF Confirm, ConfirmMinimum, Final, HaltNow, Drop, Goto
<1>7. CASE Enter \/ Decline \/ CounterGate \/ Comply
  BY <1>7 DEF Enter, Decline, CounterGate, Comply, Drop, Goto
<1>8. CASE Backstop
  BY <1>8 DEF Backstop, HaltNow, Reload, Goto
<1>9. CASE UNCHANGED vars
  BY <1>9 DEF vars
<1> QED
  BY <1>1, <1>2, <1>3, <1>4, <1>5, <1>6, <1>7, <1>8, <1>9 DEF Next, Operator, Agent

(* Nothing is bought while the control file has been there since before    *)
(* the last phase of the cycle (run_agent, main.py).                       *)
THEOREM HaltsStopTrades == Spec => []HaltStopsTrades
<1>1. Init => HaltInv
  BY DEF Init, HaltInv, Loading
<1>2. HaltInv => HaltStopsTrades
  BY DEF HaltInv, HaltStopsTrades
<1> QED
  BY TypeCorrect, HaltStep, <1>1, <1>2, PTL DEF Spec

-----------------------------------------------------------------------------
(* The calendar.  Unless it was misread, the one in force is that of the   *)
(* stamp it was loaded at, so that a gate may leave a file of that stamp   *)
(* alone.                                                                  *)
CalendarInv ==
    /\ LastGoodInForce
    /\ mtime \in Stamps /\ ~misread => events = Versions[mtime]

LEMMA ReloadCalendar ==
    ASSUME TypeInv, CalendarInv, events = due \/ Misdated, NEW next \in Asking, Reload(next),
           UNCHANGED <<file, events, mtime, misread>>
    PROVE  CalendarInv'
<1>1. CASE file # NoFile /\ Changed(file.stamp)
  BY <1>1 DEF Reload, CalendarInv, LastGoodInForce
<1>2. CASE ~(file # NoFile /\ Changed(file.stamp))
  <2>1. CASE Whole
    <3>1. file.stamp = mtime /\ mtime \in Stamps
      BY <1>2, <2>1 DEF Whole, Changed, TypeInv, FileOK
    <3>2. due' = Versions[mtime]
      BY <2>1, <3>1 DEF Reload
    <3> QED
      BY <3>1, <3>2 DEF CalendarInv, LastGoodInForce, Misdated
  <2>2. CASE ~Whole
    BY <2>2 DEF Reload, CalendarInv, LastGoodInForce, Misdated
  <2> QED
    BY <2>1, <2>2
<1> QED
  BY <1>1, <1>2

LEMMA CalendarStep == TypeInv /\ CalendarInv /\ [Next]_vars => CalendarInv'
<1> SUFFICES ASSUME TypeInv, CalendarInv, [Next]_vars PROVE CalendarInv'
  OBVIOUS
<1>a. pc \notin {"load", "read", "dead", "boot"} => events = due \/ Misdated
  BY DEF CalendarInv, LastGoodInForce
<1>1. CASE SetHalt \/ LiftHalt \/ BeginSave \/ EndSave \/ DeleteFile \/ Tick
  BY <1>1 DEF SetHalt, LiftHalt, BeginSave, EndSave, DeleteFile, Tick, CalendarInv,
              LastGoodInForce, Misdated
<1>2. CASE LoadStat
  BY <1>2, GatesAssumption DEF LoadStat, CalendarInv, LastGoodInForce
<1>3. CASE LoadGood
  BY <1>3, LoadReads DEF LoadGood, CalendarInv, LastGoodInForce
<1>4. CASE LoadKeepsLastGood \/ LoadRaises
  BY <1>4 DEF LoadKeepsLastGood, LoadRaises, StampKept, CalendarInv, LastGoodInForce
<1>5. CASE Restart
  BY <1>5, GatesAssumption DEF Restart, CalendarInv, LastGoodInForce
<1>6. CASE Boot
  <2>1. CASE Load /\ pc' = "start"
    BY <2>1, LoadReads DEF CalendarInv, LastGoodInForce
  <2>2. CASE pc' = "dead" /\ UNCHANGED <<events, due, mtime, misread>>
    BY <2>2 DEF CalendarInv, LastGoodInForce
  <2> QED
    BY <1>6, <2>1, <2>2 DEF Boot
<1>7. CASE SleepPoll \/ SleepOver \/ StartCycle \/ TopEvents
  BY <1>7, <1>a DEF SleepPoll, SleepOver, StartCycle, TopEvents, Goto, CalendarInv, LastGoodInForce,
       Misdated
<1>8. CASE Confirm \/ ConfirmMinimum \/ Final \/ Enter \/ Decline \/ CounterGate \/ Comply
  BY <1>8, <1>a DEF Confirm, ConfirmMinimum, Final, Enter, Decline, CounterGate, Comply, Drop, Goto,
                    CalendarInv, LastGoodInForce, Misdated
<1>9. CASE TopHalt \/ Exits \/ Select \/ Minimum \/ Backstop
  <2>1. (events = due \/ Misdated) /\ UNCHANGED <<file, events, mtime, misread>>
    BY <1>9, <1>a DEF TopHalt, Exits, Select, Minimum, Backstop, Chosen
  <2>2. CASE \E next \in Asking : Reload(next)
    BY <2>1, <2>2, ReloadCalendar
  <2>3. CASE UNCHANGED due
    BY <2>1, <2>3 DEF CalendarInv, LastGoodInForce, Misdated
  <2>4. (\E next \in Asking : Reload(next)) \/ UNCHANGED due
    BY <1>9 DEF TopHalt, Exits, Select, Minimum, Backstop, Chosen, Asking
  <2> QED
    BY <2>2, <2>3, <2>4
<1>10. CASE UNCHANGED vars
  BY <1>10 DEF vars, CalendarInv, LastGoodInForce, Misdated
<1> QED
  BY <1>1, <1>2, <1>3, <1>4, <1>5, <1>6, <1>7, <1>8, <1>9, <1>10 DEF Next, Operator, Agent

LEMMA CalendarAlways == Spec => []CalendarInv
<1>1. Init => CalendarInv
  BY GatesAssumption DEF Init, CalendarInv, LastGoodInForce
<1> QED
  BY TypeAlways, CalendarStep, <1>1, PTL DEF Spec

(* Whatever the operator saves, restores, breaks and deletes, the calendar *)
(* in force is the file's if a gate found it whole, and else the last good *)
(* one, except that _maybe_reload passes over a backup with the stamp that *)
(* load had taken before it read a later save (event_filter.py).           *)
THEOREM LastGoodStaysInForce == Spec => []LastGoodInForce
<1>1. CalendarInv => LastGoodInForce
  BY DEF CalendarInv
<1> QED
  BY CalendarAlways, <1>1, PTL

-----------------------------------------------------------------------------
(* Events.  A confirmed candidate stays clear of them until it is bought.  *)
ClearInv ==
    \/ Misdated
    \/ /\ pc \in {"final", "attempt"} =>
             \A e \in due : e.symbol \in {candidate, GLOBAL} => ~Covers(e, at)
       /\ pc = "comply" => \A e \in due : e.symbol = Counter => ~Covers(e, at)

LEMMA ClearStep == TypeOK /\ LastGoodInForce /\ ClearInv /\ [Next]_vars => ClearInv'
<1> SUFFICES ASSUME TypeOK, LastGoodInForce, ClearInv, [Next]_vars PROVE ClearInv'
  OBVIOUS
<1>1. CASE SetHalt \/ LiftHalt \/ BeginSave \/ EndSave \/ DeleteFile \/ Tick
  BY <1>1 DEF SetHalt, LiftHalt, BeginSave, EndSave, DeleteFile, Tick, ClearInv, Misdated
<1>2. CASE LoadStat \/ LoadGood \/ LoadKeepsLastGood
  BY <1>2 DEF LoadStat, LoadGood, LoadKeepsLastGood, TypeOK, Asking, ClearInv
<1>3. CASE LoadRaises \/ Restart \/ Boot \/ SleepPoll \/ SleepOver \/ StartCycle
  BY <1>3 DEF LoadRaises, Restart, Boot, SleepPoll, SleepOver, StartCycle, Goto, ClearInv
<1>4. CASE TopHalt \/ TopEvents \/ Exits \/ Select \/ Minimum \/ Backstop
  BY <1>4 DEF TopHalt, TopEvents, Exits, Select, Minimum, Backstop, Chosen, Reload, Goto, ClearInv
<1>5. CASE Confirm \/ ConfirmMinimum
  <2>1. (events = due \/ Misdated) /\ UNCHANGED <<due, at, mtime, misread>>
    BY <1>5 DEF Confirm, ConfirmMinimum, LastGoodInForce
  <2>2. CASE SymbolBlackout(candidate, at)
    BY <1>5, <2>2 DEF Confirm, ConfirmMinimum, Drop, Goto, ClearInv
  <2>3. CASE ~SymbolBlackout(candidate, at)
    <3>1. pc' = "final" /\ candidate' = candidate
      BY <1>5, <2>3 DEF Confirm, ConfirmMinimum, Goto
    <3> QED
      BY <2>1, <2>3, <3>1 DEF SymbolBlackout, Covers, ClearInv, Misdated
  <2> QED
    BY <2>2, <2>3
<1>6. CASE Final
  BY <1>6 DEF Final, Drop, Goto, Covers, ClearInv, Misdated
<1>7. CASE Enter \/ Decline \/ Comply
  BY <1>7 DEF Enter, Decline, Comply, Drop, Goto, ClearInv, Misdated
<1>8. CASE CounterGate
  <2>1. (events = due \/ Misdated) /\ UNCHANGED <<due, at, mtime, misread>>
    BY <1>8 DEF CounterGate, LastGoodInForce
  <2>2. events = due /\ Counter \notin ActiveSymbols(at) =>
            \A e \in due : e.symbol = Counter => ~Covers(e, at)
    BY GatesAssumption DEF ActiveSymbols
  <2>3. pc' = IF Counter \in ActiveSymbols(at) THEN "sleep" ELSE "comply"
    BY <1>8 DEF CounterGate, Goto
  <2> QED
    BY <2>1, <2>2, <2>3 DEF Covers, ClearInv, Misdated
<1>9. CASE UNCHANGED vars
  BY <1>9 DEF vars, Covers, ClearInv, Misdated
<1> QED
  BY <1>1, <1>2, <1>3, <1>4, <1>5, <1>6, <1>7, <1>8, <1>9 DEF Next, Operator, Agent

(* Nothing is bought in a blackout of the calendar that the last gate had  *)
(* to know, with the same exception (global_blackout, symbol_blackout and  *)
(* their calls in run_agent).                                              *)
THEOREM EveryTradeAvoidsEvents == Spec => []TradesAvoidEvents
<1>1. Init => ClearInv
  BY DEF Init, ClearInv
<1>2. ClearInv => TradesAvoidEvents
  BY DEF ClearInv, TradesAvoidEvents
<1> QED
  BY TypeCorrect, LastGoodStaysInForce, ClearStep, <1>1, <1>2, PTL DEF Spec
=============================================================================
