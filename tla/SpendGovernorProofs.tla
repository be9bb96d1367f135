------------------------- MODULE SpendGovernorProofs -------------------------
(***************************************************************************)
(* Theorems about SpendGovernor, for every price, every pair of budgets    *)
(* and every backoff.  The order: what the governor's operators return,    *)
(* type correctness, the budgets in the governor's own books, the payments *)
(* against those books, and the refinement of Allowance.                   *)
(***************************************************************************)
EXTENDS SpendGovernor, TLAPS

-----------------------------------------------------------------------------
(* What the operators return.                                              *)

(* The daily spend that counts today.                                      *)
TodayOf(b) == IF b.day = day THEN b.daily ELSE 0

(* h is g with the day rolled and n more spent.                            *)
Spent(g, h, n) ==
    /\ h \in GovType
    /\ h.day = day
    /\ h.daily = TodayOf(g) + n
    /\ h.total = g.total + n

LEMMA RollFacts ==
    ASSUME NEW g \in GovType, day \in Nat
    PROVE  /\ Spent(g, RollDay(g), 0)
           /\ RollDay(g).cool = g.cool
<1>1. CASE g.day = day
    BY <1>1 DEF Spent, RollDay, TodayOf, GovType
<1>2. CASE g.day # day
    <2> DEFINE h == [g EXCEPT !.day = day, !.daily = 0]
    <2>1. h \in GovType
        BY DEF GovType
    <2>2. h.day = day /\ h.daily = 0 /\ h.total = g.total /\ h.cool = g.cool
        BY DEF GovType
    <2>3. RollDay(g) = h
        BY <1>2 DEF RollDay
    <2>4. TodayOf(g) = 0 /\ g.total + 0 = g.total
        BY <1>2 DEF TodayOf, GovType
    <2> HIDE DEF h
    <2> QED
        BY <2>1, <2>2, <2>3, <2>4 DEF Spent
<1> QED
    BY <1>1, <1>2

LEMMA ChargeFacts ==
    ASSUME NEW g \in GovType, day \in Nat, NEW n \in Nat
    PROVE  Spent(g, Charge(g, n), n)
<1> DEFINE r == RollDay(g)
           a == r.daily + n
           b == r.total + n
           h == [r EXCEPT !.daily = a, !.total = b]
<1>1. r \in GovType /\ r.day = day /\ r.daily = TodayOf(g) + 0 /\ r.total = g.total + 0
    BY RollFacts DEF Spent
<1>2. TodayOf(g) \in Nat /\ g.total \in Nat
    BY DEF TodayOf, GovType
<1>3. Charge(g, n) = h
    BY DEF Charge
<1>4. a \in Nat /\ b \in Nat /\ a = TodayOf(g) + n /\ b = g.total + n
    BY <1>1, <1>2 DEF GovType
<1> HIDE DEF r, a, b
<1>5. h \in GovType
    BY <1>1, <1>4 DEF GovType
<1>6. h.day = r.day /\ h.daily = a /\ h.total = b
    BY <1>1 DEF GovType
<1> HIDE DEF h
<1> QED
    BY <1>1, <1>3, <1>4, <1>5, <1>6 DEF Spent

LEMMA RecordSpendFacts ==
    ASSUME NEW g \in GovType, day \in Nat
    PROVE  Spent(g, RecordSpend(g), Cost)
<1> DEFINE c == Charge(g, Cost)
<1>1. Spent(g, c, Cost)
    BY ChargeFacts, GovernorAssumption
<1> HIDE DEF c
<1> DEFINE h == [c EXCEPT !.wait = 0, !.cool = 0]
<1>2. RecordSpend(g) = h
    BY DEF RecordSpend, c
<1>3. c \in GovType
    BY <1>1 DEF Spent
<1>4. h \in GovType
    BY <1>3 DEF GovType
<1>5. h.day = c.day /\ h.daily = c.daily /\ h.total = c.total
    BY <1>3 DEF GovType
<1> HIDE DEF h
<1> QED
    BY <1>1, <1>2, <1>4, <1>5 DEF Spent

LEMMA NextWaitType ==
    ASSUME NEW g \in GovType
    PROVE  NextWait(g) \in Nat
    BY GovernorAssumption DEF NextWait, Smaller, GovType

LEMMA RecordFailureFacts ==
    ASSUME NEW g \in GovType, day \in Nat, NEW n \in Nat
    PROVE  Spent(g, RecordFailure(g, n), n)
<1> DEFINE c == Charge(g, n)
           w == NextWait(g)
<1>1. Spent(g, c, n) /\ w \in Nat
    BY ChargeFacts, NextWaitType
<1> HIDE DEF c, w
<1> DEFINE h == [c EXCEPT !.wait = w, !.cool = w]
<1>2. RecordFailure(g, n) = h
    BY DEF RecordFailure, c, w
<1>3. c \in GovType
    BY <1>1 DEF Spent
<1>4. h \in GovType
    BY <1>1, <1>3 DEF GovType
<1>5. h.day = c.day /\ h.daily = c.daily /\ h.total = c.total
    BY <1>3 DEF GovType
<1> HIDE DEF h
<1> QED
    BY <1>1, <1>2, <1>4, <1>5 DEF Spent

LEMMA LoadFacts ==
    ASSUME day \in Nat, ledger \in LedgerType
    PROVE  /\ Load \in GovType
           /\ Load.day = day
           /\ Load.daily = IF torn THEN 0 ELSE TodayOf(ledger)
           /\ Load.total = IF torn THEN 0 ELSE ledger.total
    BY DEF Load, Off, TodayOf, GovType, LedgerType

(* The ledger is the governor's, or a save failed and it is what it was.   *)
Written ==
    \/ /\ ledger'.day = gov'.day /\ ledger'.daily = gov'.daily
       /\ ledger'.total = gov'.total /\ torn' = FALSE
    \/ ledger' = ledger /\ "full" \in seen'

FileType ==
    /\ ledger \in LedgerType /\ torn \in BOOLEAN
    /\ faults \in Nat /\ seen \subseteq Faults

LEMMA SaveFacts ==
    ASSUME gov' \in GovType, Save(gov'), FileType
    PROVE  FileType' /\ Written /\ seen \subseteq seen'
<1> USE DEF FileType
<1>1. CASE /\ ledger' = [day |-> gov'.day, daily |-> gov'.daily, total |-> gov'.total]
           /\ torn' = FALSE /\ NoFault
    <2>1. gov'.day \in Nat /\ gov'.daily \in Nat /\ gov'.total \in Nat
        BY DEF GovType
    <2>2. ledger' \in LedgerType
        BY <1>1, <2>1 DEF LedgerType
    <2> QED
        BY <1>1, <2>2 DEF NoFault, Written
<1>2. CASE Fault("full") /\ torn' \in BOOLEAN /\ UNCHANGED ledger
    BY <1>2 DEF Fault, Written
<1> QED
    BY <1>1, <1>2 DEF Save

-----------------------------------------------------------------------------
(* What the actions do to the variables of the governor.                   *)

(* SendCall and RefuseCall roll the day, and save when it had turned.      *)
Rolled ==
    /\ gov' = RollDay(gov)
    /\ IF gov.day = day THEN NoFault /\ UNCHANGED <<ledger, torn>> ELSE Save(gov')

(* An answered call: h is what the governor counted it as.                 *)
Settled(n) ==
    /\ Answered(gov', n)
    /\ Spent(gov, gov', n)
    /\ n \in {0, Cost}

LEMMA AnswersSettle ==
    ASSUME TypeOK
    PROVE  /\ CallSucceeds => Settled(Cost)
           /\ ServerError => Settled(Cost)
           /\ UncountedFailure => Settled(0)
<1>1. Cost \in Nat /\ 0 \in Nat /\ gov \in GovType /\ day \in Nat
    BY GovernorAssumption DEF TypeOK
<1>2. CallSucceeds => Settled(Cost)
    BY <1>1, RecordSpendFacts DEF CallSucceeds, Settled, Answered
<1>3. ServerError => Settled(Cost)
    BY <1>1, RecordFailureFacts DEF ServerError, Settled, Answered
<1>4. UncountedFailure => Settled(0)
    BY <1>1, RecordFailureFacts DEF UncountedFailure, Settled, Answered
<1> QED
    BY <1>2, <1>3, <1>4

(* The history record after a call that ended.                             *)
PaidAs(h, paid, counted) ==
    /\ h \in HistType
    /\ h.paid = hist.paid + paid
    /\ h.paidToday = hist.paidToday + paid
    /\ h.missed = hist.missed + Missed(paid, counted)
    /\ h.missedToday = hist.missedToday + Missed(paid, counted)

LEMMA PaidFacts ==
    ASSUME hist \in HistType, NEW paid \in Nat, NEW counted \in Nat
    PROVE  /\ PaidAs(Paid(paid, counted), paid, counted)
           /\ PaidAs([Paid(paid, counted) EXCEPT !.billed = TRUE], paid, counted)
<1> DEFINE m == Missed(paid, counted)
           a == hist.paid + paid
           b == hist.paidToday + paid
           c == hist.missed + m
           d == hist.missedToday + m
           h == [hist EXCEPT !.paid = a, !.paidToday = b, !.missed = c,
                             !.missedToday = d]
           k == [h EXCEPT !.billed = TRUE]
<1>1. m \in Nat
    BY DEF Missed
<1>2. a \in Nat /\ b \in Nat /\ c \in Nat /\ d \in Nat
    BY <1>1 DEF HistType
<1>3. Paid(paid, counted) = h
    BY DEF Paid
<1>4. /\ a = hist.paid + paid /\ b = hist.paidToday + paid
      /\ c = hist.missed + m /\ d = hist.missedToday + m
    OBVIOUS
<1> HIDE DEF a, b, c, d
<1>5. h \in HistType
    BY <1>2 DEF HistType
<1>6. h.paid = a /\ h.paidToday = b /\ h.missed = c /\ h.missedToday = d
    BY DEF HistType
<1> HIDE DEF h
<1>7. k \in HistType
    BY <1>5 DEF HistType
<1>8. /\ k.paid = h.paid /\ k.paidToday = h.paidToday
      /\ k.missed = h.missed /\ k.missedToday = h.missedToday
    BY <1>5 DEF HistType
<1> HIDE DEF k
<1>9. PaidAs(Paid(paid, counted), paid, counted)
    BY <1>3, <1>4, <1>5, <1>6 DEF PaidAs
<1>10. PaidAs(k, paid, counted)
    BY <1>4, <1>6, <1>7, <1>8 DEF PaidAs
<1> QED
    BY <1>3, <1>9, <1>10 DEF k

(* SendCall and RefuseCall keep what today and the total have cost.        *)
LEMMA RolledFacts ==
    ASSUME TypeOK, Rolled
    PROVE  /\ Spent(gov, gov', 0)
           /\ gov'.cool = gov.cool
           /\ FileType' /\ seen \subseteq seen'
           /\ Written \/ UNCHANGED <<ledger, torn, seen>>
<1>1. gov \in GovType /\ day \in Nat /\ FileType
    BY DEF TypeOK, FileType
<1>2. Spent(gov, gov', 0) /\ gov'.cool = gov.cool
    BY <1>1, RollFacts DEF Rolled
<1>3. CASE gov.day = day
    BY <1>1, <1>2, <1>3 DEF Rolled, NoFault, FileType
<1>4. CASE gov.day # day
    <2>1. gov' \in GovType /\ Save(gov')
        BY <1>2, <1>4 DEF Rolled, Spent
    <2> QED
        BY <1>1, <1>2, <2>1, SaveFacts
<1> QED
    BY <1>3, <1>4

LEMMA SettledFacts ==
    ASSUME TypeOK, NEW n, Settled(n)
    PROVE  /\ phase = "calling" /\ phase' = "idle" /\ day' = day
           /\ Spent(gov, gov', n) /\ n \in Nat
           /\ FileType' /\ seen \subseteq seen' /\ Written
           /\ breaker' \in [day : Nat, actual : Nat]
           /\ breaker'.day = day
           /\ breaker'.actual = (IF breaker.day = day THEN breaker.actual ELSE 0) + n
<1>1. phase = "calling" /\ phase' = "idle" /\ day' = day /\ Save(gov') /\ BreakerRecord(n)
    BY DEF Settled, Answered
<1>2. n \in Nat /\ Spent(gov, gov', n) /\ gov' \in GovType
    BY GovernorAssumption DEF Settled, Spent
<1>3. FileType' /\ seen \subseteq seen' /\ Written
    BY <1>1, <1>2, SaveFacts DEF TypeOK, FileType
<1>4. /\ breaker' \in [day : Nat, actual : Nat]
      /\ breaker'.day = day
      /\ breaker'.actual = (IF breaker.day = day THEN breaker.actual ELSE 0) + n
    <2> DEFINE a == (IF breaker.day = day THEN breaker.actual ELSE 0) + n
    <2>1. a \in Nat /\ day \in Nat
        BY <1>2 DEF TypeOK
    <2>2. breaker' = [day |-> day, actual |-> a]
        BY <1>1 DEF BreakerRecord
    <2> HIDE DEF a
    <2>3. breaker' \in [day : Nat, actual : Nat] /\ breaker'.day = day /\ breaker'.actual = a
        BY <2>1, <2>2
    <2> QED
        BY <2>3 DEF a
<1> QED
    BY <1>1, <1>2, <1>3, <1>4

-----------------------------------------------------------------------------
(* Type correctness.                                                       *)

LEMMA TypeInit == Init => TypeOK
<1> SUFFICES ASSUME Init PROVE TypeOK
    OBVIOUS
<1>1. gov \in GovType /\ ledger \in LedgerType
    BY DEF Init, Off, NoLedger, GovType, LedgerType
<1>2. hist \in HistType
    BY DEF Init, HistType
<1>3. breaker \in [day : Nat, actual : Nat]
    BY DEF Init
<1> QED
    BY <1>1, <1>2, <1>3 DEF Init, TypeOK

(* An answered call keeps the types, if it leaves a history record.        *)
LEMMA SettledType ==
    ASSUME TypeOK, NEW n, Settled(n), hist' \in HistType
    PROVE  TypeOK'
<1>1. gov' \in GovType /\ day' \in Nat /\ phase' = "idle"
    BY SettledFacts DEF Spent, TypeOK
<1>2. FileType' /\ breaker' \in [day : Nat, actual : Nat]
    BY SettledFacts
<1> QED
    BY <1>1, <1>2 DEF TypeOK, FileType

LEMMA HistoryFacts ==
    ASSUME TypeOK, NEW paid \in {0, Cost}, NEW n \in {0, Cost}
    PROVE  /\ PaidAs(Paid(paid, n), paid, n)
           /\ PaidAs([Paid(paid, n) EXCEPT !.billed = TRUE], paid, n)
<1>1. paid \in Nat /\ n \in Nat /\ hist \in HistType
    BY GovernorAssumption DEF TypeOK
<1> QED
    BY <1>1, PaidFacts

(* The history of an answered call: what was paid, and what was counted.   *)
LEMMA AnswerHistory ==
    ASSUME TypeOK
    PROVE  /\ CallSucceeds => PaidAs(hist', Cost, Cost)
           /\ ServerError => \E paid \in {0, Cost} : PaidAs(hist', paid, Cost)
           /\ UncountedFailure => \E paid \in {0, Cost} : PaidAs(hist', paid, 0)
<1>1. ASSUME CallSucceeds PROVE PaidAs(hist', Cost, Cost)
    BY <1>1, HistoryFacts DEF CallSucceeds
<1>2. ASSUME ServerError PROVE \E paid \in {0, Cost} : PaidAs(hist', paid, Cost)
    <2>1. PICK paid \in {0, Cost} : hist' = [Paid(paid, Cost) EXCEPT !.billed = TRUE]
        BY <1>2 DEF ServerError
    <2> QED
        BY <2>1, HistoryFacts
<1>3. ASSUME UncountedFailure PROVE \E paid \in {0, Cost} : PaidAs(hist', paid, 0)
    <2>1. PICK paid \in {0, Cost} : hist' = Paid(paid, 0)
        BY <1>3 DEF UncountedFailure
    <2> QED
        BY <2>1, HistoryFacts
<1> QED
    BY <1>1, <1>2, <1>3

(* Every action that ends a call, in one form.                             *)
Answer == \E n \in {0, Cost}, paid \in {0, Cost} : Settled(n) /\ PaidAs(hist', paid, n)

LEMMA AnswerForm ==
    ASSUME TypeOK, CallSucceeds \/ ServerError \/ UncountedFailure
    PROVE  Answer
    BY AnswersSettle, AnswerHistory DEF Answer

LEMMA CrashFacts ==
    ASSUME TypeOK, Crash
    PROVE  /\ FileType' /\ seen \subseteq seen'
           /\ torn' # torn => "torn" \in seen'
           /\ \E paid \in {0, Cost} : PaidAs(hist', paid, 0)
<1>1. /\ FileType' /\ seen \subseteq seen'
      /\ torn' # torn => "torn" \in seen'
    <2>1. FileType /\ UNCHANGED ledger
        BY DEF Crash, TypeOK, FileType
    <2>2. CASE Fault("crash") /\ UNCHANGED torn
        BY <2>1, <2>2 DEF Fault, FileType
    <2>3. CASE Fault("torn") /\ torn' = TRUE
        BY <2>1, <2>3 DEF Fault, FileType
    <2> QED
        BY <2>2, <2>3 DEF Crash
<1>2. PICK paid \in {0, Cost} : hist' = Paid(paid, 0)
    BY DEF Crash
<1> QED
    BY <1>1, <1>2, HistoryFacts

(* NextCycle shortens the cooldown and nothing else of the governor.       *)
LEMMA NextCycleFacts ==
    ASSUME TypeOK, NextCycle
    PROVE  /\ gov' \in GovType
           /\ gov'.day = gov.day /\ gov'.daily = gov.daily /\ gov'.total = gov.total
           /\ PaidAs(hist', 0, 0)
<1> DEFINE c == IF gov.cool > LoopSeconds THEN gov.cool - LoopSeconds ELSE 0
           g == [gov EXCEPT !.cool = c]
           b == hist.billed
           h == [hist EXCEPT !.billedBefore = b, !.billed = FALSE]
<1>1. gov \in GovType /\ hist \in HistType
    BY DEF TypeOK
<1>2. c \in Nat
    BY <1>1, GovernorAssumption DEF GovType
<1>3. gov' = g /\ hist' = h
    BY DEF NextCycle
<1>4. b \in BOOLEAN
    BY <1>1 DEF HistType
<1> HIDE DEF c, b
<1>5. g \in GovType /\ g.day = gov.day /\ g.daily = gov.daily /\ g.total = gov.total
    BY <1>1, <1>2 DEF GovType
<1>6. h \in HistType
    BY <1>1, <1>4 DEF HistType
<1>7. /\ h.paid = hist.paid + 0 /\ h.paidToday = hist.paidToday + 0
      /\ h.missed = hist.missed + 0 /\ h.missedToday = hist.missedToday + 0
    BY <1>1 DEF HistType
<1> HIDE DEF g, h
<1> QED
    BY <1>3, <1>5, <1>6, <1>7 DEF PaidAs, Missed

LEMMA MidnightFacts ==
    ASSUME TypeOK, Midnight
    PROVE  /\ hist' \in HistType
           /\ hist'.paid = hist.paid /\ hist'.missed = hist.missed
           /\ hist'.paidToday = 0 /\ hist'.missedToday = 0
<1> DEFINE h == [hist EXCEPT !.paidToday = 0, !.missedToday = 0]
<1>1. hist \in HistType /\ hist' = h
    BY DEF TypeOK, Midnight
<1>2. h \in HistType
    BY <1>1 DEF HistType
<1>3. /\ h.paid = hist.paid /\ h.missed = hist.missed
      /\ h.paidToday = 0 /\ h.missedToday = 0
    BY <1>1 DEF HistType
<1> QED
    BY <1>1, <1>2, <1>3

LEMMA TypeStep == TypeOK /\ [Next]_vars => TypeOK'
<1> SUFFICES ASSUME TypeOK, [Next]_vars PROVE TypeOK'
    OBVIOUS
<1>1. CASE Start
    <2>1. Load \in GovType
        BY LoadFacts DEF TypeOK
    <2>2. breaker' \in [day : Nat, actual : Nat]
        BY <1>1 DEF Start, TypeOK
    <2> QED
        BY <1>1, <2>1, <2>2 DEF Start, TypeOK
<1>2. CASE SendCall \/ RefuseCall
    <2>1. Rolled
        BY <1>2 DEF SendCall, RefuseCall, Rolled
    <2>2. gov' \in GovType /\ FileType'
        BY <2>1, RolledFacts DEF Spent
    <2>3. /\ phase' \in {"idle", "calling"}
          /\ UNCHANGED <<day, breaker, hist>>
        BY <1>2 DEF SendCall, RefuseCall
    <2> QED
        BY <2>2, <2>3 DEF TypeOK, FileType
<1>3. CASE CallSucceeds \/ ServerError \/ UncountedFailure
    <2>1. PICK n \in {0, Cost}, paid \in {0, Cost} : Settled(n) /\ PaidAs(hist', paid, n)
        BY <1>3, AnswerForm DEF Answer
    <2> QED
        BY <2>1, SettledType DEF PaidAs
<1>4. CASE Crash
    <2>1. hist' \in HistType /\ FileType'
        BY <1>4, CrashFacts DEF PaidAs
    <2>2. gov' \in GovType /\ phase' = "down" /\ UNCHANGED <<day, breaker>>
        BY <1>4 DEF Crash, Off, GovType
    <2> QED
        BY <2>1, <2>2 DEF TypeOK, FileType
<1>5. CASE NextCycle
    <2>1. gov' \in GovType /\ hist' \in HistType
        BY <1>5, NextCycleFacts DEF PaidAs
    <2> QED
        BY <1>5, <2>1 DEF NextCycle, TypeOK
<1>6. CASE Midnight
    <2>1. hist' \in HistType
        BY <1>6, MidnightFacts
    <2> QED
        BY <1>6, <2>1 DEF Midnight, TypeOK
<1>7. CASE UNCHANGED vars
    BY <1>7 DEF vars, TypeOK
<1> QED
    BY <1>1, <1>2, <1>3, <1>4, <1>5, <1>6, <1>7 DEF Next

(* The fields of the governor, of its ledger and of the breaker keep their *)
(* types.                                                                  *)
THEOREM TypeCorrect == Spec => []TypeOK
    BY TypeInit, TypeStep, PTL DEF Spec
-----------------------------------------------------------------------------
(* The budgets, in the governor's own books.                               *)

Bounded(b) ==
    /\ b.day <= day
    /\ DailyBudget > 0 => b.daily <= DailyBudget
    /\ TotalBudget > 0 => b.total <= TotalBudget

(* A call under way was admitted, on this day or on an earlier one.        *)
BooksInv ==
    /\ Bounded(gov) /\ Bounded(ledger)
    /\ phase = "calling" => Fits(gov.daily, DailyBudget) /\ Fits(gov.total, TotalBudget)

(* A call of price n still fits the spending of today and in all.          *)
LEMMA AdmittedFits ==
    ASSUME TypeOK, BooksInv, phase = "calling"
    PROVE  Fits(TodayOf(gov), DailyBudget) /\ Fits(gov.total, TotalBudget)
<1>1. gov.daily \in Nat /\ gov.total \in Nat
    BY DEF TypeOK, GovType
<1> QED
    BY <1>1, GovernorAssumption DEF BooksInv, Fits, TodayOf

LEMMA RolledBounded ==
    ASSUME TypeOK, BooksInv, Rolled, day' = day
    PROVE  Bounded(gov)' /\ Bounded(ledger)'
<1>1. /\ gov'.day = day /\ gov'.daily = TodayOf(gov) + 0 /\ gov'.total = gov.total + 0
      /\ Written \/ UNCHANGED <<ledger, torn, seen>>
    BY RolledFacts DEF Spent
<1>2. gov.daily \in Nat /\ gov.total \in Nat /\ day \in Nat
    BY DEF TypeOK, GovType
<1>3. Bounded(gov)'
    BY <1>1, <1>2, GovernorAssumption DEF BooksInv, Bounded, TodayOf
<1> QED
    BY <1>1, <1>3 DEF BooksInv, Bounded, Written

LEMMA SettledBounded ==
    ASSUME TypeOK, BooksInv, NEW n \in {0, Cost}, Settled(n)
    PROVE  Bounded(gov)' /\ Bounded(ledger)'
<1>1. /\ gov'.day = day /\ gov'.daily = TodayOf(gov) + n /\ gov'.total = gov.total + n
      /\ Written /\ day' = day /\ phase = "calling"
    BY SettledFacts DEF Spent
<1>2. TodayOf(gov) \in Nat /\ gov.total \in Nat /\ day \in Nat
    BY DEF TypeOK, GovType, TodayOf
<1>3. Fits(TodayOf(gov), DailyBudget) /\ Fits(gov.total, TotalBudget)
    BY <1>1, AdmittedFits
<1>4. Bounded(gov)'
    BY <1>1, <1>2, <1>3, GovernorAssumption DEF Bounded, Fits
<1> QED
    BY <1>1, <1>4 DEF BooksInv, Bounded, Written

LEMMA BooksInit == Init => BooksInv
    BY GovernorAssumption DEF Init, BooksInv, Bounded, Off, NoLedger

LEMMA BooksStep == TypeOK /\ BooksInv /\ [Next]_vars => BooksInv'
<1> SUFFICES ASSUME TypeOK, BooksInv, [Next]_vars PROVE BooksInv'
    OBVIOUS
<1>1. CASE Start
    <2>1. /\ gov'.day = day
          /\ gov'.daily = (IF torn THEN 0 ELSE TodayOf(ledger))
          /\ gov'.total = (IF torn THEN 0 ELSE ledger.total)
        BY <1>1, LoadFacts DEF Start, TypeOK
    <2>2. day \in Nat /\ day' = day /\ UNCHANGED ledger /\ phase' = "idle"
        BY <1>1 DEF Start, TypeOK
    <2>3. Bounded(gov)' /\ Bounded(ledger)'
        BY <2>1, <2>2, GovernorAssumption DEF BooksInv, Bounded, TodayOf
    <2> QED
        BY <2>2, <2>3 DEF BooksInv
<1>2. CASE SendCall
    <2>1. Rolled /\ day' = day /\ AllowCall(gov')
        BY <1>2 DEF SendCall, Rolled
    <2> QED
        BY <2>1, RolledBounded DEF BooksInv, AllowCall
<1>3. CASE RefuseCall
    <2>1. Rolled /\ day' = day /\ phase' = "idle"
        BY <1>3 DEF RefuseCall, Rolled
    <2> QED
        BY <2>1, RolledBounded DEF BooksInv
<1>4. CASE CallSucceeds \/ ServerError \/ UncountedFailure
    <2>1. PICK n \in {0, Cost} : Settled(n)
        BY <1>4, AnswerForm DEF Answer
    <2>2. phase' = "idle"
        BY <2>1, SettledFacts
    <2> QED
        BY <2>1, <2>2, SettledBounded DEF BooksInv
<1>5. CASE Crash
    <2>1. phase' = "down" /\ UNCHANGED <<day, ledger>> /\ day \in Nat
        BY <1>5 DEF Crash, TypeOK
    <2>2. gov'.day = 0 /\ gov'.daily = 0 /\ gov'.total = 0
        BY <1>5 DEF Crash, Off
    <2> QED
        BY <2>1, <2>2, GovernorAssumption DEF BooksInv, Bounded
<1>6. CASE NextCycle
    <2>1. /\ gov'.day = gov.day /\ gov'.daily = gov.daily /\ gov'.total = gov.total
          /\ UNCHANGED <<day, phase, ledger>>
        BY <1>6, NextCycleFacts DEF NextCycle
    <2> QED
        BY <2>1 DEF BooksInv, Bounded
<1>7. CASE Midnight
    <2>1. day' = day + 1 /\ UNCHANGED <<phase, gov, ledger>>
        BY <1>7 DEF Midnight
    <2>2. day \in Nat /\ gov.day \in Nat /\ ledger.day \in Nat
        BY DEF TypeOK, GovType, LedgerType
    <2> QED
        BY <2>1, <2>2 DEF BooksInv, Bounded
<1>8. CASE UNCHANGED vars
    BY <1>8 DEF vars, BooksInv, Bounded
<1> QED
    BY <1>1, <1>2, <1>3, <1>4, <1>5, <1>6, <1>7, <1>8 DEF Next

LEMMA BooksHold == Spec => [](TypeOK /\ BooksInv)
<1>1. Init => TypeOK /\ BooksInv
    BY TypeInit, BooksInit
<1>2. TypeOK /\ BooksInv /\ [Next]_vars => (TypeOK /\ BooksInv)'
    BY TypeStep, BooksStep
<1> QED
    BY <1>1, <1>2, PTL DEF Spec

-----------------------------------------------------------------------------
(* The circuit breaker counts what the governor counts, from later on.     *)

BreakerInv ==
    /\ breaker.day <= day
    /\ DailyBudget > 0 => breaker.actual <= DailyBudget
    /\ phase # "down" /\ breaker.day = day =>
            gov.day = day /\ breaker.actual <= gov.daily

LEMMA BreakerStep == TypeOK /\ BooksInv /\ BreakerInv /\ [Next]_vars => BreakerInv'
<1> SUFFICES ASSUME TypeOK, BooksInv, BreakerInv, [Next]_vars PROVE BreakerInv'
    OBVIOUS
<1>0. /\ day \in Nat /\ breaker.day \in Nat /\ breaker.actual \in Nat
      /\ gov.day \in Nat /\ gov.daily \in Nat /\ DailyBudget \in Nat
    BY GovernorAssumption DEF TypeOK, GovType
<1>1. CASE Start
    <2>1. gov'.day = day /\ gov'.daily \in Nat
        BY <1>1, LoadFacts DEF Start, TypeOK, GovType
    <2>2. breaker'.day = day /\ breaker'.actual = 0 /\ day' = day
        BY <1>1 DEF Start
    <2> QED
        BY <1>0, <2>1, <2>2 DEF BreakerInv
<1>2. CASE SendCall \/ RefuseCall
    <2>1. Rolled /\ UNCHANGED <<day, breaker>> /\ phase = "idle"
        BY <1>2 DEF SendCall, RefuseCall, Rolled
    <2>2. gov'.day = day /\ gov'.daily = TodayOf(gov) + 0
        BY <2>1, RolledFacts DEF Spent
    <2> QED
        BY <1>0, <2>1, <2>2 DEF BreakerInv, TodayOf
<1>3. CASE CallSucceeds \/ ServerError \/ UncountedFailure
    <2>1. PICK n \in {0, Cost} : Settled(n)
        BY <1>3, AnswerForm DEF Answer
    <2>2. /\ phase = "calling" /\ day' = day /\ n \in Nat
          /\ gov'.day = day /\ gov'.daily = TodayOf(gov) + n
          /\ breaker'.day = day
          /\ breaker'.actual = (IF breaker.day = day THEN breaker.actual ELSE 0) + n
        BY <2>1, SettledFacts DEF Spent
    <2>3. (IF breaker.day = day THEN breaker.actual ELSE 0) <= TodayOf(gov)
        BY <1>0, <2>2 DEF BreakerInv, TodayOf
    <2>4. breaker'.actual <= gov'.daily
        BY <1>0, <2>2, <2>3 DEF TodayOf
    <2>5. Bounded(gov)'
        BY <2>1, SettledBounded
    <2>6. gov'.daily \in Nat /\ breaker'.actual \in Nat
        BY <1>0, <2>2 DEF TodayOf
    <2> QED
        BY <1>0, <2>2, <2>4, <2>5, <2>6 DEF BreakerInv, Bounded
<1>4. CASE Crash
    <2>1. phase' = "down" /\ UNCHANGED <<day, breaker>>
        BY <1>4 DEF Crash
    <2> QED
        BY <2>1 DEF BreakerInv
<1>5. CASE NextCycle
    <2>1. gov'.day = gov.day /\ gov'.daily = gov.daily /\ UNCHANGED <<day, phase, breaker>>
        BY <1>5, NextCycleFacts DEF NextCycle
    <2> QED
        BY <2>1 DEF BreakerInv
<1>6. CASE Midnight
    <2>1. day' = day + 1 /\ UNCHANGED <<phase, gov, breaker>>
        BY <1>6 DEF Midnight
    <2> QED
        BY <1>0, <2>1 DEF BreakerInv
<1>7. CASE UNCHANGED vars
    BY <1>7 DEF vars, BreakerInv
<1> QED
    BY <1>1, <1>2, <1>3, <1>4, <1>5, <1>6, <1>7 DEF Next

(* The throttle of the BudgetCircuitBreaker is never reached: run_agent    *)
(* gives it the very budget at which the governor already refuses.         *)
THEOREM ThrottleUnreachable == Spec => []NeverThrottled
<1>1. Init => BreakerInv
    BY GovernorAssumption DEF Init, BreakerInv
<1>2. TypeOK /\ BreakerInv => NeverThrottled
    BY GovernorAssumption DEF TypeOK, BreakerInv, NeverThrottled, Throttled
<1> QED
    BY <1>1, <1>2, BreakerStep, BooksHold, PTL DEF Spec
-----------------------------------------------------------------------------
(* What is really paid.                                                    *)

(* While the ledger file is sound it says what a running process has in    *)
(* mind, about today and in all.                                           *)
MirrorInv ==
    Sound =>
        /\ torn = FALSE
        /\ phase # "down" =>
               ledger.total = gov.total /\ TodayOf(ledger) = TodayOf(gov)

PaidInv ==
    Sound =>
        /\ hist.paid <= ledger.total + hist.missed
        /\ hist.paidToday <= TodayOf(ledger) + hist.missedToday

(* A ledger once damaged stays damaged in the record of the faults.        *)
LEMMA SoundBefore ==
    ASSUME seen \subseteq seen', Sound'
    PROVE  Sound
    BY DEF Sound

LEMMA WrittenSound ==
    ASSUME Sound', Written
    PROVE  /\ ledger'.day = gov'.day /\ ledger'.daily = gov'.daily
           /\ ledger'.total = gov'.total /\ torn' = FALSE
    BY DEF Sound, Written

LEMMA MirrorStep ==
    ASSUME TypeOK, BooksInv, MirrorInv, [Next]_vars
    PROVE  MirrorInv'
<1> SUFFICES ASSUME Sound'
             PROVE  /\ torn' = FALSE
                    /\ phase' # "down" =>
                         ledger'.total = gov'.total /\ TodayOf(ledger)' = TodayOf(gov)'
    BY DEF MirrorInv
<1>0. /\ day \in Nat /\ gov.day \in Nat /\ ledger.day \in Nat
      /\ ledger.total \in Nat /\ ledger.daily \in Nat
      /\ gov.total \in Nat /\ gov.daily \in Nat
    BY DEF TypeOK, GovType, LedgerType
<1>1. CASE Start
    <2>1. Sound /\ UNCHANGED <<day, ledger, torn>>
        BY <1>1 DEF Start, Sound
    <2>2. torn = FALSE
        BY <2>1 DEF MirrorInv
    <2>3. gov'.day = day /\ gov'.daily = TodayOf(ledger) /\ gov'.total = ledger.total
        BY <1>1, <2>2, LoadFacts DEF Start, TypeOK
    <2> QED
        BY <2>1, <2>2, <2>3 DEF TodayOf
<1>2. CASE SendCall \/ RefuseCall
    <2>1. Rolled /\ day' = day /\ phase = "idle"
        BY <1>2 DEF SendCall, RefuseCall, Rolled
    <2>2. /\ gov'.day = day /\ gov'.daily = TodayOf(gov) + 0 /\ gov'.total = gov.total + 0
          /\ seen \subseteq seen' /\ (Written \/ UNCHANGED <<ledger, torn, seen>>)
        BY <2>1, RolledFacts DEF Spent
    <2>3. /\ torn = FALSE /\ ledger.total = gov.total
          /\ TodayOf(ledger) = TodayOf(gov)
        BY <2>1, <2>2, SoundBefore DEF MirrorInv
    <2>4. TodayOf(gov) \in Nat
        BY <1>0 DEF TodayOf
    <2>5. CASE Written
        BY <2>1, <2>2, <2>5, WrittenSound DEF TodayOf
    <2>6. CASE UNCHANGED <<ledger, torn, seen>>
        <3>1. TodayOf(ledger)' = TodayOf(ledger)
            BY <2>1, <2>6 DEF TodayOf
        <3>2. TodayOf(gov)' = gov'.daily
            BY <2>1, <2>2 DEF TodayOf
        <3> QED
            BY <1>0, <2>2, <2>3, <2>4, <2>6, <3>1, <3>2
    <2> QED
        BY <2>2, <2>5, <2>6
<1>3. CASE CallSucceeds \/ ServerError \/ UncountedFailure
    <2>1. PICK n \in {0, Cost} : Settled(n)
        BY <1>3, AnswerForm DEF Answer
    <2>2. Written /\ day' = day
        BY <2>1, SettledFacts
    <2> QED
        BY <2>2, WrittenSound DEF TodayOf
<1>4. CASE Crash
    <2>1. torn' = torn /\ seen \subseteq seen' /\ phase' = "down"
        BY <1>4, CrashFacts DEF Crash, Sound
    <2> QED
        BY <2>1, SoundBefore DEF MirrorInv
<1>5. CASE NextCycle
    <2>1. /\ gov'.day = gov.day /\ gov'.daily = gov.daily /\ gov'.total = gov.total
          /\ UNCHANGED <<day, phase, ledger, torn, seen>>
        BY <1>5, NextCycleFacts DEF NextCycle
    <2> QED
        BY <2>1 DEF MirrorInv, Sound, TodayOf
<1>6. CASE Midnight
    <2>1. day' = day + 1 /\ UNCHANGED <<phase, gov, ledger, torn, seen>>
        BY <1>6 DEF Midnight
    <2>2. gov.day <= day /\ ledger.day <= day
        BY DEF BooksInv, Bounded
    <2> QED
        BY <1>0, <2>1, <2>2 DEF MirrorInv, Sound, TodayOf
<1>7. CASE UNCHANGED vars
    BY <1>7 DEF vars, MirrorInv, Sound, TodayOf
<1> QED
    BY <1>1, <1>2, <1>3, <1>4, <1>5, <1>6, <1>7 DEF Next

LEMMA PaidStep ==
    ASSUME TypeOK, BooksInv, MirrorInv, PaidInv, [Next]_vars
    PROVE  PaidInv'
<1> SUFFICES ASSUME Sound'
             PROVE  /\ hist'.paid <= ledger'.total + hist'.missed
                    /\ hist'.paidToday <= TodayOf(ledger)' + hist'.missedToday
    BY DEF PaidInv
<1>0. /\ day \in Nat /\ gov.day \in Nat /\ ledger.day \in Nat
      /\ ledger.total \in Nat /\ ledger.daily \in Nat
      /\ gov.total \in Nat /\ gov.daily \in Nat
      /\ hist.paid \in Nat /\ hist.paidToday \in Nat
      /\ hist.missed \in Nat /\ hist.missedToday \in Nat
      /\ Cost \in Nat
    BY GovernorAssumption DEF TypeOK, GovType, LedgerType, HistType
<1>1. CASE Start
    <2>1. Sound /\ UNCHANGED <<day, ledger, hist>>
        BY <1>1 DEF Start, Sound
    <2> QED
        BY <2>1 DEF PaidInv, TodayOf
<1>2. CASE SendCall \/ RefuseCall
    <2>1. Rolled /\ UNCHANGED <<day, hist>> /\ phase = "idle"
        BY <1>2 DEF SendCall, RefuseCall, Rolled
    <2>2. /\ gov'.day = day /\ gov'.daily = TodayOf(gov) + 0 /\ gov'.total = gov.total + 0
          /\ seen \subseteq seen' /\ (Written \/ UNCHANGED <<ledger, torn, seen>>)
        BY <2>1, RolledFacts DEF Spent
    <2>3. Sound /\ ledger.total = gov.total /\ TodayOf(ledger) = TodayOf(gov)
        BY <2>1, <2>2, SoundBefore DEF MirrorInv
    <2>4. TodayOf(gov) \in Nat
        BY <1>0 DEF TodayOf
    <2>5. ledger'.total = ledger.total /\ TodayOf(ledger)' = TodayOf(ledger)
        <3>1. CASE Written
            BY <1>0, <2>1, <2>2, <2>3, <2>4, <3>1, WrittenSound DEF TodayOf
        <3>2. CASE UNCHANGED <<ledger, torn, seen>>
            BY <2>1, <3>2 DEF TodayOf
        <3> QED
            BY <2>2, <3>1, <3>2
    <2> QED
        BY <2>1, <2>3, <2>5 DEF PaidInv
<1>3. CASE CallSucceeds \/ ServerError \/ UncountedFailure
    <2>1. PICK n \in {0, Cost}, paid \in {0, Cost} : Settled(n) /\ PaidAs(hist', paid, n)
        BY <1>3, AnswerForm DEF Answer
    <2>2. /\ phase = "calling" /\ day' = day /\ Written /\ seen \subseteq seen'
          /\ gov'.day = day /\ gov'.daily = TodayOf(gov) + n /\ gov'.total = gov.total + n
        BY <2>1, SettledFacts DEF Spent
    <2>3. Sound /\ ledger.total = gov.total /\ TodayOf(ledger) = TodayOf(gov)
        BY <2>2, SoundBefore DEF MirrorInv
    <2>4. ledger'.total = ledger.total + n /\ TodayOf(ledger)' = TodayOf(ledger) + n
        BY <2>2, <2>3, WrittenSound DEF TodayOf
    <2>5. /\ hist'.paid = hist.paid + paid /\ hist'.paidToday = hist.paidToday + paid
          /\ hist'.missed = hist.missed + Missed(paid, n)
          /\ hist'.missedToday = hist.missedToday + Missed(paid, n)
        BY <2>1 DEF PaidAs
    <2>6. Missed(paid, n) \in Nat /\ paid <= n + Missed(paid, n) /\ n \in Nat /\ paid \in Nat
        BY <1>0 DEF Missed
    <2>7. TodayOf(ledger) \in Nat
        BY <1>0 DEF TodayOf
    <2>8. /\ hist.paid <= ledger.total + hist.missed
          /\ hist.paidToday <= TodayOf(ledger) + hist.missedToday
        BY <2>3 DEF PaidInv
    <2> QED
        BY <1>0, <2>4, <2>5, <2>6, <2>7, <2>8
<1>4. CASE Crash
    <2>1. PICK paid \in {0, Cost} : PaidAs(hist', paid, 0)
        BY <1>4, CrashFacts
    <2>2. Sound /\ UNCHANGED <<day, ledger>>
        BY <1>4, CrashFacts, SoundBefore DEF Crash
    <2>3. /\ hist'.paid = hist.paid + paid /\ hist'.paidToday = hist.paidToday + paid
          /\ hist'.missed = hist.missed + Missed(paid, 0)
          /\ hist'.missedToday = hist.missedToday + Missed(paid, 0)
        BY <2>1 DEF PaidAs
    <2>4. Missed(paid, 0) = paid /\ paid \in Nat
        BY <1>0 DEF Missed
    <2>5. TodayOf(ledger) \in Nat /\ TodayOf(ledger)' = TodayOf(ledger)
        BY <1>0, <2>2 DEF TodayOf
    <2>6. /\ hist.paid <= ledger.total + hist.missed
          /\ hist.paidToday <= TodayOf(ledger) + hist.missedToday
        BY <2>2 DEF PaidInv
    <2> QED
        BY <1>0, <2>2, <2>3, <2>4, <2>5, <2>6
<1>5. CASE NextCycle
    <2>1. Sound /\ UNCHANGED <<day, ledger>> /\ PaidAs(hist', 0, 0)
        BY <1>5, NextCycleFacts DEF NextCycle, Sound
    <2>2. Missed(0, 0) = 0
        BY DEF Missed
    <2> QED
        BY <1>0, <2>1, <2>2 DEF PaidInv, PaidAs, TodayOf
<1>6. CASE Midnight
    <2>1. Sound /\ day' = day + 1 /\ UNCHANGED ledger
        BY <1>6 DEF Midnight, Sound
    <2>2. /\ hist'.paid = hist.paid /\ hist'.missed = hist.missed
          /\ hist'.paidToday = 0 /\ hist'.missedToday = 0
        BY <1>6, MidnightFacts
    <2>3. TodayOf(ledger)' \in Nat
        BY <1>0, <2>1 DEF TodayOf
    <2> QED
        BY <2>1, <2>2, <2>3 DEF PaidInv
<1>7. CASE UNCHANGED vars
    BY <1>7 DEF vars, PaidInv, Sound, TodayOf
<1> QED
    BY <1>1, <1>2, <1>3, <1>4, <1>5, <1>6, <1>7 DEF Next

LedgerInv == MirrorInv /\ PaidInv

LEMMA LedgerHolds == Spec => [](TypeOK /\ BooksInv /\ LedgerInv)
<1>1. Init => LedgerInv
    BY DEF Init, LedgerInv, MirrorInv, PaidInv, NoLedger, TodayOf
<1>2. TypeOK /\ BooksInv /\ LedgerInv /\ [Next]_vars => LedgerInv'
    BY MirrorStep, PaidStep DEF LedgerInv
<1> QED
    BY <1>1, <1>2, BooksHold, PTL DEF Spec

LEMMA LedgerTypes ==
    ASSUME TypeOK
    PROVE  /\ ledger.total \in Nat /\ ledger.daily \in Nat
           /\ hist.paid \in Nat /\ hist.paidToday \in Nat
           /\ hist.missed \in Nat /\ hist.missedToday \in Nat
           /\ DailyBudget \in Nat /\ TotalBudget \in Nat
    BY GovernorAssumption DEF TypeOK, LedgerType, HistType

(* Over every crash, restart and midnight, the payments of all time stay   *)
(* within the total budget plus those the governor made no record of,      *)
(* while the ledger file is sound.                                         *)
THEOREM PaymentsWithinTotal == Spec => []PaidWithinTotal
<1>1. TypeOK /\ BooksInv /\ LedgerInv => PaidWithinTotal
    BY LedgerTypes DEF PaidWithinTotal, LedgerInv, PaidInv, BooksInv, Bounded
<1> QED
    BY <1>1, LedgerHolds, PTL

(* Likewise the payments of a UTC day stay within the daily budget plus    *)
(* those of the day the governor made no record of: a restart reads the    *)
(* day's spending back, and only a midnight sets it to zero.               *)
THEOREM PaymentsWithinDay == Spec => []PaidWithinDay
<1>1. TypeOK /\ BooksInv /\ LedgerInv => PaidWithinDay
    <2> SUFFICES ASSUME TypeOK, BooksInv, LedgerInv
                 PROVE  PaidWithinDay
        OBVIOUS
    <2>1. DailyBudget > 0 => TodayOf(ledger) <= DailyBudget
        BY LedgerTypes DEF TodayOf, BooksInv, Bounded
    <2>2. TodayOf(ledger) \in Nat
        BY LedgerTypes DEF TodayOf
    <2> QED
        BY LedgerTypes, <2>1, <2>2 DEF PaidWithinDay, LedgerInv, PaidInv
<1> QED
    BY <1>1, LedgerHolds, PTL

-----------------------------------------------------------------------------
(* The governor implements the purse.                                      *)

LEMMA PurseInit == Init => Purse!Init
    BY DEF Init, Purse!Init, Book, NoLedger

(* A step that keeps what the book says of today and in all is a stutter.  *)
LEMMA PurseStutter ==
    ASSUME day' = day, Book'.total = Book.total, TodayOf(Book)' = TodayOf(Book)
    PROVE  [Purse!Next]_<<day, IF Book.day = day THEN Book.daily ELSE 0, Book.total>>
    BY DEF TodayOf

LEMMA PurseStep ==
    ASSUME TypeOK, BooksInv, MirrorInv, Sound, [Next]_vars
    PROVE  [Purse!Next]_<<day, IF Book.day = day THEN Book.daily ELSE 0, Book.total>>
<1>0. /\ day \in Nat /\ gov.day \in Nat /\ ledger.day \in Nat
      /\ gov.total \in Nat /\ gov.daily \in Nat /\ torn = FALSE
      /\ TodayOf(gov) \in Nat
    BY DEF TypeOK, GovType, LedgerType, TodayOf, MirrorInv
<1>1. CASE Start
    <2>1. /\ gov'.day = day /\ gov'.daily = TodayOf(ledger) /\ gov'.total = ledger.total
          /\ day' = day /\ Book = ledger /\ Book' = gov'
        BY <1>0, <1>1, LoadFacts DEF Start, TypeOK, Book
    <2> QED
        BY <2>1, PurseStutter DEF TodayOf
<1>2. CASE SendCall \/ RefuseCall
    <2>1. Rolled /\ day' = day /\ Book = gov /\ Book' = gov'
        BY <1>2 DEF SendCall, RefuseCall, Rolled, Book
    <2>2. gov'.day = day /\ gov'.daily = TodayOf(gov) + 0 /\ gov'.total = gov.total + 0
        BY <2>1, RolledFacts DEF Spent
    <2>3. gov'.daily = TodayOf(gov) /\ gov'.total = gov.total
        BY <1>0, <2>2
    <2> QED
        BY <2>1, <2>2, <2>3, PurseStutter DEF TodayOf
<1>3. CASE CallSucceeds \/ ServerError \/ UncountedFailure
    <2>1. PICK n \in {0, Cost} : Settled(n)
        BY <1>3, AnswerForm DEF Answer
    <2>2. /\ phase = "calling" /\ phase' = "idle" /\ day' = day
          /\ gov'.day = day /\ gov'.daily = TodayOf(gov) + n /\ gov'.total = gov.total + n
        BY <2>1, SettledFacts DEF Spent
    <2>3. Book = gov /\ Book' = gov'
        BY <2>2 DEF Book
    <2>4. CASE n = 0
        <3>1. gov'.daily = TodayOf(gov) /\ gov'.total = gov.total
            BY <1>0, <2>2, <2>4
        <3> QED
            BY <2>2, <2>3, <3>1, PurseStutter DEF TodayOf
    <2>5. CASE n = Cost
        <3>1. Fits(TodayOf(gov), DailyBudget) /\ Fits(gov.total, TotalBudget)
            BY <2>2, AdmittedFits
        <3>2. Purse!Spend
            BY <2>2, <2>3, <2>5, <3>1 DEF Purse!Spend, Purse!Fits, Fits, TodayOf
        <3> QED
            BY <3>2 DEF Purse!Next
    <2> QED
        BY <2>4, <2>5
<1>4. CASE Crash
    <2>1. Book = gov /\ Book' = ledger' /\ UNCHANGED <<day, ledger>> /\ phase # "down"
        BY <1>4 DEF Crash, Book
    <2>2. ledger.total = gov.total /\ TodayOf(ledger) = TodayOf(gov)
        BY <2>1 DEF MirrorInv
    <2> QED
        BY <2>1, <2>2, PurseStutter DEF TodayOf
<1>5. CASE NextCycle
    <2>1. /\ gov'.day = gov.day /\ gov'.daily = gov.daily /\ gov'.total = gov.total
          /\ day' = day /\ Book = gov /\ Book' = gov'
        BY <1>5, NextCycleFacts DEF NextCycle, Book
    <2> QED
        BY <2>1, PurseStutter DEF TodayOf
<1>6. CASE Midnight
    <2>1. day' = day + 1 /\ Book' = Book
        BY <1>6 DEF Midnight, Book
    <2>2. Book.day \in Nat /\ Book.day <= day
        BY <1>0 DEF Book, BooksInv, Bounded
    <2>3. Book.day # day + 1
        BY <1>0, <2>2
    <2>4. Purse!NewDay
        BY <2>1, <2>3 DEF Purse!NewDay
    <2> QED
        BY <2>4 DEF Purse!Next
<1>7. CASE UNCHANGED vars
    <2>1. day' = day /\ Book' = Book
        BY <1>7 DEF vars, Book
    <2> QED
        BY <2>1, PurseStutter DEF TodayOf
<1> QED
    BY <1>1, <1>2, <1>3, <1>4, <1>5, <1>6, <1>7 DEF Next

(* Where no fault damages the ledger file, every behaviour of the          *)
(* governor, with its restarts, is a behaviour of the purse.               *)
THEOREM GovernorImplementsPurse ==
    ASSUME Faults \cap {"torn", "full"} = {}
    PROVE  Spec => ImplementsAllowance
<1>1. TypeOK => Sound
    BY DEF TypeOK, Sound
<1>2. TypeOK /\ BooksInv /\ LedgerInv /\ [Next]_vars
        => [Purse!Next]_<<day, IF Book.day = day THEN Book.daily ELSE 0, Book.total>>
    BY <1>1, PurseStep DEF LedgerInv
<1> QED
    BY <1>2, PurseInit, LedgerHolds, PTL DEF Spec, ImplementsAllowance, Purse!Spec
=============================================================================
