------------------------- MODULE EntryPipelineProofs -------------------------
(***************************************************************************)
(* Proofs about EntryPipeline: its type, that a regime is earned, and that *)
(* a refused symbol makes room.                                            *)
(***************************************************************************)
EXTENDS EntryPipeline, TLAPS

(* What an evaluation picks is one of its candidates, or nothing.          *)
LEMMA EvaluationPicks ==
    ASSUME NEW C \in SUBSET Symbols, NEW c \in Evaluations[C]
    PROVE  \/ c = NoCandidate
           \/ /\ c \in Candidate
              /\ c.symbol \in C /\ c.source = "strategy"
<1>1. PICK standing \in [Symbols -> Standing], rank \in Ranks, quote \in [Symbols -> Quotes] :
          c \in Picks(C, standing, rank, quote)
  BY DEF Evaluations
<1>2. CASE c = NoCandidate
  BY <1>2
<1>3. CASE c # NoCandidate
  <2>1. PICK s \in Passers(C, standing, rank, quote) :
            c = [symbol |-> s, quote |-> quote[s], source |-> "strategy"]
    BY <1>1, <1>3 DEF Picks
  <2>2. s \in C
    BY <2>1 DEF Passers, Quoted, WorthQuoting
  <2>3. quote[s] \in Quotes
    BY <1>1, <2>2
  <2> QED
    BY <2>1, <2>2, <2>3 DEF Candidate
<1> QED
  BY <1>2, <1>3

LEMMA LatestType ==
    ASSUME NEW S, NEW value \in S, NEW values \in [1 .. NearMiss -> S]
    PROVE  Latest(value, values) \in [1 .. NearMiss -> S]
BY PipelineAssumption DEF Latest

LEMMA ReadingsAreRegimes == Readings \subseteq Regimes
<1> SUFFICES ASSUME NEW r \in Rises, NEW b \in Breadths, NEW e \in Emas, NEW s \in Sentiments
             PROVE  RegimeOf(Score(r, b, e, s)) \in Regimes
  BY DEF Readings
<1> DEFINE x == Score(r, b, e, s)
<1>1. RegimeOf(x) \in {TrendingUp, Ranging, RiskOff}
  <2> HIDE DEF x
  <2> QED BY DEF RegimeOf
<1> QED
  BY <1>1 DEF Regimes

LEMMA FallbackIsRegime == \A rises \in Rises : FallbackRegime(rises) \in Regimes
BY DEF FallbackRegime, Regimes

(* NoCandidate is none of the candidates.                                  *)
LEMMA NoCandidateApart == NoCandidate \notin Candidate
BY PipelineAssumption DEF NoCandidate, Candidate

-----------------------------------------------------------------------------
(* The detector.  The readings being held back are the newest ones, and    *)
(* the one before them is the regime in force.                             *)
DetectorInv ==
    /\ \A i \in 1 .. hold : recent[i] \in Regimes /\ recent[i] < last
    /\ last = NoRegime => hold = 0
    /\ last # NoRegime => recent[hold + 1] = last

LEMMA DetectStep ==
    ASSUME RegimeTypeOK, DetectorInv, NEW reading \in Regimes, Detect(reading)
    PROVE  RegimeTypeOK' /\ DetectorInv' /\ Earned
<1> USE HoldAssumption DEF Regimes, RiskOff, Ranging, TrendingUp, NoRegime
<1>1. /\ last \in -1 .. 2 /\ hold \in 0 .. HoldCycles - 1 /\ reading \in 0 .. 2
      /\ recent \in [1 .. HoldCycles -> Regimes \cup {NoRegime}]
  BY DEF RegimeTypeOK
<1>2. recent' \in [1 .. HoldCycles -> Regimes \cup {NoRegime}]
  BY <1>1 DEF Detect, Serves, Remembered
<1>3. recent'[1] = reading
  BY <1>1 DEF Detect, Serves, Remembered
<1>4. \A i \in 2 .. HoldCycles : recent'[i] = recent[i - 1]
  BY <1>1 DEF Detect, Serves, Remembered
<1>5. CASE Held(reading)
  <2>1. /\ hold' = hold + 1 /\ last' = last /\ served' = last /\ fellBack' = FALSE
        /\ reading < last /\ hold + 1 < HoldCycles
    BY <1>5 DEF Detect, Serves, Held, HoldAfter
  <2>2. RegimeTypeOK'
    <3>1. last' \in Regimes \cup {NoRegime} /\ served' \in Regimes \cup {NoRegime}
      BY <2>1 DEF RegimeTypeOK
    <3>2. hold' \in 0 .. HoldCycles - 1
      BY <1>1, <2>1
    <3> QED
      BY <1>2, <2>1, <3>1, <3>2 DEF RegimeTypeOK
  <2>3. last # NoRegime
    BY <1>1, <2>1
  <2>4. \A i \in 1 .. hold' : recent'[i] \in Regimes /\ recent'[i] < last'
    <3> SUFFICES ASSUME NEW i \in 1 .. hold'
                 PROVE  recent'[i] \in Regimes /\ recent'[i] < last'
      OBVIOUS
    <3>1. CASE i = 1
      BY <1>3, <2>1, <3>1
    <3>2. CASE i # 1
      <4>1. i \in 2 .. HoldCycles /\ i - 1 \in 1 .. hold
        BY <1>1, <2>1, <3>2
      <4> QED
        BY <1>4, <2>1, <4>1 DEF DetectorInv
    <3> QED
      BY <3>1, <3>2
  <2>5. recent'[hold' + 1] = last'
    <3>1. hold + 2 \in 2 .. HoldCycles /\ (hold + 2) - 1 = hold + 1
      BY <1>1, <2>1
    <3>2. recent'[hold + 2] = recent[hold + 1]
      BY <1>4, <3>1
    <3> QED
      BY <1>1, <2>1, <2>3, <3>2 DEF DetectorInv
  <2>6. DetectorInv'
    BY <2>1, <2>3, <2>4, <2>5 DEF DetectorInv
  <2>7. hold' + 1 \in 1 .. HoldCycles
    BY <1>1, <2>1
  <2>8. Earned
    BY <1>1, <1>3, <2>1, <2>5, <2>7 DEF Earned
  <2> QED
    BY <2>2, <2>6, <2>8
<1>6. CASE ~Held(reading)
  <2>1. /\ hold' = 0 /\ last' = reading /\ served' = reading /\ fellBack' = FALSE
    BY <1>6 DEF Detect, Serves, HoldAfter
  <2>2. RegimeTypeOK'
    <3>1. last' \in Regimes \cup {NoRegime} /\ served' \in Regimes \cup {NoRegime}
      BY <2>1
    <3>2. hold' \in 0 .. HoldCycles - 1
      BY <2>1
    <3> QED
      BY <1>2, <2>1, <3>1, <3>2 DEF RegimeTypeOK
  <2>3. DetectorInv'
    BY <1>1, <1>3, <2>1 DEF DetectorInv
  <2>4. ASSUME reading < last, NEW i \in 1 .. HoldCycles
        PROVE  recent'[i] \in Regimes /\ recent'[i] < last
    <3>1. hold + 1 = HoldCycles
      BY <1>1, <1>6, <2>4 DEF Held
    <3>2. CASE i = 1
      BY <1>3, <2>4, <3>2
    <3>3. CASE i # 1
      <4>1. i \in 2 .. HoldCycles /\ i - 1 \in 1 .. hold
        BY <1>1, <3>1, <3>3
      <4> QED
        BY <1>4, <4>1 DEF DetectorInv
    <3> QED
      BY <3>2, <3>3
  <2>5. Earned
    BY <1>1, <1>3, <2>1, <2>4 DEF Earned
  <2> QED
    BY <2>2, <2>3, <2>5
<1> QED
  BY <1>5, <1>6

LEMMA DetectFailsStep ==
    ASSUME RegimeTypeOK, DetectorInv, NEW rises \in Rises, DetectFails(rises)
    PROVE  RegimeTypeOK' /\ DetectorInv'
BY FallbackIsRegime DEF DetectFails, RegimeTypeOK, DetectorInv

LEMMA DetectRegimeStep ==
    ASSUME RegimeTypeOK, DetectorInv, DetectRegime
    PROVE  RegimeTypeOK' /\ DetectorInv' /\ (~fellBack' => Earned)
<1>1. CASE \E reading \in Readings : Detect(reading)
  BY <1>1, DetectStep, ReadingsAreRegimes
<1>2. CASE \E rises \in Rises : DetectFails(rises)
  <2>1. fellBack'
    BY <1>2 DEF DetectFails
  <2> QED
    BY <1>2, <2>1, DetectFailsStep
<1> QED
  BY <1>1, <1>2 DEF DetectRegime

LEMMA NewDetectorStep ==
    ASSUME NewDetector
    PROVE  RegimeTypeOK' /\ DetectorInv'
<1>1. /\ last' = NoRegime /\ hold' = 0 /\ served' = NoRegime /\ fellBack' = FALSE
      /\ recent' \in [1 .. HoldCycles -> Regimes \cup {NoRegime}]
  BY DEF NewDetector
<1>2. 0 \in 0 .. HoldCycles - 1
  BY HoldAssumption
<1>3. RegimeTypeOK'
  BY <1>1, <1>2 DEF RegimeTypeOK
<1>4. DetectorInv'
  BY <1>1 DEF DetectorInv
<1> QED
  BY <1>3, <1>4

LEMMA DetectorUnchanged ==
    ASSUME RegimeTypeOK, DetectorInv, UNCHANGED detector
    PROVE  RegimeTypeOK' /\ DetectorInv'
BY DEF detector, RegimeTypeOK, DetectorInv

-----------------------------------------------------------------------------
(* The pipeline.  A refusal of a finished cycle is on the log's line of    *)
(* that cycle, what the log says is left out is left out in the whole      *)
(* cycle, and the strategy's candidate is none of those.                   *)
RotationInv ==
    /\ \A i \in 1 .. NearMiss :
          refusals[i] # NoSymbol => log[i] = [symbol |-> refusals[i], enter |-> FALSE]
    /\ pc = "start" => cand = NoCandidate
    /\ pc # "start" => FromLog \subseteq near
    /\ cand.source = "strategy" => cand.symbol \notin near
    /\ refused # NoSymbol => pc = "log" /\ cand \in Candidate /\ cand.symbol = refused

Inv == TypeOK /\ DetectorInv /\ RotationInv

LEMMA InitInv == Init => Inv
<1> SUFFICES ASSUME Init PROVE Inv
  OBVIOUS
<1>1. RegimeTypeOK /\ DetectorInv
  <2>1. /\ last = NoRegime /\ hold = 0 /\ served = NoRegime /\ fellBack = FALSE
        /\ recent \in [1 .. HoldCycles -> Regimes \cup {NoRegime}]
    BY DEF Init, InitDetector
  <2>2. 0 \in 0 .. HoldCycles - 1
    BY HoldAssumption
  <2>3. RegimeTypeOK
    BY <2>1, <2>2 DEF RegimeTypeOK
  <2>4. DetectorInv
    BY <2>1 DEF DetectorInv
  <2> QED
    BY <2>3, <2>4
<1>2. TypeOK
  <2>1. log \in [1 .. NearMiss -> Line] /\ refusals \in [1 .. NearMiss -> Symbols \cup {NoSymbol}]
    BY DEF Init, NoLine, Line
  <2>2. cooldowns \in [Symbols -> 0 .. MaxCycle + NearMiss] /\ cycle \in 0 .. MaxCycle
    BY PipelineAssumption DEF Init
  <2>3. rows \in [Symbols -> Row]
    BY DEF Init, Row
  <2> QED
    BY <1>1, <2>1, <2>2, <2>3 DEF Init, TypeOK
<1>3. RotationInv
  BY DEF Init, RotationInv, NoCandidate
<1> QED
  BY <1>1, <1>2, <1>3 DEF Inv

(* What Finish leaves behind, whatever line and refusal it records.        *)
LEMMA FinishStep ==
    ASSUME Inv, NEW line \in Line, NEW refusal \in Symbols \cup {NoSymbol},
           refusal # NoSymbol => line = [symbol |-> refusal, enter |-> FALSE],
           Finish(line, refusal),
           cooldowns' \in [Symbols -> 0 .. MaxCycle + NearMiss], UNCHANGED <<detector, cycle>>
    PROVE  Inv'
<1>1. RegimeTypeOK' /\ DetectorInv'
  BY DetectorUnchanged DEF Inv, TypeOK
<1>2. log' \in [1 .. NearMiss -> Line] /\ refusals' \in [1 .. NearMiss -> Symbols \cup {NoSymbol}]
  BY LatestType DEF Inv, TypeOK, Finish
<1>3. TypeOK'
  BY <1>1, <1>2 DEF Inv, TypeOK, Finish, Row
<1>4. ASSUME NEW i \in 1 .. NearMiss, refusals'[i] # NoSymbol
      PROVE  log'[i] = [symbol |-> refusals'[i], enter |-> FALSE]
  <2>1. CASE i = 1
    BY <1>4, <2>1, PipelineAssumption DEF Finish, Latest
  <2>2. CASE i # 1
    <3>1. i - 1 \in 1 .. NearMiss
      BY <2>2, PipelineAssumption
    <3>2. refusals'[i] = refusals[i - 1] /\ log'[i] = log[i - 1]
      BY <2>2 DEF Finish, Latest
    <3> QED
      BY <1>4, <3>1, <3>2 DEF Inv, RotationInv
  <2> QED
    BY <2>1, <2>2
<1>5. RotationInv'
  BY <1>4 DEF RotationInv, Finish, NoCandidate
<1> QED
  BY <1>1, <1>3, <1>5 DEF Inv

LEMMA StartCycleStep ==
    ASSUME Inv, StartCycle
    PROVE  Inv' /\ (~fellBack' => Earned)
<1>1. RegimeTypeOK' /\ DetectorInv' /\ (~fellBack' => Earned)
  BY DetectRegimeStep DEF Inv, TypeOK, StartCycle
<1>2. cycle' \in 0 .. MaxCycle
  BY PipelineAssumption DEF Inv, TypeOK, StartCycle
<1>3. cooldowns' \in [Symbols -> 0 .. MaxCycle + NearMiss]
  BY PipelineAssumption DEF Inv, TypeOK, StartCycle
<1>4. near' \subseteq Symbols /\ FromLog' \subseteq near'
  BY DEF StartCycle, FromLog
<1>5. TypeOK'
  BY <1>1, <1>2, <1>3, <1>4 DEF Inv, TypeOK, StartCycle, choice
<1>6. cand' = cand /\ refused' = refused /\ log' = log /\ refusals' = refusals
  BY DEF StartCycle, choice
<1>7. cand.source # "strategy" /\ refused = NoSymbol
  BY DEF Inv, RotationInv, StartCycle, NoCandidate
<1>8. pc' = "gates"
  BY DEF StartCycle
<1>9. RotationInv'
  BY <1>4, <1>6, <1>7, <1>8 DEF Inv, RotationInv
<1> QED
  BY <1>1, <1>5, <1>9 DEF Inv

(* The steps within a cycle leave the detector, the excludes and the log   *)
(* alone; what they do to the candidate is said per step.                  *)
LEMMA InnerStep ==
    ASSUME Inv, UNCHANGED <<detector, cycle, cooldowns, near, log, refusals>>,
           pc # "start", pc' \in {"gates", "select", "minimum", "attempt", "log"},
           held' \subseteq Symbols, rows' \in [Symbols -> Row],
           risk' \in {"NONE", "NORMAL", "REDUCED"}, entered' \in BOOLEAN,
           \/ cand' = NoCandidate
           \/ cand' \in Candidate /\ (cand'.source = "strategy" => cand'.symbol \notin near),
           \/ refused' = NoSymbol
           \/ /\ refused' \in Symbols /\ pc' = "log"
              /\ cand' \in Candidate /\ cand'.symbol = refused'
    PROVE  Inv'
<1>1. RegimeTypeOK' /\ DetectorInv'
  BY DetectorUnchanged DEF Inv, TypeOK
<1>2. TypeOK'
  BY <1>1 DEF Inv, TypeOK
<1>3. FromLog' \subseteq near'
  BY DEF Inv, RotationInv, FromLog
<1>4. cand'.source = "strategy" => cand'.symbol \notin near'
  BY DEF NoCandidate
<1>5. RotationInv'
  BY <1>3, <1>4 DEF Inv, RotationInv
<1> QED
  BY <1>1, <1>2, <1>5 DEF Inv

LEMMA SelectStep ==
    ASSUME Inv, Select
    PROVE  Inv'
<1>1. PICK others \in SUBSET Symbols : cand' \in Evaluations[Candidates(held \cup near \cup others)]
  BY DEF Select, Evaluate
<1>2. Candidates(held \cup near \cup others) \in SUBSET Symbols
  BY DEF Candidates
<1>3. \/ cand' = NoCandidate
      \/ cand' \in Candidate /\ cand'.symbol \notin near
  BY <1>1, <1>2, EvaluationPicks DEF Candidates
<1>4. refused' = NoSymbol
  BY DEF Inv, RotationInv, Select
<1> QED
  BY <1>3, <1>4, InnerStep DEF Inv, TypeOK, Select

LEMMA EndCycleStep ==
    ASSUME Inv, EndCycle
    PROVE  Inv'
<1>0. PICK pending \in SUBSET Symbols, compliance \in BOOLEAN :
       \E symbol \in Telemetry(held \cup near \cup pending) :
          LET enter == entered \/ compliance IN
          /\ cooldowns' = CooldownsAfter(symbol, enter)
          /\ Finish(LineOf(symbol, enter), IF enter THEN NoSymbol ELSE refused)
  BY DEF EndCycle
<1>1. PICK symbol \in Telemetry(held \cup near \cup pending) :
          LET enter == entered \/ compliance IN
          /\ cooldowns' = CooldownsAfter(symbol, enter)
          /\ Finish(LineOf(symbol, enter), IF enter THEN NoSymbol ELSE refused)
  BY <1>0
<1> DEFINE enter == entered \/ compliance
           line == LineOf(symbol, enter)
           refusal == IF enter THEN NoSymbol ELSE refused
<1>2. symbol \in Symbols \cup {NoSymbol}
  BY <1>1 DEF Telemetry, NearMisses, Candidates, Inv, TypeOK, Candidate
<1>3. enter \in BOOLEAN
  BY <1>1 DEF Inv, TypeOK
<1>4. line \in Line /\ refusal \in Symbols \cup {NoSymbol}
  BY <1>2, <1>3 DEF Line, LineOf, Inv, TypeOK
<1>5. refusal # NoSymbol => line = [symbol |-> refusal, enter |-> FALSE]
  <2> SUFFICES ASSUME refusal # NoSymbol
               PROVE  symbol = refused /\ enter = FALSE
    BY DEF line, LineOf
  <2>1. enter = FALSE /\ refused # NoSymbol
    BY <1>3
  <2>2. cand # NoCandidate /\ cand.symbol = refused
    BY <2>1, NoCandidateApart DEF Inv, RotationInv
  <2> QED
    BY <1>1, <2>1, <2>2 DEF Telemetry, NearMisses
<1>6. cooldowns' \in [Symbols -> 0 .. MaxCycle + NearMiss]
  <2>1. cooldowns' = CooldownsAfter(symbol, enter)
    BY <1>1
  <2>2. cycle + NearMiss \in 0 .. MaxCycle + NearMiss /\ 0 \in 0 .. MaxCycle + NearMiss
    BY PipelineAssumption DEF Inv, TypeOK
  <2> HIDE DEF enter
  <2> QED
    BY <1>2, <2>1, <2>2 DEF CooldownsAfter, Inv, TypeOK
<1>7. Finish(line, refusal) /\ UNCHANGED <<detector, cycle>>
  BY <1>1 DEF EndCycle
<1> HIDE DEF line, refusal
<1> QED
  BY <1>4, <1>5, <1>6, <1>7, FinishStep

LEMMA RestartStep ==
    ASSUME Inv, Restart
    PROVE  Inv'
<1>1. RegimeTypeOK' /\ DetectorInv'
  BY NewDetectorStep DEF Restart
<1>2. cooldowns' \in [Symbols -> 0 .. MaxCycle + NearMiss] /\ cycle' \in 0 .. MaxCycle
  BY PipelineAssumption DEF Restart
<1>3. rows' \in [Symbols -> Row]
  BY DEF Restart, Row
<1>4. TypeOK'
  BY <1>1, <1>2, <1>3 DEF Restart, Inv, TypeOK
<1>5. RotationInv'
  BY DEF Restart, Inv, RotationInv, NoCandidate
<1> QED
  BY <1>1, <1>4, <1>5 DEF Inv

(* One step for each action of Next.                                       *)
LEMMA NextInv ==
    ASSUME Inv, [Next]_vars
    PROVE  Inv' /\ (pc = "start" /\ pc' = "gates" /\ ~fellBack' => Earned)
<1>1. CASE StartCycle
  BY <1>1, StartCycleStep
<1>2. CASE KillSwitch
  <2>1. NoLine \in Line /\ pc' = "start"
    BY <1>2 DEF NoLine, Line, KillSwitch, Finish
  <2> QED
    BY <1>2, <2>1, FinishStep DEF KillSwitch, Inv, TypeOK
<1>3. CASE Gates
  <2>1. refused' = NoSymbol /\ (cand' = NoCandidate \/ (cand' \in Candidate /\ (cand'.source = "strategy" => cand'.symbol \notin near)))
    BY <1>3 DEF Gates, Inv, TypeOK, RotationInv
  <2> QED
    BY <1>3, <2>1, InnerStep DEF Gates, Inv, TypeOK
<1>4. CASE Select
  <2>1. pc # "start"
    BY <1>4 DEF Select, Evaluate
  <2> QED
    BY <1>4, <2>1, SelectStep
<1>5. CASE Withdraw
  <2>1. refused' = NoSymbol
    BY <1>5 DEF Withdraw, Inv, RotationInv
  <2> QED
    BY <1>5, <2>1, InnerStep DEF Withdraw, Inv, TypeOK
<1>6. CASE Minimum
  <2>1. refused' = NoSymbol
    BY <1>6 DEF Minimum, Inv, RotationInv
  <2> QED
    BY <1>6, <2>1, InnerStep DEF Minimum, Inv, TypeOK
<1>7. CASE Enter
  <2>1. refused' = NoSymbol /\ (cand' = NoCandidate \/ (cand' \in Candidate /\ (cand'.source = "strategy" => cand'.symbol \notin near)))
    BY <1>7 DEF Enter, Inv, TypeOK, RotationInv
  <2> QED
    BY <1>7, <2>1, InnerStep DEF Enter, Inv, TypeOK
<1>8. CASE Refuse
  <2>1. (cand' = NoCandidate \/ (cand' \in Candidate /\ (cand'.source = "strategy" => cand'.symbol \notin near)))
    BY <1>8 DEF Refuse, Inv, TypeOK, RotationInv
  <2>2. \/ refused' = NoSymbol
        \/ refused' \in Symbols /\ cand' \in Candidate /\ cand'.symbol = refused'
    <3>1. refused = NoSymbol /\ (cand \in Candidate \/ cand = NoCandidate)
      BY <1>8 DEF Refuse, Inv, TypeOK, RotationInv
    <3>2. CASE cand.source = "strategy"
      BY <1>8, <3>1, <3>2 DEF Refuse, Candidate, NoCandidate
    <3>3. CASE cand.source # "strategy"
      BY <1>8, <3>1, <3>3 DEF Refuse
    <3> QED
      BY <3>2, <3>3
  <2> QED
    BY <1>8, <2>1, <2>2, InnerStep DEF Refuse, Inv, TypeOK
<1>9. CASE EndCycle
  <2>1. pc # "start"
    BY <1>9 DEF EndCycle
  <2> QED
    BY <1>9, <2>1, EndCycleStep
<1>10. CASE Restart
  <2>1. pc' # "gates"
    BY <1>10 DEF Restart
  <2> QED
    BY <1>10, <2>1, RestartStep
<1>11. CASE UNCHANGED vars
  <2>1. RegimeTypeOK' /\ DetectorInv'
    BY <1>11, DetectorUnchanged DEF vars, Inv, TypeOK
  <2>2. pc' = pc
    BY <1>11 DEF vars
  <2>3. TypeOK'
    BY <1>11, <2>1 DEF vars, choice, Inv, TypeOK
  <2>4. RotationInv'
    BY <1>11 DEF vars, choice, Inv, RotationInv, FromLog
  <2> QED
    BY <2>1, <2>2, <2>3, <2>4 DEF Inv
<1> QED
  BY <1>1, <1>2, <1>3, <1>4, <1>5, <1>6, <1>7, <1>8, <1>9, <1>10, <1>11 DEF Next

-----------------------------------------------------------------------------
(* Inv is invariant.                                                       *)
LEMMA InvAlways == Spec => []Inv
<1>1. Inv /\ [Next]_vars => Inv'
  BY NextInv
<1> QED
  BY InitInv, <1>1, PTL DEF Spec

(* The state of the pipeline is always of its type, for any number of      *)
(* symbols, cycles, held cycles and rotated ones (run_agent, main.py).     *)
THEOREM TypeCorrect == Spec => []TypeOK
<1>1. Inv => TypeOK
  BY DEF Inv
<1> QED
  BY InvAlways, <1>1, PTL

(* The regime of a cycle is earned: lowered only after HoldCycles lower    *)
(* readings in a row of this process, never below the newest (detect,      *)
(* regime_detector.py).                                                    *)
THEOREM RegimeAlwaysEarned == Spec => RegimeEarned
<1>1. Inv /\ [Next]_vars => [pc = "start" /\ pc' = "gates" /\ ~fellBack' => Earned]_vars
  BY NextInv
<1> QED
  BY InvAlways, <1>1, PTL DEF Spec, RegimeEarned

(* A symbol the strategy could not enter is not attempted by it again in   *)
(* the next NearMiss finished cycles, restarts or not (run_agent,          *)
(* main.py).                                                               *)
THEOREM NearMissesRotate == Spec => []NearMissRotates
<1>1. Inv => NearMissRotates
  <2> SUFFICES ASSUME Inv, pc = "attempt", cand.source = "strategy",
                      NEW i \in 1 .. NearMiss, refusals[i] = cand.symbol
               PROVE  FALSE
    BY DEF NearMissRotates
  <2>1. cand.symbol \in Symbols
    BY DEF Inv, TypeOK, Candidate, NoCandidate
  <2>2. log[i] = [symbol |-> cand.symbol, enter |-> FALSE]
    BY <2>1, PipelineAssumption DEF Inv, RotationInv
  <2>3. cand.symbol \in FromLog
    BY <2>1, <2>2 DEF FromLog
  <2> QED
    BY <2>3 DEF Inv, RotationInv
<1> QED
  BY InvAlways, <1>1, PTL
=============================================================================
