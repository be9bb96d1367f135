---------------------------- MODULE RegimeDetector ----------------------------
(***************************************************************************)
(* The market regime of a cycle: RegimeDetector of                         *)
(* src/strategy/regime_detector.py, its hysteresis, and the fallback       *)
(* main.py serves when detection raises.  A regime is its rank in          *)
(* _REGIME_ORDER.  Scores are counted in halves, the grain of the          *)
(* sentiment delta.                                                        *)
(***************************************************************************)
EXTENDS Integers

CONSTANT HoldCycles     \* _DOWNGRADE_HOLD_CYCLES

ASSUME HoldAssumption == HoldCycles \in Nat \ {0}

RiskOff    == 0
Ranging    == 1
TrendingUp == 2
Regimes == {RiskOff, Ranging, TrendingUp}
NoRegime == -1

VARIABLES
    last, hold,     \* _last_regime, _downgrade_hold
    served,         \* the regime of the cycle's RegimeResult
    fellBack,       \* history: the cycle's detection raised
    recent          \* history: this process's latest readings, the newest first

detector == <<last, hold, served, fellBack, recent>>

-----------------------------------------------------------------------------
(* The reading of a snapshot.                                              *)

(* What each source adds to the sentiment; 0, too, when it does not answer.*)
FearGreeds   == {-2, 0, 1}
FundingRates == {-2, 0, 1}
GasPrices    == {-1, 0}

(* compute_sentiment.                                                      *)
Sentiments ==
    {LET delta == f + d + g IN IF delta > 2 THEN 2 ELSE IF delta < -5 THEN -5 ELSE delta :
        f \in FearGreeds, d \in FundingRates, g \in GasPrices}

(* How many of BTC's 1h, 6h and 24h changes are positive; none of them if  *)
(* the snapshot has no BTC row and none could be fetched for it.           *)
Rises == 0 .. 3

(* Most of the universe fell, neither, or rose; none of it known: neither. *)
Breadths == -1 .. 1

(* BTC below its EMA, no EMA or no price, or above it.                     *)
Emas == -1 .. 1

Score(rises, breadth, ema, sentiment) == 2 * (rises + breadth + ema) + sentiment

RegimeOf(score) ==
    CASE score >= 6 -> TrendingUp
      [] score < 6 /\ score >= 2 -> Ranging
      [] OTHER -> RiskOff

Readings ==
    {RegimeOf(Score(r, b, e, s)) : r \in Rises, b \in Breadths, e \in Emas, s \in Sentiments}

(* _fallback_regime_result.                                                *)
FallbackRegime(rises) == IF rises >= 2 THEN Ranging ELSE RiskOff

Remembered(reading) ==
    [i \in 1 .. HoldCycles |-> IF i = 1 THEN reading ELSE recent[i - 1]]

-----------------------------------------------------------------------------
(* __init__: nothing of the detector outlives its process.                 *)
NewDetector ==
    /\ last' = NoRegime
    /\ hold' = 0
    /\ served' = NoRegime
    /\ fellBack' = FALSE
    /\ recent' = [i \in 1 .. HoldCycles |-> NoRegime]

InitDetector ==
    /\ last = NoRegime
    /\ hold = 0
    /\ served = NoRegime
    /\ fellBack = FALSE
    /\ recent = [i \in 1 .. HoldCycles |-> NoRegime]

Held(reading) == reading < last /\ hold + 1 < HoldCycles

(* Mutated: a reading that is not lower leaves the count as it is.         *)
HoldAfterKept(reading) ==
    IF Held(reading) THEN hold + 1 ELSE IF reading < last THEN 0 ELSE hold

(* The count of lower readings in a row; any commit resets it.             *)
HoldAfter(reading) == IF Held(reading) THEN hold + 1 ELSE 0

(* _build_result and _result: the cycle is served a regime.                *)
Serves(regime) == served' = regime /\ fellBack' = FALSE

(* detect: a lower reading is held back until it is the HoldCycles-th in a *)
(* row, any other is committed at once.  Before the first one nothing is   *)
(* lower than NoRegime.                                                    *)
Detect(reading) ==
    /\ hold' = HoldAfter(reading)
    /\ last' = IF Held(reading) THEN last ELSE reading
    /\ Serves(last')
    /\ recent' = Remembered(reading)

(* _detect_regime_with_sentiment_fallback: a detection that raises (the    *)
(* sentiment is computed before the hysteresis) leaves the detector as it  *)
(* was and bypasses it for this cycle.                                     *)
DetectFails(rises) ==
    /\ served' = FallbackRegime(rises)
    /\ fellBack' = TRUE
    /\ UNCHANGED <<last, hold, recent>>

DetectRegime ==
    \/ \E reading \in Readings : Detect(reading)
    \/ \E rises \in Rises : DetectFails(rises)

-----------------------------------------------------------------------------
(* The types of the detector's variables.                                  *)
RegimeTypeOK ==
    /\ last \in Regimes \cup {NoRegime}
    /\ hold \in 0 .. HoldCycles - 1
    /\ served \in Regimes \cup {NoRegime}
    /\ fellBack \in BOOLEAN
    /\ recent \in [1 .. HoldCycles -> Regimes \cup {NoRegime}]

(* A step that detected a regime: it is one of the latest readings and no *)
(* worse than the newest, and the regime in force is lowered only if every *)
(* one of the last HoldCycles readings of this process was lower than it.  *)
Earned ==
    /\ \E i \in 1 .. HoldCycles : served' = recent'[i]
    /\ served' >= recent'[1]
    /\ served' < last => \A i \in 1 .. HoldCycles : recent'[i] \in Regimes /\ recent'[i] < last
=============================================================================
