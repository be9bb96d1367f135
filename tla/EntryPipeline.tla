---------------------------- MODULE EntryPipeline ----------------------------
(***************************************************************************)
(* From a cycle's snapshot to an entry: run_agent of src/main.py detects   *)
(* the regime, takes the guardrails' verdict, has the breakout engine      *)
(* (src/strategy/6falgorithm) pick one symbol among those not excluded,    *)
(* attempts it, and writes one line to the decision log, from which, after *)
(* a restart, the next cycles know which symbols to rotate away from.      *)
(*                                                                         *)
(* What is decided elsewhere is an input here: the verdict (Guardrails),   *)
(* the symbols held and the swap of an attempt (TradeLifecycle), events    *)
(* and halts (EntryGates), which rows a snapshot has (MarketSnapshot).     *)
(* Symbols are the tradable ones with a verified contract; the engine      *)
(* skips the others wherever they appear.                                  *)
(***************************************************************************)
EXTENDS RegimeDetector, FiniteSets

CONSTANTS
    Symbols,
    NoSymbol,
    NearMiss,       \* breakout_near_miss_cooldown_cycles
    MaxQuotes,      \* MAX_UNIVERSE_TWAK_QUOTES
    MaxCycle        \* bound: cycles of a process

ASSUME PipelineAssumption ==
    /\ IsFiniteSet(Symbols) /\ NoSymbol \notin Symbols
    /\ NearMiss \in Nat \ {0} /\ MaxQuotes \in Nat /\ MaxCycle \in Nat

VARIABLES
    pc,             \* where the cycle is
    cycle,          \* cycle_number
    cooldowns,      \* breakout_near_miss_cooldowns: until which cycle
    near,           \* recent_near_miss_excludes
    held,           \* open positions
    rows,           \* what the snapshot has of each symbol
    risk,           \* the state of the verdict, when it allows entries
    cand,           \* candidate
    entered,        \* action = "ENTER"
    log,            \* the last NearMiss lines of the decision log, newest first
    refused,        \* history: the strategy's symbol refused in this cycle
    refusals        \* history: those of the last NearMiss finished cycles

choice == <<held, rows, risk, cand, entered, refused>>
vars   == <<detector, pc, cycle, cooldowns, near, choice, log, refusals>>

Row == {"traded", "thin", "unpriced"}
(* What an estimate of the slippage says, if the quote of TWAK gives one;  *)
(* an error, no output or no amounts give none.                            *)
Estimates == {"over", "fair", "tight"}
Quotes == {"failed"} \cup Estimates
NoCandidate == [symbol |-> NoSymbol, quote |-> "failed", source |-> "none"]
Candidate == [symbol : Symbols, quote : Quotes, source : {"strategy", "minimum"}]
Line == [symbol : Symbols \cup {NoSymbol}, enter : BOOLEAN]
NoLine == [symbol |-> NoSymbol, enter |-> FALSE]

(* _breakout_decision_from_candidate: the line of a cycle names its        *)
(* candidate or its telemetry's, whatever was traded.                      *)
LineOf(symbol, enter) == [symbol |-> symbol, enter |-> enter]

(* A sequence of the latest NearMiss values, newest first, and one more.   *)
Latest(value, values) ==
    [i \in 1 .. NearMiss |-> IF i = 1 THEN value ELSE values[i - 1]]

-----------------------------------------------------------------------------
(* BreakoutEngine.evaluate_all.                                            *)

(* is_liquid drops the thin ones.                                          *)
Candidates(out) == {s \in Symbols \ out : rows[s] # "thin"}

(* A liquid row without a price: _breakout_profile builds _BreakoutProfile *)
(* with an argument missing, the retries of _evaluate_universe_v25 meet    *)
(* the same TypeError, and it ends the process.                            *)
Breaks(out) == \E s \in Candidates(out) : rows[s] = "unpriced"

(* Blocked by its ATR, or past the chase cap of its breakout.              *)
Unscored == {"quiet", "chased"}

(* Scored below the quote floor, or above it; the quality guards may still *)
(* block one of those.                                                     *)
Scored == {"weak", "guarded", "strong"}

(* How a priced candidate stands, by its signals, before any quote.        *)
Standing == Unscored \cup Scored

(* Ranks by score, strength, momentum and volume.                          *)
Ranks == {r \in [Symbols -> 1 .. Cardinality(Symbols)] :
             \A s, t \in Symbols : r[s] = r[t] => s = t}

(* _should_quote_candidate, and the MaxQuotes best of those.               *)
WorthQuoting(C, standing) == {s \in C : standing[s] \in {"guarded", "strong"}}
Quoted(C, standing, rank) ==
    {s \in WorthQuoting(C, standing) :
        Cardinality({t \in WorthQuoting(C, standing) : rank[t] > rank[s]}) < MaxQuotes}

(* _apply_quality_guards.                                                  *)
Unguarded(standing) == {s \in Symbols : standing[s] # "guarded"}

(* _decision_from_candidate: a usable quote below max_slippage_pct, and no *)
(* quality guard in the way.                                               *)
Passers(C, standing, rank, quote) ==
    {s \in Quoted(C, standing, rank) \cap Unguarded(standing) : quote[s] \in {"fair", "tight"}}

(* evaluate_universe_breakout takes the first passer.                      *)
Picks(C, standing, rank, quote) ==
    LET P == Passers(C, standing, rank, quote) IN
    {[symbol |-> s, quote |-> quote[s], source |-> "strategy"] :
        s \in {p \in P : \A q \in P : rank[q] <= rank[p]}}
    \cup {c \in {NoCandidate} : P = {}}

(* What an evaluation of the candidates C can come to.                     *)
Evaluations ==
    [C \in SUBSET Symbols |->
        UNION {Picks(C, standing, rank, quote) :
                  standing \in [Symbols -> Standing], rank \in Ranks, quote \in [Symbols -> Quotes]}]

-----------------------------------------------------------------------------
(* The top of a cycle.                                                     *)

(* Mutated: the log is not read.                                           *)
FromLogIgnored == {}

(* _breakout_recent_analysis_excludes_from_log.                            *)
FromLog == {log[i].symbol : i \in {j \in 1 .. NearMiss : ~log[j].enter}} \cap Symbols

(* Expired cooldowns go, the others and the log give the excludes; then    *)
(* the snapshot is fetched and the regime detected.                        *)
StartCycle ==
    /\ pc = "start"
    /\ cycle < MaxCycle
    /\ cycle' = cycle + 1
    /\ cooldowns' = [s \in Symbols |-> IF cooldowns[s] >= cycle' THEN cooldowns[s] ELSE 0]
    /\ near' = {s \in Symbols : cooldowns'[s] >= cycle'} \cup FromLog
    /\ DetectRegime
    /\ pc' = "gates"
    /\ UNCHANGED <<choice, log, refusals>>

Finish(line, refusal) ==
    /\ log' = Latest(line, log)
    /\ refusals' = Latest(refusal, refusals)
    /\ held' = {} /\ rows' = [s \in Symbols |-> "thin"]
    /\ risk' = "NONE" /\ cand' = NoCandidate /\ entered' = FALSE /\ refused' = NoSymbol
    /\ near' = {}
    /\ pc' = "start"

(* The kill switch writes its line, without a symbol, and ends the cycle.  *)
KillSwitch ==
    /\ pc = "gates"
    /\ Finish(NoLine, NoSymbol)
    /\ UNCHANGED <<detector, cycle, cooldowns>>

(* The verdict, the exits, the events: entries are blocked, or allowed at  *)
(* full or at reduced risk.                                                *)
Gates ==
    /\ pc = "gates"
    /\ held' \in SUBSET Symbols
    /\ rows' \in [Symbols -> Row]
    /\ \/ risk' = "NONE" /\ pc' = "log"
       \/ risk' \in {"NORMAL", "REDUCED"} /\ pc' = "select"
    /\ UNCHANGED <<detector, cycle, cooldowns, near, cand, entered, refused, log, refusals>>

-----------------------------------------------------------------------------
(* The choice of a candidate.                                              *)

(* _evaluate_universe_v25, which returns or raises.                        *)
Evaluate(out) ==
    /\ ~Breaks(out)
    /\ cand' \in Evaluations[Candidates(out)]

(* The symbols of active events and pending_swap_cooldowns are left out    *)
(* too.                                                                    *)
Select ==
    /\ pc = "select"
    /\ \E others \in SUBSET Symbols : Evaluate(held \cup near \cup others)
    /\ pc' = IF cand' = NoCandidate THEN "minimum" ELSE "attempt"
    /\ UNCHANGED <<detector, cycle, cooldowns, near, held, rows, risk, entered, refused, log, refusals>>

(* The event filter, read again, takes a candidate back: a discretionary   *)
(* one leaves room for the minimum trade, a halt for nothing.              *)
Withdraw ==
    /\ pc = "attempt"
    /\ cand' = NoCandidate
    /\ \/ cand.source = "strategy" /\ pc' = "minimum"
       \/ pc' = "log"
    /\ UNCHANGED <<detector, cycle, cooldowns, near, held, rows, risk, entered, refused, log, refusals>>

(* _minimum_trade_candidate, late on a day without a trade: any liquid and *)
(* priced row, the excluded ones too, with the slippage the row states.    *)
Minimum ==
    /\ pc = "minimum"
    /\ \/ cand' = NoCandidate /\ pc' = "log"
       \/ /\ cand' \in Candidate
          /\ cand'.source = "minimum" /\ rows[cand'.symbol] = "traded"
          /\ pc' = "attempt"
    /\ UNCHANGED <<detector, cycle, cooldowns, near, held, rows, risk, entered, refused, log, refusals>>

(* analyze_liquidity against the verdict's cap, which is the engine's at   *)
(* full risk and stricter at reduced risk.                                 *)
Liquid == cand.quote = "tight" \/ (cand.quote = "fair" /\ risk = "NORMAL")

(* _attempt_entry_v25: entered, or refused by one of its many checks, by   *)
(* the swap or by its reconciliation.  (A guardrail that raises ends the   *)
(* process.)                                                               *)
Enter ==
    /\ pc = "attempt"
    /\ cand.symbol \notin held
    /\ Liquid
    /\ entered' = TRUE
    /\ pc' = "log"
    /\ UNCHANGED <<detector, cycle, cooldowns, near, held, rows, risk, cand, refused, log, refusals>>

Refuse ==
    /\ pc = "attempt"
    /\ refused' = IF cand.source = "strategy" THEN cand.symbol ELSE refused
    /\ pc' = "log"
    /\ UNCHANGED <<detector, cycle, cooldowns, near, held, rows, risk, cand, entered, log, refusals>>

-----------------------------------------------------------------------------
(* The end of a cycle.                                                     *)

(* fallback_best_near_miss: the best scored of C.                          *)
NearMisses(C) == IF C = {} THEN {NoSymbol} ELSE C

(* _telemetry_candidate_for_log: the candidate, or the best of a second    *)
(* evaluation, or of the fallback's: any candidate row not left out.       *)
Telemetry(out) == IF cand # NoCandidate THEN {cand.symbol} ELSE NearMisses(Candidates(out))

(* _update_breakout_near_miss_cooldowns.                                   *)
CooldownsAfter(symbol, enter) ==
    IF symbol = NoSymbol THEN cooldowns
    ELSE [cooldowns EXCEPT ![symbol] = IF enter THEN 0 ELSE cycle + NearMiss]

(* The fixed compliance swap makes the action of any cycle ENTER; the line *)
(* still names the telemetry's symbol, which is none of pending.           *)
EndCycle ==
    /\ pc = "log"
    /\ \E pending \in SUBSET Symbols, compliance \in BOOLEAN :
       \E symbol \in Telemetry(held \cup near \cup pending) :
          LET enter == entered \/ compliance IN
          /\ cand = NoCandidate => ~Breaks(held \cup near \cup pending)
          /\ cooldowns' = CooldownsAfter(symbol, enter)
          /\ Finish(LineOf(symbol, enter), IF enter THEN NoSymbol ELSE refused)
    /\ UNCHANGED <<detector, cycle>>

(* A crash or a stop anywhere: the decision log is all that is left.       *)
Restart ==
    /\ NewDetector
    /\ cycle' = 0
    /\ cooldowns' = [s \in Symbols |-> 0]
    /\ near' = {}
    /\ held' = {} /\ rows' = [s \in Symbols |-> "thin"]
    /\ risk' = "NONE" /\ cand' = NoCandidate /\ entered' = FALSE /\ refused' = NoSymbol
    /\ pc' = "start"
    /\ UNCHANGED <<log, refusals>>

Init ==
    /\ InitDetector
    /\ pc = "start" /\ cycle = 0
    /\ cooldowns = [s \in Symbols |-> 0]
    /\ near = {} /\ held = {} /\ rows = [s \in Symbols |-> "thin"]
    /\ risk = "NONE" /\ cand = NoCandidate /\ entered = FALSE
    /\ refused = NoSymbol
    /\ log = [i \in 1 .. NearMiss |-> NoLine]
    /\ refusals = [i \in 1 .. NearMiss |-> NoSymbol]

Next ==
    \/ StartCycle \/ KillSwitch \/ Gates
    \/ Select \/ Withdraw \/ Minimum \/ Enter \/ Refuse
    \/ EndCycle \/ Restart

Spec == Init /\ [][Next]_vars

-----------------------------------------------------------------------------
(* The types of the variables.                                             *)
TypeOK ==
    /\ RegimeTypeOK
    /\ pc \in {"start", "gates", "select", "minimum", "attempt", "log"}
    /\ cycle \in 0 .. MaxCycle
    /\ cooldowns \in [Symbols -> 0 .. MaxCycle + NearMiss]
    /\ near \subseteq Symbols /\ held \subseteq Symbols
    /\ rows \in [Symbols -> Row]
    /\ risk \in {"NONE", "NORMAL", "REDUCED"}
    /\ cand \in Candidate \cup {NoCandidate}
    /\ entered \in BOOLEAN
    /\ log \in [1 .. NearMiss -> Line]
    /\ refused \in Symbols \cup {NoSymbol}
    /\ refusals \in [1 .. NearMiss -> Symbols \cup {NoSymbol}]

(* The regime of a cycle is earned: whatever cycles without a reading or   *)
(* restarts lie between, it is lowered only after HoldCycles lower         *)
(* readings of this process in a row, and never below the newest (detect,  *)
(* regime_detector.py).                                                    *)
RegimeEarned == [][pc = "start" /\ pc' = "gates" /\ ~fellBack' => Earned]_vars

(* A symbol the strategy tried and could not enter makes room: in the next *)
(* NearMiss finished cycles, also of a process started since, the strategy *)
(* does not attempt it again, unless the cycle that failed is on record as *)
(* an entry (its compliance swap) (run_agent, main.py).                    *)
NearMissRotates ==
    pc = "attempt" /\ cand.source = "strategy" =>
        \A i \in 1 .. NearMiss : refusals[i] # cand.symbol
=============================================================================
