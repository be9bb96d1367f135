# A formal model of the Cascade AI trading agent

TLA+ modules that model the core of the agent in `src/`, TLC configurations that
model-check them on small instances, and TLAPS proofs of the theorems that hold
for every instance.  Paths are relative to the root of the repository; `main` is
`src/main.py`.

## The system

The agent is one Python process under systemd (`Restart=always`, at most ten
starts an hour).  `run_agent` is a sequential loop; one cycle, every
`LOOP_SECONDS` (300 s), does the following:

1. fetch market data into two layers, a free and a paid one (`MarketSnapshot`), the
   latter through paid x402 calls (`SpendGovernor`);
2. if the flatten window before the competition's end is open, sell the book;
3. if `positions.json` did not exist at start-up, rebuild the book from the wallet;
4. detect the market's regime (`RegimeDetector`), value the portfolio and let the
   guardrails evaluate it; on the kill switch sell everything and go to step 7;
5. run the exits of the open positions, then a second exit pass;
6. if the verdict of step 4 and the operator's events and halts allow it
   (`EntryGates`), choose a candidate and try at most one entry (`EntryPipeline`);
7. if no entry was made and the UTC day has no trade yet, buy half a dollar of a
   token late in the day (the competition wants a trade every day);
8. sleep, and wake early if the operator's halt file appears.

Every piece of state that survives a restart is a JSON file of its own, rewritten
in place: the book, the guardrails, the spend ledger.  The chain moves by itself:
a swap is a call to the TWAK command line, which may broadcast a transaction and
still time out.

| Component | State | Operations | What is hard | What makes it correct |
| --- | --- | --- | --- | --- |
| Guardrails (`strategy/guardrails.py`) | day, trade count, day's loss, streak, high-water mark, kill latch, compliance date, pause | `evaluate`, `validate_new_trade`, `record_trade`, `record_trade_result`, `record_compliance_trade` | crashes between a swap and its record, a swap that was broadcast though its call raised, midnight between them, a verdict used after the state it was taken from has changed | the latch is for ever; a day's loss and count hold over restarts; one compliance swap a day, and one on every day without a trade |
| Book (`strategy/position_manager.py`, `deployment/reconciliation.py`) | open positions, their levels, `positions.json` | open, update, close, load, reconcile, rebuild | wallet and book are changed in different places; answers are lost; sales are retried | no token without a position but what a sale keeps back, no sale without a record, stops that only rise |
| Swaps (`execution/swap_router.py`, `execution_reconciler.py`, `main`) | hash of a pending exit | `swap_exact_in`, `reconcile`, `reconcile_exit` | a hash is not a mined transaction | no second sale of the same tokens |
| Spend governor (`data/x402_spend_governor.py`) | spent today, in all, failure cooldown, ledger file | `allow_call`, `record_spend`, `record_failure` | payment settled but answer lost, restart, damaged ledger, midnight | real payments stay within the budgets |
| Agent loop (`main`) | the locals of a cycle, cooldowns | the steps above | order, deaths by an exception nothing catches | every position is sold in the end |
| Snapshot cache (`data/market_snapshot_cache.py`), its planner and the CMC client | two layers, their stamps, a file | refresh, choose what to buy, merge, save, load | layers age, fail and are restored apart from each other; paid calls take time | nothing is bought before its time, nothing stale is used untried, stated ages are honest |
| Regime detection (`strategy/regime_detector.py`) | regime, lower cycles seen | `detect`, fallback | hysteresis over failed detections and restarts | no downgrade that the last readings do not all support |
| Event filter (`strategy/event_filter.py`) | last good events, file time | reload, halt, blackout | the operator edits while the loop runs, also between a file's `stat` and its read | the last good events stay in force; no trade against them or a halt |
| TWAK interface (`execution/twak_interface.py`) | retries and approval of a call | swap, approval and retry | a swap that went through is reported as failed; an approval takes time | at most one broadcast per call, one unlimited approval, no approval wasted |
| Breakout strategy (`strategy/6falgorithm/`) and the choice of an entry (`main`) | near-miss cooldowns, the decision log, price windows | score, rank, quote, attempt, rotate | quote budget per cycle; what was tried is known in memory and in a log | a symbol that could not be entered makes room for others, also after a restart |
| Others | logs, ML models, health server, dashboard | | mostly pure or output only | |

`PROJECT.json` lists every component with its status, and the hazards at their lines.

## Modules

| Module | Models | Notes |
| --- | --- | --- |
| `Guardrails` | the guardrails in the order in which the loop calls them | methods are functions from the record of fields to a record (`RecordTrade`, `ResetDaily`, ...); the actions are the calls of the loop and `Crash`, `Tick` |
| `TradeLifecycle` | wallet, pending transactions, book, file, swaps and the loop around them | one action per step of a sale or purchase that another party can come between |
| `SpendGovernor` | governor, ledger, breaker, paid calls | real payments are history variables the code cannot see |
| `Allowance` | what the governor promises: a purse with a daily and a total allowance | refined by `SpendGovernor` through `Purse` |
| `ExitLevels` | the levels of one position over a sequence of prices | thousandths, so that every comparison is exact |
| `OneSwap` | what a swap is to its caller: broadcast at most once, and broadcast (or filled on paper) if it returns; the chain settles it in its own time | abstract; refined by `SwapCall` |
| `SwapCall` | router, TWAK command, approvals, retries, output floor, balance read and reconciliation of one call after another | the inside of what `TradeLifecycle` takes in two steps (a broadcast, an answer) |
| `EntryGates` | event filter, control file, and every place of the loop that asks them | the operator acts between any two steps |
| `MarketSnapshot` | `_fetch_snapshot` over both layers, their refresh, merge and file | quotes are known by when they were made |
| `RegimeDetector` | score, thresholds, hysteresis and fallback of the regime | the state and steps of a detector; it has no behaviour of its own |
| `EntryPipeline` | EXTENDS `RegimeDetector`: the cycle from regime to entry and to the line in the decision log | composes detector, breakout engine, candidate, attempt and rotation |
| `MC...` | the instances that TLC checks | |
| `GuardrailsProofs`, `TradeLifecycleProofs`, `SwapCallProofs`, `SpendGovernorProofs`, `ExitLevelsProofs`, `EntryGatesProofs`, `MarketSnapshotProofs`, `EntryPipelineProofs` | the theorems | each EXTENDS its module and TLAPS |

How the state corresponds to the code:

- `Guardrails.mem` is the object, `disk` what `_save_state` last wrote, `torn` a
  file a crash truncated.  A process that finds a torn file raises on load, so it never
  starts again; `pausedUntil` is in `mem` only, since the code does not save it.
  `cycle` holds what the loop keeps in locals between `evaluate` and the entry.
  A swap ends in one of four ways: refused (`NoEntry`, `ComplianceFailed`), recorded, lost
  with its process, or broadcast by a call that raised all the same (`EntryUnreported`,
  `ComplianceUnreported`: a timeout of TWAK, the output floor, no hash, a failed
  reconciliation), which the loop takes for a failure and does not record.
  `stamp` is the timestamp a compliance swap captured before its swap.  `open` is the
  number of positions; stale drops, reconciliation and reconstruction change it
  without the guardrails hearing of it (`Start`, `ExitsDone`, `Evaluate`).
- `TradeLifecycle.book`/`disk`/`file` are `PositionManager._positions` and
  `positions.json`; `pendingExit` is `_PENDING_EXIT_HASHES`; `ath` and `latch` are the
  two durable fields of the guardrails that a bookkeeping error reaches; `allowed` is
  `entries_allowed`, computed before the exits and used after them.  `pc` is where the
  loop is, `todo` the symbols its current `for` has left, `cur` the swap under way, with what
  its sale keeps back (`kept`).
- `SpendGovernor.gov` is the object; `wait` stands for the number of consecutive
  failures (0 for none, else the cooldown of the last), `cool` for what is left of it.
- `ExitLevels.pos` is a row of the book; `high`, `stop`, `target` keep their names.

- `SwapCall.sent` counts the swaps that a call has broadcast or filled on paper; `allowance`
  and `fate`, what became of the swap, are the chain's, and `ChainSettles` is a step of its
  own, during the call or after it.  That TWAK broadcasts when it exits with 0 is taken from how the
  code uses it; that it executes is not.  `tries` and `explicit` are the
  locals of `_run_swap_with_approval_retry`, `reads` the attempts of
  `_read_balance_with_timeout`, `held` whether the book has the position.  An approval
  takes some delays to be mined, which each `Sleep` counts down, unless it is mined earlier.
- `EntryGates.events`/`mtime` are the fields of `EventRiskFilter`; a load at a gate is two steps
  (`LoadStat`, then a read that ends in one of three ways), and so is the one at a start
  (`Restart`, `Boot`), because the file may change between the stat and the read: `stat` is the
  time kept, whatever is then read.  A file is known by its modification time and by whether it is
  half written.  `at`, `allowed`, `haltSeen`, `candidate` are the loop's locals
  `now_utc`, `entries_allowed`, `rweal_manual_halt` and `candidate`.
- `MarketSnapshot.keyless`/`paid`/`file` are the two layers and the persisted one, each
  with the monotonic stamp that decides its freshness (`mono`) and the epoch its rows carry
  (`epoch`); `t0` is the call of `time.monotonic()` a cycle works with, though a paid
  call takes time after it.
- `RegimeDetector.last`/`hold` are the fields of the detector, `served` the regime the
  cycle works with; regimes are their ranks, scores are in halves.
- `EntryPipeline.cooldowns` is `breakout_near_miss_cooldowns`, `near` the excludes of the
  cycle, `log` the tail of the decision log that `_breakout_recent_analysis_excludes_from_log`
  reads, `cand` the candidate with what its quote says.  An evaluation is a choice over how
  candidates stand (unscored, below the quote floor, blocked by a quality guard, or good),
  in any order of rank, with any quotes.

Variables called `hist`, `seen`, `faults`, `recent`, `fellBack`, `refused`, `refusals`,
`due`, `firm`, `misread`, `left`, `tried` and `bought` are not state of the program: they
record what really happened, for the properties, and bound the faults.

What is abstracted: prices in `TradeLifecycle` are flat, one unit of a token being
worth one unit of cash, so that whatever moves the portfolio value is a bookkeeping
error or a residue; exits trigger nondeterministically there, and by their levels in
`ExitLevels`.  Amounts there are in units small enough for the two small numbers of a sale: it
keeps back a thousandth of the balance (`KeptBack`; `EXIT_BALANCE_SAFETY_FACTOR`, `main`
2636), and a position whose balance is at a dust floor is dropped as stale (`ExitDust`, `main`
2709; `StartDust`, `reconciliation.py` 37).  Both leave tokens in the wallet that no position
has, after sales in which nothing went wrong; `left` counts them, and `NoStrayTokens` says that
apart from faults there are no others.

`Guardrails.ValidatesNewTrade` leaves out the refusals for the symbol, the size and the slippage
(`guardrails.py` 79, 85 to 95), which depend on the candidate only.  In `EntryPipeline` a line of the
decision log is written at once; a torn one would be skipped by its reader (`main` 1318
to 1321), like a line that was never written.
Sizes, scores, slippage and log contents are left out.  The fallback value of a
portfolio with neither cash nor positions (10000.0) is not modelled; no state of the
instance has such a portfolio.  `fragile` stands for the sentiment and volatility inputs of
`evaluate`, which only ever reduce size.

## Runs

| Run | Expects | Shows |
| --- | --- | --- |
| `Guardrails_utc` | pass | `NoEntryAfterKill`, `DailyLossRespected`, `DailyBudget`, `OneComplianceSwap`, `BackstopDeclinesOnlyAfterTrade`, `BudgetNeverRaises` |
| `Lifecycle_safety` | pass | `NoStrayTokens`, `KillIsExplained`, `BookIsDurable`, `EveryExitIsRecorded`, `HashesCleared` |
| `Lifecycle_flatten` | pass | `WindowFlattens`, a liveness property |
| `Spend_budget` | pass | `PaidWithinTotal`, `PaidWithinDay`, `NeverThrottled` |
| `Spend_allowance` | pass | the governor implements `Allowance` |
| `Exits_levels` | pass | `StopRatchets`, `StopFollowsPeak`, `GainKept`, `LosersTurnOver` |
| `Swap_calls` | pass | `OneUnlimitedApproval`, `PatientWithApprovals`, `BookFollowsSwap`; a call implements `OneSwap` and ends (`CallEnds`) |
| `Gates_events` | pass | `HaltStopsTrades`, `LastGoodInForce`, `TradesAvoidEvents` |
| `Market_layers` | pass | `NeverBoughtEarly`, `StaleOnlyAfterTrying`, `AgeIsHonest` |
| `Pipeline_entries` | pass | `RegimeEarned`, `NearMissRotates` |
| `Lifecycle_duplicate` | violation | a second exit while the first is pending |
| `Market_outage` | violation | an outage of the free source replaces a layer that has prices by one that has none |

Bounds, and why they are enough:

- `Guardrails_utc`: days 0 to 2 (two midnights, so that a record can fall on the day
  after its swap and another day follows), three ticks a day with the compliance
  window in the last, one tick within a cycle, two faults (`MaxFaults`: deaths, and swaps whose
  call raised after the broadcast), two regimes, values 100
  and 80 (a drawdown of 20% > 18%, so that the latch can be set and the drawdown
  recover), losses of 0 or 1 with a limit of 2%, so that the limit takes two exits.
- `Lifecycle_*`: two tokens (symmetric), cash for five lots of 1000000 units each, so that one lot
  is 20% of the portfolio and its loss sets the latch; a sale of a lot keeps back 1000 units,
  one of such a residue (rebuilt as a position) 1 unit, which is the floor of an exit, and the floor of a start
  lies between; the first start may find residues in the wallet; two faults of any kinds (every hazard listed
  takes one or two); three transactions, one in the liveness run, which has neither
  symmetry nor torn writes (a torn file stops the agent for good).
- `Spend_*`: a price of 2 with budgets of 5 and 9, neither a multiple of it; days 0 to
  2; two faults; real payments up to 14, above the total budget.
- `Exits_*`: eight prices that cross the stop, both steps of the trail and the target;
  three volatilities; all regimes; ages to one above the maximum; two lost files.  `MaxHold` is 2
  here; by default `max_hold_hours` is 0.0 (`settings.py` 105), which turns the time stop off, and then
  nothing ends a losing position that its stop does not: `LosersTurnOver` has `MaxHold > 0` as its premise.

- `Swap_calls`: three retries and two re-reads, as in the settings, approvals that take up to
  five delays (more than the retries wait), four calls, so that a second purchase and sale
  find what the first ones left.
- `Gates_events`: two tokens, one of them the compliance swap's, five versions of which one is
  malformed, three acts of the operator and two ticks: enough for a halt that is
  lifted, a save torn in the middle, a backup put back, a save between the stat and the read
  followed by the return of the version that was there before, each between any two steps.
- `Market_layers`: one pinned symbol and one that a paid call can only name by a harvested id; a
  free TTL of two cycles, paid ones of two to four, a hot age of one, five ticks: a layer can be
  bought, go stale, be restored and be bought again.  `Market_outage` needs TTLs of one only.
- `Pipeline_entries`: two symmetric symbols, a hold of three readings, a rotation of one
  cycle, one quote an evaluation, five cycles, any number of restarts.

Deadlock is checked in the `Spend`, `Exits`, `Market` and `Pipeline` runs (in the last two a
crash is always possible).  In `Swap_calls` the agent stops after the last call of the bound,
in `Gates_events` for good when it dies of a file that no restart can read and the acts are
spent.  In the `Guardrails` runs the system may stop (the last day of the bound, a torn state file that no start can
load), as in the `Lifecycle` runs (a torn file, or `gone`: the supervisor has given up).

### Fairness

- `TradeLifecycle!FairSpec`: weak fairness of the agent (the loop runs, systemd restarts a
  dead process), of mining and of reverting (the chain makes progress).  Faults are
  bounded and have none.  Nothing is assumed about when the window opens, or about
  the choice an action makes: an agent that keeps failing is excluded only by the
  bound on faults.
- `ExitLevels!FairSpec`: weak fairness of `Age` (the clock) and of `Evaluate(TRUE, TRUE)`:
  while a position is held, some cycle has a quote for it and its sale, if it is due
  then, succeeds.  It is assumed of no particular price.
- `SwapCall!FairSpec`: weak fairness of the agent's next step (the process runs; each
  command has a timeout) and of `WorkerEnds` (the HTTP provider of web3 has a timeout of its
  own).  Nothing is assumed of the chain: `CallEnds` holds whether or not approvals are mined.
- Elsewhere only safety is stated, without fairness.

### Counterexamples kept beside the runs

These configurations are not among the runs of `PROJECT.json`; `tlc -config X.cfg M`
finds each property violated by what the code does.

| Configuration | Module | Property | What the counterexample shows |
| --- | --- | --- | --- |
| `Guardrails_pause.cfg` | `MCGuardrails` | `PauseLasts24h` | the pause after a streak of losses lasts 24 hours (`DEVELOPMENT.md` 167), but it is not saved (`guardrails.py` 329) and ends with the process |
| `Guardrails_streak.cfg` | `MCGuardrails` | `LossStreakPauses` | "Update consecutive loss tracking after a position closes" (`guardrails.py` 155): no exit of the loop ever calls it, so no streak is ever built |
| `Lifecycle_cooldown.cfg` | `MCTradeLifecycle` | `UnconfirmedCoolDown` | the cooldown of unconfirmed swaps looks for the action "enter" (`reconciliation.py` 79), the log says "entry", so it never finds one |
| `Spend_rebill.cfg` | `MCSpendGovernor` | `NoRebillNextCycle` | a broken endpoint is billed in two cycles in a row: the first backoff, 30 s, is over before the next cycle (`x402_spend_governor.py` 60 and 5) |
| `Exits_timestop.cfg` | `MCExitLevels` | `HeldPositionsTurnOver` | a position at or above its entry has no time stop (`position_manager.py` 167, `settings.py` 101) |
| `Gates_crash.cfg` | `MCEntryGates` | `EditsNeverCrash` | a file caught half written, within a character of several bytes, raises `UnicodeDecodeError`, which `load` does not catch (`event_filter.py` 26 to 28 promises that a broken edit does not crash the loop) |
| `Swap_hang.cfg` | `MCSwapCall` | `ReadNeverBlocks` | leaving `with ThreadPoolExecutor` waits for the worker that timed out, so a hanging node does block the cycle (`main` 2737: "never blocks the trading cycle") |
| `Swap_trusted.cfg` | `MCSwapCall` | `OpenedOnReceipt` | `execution_reconciler.py` 1 has "On-chain execution reconciliation before local position opening", but a hash from TWAK is trusted (64): a position is opened for a purchase that has reverted |
| `Swap_paper.cfg` | `MCSwapCall` | `PaperSaleCloses` | `reconcile_exit` finds neither a TWAK hash nor a changed balance after a paper sale, and the paper position stays open (`DEVELOPMENT.md` 236) |

## Proofs

Every theorem is proved for every value of the constants that the module's
assumption allows.  The argument is always the same: an inductive invariant, each
action of `Next` taken in turn.

`GuardrailsProofs` (from `GuardrailsAssumption`):

- `TypeCorrect`: `TypeOK` is inductive.
- `KillSwitchHolds`: `hist.killed` alone does not exclude an entry; `KillInv` says that
  the file has the latch once the switch was reported, and that memory agrees with the
  file while a process runs (`Synced`), so that `validate_new_trade` reads it.
- `OneComplianceSwapHolds`: the invariant relates the swaps of a day to its compliance
  date in memory and in the file, whether or not one is under way; a crash, and a call that
  raises after its broadcast, moves the one under way to the lost ones.
- `DailyBudgetHolds` and `DailyLossHolds` assume `LocalOffset = 0`.  The invariant says
  that the count and the loss of the books, when they carry today's date, are at least
  what happened on it (less what was never recorded).  With another offset it is false: an
  exit stamped with a local date resets the day (`main` 2976), and TLC finds
  `DailyLossRespected` violated with `LocalOffset = 1`.
- `BackstopNeverSkipsADay` holds on any host's clock, but assumes that a cycle is not so
  long that it starts before a midnight and is still running when the compliance window
  opens (`MaxCycleTicks <= TriggerTick`; the window opens at 22:00, `main` 86).  It is needed
  because `_ensure_daily_minimum_trade` compares the count without a reset: a count above
  zero may be yesterday's.  `TradedInv` says that a count and a compliance date of today, and
  a swap of today still to be recorded, stem from a trade of today; `StaleInv` that a cycle
  working with yesterday's count has had its midnight, so that the clock shows less than
  the cycle has lasted.
- `GrantedBudgetsLast`: `BudgetInv` says that what the gate granted at `evaluate` holds until
  the entry, since exits only close positions and a reset only lowers the count.  It
  assumes that every regime has a budget (the defaults are 8, 5 and 2).  With a budget of 0
  it is false, as TLC finds with `RegimeMax = 0`: see the divergences below.

`SpendGovernorProofs` (from `GovernorAssumption`):

- `TypeCorrect`; `ThrottleUnreachable` (`BreakerInv`: the breaker has recorded no more than
  the governor has of the day); `PaymentsWithinTotal` and `PaymentsWithinDay` (`BooksInv`,
  `MirrorInv`, `PaidInv`: as long as the file was never damaged it agrees with the object, and what was
  paid is at most what is booked plus what was missed; a paid call
  under way has been fitted in).
- `GovernorImplementsPurse` assumes that the faults are crashes only; each step maps to
  a step of `Allowance` or a stutter.

`ExitLevelsProofs` (from `ExitAssumption`):

- `TypeCorrect`, `StopsRatchet`, `StopsFollowPeak`: `TrailInv` says that a row which has
  risen carries a stop raised at its highest price.
- `GainsAreKept` assumes of the settings that each step of the trail pays for its stop:
  (1 + profit) * (1 - stop) >= 1.  The defaults do (1.08 * 0.96 and 1.12 * 0.97).

`EntryPipelineProofs` (from `HoldAssumption` and `PipelineAssumption`), with `Inv` the
conjunction of `TypeOK`, `DetectorInv` and `RotationInv`:

- `RegimeAlwaysEarned`: `DetectorInv` says that the readings being held back are the newest
  of the history and all below the regime in force, and that the one before them is
  that regime; so a commit of a lower one has `HoldCycles` lower readings before it.
- `NearMissesRotate`: `RotationInv` says that a refusal of a finished cycle is on the log's line
  of that cycle and not an entry, that what the log says is excluded in the whole cycle,
  and that the strategy's candidate is never excluded.

`EntryGatesProofs` (from `GatesAssumption`): `TypeCorrect`; `HaltsStopTrades` (`HaltInv`:
what a gate without a halt lets pass may still be loading the calendar);
`LastGoodStaysInForce` (`CalendarInv`: unless the calendar in force was misread, a file whose
stamp is the loaded one has it, which is why a gate may skip the file);
`EveryTradeAvoidsEvents` (`ClearInv`, on top of it).  Both theorems have one exception, `Misdated`:
the calendar was saved between the stat and the read of a load, and the version with the
first stamp was then put back, which a gate takes for the file it has loaded.  TLC finds
that state.

`MarketSnapshotProofs` (from `SnapshotAssumption`): `TypeCorrect`; `StaleIsLastResort`
(`TriedInv`); `NothingIsBoughtEarly` (`BoughtInv`: the stamp of the paid layer is the time
of the last kept purchase, in memory and in the file a restart reads); `AgesAreHonest`
(`AgeInv`: a paid call is shorter than a cycle, so a free layer that was fresh when the
cycle looked is at most its TTL old when it is used).

`SwapCallProofs` (from `SwapCallAssumption`: any number of retries and re-reads, any delay),
with `SwapInv` the conjunction of `TypeInv`, `CallInv`, `AskingInv` and `BookInv`:

- `TypeCorrect`; the bounds of the counters need the invariant too (a read is retried only
  while retries are left).
- `BookFollowsChain`: the property speaks of a call that is over, so the invariant carries it
  through the stages (`CallInv`): nothing sent before a run is answered, one broadcast from then
  on if the answer is a success, and a side that is the one the book asked for.  The chain may
  settle a swap after the call, so that `BookInv` states the property before it is known how.
- `OneApprovalPerCall` (`ApprovalsCounted`: the approval counted goes with the flag that
  forbids a second one) and `ApprovalsAreAwaited` (`ApprovalAges`: an approval under way has
  its first delays less those the call has slept; so a call with all its retries spent has
  waited them all).
- `CallIsOneSwap`: with the mapping of `SwapCall`, a run that swaps is `Broadcast`, one on paper
  `PaperFill`, the end of the router is `Return`, each of its ways to fail is `Raise` (with or
  without a broadcast), `ChainSettles` is `Settle`, and every other step stutters; `CallInv` gives the
  guards of the abstract steps.

`TradeLifecycleProofs` (from `LifecycleAssumption`: any finite set of symbols, any number of
faults and transactions), with `LifeInv` the conjunction of `TypeInv`, `FlowInv`, `Numbered`,
`Stored`, `HashKept`, `WalletInv` and `SalesInv`:

- `TypeCorrect`: `FlowInv` says which symbols a pass has left to visit and what the swap under way
  is, which types it; `Numbered` that a transaction is known by its number.
- `BookStaysDurable` (`Stored`) and `HashesAlwaysCleared` (`HashKept`: the hash is there from the
  answer to the verification and for that symbol only).
- `NoTokenIsStray` and `KillNeedsFault`: `WalletInv` compares wallet, book, file and pending
  transaction at every step of a cycle and in a dead process, while no answer was lost or late, no
  read failed and nothing crashed: at rest the wallet is the book plus what positions left
  behind (`left`), and in a swap they differ by that swap.  Then the value the guardrails see is
  the equity less the residues at every evaluation, so that the high-water mark is at most the
  equity and no drawdown appears until the residues alone are one.
- `ExitsAreRecorded`: `SalesInv` says that a sale not recorded yet is the current one.  Late
  answers are no exception here: a sale still pending at the next cycle is one already
  recorded.
- Portfolio values sum over all symbols (`Units`).  The induction theorems of the library
  cannot be used (they take an operator), so that the facts about sums are proved with a
  smallest counterexample: the subsets for which two sums differ, or none exists, would
  have a member that no other is a subset of (`SmallestSubset`, from the well-foundedness of
  the strict subset ordering).

Only model-checked: liveness (`WindowFlattens`, `LosersTurnOver`, `CallEnds`), which is out of
the prover's reach.  Every invariant, action property and refinement of the passing runs is
a theorem, under the assumptions named here.  No theorem stands for the two runs that expect a
violation, nor for the counterexamples kept beside the runs.

## What the code does otherwise than it says

Shown by runs (`findings` in `PROJECT.json`): the duplicate exit and the outage.  Shown by the
counterexamples above: the pause, the streak, the cooldown, the second bill, the time stop, the
crash on an edit, the hanging read, the paper sale and the trusted hash.  Met while modelling, without a
configuration of their own:

- A hash is booked before it is mined on a sale too (`execution_reconciler.py` 164), though
  `DEVELOPMENT.md` 62 has on-chain reconciliation before local state is persisted.
- An entry or a compliance swap that was broadcast, but whose call raised, is logged as a failure
  and not recorded (`main` 1649 to 1667 and 3425 to 3433), so that the same process swaps again
  in the next cycle; `DailyBudget` and `OneComplianceSwap` count those swaps apart.
- Every sale leaves a thousandth of the balance in the wallet without a position (`main` 2636),
  and a position dropped as stale leaves what the floor allows (`main` 2709); no step of the loop
  looks for either again while there is a book, and the portfolio value leaves them out.
- `EventRiskFilter.load` takes the time of the file before its contents (`event_filter.py` 199 and
  200) and `reload_if_changed` compares the times only (233).
- Exits carry the host's local date (`main` 2976), other trades the UTC date.
- After the kill switch `validate_new_trade` raises at an entry that the loop's gate, which
  does not read the latch, has allowed (once the drawdown recovers); the process dies,
  although the comment at `main` 796 means it to stay alive for the daily trade.
- A regime with a budget of 0 still gets `max(1, 0 // 2)`, one entry, from the gate in
  reduced risk (`guardrails.py` 411), which `validate_new_trade` then refuses by killing the
  process (`guardrails.py` 203); `GrantedBudgetsLast` excludes such a setting.
- A sale that is booked before it reverts, or counted in the stable balance before it
  leaves the book, makes the high-water mark a value the portfolio never had, and so a
  drawdown that is not one.
- A truncated ledger gives back the whole budget (`x402_spend_governor.py` 218); an answer lost
  after its payment settled is counted as unpaid (`cmc_mcp_client.py` 943); the
  setting `failure_cooldown_seconds` is stored and never read.
- `_PENDING_EXIT_HASHES` never holds a hash when `_execute_position_exit` looks
  (`HashesCleared`), so its idempotency check is dead.
- The breaker's throttle is out of reach (`ThrottleUnreachable`).
- A rebuilt position never has `reconstructed` set (`main` 2568), the flag that would defer
  its first exit; a token without a quote is evaluated at its entry price (`main` 2787).
- `DEVELOPMENT.md` 164 to 166 and 183 give other stops, targets and trade limits than
  `settings.py`.
- A liquid row without a price ends the process: `_BreakoutProfile` is built with an argument
  missing (`breakout_engine.py` 1145), and the retries meet the same `TypeError`.
- With exactly 14 prices `_compute_atr_14` has 13 true ranges, so that its ratio is 13/14 and the
  token is blocked.
- `ml_bundle` disappears in the `**_` of `factory.py`; BNB is never enriched, because
  `_normalize_target_symbols` drops it; the session of the MCP server is never opened again.
- The output floor of a paper fill compares the amount paid with the amount expected
  (`swap_router.py` 87), so that it depends on whether the token is worth more than a dollar.
- The held regime is served without the ML modulation a new one gets; its
  `max_slippage_pct` is never enforced; a failed detection between lower readings does not
  reset the hold.
- A compliance swap makes the cycle's line in the decision log say ENTER of the symbol the
  strategy analysed, which was not bought, and takes it off the cooldowns
  (`main` 965 to 982, 1046, 1360); `NearMissRotates` states this exception.
- The telemetry's second evaluation consumes a breakout; the minimum-trade candidate ignores
  the excludes; `_write_v25_cycle_logs` clears `_last_exit_meta` before the decision log
  reads it (`main` 1887, 2084), which therefore never has the reason of an exit.

## Plan

Done in this order, the most important behaviour first: guardrails, the life of the
positions, the spend governor with its refinement, exit levels; then the inside of a swap with
its refinement, the gates of an entry, the market data, the regime and the way from it to an
entry; proofs for all of them.  Next:

1. Proofs: an abstract book (each durable step opens or closes one position, a death changes
   nothing) that `TradeLifecycle` implements; `EntryPipeline` on the choice of a candidate.
2. A second process (`--emergency-liquidate`) on the same file in `TradeLifecycle`, as far
   as it keeps to the same abstract book.
3. The price windows of the engine and their files, as far as a restart matters to them.

## Not modelled

- Machine learning, scores, volatility and per-token sentiment: numerics over price
  windows.  What they decide enters as a choice.
- The handshake of the MCP client, `initialize` and `notifications/initialized`
  (`x402_client.py` 86 to 90, 123 to 181): it goes through the paying session, without an `allow_call`
  or a record of its own.  If the server asked a payment for it, that would be one the books have not; the bounds
  of `PaidWithinTotal` and `PaidWithinDay` except unrecorded payments, and hold for it in that way only.
- The parsing of answers, tables of tokens and settings: data conversion; the models take their
  results as constants or choices.
- Logs and research output, dashboard, health server and chat: they read, or write what nothing
  reads back, except the two logs that are modelled.
- Preflight, withdrawal and the other operator commands, which run without the loop.
- The single-layer cache of dry runs and the legacy MCP client.
