---------------------------- MODULE TradeLifecycle ----------------------------
(***************************************************************************)
(* The life of the positions: the wallet on the chain, the book of the     *)
(* PositionManager and its file, and the swaps by which run_agent          *)
(* (src/main.py) moves one towards the other.  A swap is a call to the     *)
(* TWAK command line: it may be refused, or broadcast a transaction and    *)
(* then answer with a hash or with an error; the transaction is mined or   *)
(* reverts in its own time.  The process may die between any two steps.    *)
(*                                                                         *)
(* Tokens and cash are counted in units so small that what a sale leaves   *)
(* of a lot is still some of them.  Prices are flat: a unit of a token is  *)
(* worth a unit of cash, so that whatever moves the portfolio value is     *)
(* bookkeeping.  Exits trigger nondeterministically; the daily budgets,    *)
(* and the compliance swap, whose half dollar buys a token that is never   *)
(* booked, are left to Guardrails.                                         *)
(***************************************************************************)
EXTENDS Integers, FiniteSetsExt

CONSTANTS
    Symbols,        \* tradable tokens
    Equity,         \* units the wallet holds, in cash and tokens together
    Lot,            \* units that an entry buys
    ExitDust,       \* EXIT_DUST_FLOOR
    StartDust,      \* dust_threshold of the startup reconciliation
    KillPct,        \* drawdown_kill_switch_pct
    MaxOpen,        \* open positions the regime allows
    HasWindow,      \* is competition_end_utc set
    Faults,         \* the faults that may happen
    MaxFaults,      \* bound: how many of them do
    MaxTx           \* bound: transactions broadcast before entries stop

FaultKinds == {"refuse", "lost", "late", "revert", "readfail", "crash", "torn"}

ASSUME LifecycleAssumption ==
    /\ IsFiniteSet(Symbols) /\ Symbols # {}
    /\ Equity \in Nat \ {0}
    /\ Lot \in Nat \ {0}
    /\ ExitDust \in Nat /\ StartDust \in Nat
    /\ KillPct \in Nat \ {0}
    /\ MaxOpen \in Nat
    /\ HasWindow \in BOOLEAN
    /\ Faults \subseteq FaultKinds
    /\ MaxFaults \in Nat
    /\ MaxTx \in Nat

VARIABLES
    wallet, mempool, txs,   \* the chain: tokens held, transactions under way
    file, disk,             \* positions.json: its condition, what it says
    book,                   \* PositionManager._positions (0: no position)
    needsRec,               \* needs_balance_reconstruction
    pendingExit,            \* _PENDING_EXIT_HASHES (0: no hash)
    ath, latch,             \* high-water mark and kill latch (durable)
    allowed,                \* entries_allowed of the cycle
    log, cooldown,          \* failed swaps logged; pending_swap_cooldowns
    window,                 \* has the flatten window opened
    pc, todo, cur,          \* where run_agent is, what is left to visit, the swap
    faults, seen,           \* how many faults happened, and which
    hist, left              \* history, for the properties; in left, the tokens
                            \* that positions had when they left the book

chain == <<wallet, mempool, txs>>
store == <<file, disk, book>>
risk  == <<ath, latch, allowed>>
notes == <<log, cooldown>>
flow  == <<pc, todo, cur>>
bad   == <<faults, seen>>
vars  == <<chain, store, needsRec, pendingExit, risk, notes, window, flow, bad, hist, left>>

Empty  == [s \in Symbols |-> 0]
NoSwap == [sym |-> CHOOSE s \in Symbols : TRUE, side |-> "none", amt |-> 0, kept |-> 0,
           from |-> "none", tx |-> 0, failed |-> FALSE]

Units(held)  == MapThenSumSet(LAMBDA s : held[s], Symbols)
Cash         == Equity - Units(wallet)
OpenSymbols  == {s \in Symbols : book[s] > 0}
Alive        == pc \notin {"down", "gone"}
ExitPass     == {"exits", "monitor"}    \* the cycle's exits, the monitor's

(* A fault happens: it is one of those allowed and the bound is not spent. *)
Fault(kind) ==
    /\ kind \in Faults
    /\ faults < MaxFaults
    /\ faults' = faults + 1
    /\ seen' = seen \cup {kind}

-----------------------------------------------------------------------------
(* PositionManager: every change is persisted before the call returns.     *)

(* Mutated: the file is written for changes of a symbol already in it only.*)
PersistForgets(b) == book' = b /\ disk' = [s \in Symbols |-> IF disk[s] > 0 THEN b[s] ELSE 0] /\ file' = "ok"

Persist(b) == book' = b /\ disk' = b /\ file' = "ok"

OpenPosition(s)  == Persist([book EXCEPT ![s] = Lot])
ClosePosition(s) == Persist([book EXCEPT ![s] = 0])

Smaller(a, b) == IF a < b THEN a ELSE b

(* What was there of a position that is closed as stale stays in the       *)
(* wallet: at most the floor it was compared with.                         *)
CloseStale(s) ==
    /\ ClosePosition(s)
    /\ left' = [left EXCEPT ![s] = @ + Smaller(book[s], wallet[s])]

-----------------------------------------------------------------------------
(* The chain.                                                              *)

Pending(s, side) == {t \in mempool : t.sym = s /\ t.side = side}

Affordable(t) == IF t.side = "buy" THEN Cash >= t.amt ELSE wallet[t.sym] >= t.amt

Mine ==
    /\ \E t \in mempool :
        /\ Affordable(t)
        /\ mempool' = mempool \ {t}
        /\ wallet' = [wallet EXCEPT ![t.sym] = IF t.side = "buy" THEN @ + t.amt ELSE @ - t.amt]
        /\ hist' = IF t.from \in ExitPass /\ t.id \notin hist.recorded
                   THEN [hist EXCEPT !.sales = @ \cup {t.sym}] ELSE hist
    /\ UNCHANGED <<txs, store, needsRec, pendingExit, risk, notes, window, flow, bad, left>>

(* A transaction that cannot execute reverts; one that could may too.      *)
Revert ==
    /\ \E t \in mempool :
        /\ IF Affordable(t) THEN Fault("revert") ELSE UNCHANGED bad
        /\ mempool' = mempool \ {t}
        /\ cur' = IF t.id = cur.tx THEN [cur EXCEPT !.failed = TRUE] ELSE cur
    /\ UNCHANGED <<wallet, txs, store, needsRec, pendingExit, risk, notes, window, pc, todo, hist, left>>

-----------------------------------------------------------------------------
(* The start of a process.                                                 *)

(* Mutated: the rows of the log instead of their symbols.                  *)
PendingCooldownRows(l) == {x \in l : x.action # "exit"}

(* load_pending_swap_cooldowns: it looks for the action "enter"; the       *)
(* entries _attempt_entry_v25 logs carry the action "entry".               *)
PendingCooldowns(l) == {e.sym : e \in {x \in l : x.action = "enter"}}

(* load_positions, which creates a missing file, and the cooldowns.        *)
Boot ==
    /\ pc = "down"
    /\ file # "torn"
    /\ Persist(IF file = "missing" THEN Empty ELSE disk)
    /\ needsRec' = (file = "missing")
    /\ cooldown' = PendingCooldowns(log)
    /\ pc' = "reconcile"
    /\ todo' = {s \in Symbols : file = "ok" /\ disk[s] > 0}
    /\ hist' = [hist EXCEPT !.warned = {e.sym : e \in log}]
    /\ UNCHANGED <<chain, pendingExit, risk, log, window, cur, bad, left>>

(* reconcile_positions_on_startup: a balance of dust closes the position,  *)
(* a failed read keeps it.                                                 *)
Reconcile ==
    /\ pc = "reconcile"
    /\ \E s \in todo :
        /\ todo' = todo \ {s}
        /\ \/ Fault("readfail") /\ UNCHANGED <<store, left>>
           \/ /\ IF wallet[s] <= StartDust THEN CloseStale(s) ELSE UNCHANGED <<store, left>>
              /\ UNCHANGED bad
    /\ UNCHANGED <<chain, needsRec, pendingExit, risk, notes, window, pc, cur, hist>>

ReconcileDone ==
    /\ pc = "reconcile" /\ todo = {}
    /\ pc' = "top"
    /\ UNCHANGED <<chain, store, needsRec, pendingExit, risk, notes, window, todo, cur, bad, hist, left>>

-----------------------------------------------------------------------------
(* Swaps: _execute_logged_swap for the sale or purchase described by cur.  *)

(* kept: what the sale keeps back of the balance it was sized with.        *)
Swap(s, side, amt, kept, from) ==
    [sym |-> s, side |-> side, amt |-> amt, kept |-> kept, from |-> from, tx |-> 0,
     failed |-> FALSE]

(* The router refuses, or a transaction is broadcast.                      *)
Refused == Fault("refuse") /\ cur' = NoSwap /\ UNCHANGED <<mempool, txs>>

Broadcast ==
    /\ mempool' = mempool \cup
            {[id |-> txs + 1, side |-> cur.side, sym |-> cur.sym, amt |-> cur.amt,
              from |-> cur.from]}
    /\ txs' = txs + 1
    /\ cur' = [cur EXCEPT !.tx = txs + 1]
    /\ pc' = "swapping"
    /\ UNCHANGED bad

(* The answer is a hash: the transaction was mined, or was only sent.      *)
AnswersHash ==
    /\ pc = "swapping" /\ ~cur.failed
    /\ IF \E t \in mempool : t.id = cur.tx THEN Fault("late") ELSE UNCHANGED bad

(* The answer is an error, a timeout, an output below the floor or no hash *)
(* at all, although the transaction was sent.                              *)
AnswersError ==
    /\ pc = "swapping"
    /\ IF cur.failed THEN UNCHANGED bad ELSE Fault("lost")

-----------------------------------------------------------------------------
(* Selling: in the two exit passes of a cycle and in emergency_liquidate,  *)
(* called for the window ("flatten") or for the kill switch ("liquidate"). *)

Selling == pc \in ExitPass \cup {"flatten", "liquidate"}

(* update_price gives no exit reason.                                      *)
KeepPosition ==
    /\ pc \in ExitPass
    /\ \E s \in todo : todo' = todo \ {s}
    /\ UNCHANGED <<chain, store, needsRec, pendingExit, risk, notes, window, pc, cur, bad, hist, left>>

(* The idempotency check of _execute_position_exit, which in fact never    *)
(* finds a hash: see HashesCleared.                                        *)
NoPendingHash(s) == pendingExit[s] = 0

(* _extract_symbol_balance of an answered read.                            *)
SymbolBalance(s) == wallet[s]

(* The live balance is dust: the position is removed as stale.             *)
DropStale ==
    /\ Selling
    /\ \E s \in todo :
        /\ NoPendingHash(s)
        /\ SymbolBalance(s) <= ExitDust
        /\ CloseStale(s)
        /\ todo' = todo \ {s}
        /\ cur' = NoSwap
    /\ UNCHANGED <<chain, needsRec, pendingExit, risk, notes, window, pc, bad, hist>>

(* EXIT_BALANCE_SAFETY_FACTOR: a thousandth of the balance is not sold.    *)
KeptBack(amt) == amt \div 1000

(* _live_exit_balance: the smaller of book and wallet, but for what the    *)
(* safety factor keeps back; the whole book when the read fails.           *)
ReadForSale ==
    /\ Selling
    /\ \E s \in todo :
        /\ NoPendingHash(s)
        /\ \/ /\ SymbolBalance(s) > ExitDust
              /\ LET most == Smaller(book[s], SymbolBalance(s))
                     kept == KeptBack(most)
                 IN  cur' = Swap(s, "sell", most - kept, kept, pc)
              /\ UNCHANGED bad
           \/ cur' = Swap(s, "sell", book[s], 0, pc) /\ Fault("readfail")
        /\ todo' = todo \ {s}
    /\ pc' = "sell"
    /\ UNCHANGED <<chain, store, needsRec, pendingExit, risk, notes, window, hist, left>>

(* The position of a sale is closed; what was kept back stays behind.      *)
CloseSold ==
    /\ ClosePosition(cur.sym)
    /\ left' = [left EXCEPT ![cur.sym] = @ + cur.kept]

CallSell ==
    /\ pc = "sell"
    /\ (Refused /\ pc' = cur.from) \/ Broadcast
    /\ UNCHANGED <<wallet, store, needsRec, pendingExit, risk, notes, window, todo, hist, left>>

(* Mutated: the position is closed although its sale failed.               *)
SaleFailsCloses ==
    /\ cur.side = "sell"
    /\ AnswersError
    /\ ClosePosition(cur.sym)
    /\ pc' = cur.from /\ cur' = NoSwap
    /\ UNCHANGED <<chain, needsRec, pendingExit, risk, notes, window, todo, hist, left>>

(* The position stays open and is tried again in a later cycle.            *)
SaleFails ==
    /\ cur.side = "sell"
    /\ AnswersError
    /\ pc' = cur.from /\ cur' = NoSwap
    /\ UNCHANGED <<chain, store, needsRec, pendingExit, risk, notes, window, todo, hist, left>>

(* emergency_liquidate closes on the hash and records nothing.             *)
LiquidationDone ==
    /\ cur.from \in {"flatten", "liquidate"}
    /\ AnswersHash
    /\ CloseSold
    /\ pc' = cur.from /\ cur' = NoSwap
    /\ UNCHANGED <<chain, needsRec, pendingExit, risk, notes, window, todo, hist>>

(* Mutated: a hash without an amount counts as a failed sale.              *)
ExitHashIgnored ==
    /\ cur.from \in ExitPass
    /\ AnswersHash
    /\ pc' = cur.from /\ cur' = NoSwap
    /\ UNCHANGED <<chain, store, needsRec, pendingExit, risk, notes, window, todo, hist, left>>

ExitHashKnown ==
    /\ cur.from \in ExitPass
    /\ AnswersHash
    /\ pendingExit' = [pendingExit EXCEPT ![cur.sym] = cur.tx]
    /\ hist' = [hist EXCEPT !.hashes = @ \cup {t.id : t \in {m \in mempool : m.id = cur.tx}}]
    /\ pc' = "verify"
    /\ UNCHANGED <<chain, store, needsRec, risk, notes, window, todo, cur, left>>

(* Mutated: the failed verification leaves the hash behind.                *)
VerifyFailsKeepsHash ==
    /\ pc = "verify"
    /\ Fault("readfail")
    /\ pc' = cur.from /\ cur' = NoSwap
    /\ UNCHANGED <<chain, store, needsRec, pendingExit, risk, notes, window, todo, hist, left>>

(* The post-sell balance read fails: the hash is dropped, the position     *)
(* stays open.                                                             *)
VerifyFails ==
    /\ pc = "verify"
    /\ Fault("readfail")
    /\ pendingExit' = [pendingExit EXCEPT ![cur.sym] = 0]
    /\ pc' = cur.from /\ cur' = NoSwap
    /\ UNCHANGED <<chain, store, needsRec, risk, notes, window, todo, hist, left>>

(* reconcile_exit trusts any TWAK answer with a hash.                      *)
CloseExit ==
    /\ pc = "verify"
    /\ CloseSold
    /\ pendingExit' = [pendingExit EXCEPT ![cur.sym] = 0]
    /\ pc' = "sold"
    /\ UNCHANGED <<chain, needsRec, risk, notes, window, todo, cur, bad, hist>>

(* The outcome logs and guardrails.record_trade.                           *)
RecordSale ==
    /\ pc = "sold"
    /\ hist' = [hist EXCEPT !.sales = @ \ {cur.sym},
                            !.recorded = {t.id : t \in {m \in mempool : m.id \in @ \cup {cur.tx}}}]
    /\ pc' = cur.from /\ cur' = NoSwap
    /\ UNCHANGED <<chain, store, needsRec, pendingExit, risk, notes, window, todo, bad, left>>

-----------------------------------------------------------------------------
(* The cycle of run_agent.                                                 *)

OpenWindow ==
    /\ HasWindow /\ ~window
    /\ window' = TRUE
    /\ UNCHANGED <<chain, store, needsRec, pendingExit, risk, notes, flow, bad, hist, left>>

(* Mutated: the window stops entries but sells nothing.                    *)
BeginCycleWithoutFlatten ==
    /\ pc = "top"
    /\ pc' = "value"
    /\ allowed' = ~window
    /\ UNCHANGED <<chain, store, needsRec, pendingExit, ath, latch, notes, window, todo, cur, bad, hist, left>>

(* _maybe_flatten_for_window comes first, before any reconstruction.       *)
BeginCycle ==
    /\ pc = "top"
    /\ IF window THEN pc' = "flatten" /\ todo' = OpenSymbols
                 ELSE pc' = "value" /\ UNCHANGED todo
    /\ allowed' = ~window
    /\ UNCHANGED <<chain, store, needsRec, pendingExit, ath, latch, notes, window, cur, bad, hist, left>>

(* After the window's liquidation the cycle goes on; the kill switch's     *)
(* liquidation ends it.                                                    *)
LiquidationOver ==
    /\ pc \in {"flatten", "liquidate"} /\ todo = {}
    /\ pc' = IF pc = "flatten" THEN "value" ELSE "top"
    /\ UNCHANGED <<chain, store, needsRec, pendingExit, risk, notes, window, todo, cur, bad, hist, left>>

(* _reconstruct_positions_from_balances: a symbol whose balance read fails *)
(* is skipped; it is not tried again.                                      *)
Reconstruct ==
    /\ pc = "value" /\ needsRec
    /\ \E skipped \in SUBSET Symbols :
        LET found == {s \in Symbols \ skipped : wallet[s] > 0}
        IN  /\ IF skipped = {} THEN UNCHANGED bad ELSE Fault("readfail")
            /\ Persist([s \in Symbols |-> IF s \in found THEN wallet[s] ELSE book[s]])
    /\ needsRec' = FALSE
    /\ UNCHANGED <<chain, pendingExit, risk, notes, window, flow, hist, left>>

(* Mutated: the open positions are not valued.                             *)
CashOnly == Cash

(* _portfolio_value_usdc: the stable balance and the book.                 *)
PortfolioValue == Cash + Units(book)

(* Guardrails.evaluate: mark, high-water mark, drawdown; then              *)
(* _risk_allows_new_entries, before the exits of the cycle.                *)
Evaluate ==
    /\ pc = "value" /\ ~needsRec
    /\ ath' = IF PortfolioValue > ath THEN PortfolioValue ELSE ath
    /\ LET killed == ath' > 0 /\ (ath' - PortfolioValue) * 100 >= KillPct * ath'
       IN  /\ latch' = (latch \/ killed)
           /\ pc' = IF killed THEN "liquidate" ELSE "exits"
    /\ allowed' = (allowed /\ Cardinality(OpenSymbols) < MaxOpen)
    /\ todo' = OpenSymbols
    /\ UNCHANGED <<chain, store, needsRec, pendingExit, notes, window, cur, bad, hist, left>>

(* _monitor_position_exits_if_needed: a second pass in the same cycle.     *)
MonitorExits ==
    /\ pc = "exits" /\ todo = {}
    /\ OpenSymbols # {}
    /\ pc' = "monitor"
    /\ todo' = OpenSymbols
    /\ UNCHANGED <<chain, store, needsRec, pendingExit, risk, notes, window, cur, bad, hist, left>>

(* The exits of the cycle are done.                                        *)
ExitsDone ==
    /\ pc \in ExitPass /\ todo = {}
    /\ pc' = IF allowed THEN "entry" ELSE "top"
    /\ UNCHANGED <<chain, store, needsRec, pendingExit, risk, notes, window, todo, cur, bad, hist, left>>

NoEntry ==
    /\ pc = "entry"
    /\ pc' = "top"
    /\ UNCHANGED <<chain, store, needsRec, pendingExit, risk, notes, window, todo, cur, bad, hist, left>>

(* The process dies; last says whether the supervisor will start another.  *)
Die(last) ==
    /\ pc' = last /\ todo' = {} /\ cur' = NoSwap
    /\ book' = Empty /\ needsRec' = FALSE /\ pendingExit' = Empty /\ cooldown' = {}

(* validate_new_trade raises on the kill latch and nothing catches it.     *)
(* After StartLimitBurst such deaths the supervisor gives up.              *)
EntryRaises ==
    /\ pc = "entry" /\ latch
    /\ \E last \in {"down", "gone"} : Die(last)
    /\ UNCHANGED <<chain, file, disk, risk, log, window, bad, hist, left>>

(* A candidate that is not held and not in cooldown passes validation.     *)
ChooseEntry ==
    /\ pc = "entry" /\ ~latch
    /\ txs < MaxTx /\ Cash >= Lot
    /\ \E s \in Symbols \ (OpenSymbols \cup cooldown) :
        cur' = Swap(s, "buy", Lot, 0, "entry")
    /\ pc' = "buy"
    /\ UNCHANGED <<chain, store, needsRec, pendingExit, risk, notes, window, todo, bad, hist, left>>

(* _execute_logged_swap logs a failed attempt under the action "entry".    *)
LogFailure == log' = log \cup {[action |-> "entry", sym |-> cur.sym]}

CallBuy ==
    /\ pc = "buy"
    /\ \/ Refused /\ pc' = "top" /\ LogFailure
       \/ Broadcast /\ UNCHANGED log
    /\ UNCHANGED <<wallet, store, needsRec, pendingExit, risk, cooldown, window, todo, hist, left>>

BuyFails ==
    /\ cur.side = "buy"
    /\ AnswersError
    /\ LogFailure
    /\ pc' = "top" /\ cur' = NoSwap
    /\ UNCHANGED <<chain, store, needsRec, pendingExit, risk, cooldown, window, todo, hist, left>>

(* reconcile trusts any TWAK answer with a hash and an output amount.      *)
BuyHashKnown ==
    /\ cur.side = "buy"
    /\ AnswersHash
    /\ pc' = "bought"
    /\ UNCHANGED <<chain, store, needsRec, pendingExit, risk, notes, window, todo, cur, hist, left>>

(* _open_local_position_v25; the cycle ends with the records.              *)
BookEntry ==
    /\ pc = "bought"
    /\ OpenPosition(cur.sym)
    /\ hist' = [hist EXCEPT !.sales = @ \ {cur.sym}]
    /\ pc' = "top" /\ cur' = NoSwap
    /\ UNCHANGED <<chain, needsRec, pendingExit, risk, notes, window, todo, bad, left>>

(* The process dies, perhaps while it was writing positions.json.          *)
Crash ==
    /\ Alive
    /\ \/ Fault("crash") /\ UNCHANGED file
       \/ Fault("torn") /\ file' = "torn"
    /\ Die("down")
    /\ UNCHANGED <<chain, disk, risk, log, window, hist, left>>

-----------------------------------------------------------------------------

(* Positions and the residues of earlier sales may be there before the     *)
(* first start; positions.json may be missing (a new deployment            *)
(* directory), and then the whole wallet is to be reconstructed.           *)
Init ==
    /\ wallet \in [Symbols -> {0, KeptBack(Lot), Lot}]
    /\ \/ /\ file = "ok"
          /\ disk = [s \in Symbols |-> IF wallet[s] = Lot THEN Lot ELSE 0]
          /\ left = [s \in Symbols |-> IF wallet[s] = Lot THEN 0 ELSE wallet[s]]
       \/ file = "missing" /\ disk = Empty /\ left = Empty
    /\ Cash >= 0
    /\ mempool = {} /\ txs = 0
    /\ book = Empty /\ needsRec = FALSE /\ pendingExit = Empty
    /\ ath = 0 /\ latch = FALSE /\ allowed = FALSE
    /\ log = {} /\ cooldown = {}
    /\ window = FALSE
    /\ pc = "down" /\ todo = {} /\ cur = NoSwap
    /\ faults = 0 /\ seen = {}
    /\ hist = [warned |-> {}, sales |-> {}, recorded |-> {}, hashes |-> {}]

(* The steps of the process, other than dying.                             *)
Agent ==
    \/ Boot \/ Reconcile \/ ReconcileDone
    \/ BeginCycle \/ LiquidationOver \/ Reconstruct \/ Evaluate \/ MonitorExits \/ ExitsDone
    \/ KeepPosition \/ DropStale \/ ReadForSale \/ CallSell
    \/ SaleFails \/ LiquidationDone \/ ExitHashKnown
    \/ VerifyFails \/ CloseExit \/ RecordSale
    \/ NoEntry \/ EntryRaises \/ ChooseEntry \/ CallBuy
    \/ BuyFails \/ BuyHashKnown \/ BookEntry

Next == Agent \/ Mine \/ Revert \/ OpenWindow \/ Crash

Spec == Init /\ [][Next]_vars

(* The loop keeps running, the supervisor restarts a dead process (in      *)
(* "down", not in "gone"), the chain keeps mining.                         *)
FairSpec == Spec /\ WF_vars(Agent) /\ WF_vars(Mine) /\ WF_vars(Revert)

-----------------------------------------------------------------------------
(* Properties.                                                             *)

Steps == {"down", "gone", "reconcile", "top", "flatten", "value", "liquidate", "exits",
          "monitor", "sell", "swapping", "verify", "sold", "entry", "buy", "bought"}

(* The types of the variables.                                             *)
TypeOK ==
    /\ wallet \in [Symbols -> Nat] /\ left \in [Symbols -> Nat] /\ txs \in Nat
    /\ \A t \in mempool : t.id \in 1 .. txs /\ t.sym \in Symbols /\ t.amt \in Nat \ {0}
    /\ file \in {"missing", "ok", "torn"}
    /\ disk \in [Symbols -> Nat] /\ book \in [Symbols -> Nat]
    /\ needsRec \in BOOLEAN /\ latch \in BOOLEAN /\ allowed \in BOOLEAN /\ window \in BOOLEAN
    /\ pendingExit \in [Symbols -> Nat]
    /\ ath \in Nat
    /\ cooldown \subseteq Symbols
    /\ pc \in Steps /\ todo \subseteq Symbols
    /\ cur.sym \in Symbols /\ cur.tx \in 0 .. txs
    /\ faults \in 0 .. MaxFaults /\ seen \subseteq Faults

(* What the wallet will hold once everything under way has been mined.     *)
Claim(s) ==
    wallet[s] + MapThenSumSet(LAMBDA t : t.amt, Pending(s, "buy"))
              - MapThenSumSet(LAMBDA t : t.amt, Pending(s, "sell"))

(* Between cycles every token in the wallet, or on its way there, belongs  *)
(* to a position of the book or was left behind by one: kept back by the   *)
(* safety factor of its sale, or dust when it was dropped.  Unless an      *)
(* answer was lost or given before its transaction was mined, the process  *)
(* died or a balance read failed: a refused swap or a reverted transaction *)
(* never costs the agent sight of a token.                                 *)
NoStrayTokens ==
    pc = "top" /\ ~needsRec =>
                  \/ \A s \in Symbols : Claim(s) <= book[s] + left[s]
                  \/ seen \cap {"lost", "late", "crash", "readfail"} # {}

(* With flat prices the kill switch is a bookkeeping error: refused swaps  *)
(* and reverted transactions never bring it about, nor do true answers in  *)
(* time, until the residues that the book does not value are themselves    *)
(* the drawdown.                                                           *)
KillIsExplained ==
    latch => \/ seen \cap {"lost", "late", "crash", "readfail"} # {}
             \/ Units(left) * 100 >= KillPct * (Equity - Units(left))

(* A position that an exit swap has sold leaves the book through           *)
(* record_trade, which counts its loss, and not as a stale position,       *)
(* unless an answer was lost, a read failed or the process died in         *)
(* between.  (After a lost answer the residue of the sale is sold again,   *)
(* and its record counts the loss of the residue only.)                    *)
EveryExitIsRecorded ==
    [][\A s \in Symbols :
        /\ pc \in ExitPass /\ Alive'
        /\ book[s] > 0 /\ book'[s] = 0
        /\ s \in hist.sales
        => seen \cap {"lost", "crash", "readfail"} # {}]_vars

(* A submitted exit hash never survives the call that stored it: the       *)
(* idempotency check at the start of _execute_position_exit finds none.    *)
HashesCleared == pc # "verify" => pendingExit = Empty

(* While the process runs its book is the file, and a death loses neither  *)
(* a position nor the file's agreement with the restarted book.            *)
BookIsDurable == Alive /\ file # "torn" => book = disk

(* Once the flatten window is open the whole book is eventually sold or    *)
(* dropped, whatever faults lie in between, unless the supervisor has      *)
(* given up on an agent that died of its kill latch.                       *)
WindowFlattens == window ~> disk = Empty \/ pc = "gone"

(* main.py: never submit a new exit while a prior hash, one that an exit   *)
(* was answered with, is still pending.                                    *)
NoDuplicateExit ==
    [][pc = "sell" /\ cur.from \in ExitPass /\ pc' = "swapping"
        => ~\E t \in Pending(cur.sym, "sell") : t.id \in hist.hashes]_vars

(* load_pending_swap_cooldowns: symbols with recent unconfirmed swap       *)
(* attempts are not entered after a restart.                               *)
UnconfirmedCoolDown == [][pc = "entry" /\ pc' = "buy" => cur'.sym \notin hist.warned]_vars
=============================================================================
