--------------------------- MODULE MarketSnapshot ---------------------------
(***************************************************************************)
(* The market data of a cycle: _fetch_snapshot (src/main.py) over the dual *)
(* cache (src/data/market_snapshot_cache.py) of a paid layer, bought from  *)
(* CMC over x402 for a few symbols and kept on disk, and a free "keyless"  *)
(* layer of all symbols, kept in memory.  What a paid call costs, and when *)
(* the governor refuses one, is SpendGovernor's; here it succeeds or not.  *)
(*                                                                         *)
(* A quote is known by the time it was made, so that the age a row states  *)
(* can be compared with the age its price has.  Time is counted in cycles. *)
(***************************************************************************)
EXTENDS Naturals, FiniteSets

CONSTANTS
    Symbols,        \* TARGET_SYMBOLS
    Pinned,         \* those of CMC_IDS_BY_SYMBOL
    Momentum,       \* those that may be entered
    TopN,           \* n_opt
    KeylessTtl, FlatTtl, PositionTtl, HotAge, \* settings, in cycles
    RegimeTtls,     \* values of REGIME_TTL_MAP
    MaxTime         \* bound: the clock

ASSUME SnapshotAssumption ==
    /\ Pinned \subseteq Symbols /\ Momentum \subseteq Symbols
    /\ TopN \in Nat /\ KeylessTtl \in Nat /\ HotAge \in Nat /\ MaxTime \in Nat
    /\ FlatTtl \in Nat \ {0} /\ PositionTtl \in 1 .. FlatTtl
    /\ RegimeTtls \subseteq Nat \ {0}

Never == MaxTime + 1
Time == 0 .. MaxTime

VARIABLES
    now,                \* the clock
    keyless, paid,      \* the layers
    file,               \* the persisted paid layer
    pc,                 \* where _fetch_snapshot is
    held, entries, ttl, \* position symbols, entries_allowed and x402_ttl of the cycle
    scope, t0,          \* enrich_symbols; the cycle's call of time.monotonic()
    tried, bought       \* history: was a purchase tried, when was the last one kept

clock  == <<now>>
cycle  == <<held, entries, ttl, scope, t0>>
hist   == <<tried, bought>>
vars   == <<clock, keyless, paid, file, pc, cycle, hist>>

(* A layer: when its refresh began and ended, its rows, and those of them  *)
(* that have a price.                                                      *)
NoLayer == [mono |-> Never, epoch |-> Never, rows |-> {}, priced |-> {}]
Layer == [mono : Time \cup {Never}, epoch : Time \cup {Never},
          rows : SUBSET Symbols, priced : SUBSET Symbols]

Least(S) == CHOOSE n \in S : \A m \in S : n <= m

-----------------------------------------------------------------------------
(* A cycle begins: the book, the verdict and the regime give the TTL of    *)
(* the paid layer.                                                         *)

(* Dust leaves the flat TTL, a real position asks for the shortest.        *)
InPositionTtls == IF held' = {} THEN {FlatTtl} ELSE PositionTtl .. FlatTtl

Start ==
    /\ pc = "start"
    /\ held' \in SUBSET Symbols
    /\ entries' \in BOOLEAN
    /\ \E p \in InPositionTtls, r \in RegimeTtls \cup {FlatTtl} : ttl' = Least({FlatTtl, p, r})
    /\ tried' = FALSE
    /\ pc' = "keyless"
    /\ UNCHANGED <<clock, keyless, paid, file, scope, t0, bought>>

-----------------------------------------------------------------------------
(* DualMarketSnapshotCache.                                                *)

(* Mutated: a refresh that came to nothing renews the stamp.               *)
FreshOrRestamped(layer, since, limit) == layer # NoLayer

Fresh(layer, since, limit) == layer # NoLayer /\ since - layer.mono < limit

(* _fetch_combined_payload asks batch by batch; a batch that fails leaves  *)
(* its symbols without a quote, and a quote may lack a price.              *)
QuotedOf(S) == SUBSET S

(* _snapshot_from_quotes: a row for every symbol, quoted or not.           *)
QuotesOnly(since, P) == [mono |-> since, epoch |-> now, rows |-> Symbols, priced |-> P]

(* _fetch_keyless turns a failed request into no quotes, and its caller    *)
(* makes {"data": {}} of that, which is not empty: it is a layer, too.     *)
Unanswered(since) == QuotesOnly(since, {})

KeylessFetches(since) ==
    {QuotesOnly(since, P) : P \in QuotedOf(Symbols)} \cup {Unanswered(since)}

(* _maybe_refresh_layer of the keyless layer.                              *)
RefreshKeyless(since) ==
    IF Fresh(keyless, since, KeylessTtl)
    THEN UNCHANGED keyless
    ELSE keyless' \in KeylessFetches(since)

Keyless ==
    /\ pc = "keyless"
    /\ RefreshKeyless(now)
    /\ pc' = "decide"
    /\ UNCHANGED <<clock, paid, file, cycle, hist>>

(* The TopN best by gates passed, surge and volume.                        *)
Ranked == {M \in SUBSET Momentum : Cardinality(M) = TopN}

(* select_enrichment_symbols; only what is held if no entry is possible.   *)
Scopes ==
    IF ~entries THEN {held}
    ELSE IF keyless = NoLayer \/ TopN >= Cardinality(Momentum) THEN {Momentum}
    ELSE {M \cup held : M \in Ranked}

(* id_overrides: the free rows of quoted symbols have an id.               *)
Harvested == keyless.priced

(* The symbols a paid call can name: by a pinned id or a harvested one.    *)
Known == Pinned \cup Harvested

(* Mutated: the age of the layer is not looked at.                         *)
MayForceAnyAge == keyless.priced \cap Momentum # {} /\ paid # NoLayer

(* hot_candidate_symbols: some symbol may pass both cheap gates, which     *)
(* need its price.                                                         *)
MayBeHot == keyless.priced \cap Momentum # {}

(* A hot symbol forces a refresh of a layer that is older than hot_age.    *)
MayForce ==
    /\ MayBeHot /\ paid # NoLayer
    /\ now - paid.mono > HotAge /\ now - paid.mono < ttl

Decide ==
    /\ pc = "decide"
    /\ t0' = now
    /\ scope' \in Scopes
    /\ \E force \in {FALSE, MayForce} :
          IF ~force /\ Fresh(paid, now, ttl)
          THEN pc' = "again" /\ UNCHANGED tried
          ELSE /\ tried' = TRUE
               /\ pc' = IF scope' \cap Known = {} THEN "again" ELSE "paid"
    /\ UNCHANGED <<clock, keyless, paid, file, held, entries, ttl, bought>>

-----------------------------------------------------------------------------
(* X402Client and the paid calls of fetch_x402_enriched_snapshot.          *)

(* A call that gets no answer, for whatever reason: no session (it failed  *)
(* to initialize, or the server has forgotten it, and it is never opened   *)
(* again), a payment that is refused or fails, a time-out, no symbol.      *)
PaidFails ==
    /\ pc = "paid"
    /\ pc' = "again"
    /\ UNCHANGED <<clock, keyless, paid, file, cycle, hist>>

(* _build_enriched_snapshot: every symbol of the scope has a row, a price  *)
(* comes with a quote or with the free market metrics.                     *)
Enriched ==
    {[mono |-> t0, epoch |-> now, rows |-> scope, priced |-> P] : P \in QuotedOf(scope)}

(* Quotes of some of the symbols came.                                     *)
PaidSucceeds ==
    /\ pc = "paid"
    /\ paid' \in Enriched
    /\ pc' = "save"
    /\ UNCHANGED <<clock, keyless, file, cycle, hist>>

(* _save_persisted: renamed over the old file, or an OSError.              *)
Save ==
    /\ pc = "save"
    /\ \/ file' = [paid EXCEPT !.mono = now, !.epoch = now]
       \/ UNCHANGED file
    /\ bought' = paid.mono
    /\ pc' = "again"
    /\ UNCHANGED <<clock, keyless, paid, cycle, tried>>

-----------------------------------------------------------------------------
(* get_merged_snapshot looks at the keyless layer again, as of its start.  *)

Again ==
    /\ pc = "again"
    /\ RefreshKeyless(t0)
    /\ pc' = "use"
    /\ UNCHANGED <<clock, paid, file, cycle, hist>>

(* The variables of a cycle end with it.                                   *)
Forget ==
    /\ held' = {} /\ entries' = FALSE /\ ttl' = FlatTtl /\ scope' = {} /\ t0' = 0
    /\ tried' = FALSE

EndCycle ==
    /\ pc = "use"
    /\ pc' = "start"
    /\ Forget
    /\ UNCHANGED <<clock, keyless, paid, file, bought>>

(* merge_market_snapshots: the layer a price comes from.                   *)
PricedBy(s) ==
    IF s \in keyless.priced THEN keyless ELSE IF s \in paid.priced THEN paid ELSE NoLayer

(* Mutated: a row that both layers have is as old as the free one.         *)
StatedAgeOfOverlay(s) ==
    IF s \in keyless.rows THEN now - keyless.epoch ELSE 0

(* data_age_seconds: of the paid layer if it has the row, of the free one  *)
(* if not; but a row the free layer lacks keeps the 0 it was bought with.  *)
StatedAge(s) ==
    IF s \notin keyless.rows THEN 0
    ELSE now - (IF s \in paid.rows THEN paid.epoch ELSE keyless.epoch)

-----------------------------------------------------------------------------

(* Mutated: a restored layer counts as just fetched.                       *)
RestoredAsNew(saved) == [saved EXCEPT !.mono = now]

(* _load_persisted: the wall-clock age becomes an age of this process.     *)
Restored(saved) == saved

(* The process dies and is started again.                                  *)
Crash ==
    /\ keyless' = NoLayer
    /\ paid' = IF file = NoLayer THEN NoLayer ELSE Restored(file)
    /\ pc' = "start"
    /\ Forget
    /\ bought' = IF file = NoLayer THEN Never ELSE file.epoch
    /\ UNCHANGED <<clock, file>>

(* Time passes between cycles and during a paid call, which its timeouts   *)
(* keep shorter than a cycle.                                              *)
Tick ==
    /\ pc = "start" \/ (pc = "paid" /\ now = t0)
    /\ now < MaxTime
    /\ now' = now + 1
    /\ UNCHANGED <<keyless, paid, file, pc, cycle, hist>>

Init ==
    /\ now = 0
    /\ keyless = NoLayer /\ paid = NoLayer /\ file = NoLayer
    /\ pc = "start"
    /\ held = {} /\ entries = FALSE /\ ttl = FlatTtl /\ scope = {} /\ t0 = 0
    /\ tried = FALSE /\ bought = Never

Next ==
    \/ Start \/ Keyless \/ Decide
    \/ PaidFails \/ PaidSucceeds \/ Save
    \/ Again \/ EndCycle
    \/ Crash \/ Tick

Spec == Init /\ [][Next]_vars

-----------------------------------------------------------------------------
(* Properties.                                                             *)

(* The types of the variables; a layer is dated by its rows.               *)
TypeOK ==
    /\ now \in Time
    /\ \A l \in {keyless, paid, file} :
          /\ l \in Layer
          /\ l.priced \subseteq l.rows
          /\ l # NoLayer => l.mono <= l.epoch /\ l.epoch <= now
    /\ pc \in {"start", "keyless", "decide", "paid", "save", "again", "use"}
    /\ held \subseteq Symbols /\ entries \in BOOLEAN
    /\ ttl \in 1 .. FlatTtl /\ scope \subseteq Symbols /\ t0 \in 0 .. now
    /\ tried \in BOOLEAN /\ bought \in Time \cup {Never}

(* A layer is bought again before its TTL is over only for a hot symbol,   *)
(* and not before the hot age; a restart changes nothing about that.       *)
NeverBoughtEarly ==
    [][pc = "decide" /\ tried' /\ bought # Never =>
          now - bought >= ttl \/ now - bought > HotAge]_vars

(* A cycle works with paid rows that were past their TTL when it looked    *)
(* only if it tried to buy new ones.                                       *)
StaleOnlyAfterTrying ==
    pc = "use" /\ paid # NoLayer /\ t0 - paid.epoch >= ttl => tried

(* A row is hardly older than it says: a paid price states its age or      *)
(* more, and a free price is at most the free TTL older than stated,       *)
(* whatever fails to refresh either layer (merge_market_snapshots).        *)
AgeIsHonest ==
    pc = "use" =>
        \A s \in Symbols : PricedBy(s) # NoLayer =>
            StatedAge(s) + (IF PricedBy(s) = keyless THEN KeylessTtl ELSE 0) >=
                now - PricedBy(s).epoch

(* market_snapshot_cache.py, _maybe_refresh_layer: a fetch that returns    *)
(* nothing reuses the stale cache; so no layer that has prices is replaced *)
(* by one that has none.                                                   *)
OutageKeepsPrices ==
    [][keyless.priced # {} /\ keyless' # NoLayer => keyless'.priced # {}]_vars
=============================================================================
