------------------------- MODULE MarketSnapshotProofs -------------------------
(***************************************************************************)
(* Proofs about MarketSnapshot: its type, that stale paid rows are used    *)
(* only after a purchase was tried, that nothing is bought early, and that *)
(* rows state their age; for all settings, symbols and rankings.           *)
(***************************************************************************)
EXTENDS MarketSnapshot, TLAPS

USE DEF clock, cycle, hist

LEMMA TimeIsNat ==
    /\ MaxTime \in Nat /\ Never = MaxTime + 1
    /\ \A n \in Time : n \in Nat /\ n <= MaxTime /\ n # Never
BY SnapshotAssumption DEF Never, Time

LEMMA NoLayerIsLayer == NoLayer \in Layer /\ NoLayer.priced \subseteq NoLayer.rows
BY DEF NoLayer, Layer

(* The TTL of a cycle is one that a cache can have.                        *)
LEMMA LeastOfTtls ==
    ASSUME NEW p \in Nat \ {0}, NEW r \in Nat \ {0}
    PROVE  Least({FlatTtl, p, r}) \in 1 .. FlatTtl
<1> DEFINE S == {FlatTtl, p, r}
<1>1. FlatTtl \in Nat \ {0}
  BY SnapshotAssumption
<1>2. \E n \in S : \A m \in S : n <= m
  <2>1. CASE FlatTtl <= p /\ FlatTtl <= r
    BY <1>1, <2>1
  <2>2. CASE p <= FlatTtl /\ p <= r
    BY <1>1, <2>2
  <2>3. CASE r <= FlatTtl /\ r <= p
    BY <1>1, <2>3
  <2> QED
    BY <1>1, <2>1, <2>2, <2>3
<1>3. Least(S) \in S /\ Least(S) <= FlatTtl
  BY <1>2 DEF Least
<1> QED
  BY <1>1, <1>3

-----------------------------------------------------------------------------
(* Types.                                                                  *)
GoodLayer(l, t) ==
    /\ l \in Layer
    /\ l.priced \subseteq l.rows
    /\ l # NoLayer => l.mono <= l.epoch /\ l.epoch <= t

LEMMA Aging ==
    ASSUME NEW t \in Time, NEW u \in Time, t <= u, NEW l, GoodLayer(l, t)
    PROVE  GoodLayer(l, u)
BY TimeIsNat DEF GoodLayer, Layer, NoLayer

LEMMA RefreshedKeyless ==
    ASSUME now \in Time, GoodLayer(keyless, now), NEW since \in Time, since <= now,
           RefreshKeyless(since)
    PROVE  /\ GoodLayer(keyless', now)
           /\ \/ keyless' = keyless /\ keyless # NoLayer /\ since - keyless.mono < KeylessTtl
              \/ /\ keyless'.mono = since /\ keyless'.epoch = now
                 /\ keyless'.rows = Symbols
<1>1. CASE Fresh(keyless, since, KeylessTtl)
  BY <1>1 DEF RefreshKeyless, Fresh
<1>2. CASE ~Fresh(keyless, since, KeylessTtl)
  <2>1. PICK P \in SUBSET Symbols : keyless' = QuotesOnly(since, P)
    BY <1>2 DEF RefreshKeyless, KeylessFetches, Unanswered, QuotedOf
  <2> QED
    BY <2>1, TimeIsNat DEF QuotesOnly, GoodLayer, Layer
<1> QED
  BY <1>1, <1>2

CycleOK ==
    /\ pc \in {"start", "keyless", "decide", "paid", "save", "again", "use"}
    /\ held \subseteq Symbols /\ entries \in BOOLEAN
    /\ ttl \in 1 .. FlatTtl /\ scope \subseteq Symbols /\ t0 \in 0 .. now
    /\ tried \in BOOLEAN

TypeInv ==
    /\ now \in Time
    /\ GoodLayer(keyless, now) /\ GoodLayer(paid, now) /\ GoodLayer(file, now)
    /\ CycleOK
    /\ bought \in Time \cup {Never}

LEMMA TypeInit == Init => TypeInv
<1> SUFFICES ASSUME Init PROVE TypeInv
  OBVIOUS
<1>1. now \in Time /\ ttl \in 1 .. FlatTtl /\ t0 \in 0 .. now
  BY SnapshotAssumption DEF Init, Time
<1>2. GoodLayer(NoLayer, now)
  BY NoLayerIsLayer DEF GoodLayer
<1>3. CycleOK
  BY <1>1 DEF Init, CycleOK
<1> QED
  BY <1>1, <1>2, <1>3 DEF Init, TypeInv

(* What Forget leaves behind.                                              *)
LEMMA ForgetCycle ==
    ASSUME now \in Time, Forget, UNCHANGED clock, pc' = "start"
    PROVE  CycleOK'
<1>1. ttl' \in 1 .. FlatTtl /\ t0' \in 0 .. now'
  BY TimeIsNat, SnapshotAssumption DEF Forget
<1>2. held' = {} /\ scope' = {} /\ entries' = FALSE /\ tried' = FALSE
  BY DEF Forget
<1> QED
  BY <1>1, <1>2 DEF CycleOK

LEMMA TypeStep == TypeInv /\ [Next]_vars => TypeInv'
<1> SUFFICES ASSUME TypeInv, [Next]_vars PROVE TypeInv'
  OBVIOUS
<1>a. /\ now \in Time /\ t0 \in Time /\ t0 <= now
      /\ GoodLayer(keyless, now) /\ GoodLayer(paid, now) /\ GoodLayer(file, now)
  BY TimeIsNat DEF TypeInv, CycleOK, Time
<1>1. CASE Start
  <2>1. PICK p \in InPositionTtls, r \in RegimeTtls \cup {FlatTtl} : ttl' = Least({FlatTtl, p, r})
    BY <1>1 DEF Start
  <2>2. p \in Nat \ {0} /\ r \in Nat \ {0}
    BY SnapshotAssumption DEF InPositionTtls
  <2>3. ttl' \in 1 .. FlatTtl
    BY <2>1, <2>2, LeastOfTtls
  <2> QED
    BY <1>1, <2>3 DEF Start, TypeInv, CycleOK
<1>2. CASE Keyless
  <2>1. GoodLayer(keyless', now)
    BY <1>2, <1>a, TimeIsNat, RefreshedKeyless DEF Keyless
  <2> QED
    BY <1>2, <2>1 DEF Keyless, TypeInv, CycleOK, GoodLayer
<1>3. CASE Decide
  <2>1. t0' \in 0 .. now'
    BY <1>3, <1>a, TimeIsNat DEF Decide
  <2>2. scope' \subseteq Symbols
    BY <1>3, SnapshotAssumption DEF Decide, Scopes, Ranked, TypeInv, CycleOK
  <2>3. tried' \in BOOLEAN /\ pc' \in {"again", "paid"}
    BY <1>3 DEF Decide, TypeInv, CycleOK
  <2> QED
    BY <1>3, <2>1, <2>2, <2>3 DEF Decide, TypeInv, CycleOK, GoodLayer
<1>4. CASE PaidFails
  BY <1>4 DEF PaidFails, TypeInv, CycleOK, GoodLayer
<1>5. CASE PaidSucceeds
  <2>1. PICK P \in SUBSET scope : paid' = [mono |-> t0, epoch |-> now, rows |-> scope, priced |-> P]
    BY <1>5 DEF PaidSucceeds, Enriched, QuotedOf
  <2>2. GoodLayer(paid', now)
    BY <2>1, <1>a DEF GoodLayer, Layer, TypeInv, CycleOK
  <2> QED
    BY <1>5, <2>2 DEF PaidSucceeds, TypeInv, CycleOK, GoodLayer
<1>6. CASE Save
  <2>1. GoodLayer([paid EXCEPT !.mono = now, !.epoch = now], now)
    <3> DEFINE l == [paid EXCEPT !.mono = now, !.epoch = now]
    <3>1. paid \in Layer /\ paid.priced \subseteq paid.rows
      BY <1>a DEF GoodLayer
    <3>2. l \in Layer /\ l.epoch = now /\ l.mono = now /\ l.rows = paid.rows /\ l.priced = paid.priced
      BY <1>a, <3>1 DEF Layer
    <3>3. now <= now
      BY <1>a, TimeIsNat
    <3>4. GoodLayer(l, now)
      <4> HIDE DEF l
      <4> QED
        BY <3>1, <3>2, <3>3 DEF GoodLayer
    <3> QED
      BY <3>4
  <2>2. GoodLayer(file', now)
    BY <1>6, <1>a, <2>1 DEF Save
  <2>3. bought' \in Time \cup {Never}
    BY <1>6, <1>a DEF Save, GoodLayer, Layer
  <2> QED
    BY <1>6, <2>2, <2>3 DEF Save, TypeInv, CycleOK, GoodLayer
<1>7. CASE Again
  <2>1. GoodLayer(keyless', now)
    BY <1>7, <1>a, RefreshedKeyless DEF Again
  <2> QED
    BY <1>7, <2>1 DEF Again, TypeInv, CycleOK, GoodLayer
<1>8. CASE EndCycle
  <2>1. CycleOK'
    BY <1>8, <1>a, ForgetCycle DEF EndCycle
  <2> QED
    BY <1>8, <2>1 DEF EndCycle, TypeInv, GoodLayer
<1>9. CASE Crash
  <2>1. CycleOK'
    BY <1>9, <1>a, ForgetCycle DEF Crash
  <2>2. GoodLayer(keyless', now) /\ GoodLayer(paid', now)
    BY <1>9, <1>a, NoLayerIsLayer DEF Crash, Restored, GoodLayer
  <2>3. bought' \in Time \cup {Never}
    BY <1>9, <1>a DEF Crash, GoodLayer, Layer
  <2> QED
    BY <1>9, <2>1, <2>2, <2>3 DEF Crash, TypeInv, GoodLayer
<1>10. CASE Tick
  <2>1. now' \in Time /\ now <= now' /\ t0 \in 0 .. now'
    BY <1>10, <1>a, TimeIsNat DEF Tick, Time
  <2>2. GoodLayer(keyless, now') /\ GoodLayer(paid, now') /\ GoodLayer(file, now')
    BY <1>a, <2>1, Aging
  <2> QED
    BY <1>10, <2>1, <2>2 DEF Tick, TypeInv, CycleOK, GoodLayer
<1>11. CASE UNCHANGED vars
  BY <1>11 DEF vars, TypeInv, CycleOK, GoodLayer
<1> QED
  BY <1>1, <1>2, <1>3, <1>4, <1>5, <1>6, <1>7, <1>8, <1>9, <1>10, <1>11 DEF Next

LEMMA TypeAlways == Spec => []TypeInv
BY TypeInit, TypeStep, PTL DEF Spec

(* The layers, the file and the cycle keep their types, and a layer is     *)
(* dated by its rows (_fetch_snapshot, main.py, and its cache).            *)
THEOREM TypeCorrect == Spec => []TypeOK
<1>1. TypeInv => TypeOK
  BY DEF TypeInv, TypeOK, CycleOK, GoodLayer
<1> QED
  BY TypeAlways, <1>1, PTL

-----------------------------------------------------------------------------
(* Staleness.  Once a cycle has decided, either it tries to buy or the     *)
(* paid layer was fresh when it looked; what it buys is younger than that. *)
TriedInv ==
    /\ pc \in {"start", "keyless", "decide"} => ~tried
    /\ pc \in {"paid", "save"} => tried
    /\ pc \in {"again", "use"} /\ paid # NoLayer /\ t0 - paid.epoch >= ttl => tried

LEMMA TriedStep == TypeInv /\ TriedInv /\ [Next]_vars => TriedInv'
<1> SUFFICES ASSUME TypeInv, TriedInv, [Next]_vars PROVE TriedInv'
  OBVIOUS
<1>1. CASE Start \/ Keyless \/ PaidFails
  BY <1>1 DEF Start, Keyless, PaidFails, TriedInv
<1>2. CASE Decide
  <2>1. PICK force \in {FALSE, MayForce} :
            IF ~force /\ Fresh(paid, now, ttl)
            THEN pc' = "again" /\ UNCHANGED tried
            ELSE tried' = TRUE /\ pc' \in {"again", "paid"}
    BY <1>2 DEF Decide
  <2>2. CASE ~force /\ Fresh(paid, now, ttl)
    <3>1. paid.mono \in Nat /\ paid.epoch \in Nat /\ now \in Nat /\ ttl \in Nat
      BY TimeIsNat DEF TypeInv, CycleOK, GoodLayer, Layer
    <3>2. now - paid.epoch < ttl
      BY <2>2, <3>1 DEF Fresh, TypeInv, GoodLayer
    <3>3. t0' = now /\ paid' = paid /\ ttl' = ttl /\ pc' = "again"
      BY <1>2, <2>1, <2>2 DEF Decide
    <3> QED
      BY <3>1, <3>2, <3>3 DEF TriedInv
  <2>3. CASE ~(~force /\ Fresh(paid, now, ttl))
    BY <2>1, <2>3 DEF TriedInv
  <2> QED
    BY <2>2, <2>3
<1>3. CASE PaidSucceeds \/ Save \/ Again
  BY <1>3 DEF PaidSucceeds, Save, Again, TriedInv
<1>4. CASE EndCycle \/ Crash
  BY <1>4 DEF EndCycle, Crash, Forget, TriedInv
<1>5. CASE Tick
  BY <1>5 DEF Tick, TriedInv
<1>6. CASE UNCHANGED vars
  BY <1>6 DEF vars, TriedInv
<1> QED
  BY <1>1, <1>2, <1>3, <1>4, <1>5, <1>6 DEF Next

LEMMA TriedAlways == Spec => []TriedInv
<1>1. Init => TriedInv
  BY DEF Init, TriedInv
<1> QED
  BY TypeAlways, TriedStep, <1>1, PTL DEF Spec

(* A cycle works with stale paid rows only if it tried to buy new ones     *)
(* (_maybe_refresh_layer, market_snapshot_cache.py).                       *)
THEOREM StaleIsLastResort == Spec => []StaleOnlyAfterTrying
<1>1. TriedInv => StaleOnlyAfterTrying
  BY DEF TriedInv, StaleOnlyAfterTrying
<1> QED
  BY TriedAlways, <1>1, PTL

-----------------------------------------------------------------------------
(* Purchases.  The stamp of the paid layer is the time of the last kept    *)
(* purchase, in this process and in what a restart reads back.             *)
BoughtInv ==
    /\ file # NoLayer => file.mono = file.epoch
    /\ pc = "save" => paid # NoLayer
    /\ pc # "save" /\ bought # Never => paid # NoLayer /\ paid.mono = bought

LEMMA BoughtStep == TypeInv /\ BoughtInv /\ [Next]_vars => BoughtInv'
<1> SUFFICES ASSUME TypeInv, BoughtInv, [Next]_vars PROVE BoughtInv'
  OBVIOUS
<1>1. CASE Start \/ Keyless \/ PaidFails \/ Again \/ EndCycle \/ Tick
  BY <1>1 DEF Start, Keyless, PaidFails, Again, EndCycle, Tick, BoughtInv
<1>2. CASE Decide
  <2>1. pc' # "save"
    BY <1>2 DEF Decide
  <2> QED
    BY <1>2, <2>1 DEF Decide, BoughtInv
<1>3. CASE PaidSucceeds
  <2>1. paid'.mono = t0 /\ t0 # Never
    BY <1>3, TimeIsNat DEF PaidSucceeds, Enriched, TypeInv, CycleOK, Time
  <2>2. paid' # NoLayer
    BY <2>1 DEF NoLayer
  <2> QED
    BY <1>3, <2>2 DEF PaidSucceeds, BoughtInv
<1>4. CASE Save
  <2>1. [paid EXCEPT !.mono = now, !.epoch = now].mono = [paid EXCEPT !.mono = now, !.epoch = now].epoch
    BY DEF TypeInv, GoodLayer, Layer
  <2> QED
    BY <1>4, <2>1 DEF Save, BoughtInv
<1>5. CASE Crash
  BY <1>5 DEF Crash, Restored, BoughtInv
<1>6. CASE UNCHANGED vars
  BY <1>6 DEF vars, BoughtInv
<1> QED
  BY <1>1, <1>2, <1>3, <1>4, <1>5, <1>6 DEF Next

LEMMA BoughtAlways == Spec => []BoughtInv
<1>1. Init => BoughtInv
  BY DEF Init, BoughtInv
<1> QED
  BY TypeAlways, BoughtStep, <1>1, PTL DEF Spec

(* The paid layer is bought again before its TTL only for a hot symbol and *)
(* after the hot age, restarts or not (_fetch_snapshot, main.py).          *)
THEOREM NothingIsBoughtEarly == Spec => NeverBoughtEarly
<1>1. TypeInv /\ TriedInv /\ BoughtInv /\ [Next]_vars =>
          [pc = "decide" /\ tried' /\ bought # Never =>
              now - bought >= ttl \/ now - bought > HotAge]_vars
  <2> SUFFICES ASSUME TypeInv, TriedInv, BoughtInv, [Next]_vars,
                      pc = "decide", tried', bought # Never
               PROVE  now - bought >= ttl \/ now - bought > HotAge
    OBVIOUS
  <2>1. ~tried
    BY DEF TriedInv
  <2>2. Decide
    BY <2>1 DEF Next, Start, Keyless, PaidFails, PaidSucceeds, Save, Again, EndCycle, Crash, Forget,
                Tick, vars
  <2>3. paid # NoLayer /\ paid.mono = bought
    BY DEF BoughtInv
  <2>4. MayForce \/ ~Fresh(paid, now, ttl)
    <3>1. PICK force \in {FALSE, MayForce} : force \/ ~Fresh(paid, now, ttl)
      BY <2>1, <2>2, Zenon DEF Decide
    <3>2. force => MayForce
      BY <3>1, Zenon
    <3> QED
      BY <3>1, <3>2, Zenon
  <2>5. now \in Nat /\ bought \in Nat /\ ttl \in Nat
    BY TimeIsNat DEF TypeInv, CycleOK
  <2> QED
    BY <2>3, <2>4, <2>5 DEF MayForce, Fresh
<1> QED
  BY TypeAlways, TriedAlways, BoughtAlways, <1>1, PTL DEF Spec, NeverBoughtEarly

-----------------------------------------------------------------------------
(* Ages.  A paid call is shorter than a cycle, so that a free layer that   *)
(* was fresh when the cycle looked is at most its TTL old when it is used. *)
AgeInv ==
    /\ keyless # NoLayer => keyless.rows = Symbols
    /\ pc \in {"paid", "save", "again"} => now <= t0 + 1
    /\ pc = "use" => keyless # NoLayer /\ now <= keyless.epoch + KeylessTtl

LEMMA AgeStep == TypeInv /\ AgeInv /\ [Next]_vars => AgeInv'
<1> SUFFICES ASSUME TypeInv, AgeInv, [Next]_vars PROVE AgeInv'
  OBVIOUS
<1>a. /\ now \in Time /\ t0 \in Time /\ t0 <= now /\ GoodLayer(keyless, now)
  BY TimeIsNat DEF TypeInv, CycleOK, Time
<1>1. CASE Start \/ PaidFails \/ PaidSucceeds \/ Save \/ EndCycle
  BY <1>1 DEF Start, PaidFails, PaidSucceeds, Save, EndCycle, AgeInv
<1>2. CASE Keyless
  <2>1. keyless'.rows = Symbols
    BY <1>2, <1>a, TimeIsNat, RefreshedKeyless DEF Keyless, AgeInv
  <2> QED
    BY <1>2, <2>1 DEF Keyless, AgeInv
<1>3. CASE Decide
  <2>1. pc' \in {"again", "paid"} /\ now' = t0' /\ t0' \in Nat
    BY <1>3, <1>a, TimeIsNat DEF Decide
  <2> QED
    BY <1>3, <2>1 DEF Decide, AgeInv
<1>4. CASE Again
  <2>1. RefreshKeyless(t0) /\ pc' = "use" /\ now' = now /\ now <= t0 + 1
    BY <1>4 DEF Again, AgeInv
  <2>2. now \in Nat /\ t0 \in Nat /\ KeylessTtl \in Nat
    BY <1>a, TimeIsNat, SnapshotAssumption
  <2>3. CASE keyless' = keyless /\ keyless # NoLayer /\ t0 - keyless.mono < KeylessTtl
    <3>1. keyless.mono \in Nat /\ keyless.epoch \in Nat /\ keyless.mono <= keyless.epoch
      BY <1>a, <2>3, TimeIsNat DEF GoodLayer, Layer
    <3>2. now <= keyless.epoch + KeylessTtl
      BY <2>1, <2>2, <2>3, <3>1
    <3> QED
      BY <2>1, <2>3, <3>2 DEF AgeInv
  <2>4. CASE keyless'.mono = t0 /\ keyless'.epoch = now /\ keyless'.rows = Symbols
    <3>1. keyless' # NoLayer
      BY <1>a, <2>4, TimeIsNat DEF NoLayer
    <3> QED
      BY <2>1, <2>2, <2>4, <3>1 DEF AgeInv
  <2> QED
    BY <1>a, <2>1, <2>3, <2>4, RefreshedKeyless
<1>5. CASE Crash
  BY <1>5 DEF Crash, AgeInv
<1>6. CASE Tick
  <2>1. now \in Nat /\ now' = now + 1
    BY <1>6, <1>a, TimeIsNat DEF Tick
  <2> QED
    BY <1>6, <2>1 DEF Tick, AgeInv
<1>7. CASE UNCHANGED vars
  BY <1>7 DEF vars, AgeInv
<1> QED
  BY <1>1, <1>2, <1>3, <1>4, <1>5, <1>6, <1>7 DEF Next

LEMMA AgeAlways == Spec => []AgeInv
<1>1. Init => AgeInv
  BY DEF Init, AgeInv
<1> QED
  BY TypeAlways, AgeStep, <1>1, PTL DEF Spec

(* A row is at most the free TTL older than it says, whatever fails to     *)
(* refresh either layer (merge_market_snapshots).                          *)
THEOREM AgesAreHonest == Spec => []AgeIsHonest
<1>1. TypeInv /\ AgeInv => AgeIsHonest
  <2> SUFFICES ASSUME TypeInv, AgeInv, pc = "use", NEW s \in Symbols, PricedBy(s) # NoLayer
               PROVE  StatedAge(s) + (IF PricedBy(s) = keyless THEN KeylessTtl ELSE 0) >=
                          now - PricedBy(s).epoch
    BY DEF AgeIsHonest
  <2>1. /\ keyless # NoLayer /\ s \in keyless.rows
        /\ now <= keyless.epoch + KeylessTtl
    BY DEF AgeInv
  <2>2. /\ now \in Nat /\ KeylessTtl \in Nat /\ keyless.epoch \in Nat /\ paid.epoch \in Nat
        /\ keyless.epoch <= now
    BY <2>1, TimeIsNat, SnapshotAssumption DEF TypeInv, GoodLayer, Layer
  <2>3. StatedAge(s) = now - (IF s \in paid.rows THEN paid.epoch ELSE keyless.epoch)
    BY <2>1 DEF StatedAge
  <2>4. CASE PricedBy(s) = keyless
    <3>1. CASE s \in paid.rows
      <4>1. paid # NoLayer
        BY <3>1 DEF NoLayer
      <4>2. paid.epoch <= now
        BY <4>1 DEF TypeInv, GoodLayer
      <4> QED
        BY <2>1, <2>2, <2>3, <2>4, <3>1, <4>2
    <3>2. CASE s \notin paid.rows
      BY <2>2, <2>3, <2>4, <3>2
    <3> QED
      BY <3>1, <3>2
  <2>5. CASE PricedBy(s) # keyless
    <3>1. PricedBy(s) = paid /\ s \in paid.rows
      BY <2>5 DEF PricedBy, TypeInv, GoodLayer
    <3> QED
      BY <2>2, <2>3, <2>5, <3>1
  <2> QED
    BY <2>4, <2>5
<1> QED
  BY TypeAlways, AgeAlways, <1>1, PTL
=============================================================================
