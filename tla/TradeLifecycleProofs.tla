------------------------- MODULE TradeLifecycleProofs -------------------------
(***************************************************************************)
(* Proofs about TradeLifecycle: its type, that the book is the file, that  *)
(* exit hashes are cleared, that without a lost or late answer, a failed   *)
(* read or a crash the wallet is the book and what its positions left      *)
(* behind (so that no token is lost sight of and only the residues can     *)
(* trip the kill switch), and that every exit is recorded; for all sets of *)
(* symbols, all sizes of the portfolio, the lots and the dust floors, and  *)
(* all faults.                                                             *)
(***************************************************************************)
EXTENDS TradeLifecycle, FiniteSetTheorems, WellFoundedInduction, TLAPS

-----------------------------------------------------------------------------
(* Sums over the symbols.  MapThenSumSet is a fold: a function defined by  *)
(* recursion on the subsets of the set it sums over.  That there is such a *)
(* function, and that it is a number, is shown with a smallest subset for  *)
(* which it would not be.                                                  *)

Pick(s) == CHOOSE x \in s : TRUE

SumOf(g, w, s) == IF s = {} THEN 0 ELSE w[Pick(s)] + g[s \ {Pick(s)}]

IsSum(g, w, S) == g = [s \in SUBSET S |-> SumOf(g, w, s)]

LEMMA UnitsUnfold == ASSUME NEW w PROVE Units(w) = (CHOOSE g : IsSum(g, w, Symbols))[Symbols]
BY DEF Units, MapThenSumSet, MapThenFoldSet, IsSum, SumOf, Pick

LEMMA PickIsElement == ASSUME NEW s, s # {} PROVE Pick(s) \in s
BY DEF Pick

(* A set of subsets of a finite set has a member no other is a subset of.  *)
LEMMA SmallestSubset ==
    ASSUME NEW S, IsFiniteSet(S), NEW B, B \subseteq SUBSET S, B # {}
    PROVE  \E T \in B : \A U \in B : ~(U \subseteq T /\ U # T)
<1>1. FiniteSubsetsOf(S) = SUBSET S
  BY FS_FiniteSubsetsOfFinite
<1>2. IsWellFoundedOn(StrictSubsetOrdering(S), SUBSET S)
  BY <1>1, FS_StrictSubsetOrderingWellFounded
<1> DEFINE R == StrictSubsetOrdering(S)
<1>3. PICK T \in B : \A U \in B : ~(<<U, T>> \in R)
  <2> HIDE DEF R
  <2>1. IsWellFoundedOn(R, SUBSET S)
    BY <1>2 DEF R
  <2> QED
    BY <2>1, WFMin
<1>4. ASSUME NEW U \in B, U \subseteq T, U # T PROVE FALSE
  <2>1. <<U, T>> \in (SUBSET S) \X (SUBSET S)
    OBVIOUS
  <2>2. <<U, T>> \in R
    BY <2>1, <1>4 DEF StrictSubsetOrdering
  <2> QED
    BY <2>2, <1>3
<1> QED
  BY <1>3, <1>4

(* Two sums agree where both are defined.                                  *)
LEMMA SumsAgree ==
    ASSUME NEW S, NEW T, IsFiniteSet(S), NEW w, NEW g, NEW h,
           IsSum(g, w, S), IsSum(h, w, T), NEW s \in SUBSET S, s \subseteq T
    PROVE  g[s] = h[s]
<1> DEFINE B == {u \in SUBSET S : u \subseteq T /\ g[u] # h[u]}
<1>1. SUFFICES ASSUME B # {} PROVE FALSE
  OBVIOUS
<1>2. PICK u \in B : \A v \in B : ~(v \subseteq u /\ v # u)
  <2>1. B \subseteq SUBSET S
    OBVIOUS
  <2> HIDE DEF B
  <2> QED
    BY <1>1, <2>1, SmallestSubset
<1>3. g[u] = SumOf(g, w, u) /\ h[u] = SumOf(h, w, u)
  BY DEF IsSum
<1>4. CASE u = {}
  BY <1>3, <1>4 DEF SumOf
<1>5. CASE u # {}
  <2>1. Pick(u) \in u
    BY <1>5, PickIsElement
  <2>2. u \ {Pick(u)} \notin B
    BY <1>2, <2>1
  <2>3. g[u \ {Pick(u)}] = h[u \ {Pick(u)}]
    BY <2>2
  <2> QED
    BY <1>3, <2>3 DEF SumOf
<1> QED
  BY <1>4, <1>5

(* Every finite set has a sum.                                             *)
LEMMA SumExists ==
    ASSUME NEW S, IsFiniteSet(S), NEW w
    PROVE  \E g : IsSum(g, w, S)
<1> DEFINE B == {u \in SUBSET S : ~\E g : IsSum(g, w, u)}
<1>1. SUFFICES ASSUME B # {} PROVE FALSE
  OBVIOUS
<1>2. PICK u \in B : \A v \in B : ~(v \subseteq u /\ v # u)
  <2>1. B \subseteq SUBSET S
    OBVIOUS
  <2> HIDE DEF B
  <2> QED
    BY <1>1, <2>1, SmallestSubset
<1>3. IsFiniteSet(u)
  BY FS_Subset
<1> DEFINE part(s) == CHOOSE g : IsSum(g, w, s)
           whole == [s \in SUBSET u |->
                       IF s = u THEN (IF u = {} THEN 0
                                      ELSE w[Pick(u)] + part(u \ {Pick(u)})[u \ {Pick(u)}])
                       ELSE part(s)[s]]
<1>4. ASSUME NEW s \in SUBSET u, s # u PROVE IsSum(part(s), w, s)
  <2>1. s \notin B
    BY <1>2, <1>4
  <2>2. \E g : IsSum(g, w, s)
    BY <2>1
  <2> QED
    BY <2>2
<1>5. ASSUME NEW s \in SUBSET u PROVE whole[s] = SumOf(whole, w, s)
  <2> DEFINE r == s \ {Pick(s)}
  <2>1. CASE s = {}
    <3>1. CASE u = {}
      BY <2>1, <3>1 DEF SumOf
    <3>2. CASE u # {}
      <4>1. IsSum(part({}), w, {}) 
        BY <1>4, <3>2
      <4>2. part({})[{}] = 0
        BY <4>1 DEF IsSum, SumOf
      <4> QED
        BY <2>1, <3>2, <4>2 DEF SumOf
    <3> QED
      BY <3>1, <3>2
  <2>2. CASE s # {}
    <3>1. r \subseteq s /\ r # s /\ r \in SUBSET u /\ r # u
      BY <2>2, PickIsElement
    <3>2. whole[r] = part(r)[r]
      BY <3>1
    <3>3. CASE s = u
      BY <2>2, <3>2, <3>3 DEF SumOf
    <3>4. CASE s # u
      <4>1. whole[s] = part(s)[s] /\ IsSum(part(s), w, s) /\ IsSum(part(r), w, r)
        BY <1>4, <3>1, <3>4
      <4>2. part(s)[s] = w[Pick(s)] + part(s)[r]
        BY <2>2, <4>1 DEF IsSum, SumOf
      <4>3. part(s)[r] = part(r)[r]
        <5>1. IsFiniteSet(s)
          BY <1>3, FS_Subset
        <5> HIDE DEF part
        <5> QED
          BY <3>1, <4>1, <5>1, SumsAgree
      <4> QED
        BY <2>2, <3>2, <4>1, <4>2, <4>3 DEF SumOf
    <3> QED
      BY <3>3, <3>4
  <2> QED
    BY <2>1, <2>2
<1>6. IsSum(whole, w, u)
  <2>1. whole = [s \in SUBSET u |-> whole[s]]
    OBVIOUS
  <2> HIDE DEF whole
  <2>2. whole = [s \in SUBSET u |-> SumOf(whole, w, s)]
    BY <1>5, <2>1
  <2> QED
    BY <2>2 DEF IsSum
<1> QED
  BY <1>6

(* The units of a wallet or a book are a number.                           *)
LEMMA UnitsAreNat ==
    ASSUME NEW w \in [Symbols -> Nat]
    PROVE  Units(w) \in Nat
<1> DEFINE g == CHOOSE f : IsSum(f, w, Symbols)
<1>1. IsSum(g, w, Symbols)
  BY SumExists, LifecycleAssumption
<1> HIDE DEF g
<1> DEFINE B == {u \in SUBSET Symbols : g[u] \notin Nat}
<1>2. SUFFICES ASSUME B # {} PROVE FALSE
  BY UnitsUnfold DEF g
<1>3. PICK u \in B : \A v \in B : ~(v \subseteq u /\ v # u)
  <2>1. B \subseteq SUBSET Symbols
    OBVIOUS
  <2> HIDE DEF B
  <2> QED
    BY <1>2, <2>1, SmallestSubset, LifecycleAssumption
<1>4. g[u] = SumOf(g, w, u)
  BY <1>1 DEF IsSum
<1>5. CASE u = {}
  BY <1>4, <1>5 DEF SumOf
<1>6. CASE u # {}
  <2>1. Pick(u) \in u
    BY <1>6, PickIsElement
  <2>2. u \ {Pick(u)} \notin B
    BY <1>3, <2>1
  <2>3. w[Pick(u)] \in Nat /\ g[u \ {Pick(u)}] \in Nat
    BY <2>1, <2>2
  <2> QED
    BY <1>4, <2>3 DEF SumOf
<1> QED
  BY <1>5, <1>6

(* The units of two holdings together.                                     *)
LEMMA UnitsAdd ==
    ASSUME NEW a \in [Symbols -> Nat], NEW b \in [Symbols -> Nat]
    PROVE  Units([s \in Symbols |-> a[s] + b[s]]) = Units(a) + Units(b)
<1> DEFINE c == [s \in Symbols |-> a[s] + b[s]]
           f == CHOOSE x : IsSum(x, a, Symbols)
           g == CHOOSE x : IsSum(x, b, Symbols)
           h == CHOOSE x : IsSum(x, c, Symbols)
<1>1. IsSum(f, a, Symbols) /\ IsSum(g, b, Symbols) /\ IsSum(h, c, Symbols)
  <2> HIDE DEF c
  <2> QED
    BY SumExists, LifecycleAssumption
<1>2. Units(a) = f[Symbols] /\ Units(b) = g[Symbols] /\ Units(c) = h[Symbols]
  BY UnitsUnfold
<1> HIDE DEF f, g, h
<1> DEFINE Off == {u \in SUBSET Symbols : ~(f[u] \in Nat /\ g[u] \in Nat /\ h[u] = f[u] + g[u])}
<1>3. SUFFICES ASSUME Off # {} PROVE FALSE
  BY <1>2
<1>4. PICK u \in Off : \A v \in Off : ~(v \subseteq u /\ v # u)
  <2>1. Off \subseteq SUBSET Symbols
    OBVIOUS
  <2> HIDE DEF Off
  <2> QED
    BY <1>3, <2>1, SmallestSubset, LifecycleAssumption
<1>5. f[u] = SumOf(f, a, u) /\ g[u] = SumOf(g, b, u) /\ h[u] = SumOf(h, c, u)
  BY <1>1 DEF IsSum
<1>6. CASE u = {}
  BY <1>5, <1>6 DEF SumOf
<1>7. CASE u # {}
  <2> DEFINE x == Pick(u)
             r == u \ {x}
  <2>1. x \in u /\ x \in Symbols
    BY <1>7, PickIsElement
  <2>2. f[r] \in Nat /\ g[r] \in Nat /\ h[r] = f[r] + g[r]
    <3>1. r \notin Off
      BY <1>4, <2>1
    <3> QED
      BY <3>1
  <2>3. f[u] = a[x] + f[r] /\ g[u] = b[x] + g[r] /\ h[u] = c[x] + h[r]
    BY <1>5, <1>7 DEF SumOf
  <2>4. a[x] \in Nat /\ b[x] \in Nat /\ c[x] = a[x] + b[x]
    BY <2>1
  <2> HIDE DEF x, r, c
  <2> QED
    BY <2>2, <2>3, <2>4
<1> QED
  BY <1>6, <1>7

(* Holdings that grow have no fewer units.                                 *)
LEMMA UnitsGrow ==
    ASSUME NEW a \in [Symbols -> Nat], NEW s \in Symbols, NEW n \in Nat
    PROVE  Units([a EXCEPT ![s] = @ + n]) >= Units(a)
<1> DEFINE b == [r \in Symbols |-> IF r = s THEN n ELSE 0]
<1>1. [a EXCEPT ![s] = @ + n] = [r \in Symbols |-> a[r] + b[r]]
  <2> DEFINE c == [a EXCEPT ![s] = @ + n]
  <2>1. c = [r \in Symbols |-> c[r]]
    OBVIOUS
  <2>2. ASSUME NEW r \in Symbols PROVE c[r] = a[r] + b[r]
    <3>1. a[r] \in Nat
      OBVIOUS
    <3>2. CASE r = s
      BY <3>1, <3>2
    <3>3. CASE r # s
      BY <3>1, <3>3
    <3> QED
      BY <3>2, <3>3
  <2> HIDE DEF b, c
  <2>3. c = [r \in Symbols |-> a[r] + b[r]]
    BY <2>1, <2>2
  <2> QED
    BY <2>3 DEF c
<1>2. b \in [Symbols -> Nat]
  OBVIOUS
<1> HIDE DEF b
<1>3. Units([r \in Symbols |-> a[r] + b[r]]) = Units(a) + Units(b)
  BY <1>2, UnitsAdd
<1>4. Units(a) \in Nat /\ Units(b) \in Nat
  BY <1>2, UnitsAreNat
<1> QED
  BY <1>1, <1>3, <1>4

(* What is under way when nothing is.                                      *)
LEMMA NothingToSum ==
    ASSUME NEW P, P = {}
    PROVE  MapThenSumSet(LAMBDA t : t.amt, P) = 0
<1> DEFINE IsEmptySum(f) == f = [s \in SUBSET P |-> IF s = {} THEN 0 ELSE Pick(s).amt + f[s \ {Pick(s)}]]
           iter == CHOOSE f : IsEmptySum(f)
<1>1. MapThenSumSet(LAMBDA t : t.amt, P) = iter[P]
  BY DEF MapThenSumSet, MapThenFoldSet, Pick
<1>2. \E f : IsEmptySum(f)
  <2> DEFINE z == [s \in SUBSET P |-> 0]
  <2>1. IsEmptySum(z)
    OBVIOUS
  <2> QED
    BY <2>1
<1>3. IsEmptySum(iter)
  <2> HIDE DEF IsEmptySum
  <2> QED
    BY <1>2
<1> HIDE DEF iter
<1> QED
  BY <1>1, <1>3

-----------------------------------------------------------------------------
(* The inductive invariant.                                                *)

ExitSteps == ExitPass \cup {"flatten", "liquidate"}
SellSteps == {"sell", "verify", "sold"}
Resting   == {"reconcile", "top", "value", "sold", "entry"} \cup ExitSteps

(* Only what is open is left to visit, and only where there are visits.    *)
Visits ==
    /\ todo \subseteq OpenSymbols
    /\ todo # {} => pc \in {"reconcile", "swapping"} \cup ExitSteps \cup SellSteps
    /\ pc \in {"sell", "swapping", "verify"} /\ cur.side = "sell" =>
           cur.sym \in OpenSymbols /\ cur.sym \notin todo
    /\ pc = "swapping" /\ cur.side = "buy" => todo = {}

(* The swap that pc is at.                                                 *)
SwapAt ==
    /\ cur.amt \in Nat
    /\ pc \in {"sell", "buy", "swapping"} => cur.amt > 0
    /\ pc \in SellSteps => cur.side = "sell"
    /\ pc \in {"buy", "bought"} => cur.side = "buy" /\ cur.from = "entry"
    /\ pc = "swapping" => cur.side = "sell" \/ (cur.side = "buy" /\ cur.from = "entry")
    /\ pc \in SellSteps \cup {"swapping"} /\ cur.side = "sell" => cur.from \in ExitSteps
    /\ pc \in {"verify", "sold"} => cur.from \in ExitPass
    /\ pc \in {"swapping", "verify", "sold", "bought"} <=> cur.tx > 0
    /\ cur.failed => cur.tx > 0

(* Transactions have their own numbers, and the current swap's is its own. *)
TxOf(t) == /\ t.side = cur.side /\ t.sym = cur.sym /\ t.amt = cur.amt /\ t.from = cur.from

Numbered ==
    /\ \A t, u \in mempool : t.id = u.id => t = u
    /\ \A t \in mempool : t.id = cur.tx => TxOf(t) /\ ~cur.failed

(* Every change of the book is in the file before the call returns.        *)
Stored == Alive => file = "ok" /\ book = disk

(* A hash is kept from the answer to the verification.                     *)
HashKept == pendingExit = IF pc = "verify" THEN [Empty EXCEPT ![cur.sym] = cur.tx] ELSE Empty

Clean(kinds) == seen \cap kinds = {}

(* What the wallet holds, compared with the book and with what positions   *)
(* left behind, as long as every answer was true and in time.              *)
Held == [s \in Symbols |-> book[s] + left[s]]

AfterSwap ==
    [Held EXCEPT ![cur.sym] = IF cur.side = "buy" THEN @ + cur.amt ELSE @ - cur.amt]

Settled == mempool = {} /\ wallet = Held

SwapUnderWay ==
    \/ mempool = {} /\ ~cur.failed /\ wallet = AfterSwap
    \/ mempool = {} /\ cur.failed /\ wallet = Held
    \/ wallet = Held /\ \E t \in mempool : mempool = {t} /\ t.id = cur.tx

Described ==
    /\ cur.side = "buy" => book[cur.sym] = 0 /\ cur.amt = Lot
    /\ cur.side = "sell" => cur.amt + cur.kept = book[cur.sym]

BookIsWallet ==
    /\ pc = "down" => \/ file = "torn"
                      \/ /\ mempool = {} /\ file = "ok"
                         /\ wallet = [s \in Symbols |-> disk[s] + left[s]]
                      \/ mempool = {} /\ file = "missing" /\ disk = Empty /\ left = Empty
    /\ pc \in {"sell", "buy"} => Settled /\ Described /\ ~needsRec
    /\ pc = "swapping" => SwapUnderWay /\ Described /\ ~needsRec
    /\ pc \in {"verify", "bought"} =>
           mempool = {} /\ wallet = AfterSwap /\ Described /\ ~needsRec
    /\ pc \in Resting /\ ~needsRec => Settled
    /\ pc \in Resting /\ needsRec => /\ pc \in {"reconcile", "top", "flatten", "value"}
                                    /\ mempool = {} /\ book = Empty /\ left = Empty

(* The residues are a drawdown by themselves.                              *)
ResiduesKill == Units(left) * 100 >= KillPct * (Equity - Units(left))

(* The high-water mark and the latch that go with it.                      *)
TrueMark == ath <= Equity /\ (latch => ResiduesKill)

WalletInv == Clean({"lost", "late", "crash", "readfail"}) => BookIsWallet /\ TrueMark

(* A sale not recorded yet is the current swap's, mined.                   *)
SalesInv ==
    Clean({"lost", "crash", "readfail"}) /\ file # "torn" =>
        /\ \A s \in hist.sales :
              /\ pc \in {"swapping", "verify", "sold"} /\ cur.sym = s
              /\ cur.from \in ExitPass /\ ~cur.failed
              /\ \A t \in mempool : t.id # cur.tx
        /\ \A t \in mempool : t.from \in ExitPass =>
              \/ t.id \in hist.recorded
              \/ t.id = cur.tx /\ pc \in {"swapping", "verify", "sold"}

(* Types that TypeOK does not state: a step copies records field by field. *)
HistType ==
    hist \in [warned : SUBSET Symbols, sales : SUBSET Symbols, recorded : SUBSET Nat,
              hashes : SUBSET Nat]

CurType ==
    cur \in [sym : Symbols, side : {"none", "buy", "sell"}, amt : Nat, kept : Nat,
             from : {"none", "entry"} \cup ExitSteps, tx : 0 .. txs, failed : BOOLEAN]

LogType == \A e \in log : e.sym \in Symbols

TypeInv == TypeOK /\ HistType /\ CurType /\ LogType
FlowInv == Visits /\ SwapAt
LifeInv == TypeInv /\ FlowInv /\ Numbered /\ Stored /\ HashKept /\ WalletInv /\ SalesInv

USE DEF chain, store, risk, notes, flow, bad

LEMMA NoSwapType ==
    /\ NoSwap \in [sym : Symbols, side : {"none", "buy", "sell"}, amt : Nat, kept : Nat,
                   from : {"none", "entry"} \cup ExitSteps, tx : Nat, failed : BOOLEAN]
    /\ NoSwap.side = "none" /\ NoSwap.amt = 0 /\ NoSwap.kept = 0 /\ NoSwap.tx = 0 /\ NoSwap.failed = FALSE
    /\ NoSwap.from = "none" /\ NoSwap.sym \in Symbols
BY LifecycleAssumption DEF NoSwap

LEMMA ProductGrows ==
    ASSUME NEW k \in Nat, NEW a \in Int, NEW b \in Int, a <= b
    PROVE  k * a <= k * b /\ k * a \in Int /\ k * b \in Int
OBVIOUS

LEMMA KeepsBackLittle ==
    ASSUME NEW n \in Nat
    PROVE  KeptBack(n) \in Nat /\ KeptBack(n) <= n /\ (n > 0 => n - KeptBack(n) > 0)
BY DEF KeptBack

LEMMA SmallerIsOne ==
    ASSUME NEW a \in Nat, NEW b \in Nat
    PROVE  /\ Smaller(a, b) \in Nat /\ (a <= b => Smaller(a, b) = a)
           /\ (a > 0 /\ b > 0 => Smaller(a, b) > 0)
BY DEF Smaller

(* A sale is sized from the book and the balance: it asks for something,   *)
(* and for all but what it keeps back when the wallet holds the position.  *)
LEMMA SaleIsSized ==
    ASSUME wallet \in [Symbols -> Nat], book \in [Symbols -> Nat], todo \subseteq OpenSymbols,
           ReadForSale
    PROVE  \E s \in todo, n \in Nat, m \in Nat :
              /\ cur' = Swap(s, "sell", n, m, pc)
              /\ n > 0
              /\ book[s] <= wallet[s] => n + m = book[s]
<1> DEFINE most(s) == Smaller(book[s], wallet[s])
<1>1. PICK s \in todo :
        \/ wallet[s] > ExitDust /\ cur' = Swap(s, "sell", most(s) - KeptBack(most(s)), KeptBack(most(s)), pc)
        \/ cur' = Swap(s, "sell", book[s], 0, pc)
  BY DEF ReadForSale, SymbolBalance
<1>2. s \in Symbols /\ book[s] \in Nat /\ book[s] > 0 /\ wallet[s] \in Nat /\ ExitDust \in Nat
  BY LifecycleAssumption DEF OpenSymbols
<1>3. /\ most(s) \in Nat /\ (book[s] <= wallet[s] => most(s) = book[s])
      /\ (wallet[s] > 0 => most(s) > 0)
  BY <1>2, SmallerIsOne
<1> HIDE DEF most
<1>4. CASE wallet[s] > ExitDust /\ cur' = Swap(s, "sell", most(s) - KeptBack(most(s)), KeptBack(most(s)), pc)
  <2>1. /\ KeptBack(most(s)) \in Nat /\ KeptBack(most(s)) <= most(s)
        /\ (most(s) > 0 => most(s) - KeptBack(most(s)) > 0)
    BY <1>3, KeepsBackLittle
  <2> DEFINE n == most(s) - KeptBack(most(s))
             m == KeptBack(most(s))
  <2>2. n \in Nat /\ m \in Nat /\ n > 0 /\ n + m = most(s)
    BY <1>2, <1>3, <1>4, <2>1
  <2>3. cur' = Swap(s, "sell", n, m, pc)
    BY <1>4
  <2> HIDE DEF n, m
  <2> QED
    BY <1>3, <2>2, <2>3
<1>5. CASE cur' = Swap(s, "sell", book[s], 0, pc)
  BY <1>2, <1>5
<1> QED
  BY <1>1, <1>4, <1>5

LEMMA HeldSame == book' = book /\ left' = left => Held' = Held
BY DEF Held

-----------------------------------------------------------------------------
(* Types.                                                                  *)
LEMMA TypeStep == TypeInv /\ FlowInv /\ [Next]_vars => TypeInv'
<1> SUFFICES ASSUME TypeInv, FlowInv, [Next]_vars PROVE TypeInv'
  OBVIOUS
<1> USE DEF TypeInv, TypeOK, HistType, CurType, LogType, FlowInv, Visits, SwapAt, ExitSteps,
   ExitPass, OpenSymbols, Empty, Steps
<1>1. CASE Boot
  <2>1. cooldown' \subseteq Symbols
    BY <1>1 DEF Boot, PendingCooldowns
  <2>2. disk' \in [Symbols -> Nat] /\ book' \in [Symbols -> Nat] /\ file' = "ok"
    BY <1>1 DEF Boot, Persist
  <2>3. {e.sym : e \in log} \in SUBSET Symbols
    OBVIOUS
  <2>4. HistType'
    BY <1>1, <2>3 DEF Boot
  <2>5. todo' \subseteq Symbols /\ needsRec' \in BOOLEAN
    BY <1>1 DEF Boot
  <2> QED
    BY <1>1, <2>1, <2>2, <2>4, <2>5 DEF Boot
<1>2. CASE Reconcile
  <2>1. PICK s \in todo : CloseStale(s) \/ UNCHANGED <<store, left>>
    BY <1>2 DEF Reconcile
  <2>2. s \in Symbols /\ Smaller(book[s], wallet[s]) \in Nat
    BY <2>1, SmallerIsOne
  <2>3. /\ book' \in [Symbols -> Nat] /\ disk' \in [Symbols -> Nat]
        /\ left' \in [Symbols -> Nat] /\ file' \in {"missing", "ok", "torn"}
    BY <2>1, <2>2 DEF CloseStale, ClosePosition, Persist
  <2>4. faults' \in 0 .. MaxFaults /\ seen' \subseteq Faults
    BY <1>2, LifecycleAssumption DEF Reconcile, Fault
  <2> QED
    BY <1>2, <2>3, <2>4 DEF Reconcile
<1>3. CASE ReconcileDone
  BY <1>3, LifecycleAssumption, NoSwapType DEF ReconcileDone
<1>4. CASE BeginCycle
  BY <1>4, LifecycleAssumption, NoSwapType DEF BeginCycle
<1>5. CASE LiquidationOver
  BY <1>5, LifecycleAssumption, NoSwapType DEF LiquidationOver
<1>6. CASE Reconstruct
  <2>1. book' \in [Symbols -> Nat] /\ disk' = book' /\ file' = "ok"
    BY <1>6 DEF Reconstruct, Persist
  <2>2. faults' \in 0 .. MaxFaults /\ seen' \subseteq Faults
    BY <1>6, LifecycleAssumption DEF Reconstruct, Fault
  <2> QED
    BY <1>6, <2>1, <2>2 DEF Reconstruct
<1>7. CASE Evaluate
  <2>1. PortfolioValue \in Int
    BY UnitsAreNat, LifecycleAssumption DEF PortfolioValue, Cash
  <2>2. ath' \in Nat
    <3> DEFINE v == PortfolioValue
    <3>1. ath' = IF v > ath THEN v ELSE ath
      BY <1>7 DEF Evaluate
    <3> HIDE DEF v
    <3>2. v \in Int /\ ath \in Nat
      BY <2>1 DEF v
    <3> QED
      BY <3>1, <3>2
  <2>3. latch' \in BOOLEAN /\ allowed' \in BOOLEAN /\ pc' \in {"liquidate", "exits"}
    BY <1>7, Zenon DEF Evaluate
  <2>4. todo' \subseteq Symbols
    BY <1>7 DEF Evaluate
  <2> QED
    BY <1>7, <2>2, <2>3, <2>4 DEF Evaluate
<1>8. CASE MonitorExits
  BY <1>8, LifecycleAssumption, NoSwapType DEF MonitorExits, ExitPass
<1>9. CASE ExitsDone
  BY <1>9, LifecycleAssumption, NoSwapType DEF ExitsDone, ExitPass
<1>10. CASE KeepPosition
  BY <1>10, LifecycleAssumption, NoSwapType DEF KeepPosition, ExitPass
<1>11. CASE DropStale
  <2>1. PICK s \in todo : CloseStale(s) \/ UNCHANGED <<store, left>>
    BY <1>11 DEF DropStale
  <2>2. s \in Symbols /\ Smaller(book[s], wallet[s]) \in Nat
    BY <2>1, SmallerIsOne
  <2>3. /\ book' \in [Symbols -> Nat] /\ disk' \in [Symbols -> Nat]
        /\ left' \in [Symbols -> Nat] /\ file' \in {"missing", "ok", "torn"}
    BY <2>1, <2>2 DEF CloseStale, ClosePosition, Persist
  <2>4. cur' = NoSwap /\ txs' = txs
    BY <1>11 DEF DropStale
  <2>5. CurType'
    BY <2>4, NoSwapType
  <2> QED
    BY <1>11, <2>3, <2>4, <2>5, NoSwapType DEF DropStale
<1>12. CASE ReadForSale
  <2>1. cur' \in [sym : Symbols, side : {"none", "buy", "sell"}, amt : Nat, kept : Nat,
                  from : {"none", "entry"} \cup ExitSteps, tx : 0 .. txs, failed : BOOLEAN]
    <3>1. PICK s \in todo, n \in Nat, m \in Nat : cur' = Swap(s, "sell", n, m, pc)
      BY <1>12, SaleIsSized
    <3>2. s \in Symbols /\ pc \in {"none", "entry"} \cup ExitSteps /\ 0 \in 0 .. txs
      BY <1>12 DEF ReadForSale, Selling
    <3> HIDE DEF TypeInv, TypeOK, FlowInv
    <3> QED
      BY <3>1, <3>2 DEF Swap
  <2>2. faults' \in 0 .. MaxFaults /\ seen' \subseteq Faults
    BY <1>12, LifecycleAssumption DEF ReadForSale, Fault
  <2> QED
    BY <1>12, <2>1, <2>2 DEF ReadForSale
<1>13. CASE CallSell
  <2>1. CASE Refused
    <3>1. cur' = NoSwap /\ UNCHANGED <<mempool, txs>>
      BY <2>1 DEF Refused
    <3>2. CurType'
      BY <3>1, NoSwapType
    <3>3. faults' \in 0 .. MaxFaults /\ seen' \subseteq Faults
      BY <2>1, LifecycleAssumption DEF Refused, Fault
    <3>4. pc' \in Steps /\ LogType'
      BY <1>13, <2>1, SMT DEF CallSell, Refused, Broadcast, SellSteps
    <3> QED
      BY <1>13, <3>1, <3>2, <3>3, <3>4, NoSwapType DEF CallSell
  <2>2. CASE Broadcast
    <3>1. txs' \in Nat /\ cur' \in [sym : Symbols, side : {"none", "buy", "sell"}, amt : Nat, kept : Nat,
                  from : {"none", "entry"} \cup ExitSteps, tx : 0 .. txs', failed : BOOLEAN]
      BY <2>2 DEF Broadcast
    <3>2. \A t \in mempool' : t.id \in 1 .. txs' /\ t.sym \in Symbols /\ t.amt \in Nat \ {0}
      BY <1>13, <2>2 DEF CallSell, Broadcast
    <3> QED
      BY <1>13, <2>2, <3>1, <3>2 DEF CallSell, Broadcast
  <2> QED
    BY <1>13, <2>1, <2>2 DEF CallSell
<1>14. CASE SaleFails
  BY <1>14, LifecycleAssumption, NoSwapType DEF SaleFails, AnswersError, Fault, NoSwap
<1>15. CASE LiquidationDone
  BY <1>15, LifecycleAssumption, NoSwapType DEF LiquidationDone, CloseSold, AnswersHash, ClosePosition,
     Persist, Fault, NoSwap
<1>16. CASE ExitHashKnown
  BY <1>16, LifecycleAssumption, NoSwapType DEF ExitHashKnown, AnswersHash, Fault, ExitPass
<1>17. CASE VerifyFails
  BY <1>17, LifecycleAssumption, NoSwapType DEF VerifyFails, Fault, NoSwap
<1>18. CASE CloseExit
  BY <1>18, LifecycleAssumption, NoSwapType DEF CloseExit, CloseSold, ClosePosition, Persist
<1>19. CASE RecordSale
  <2>1. {t.id : t \in {m \in mempool : m.id \in hist.recorded \cup {cur.tx}}} \in SUBSET Nat
    OBVIOUS
  <2>2. HistType'
    BY <1>19, <2>1 DEF RecordSale
  <2>3. cur' = NoSwap /\ pc' = cur.from /\ pc' \in ExitSteps
    BY <1>19, SMT DEF RecordSale, SellSteps
  <2>4. CurType' /\ cur'.sym \in Symbols /\ cur'.tx \in 0 .. txs'
    BY <1>19, <2>3, NoSwapType DEF RecordSale
  <2> QED
    BY <1>19, <2>2, <2>3, <2>4 DEF RecordSale
<1>20. CASE NoEntry
  BY <1>20, LifecycleAssumption, NoSwapType DEF NoEntry
<1>21. CASE EntryRaises
  <2>1. cur' = NoSwap /\ pc' \in {"down", "gone"} /\ txs' = txs
    BY <1>21 DEF EntryRaises, Die
  <2>2. CurType'
    BY <2>1, NoSwapType
  <2> QED
    BY <1>21, <2>1, <2>2, NoSwapType DEF EntryRaises, Die
<1>22. CASE ChooseEntry
  BY <1>22, LifecycleAssumption, NoSwapType DEF ChooseEntry, Swap
<1>23. CASE CallBuy
  <2>1. CASE Refused
    <3>1. cur' = NoSwap /\ UNCHANGED <<mempool, txs>>
      BY <2>1 DEF Refused
    <3>2. CurType'
      BY <3>1, NoSwapType
    <3>3. faults' \in 0 .. MaxFaults /\ seen' \subseteq Faults
      BY <2>1, LifecycleAssumption DEF Refused, Fault
    <3>4. pc' \in Steps /\ LogType'
      BY <1>23, <2>1, SMT DEF CallBuy, Refused, Broadcast, SellSteps, LogFailure
    <3> QED
      BY <1>23, <3>1, <3>2, <3>3, <3>4, NoSwapType DEF CallBuy
  <2>2. CASE Broadcast
    <3>1. txs' \in Nat /\ cur' \in [sym : Symbols, side : {"none", "buy", "sell"}, amt : Nat, kept : Nat,
                  from : {"none", "entry"} \cup ExitSteps, tx : 0 .. txs', failed : BOOLEAN]
      BY <2>2 DEF Broadcast
    <3>2. \A t \in mempool' : t.id \in 1 .. txs' /\ t.sym \in Symbols /\ t.amt \in Nat \ {0}
      BY <1>23, <2>2 DEF CallBuy, Broadcast
    <3> QED
      BY <1>23, <2>2, <3>1, <3>2 DEF CallBuy, Broadcast
  <2> QED
    BY <1>23, <2>1, <2>2 DEF CallBuy
<1>24. CASE BuyFails
  BY <1>24, LifecycleAssumption, NoSwapType DEF BuyFails, AnswersError, Fault, NoSwap,
     LogFailure
<1>25. CASE BuyHashKnown
  BY <1>25, LifecycleAssumption, NoSwapType DEF BuyHashKnown, AnswersHash, Fault
<1>26. CASE BookEntry
  BY <1>26, LifecycleAssumption, NoSwapType DEF BookEntry, OpenPosition, Persist, NoSwap
<1>27. CASE Mine
  BY <1>27, LifecycleAssumption, NoSwapType DEF Mine, Affordable
<1>28. CASE Revert
  <2>1. CurType'
    <3>1. cur' = [cur EXCEPT !.failed = TRUE] \/ cur' = cur
      BY <1>28 DEF Revert
    <3>2. txs' = txs
      BY <1>28 DEF Revert
    <3> HIDE DEF TypeOK, HistType, LogType, FlowInv
    <3> QED
      BY <3>1, <3>2
  <2>2. faults' \in 0 .. MaxFaults /\ seen' \subseteq Faults
    BY <1>28, LifecycleAssumption DEF Revert, Fault
  <2>3. cur'.sym = cur.sym /\ cur'.tx = cur.tx
    BY <1>28 DEF Revert
  <2> QED
    BY <1>28, <2>1, <2>2, <2>3 DEF Revert
<1>29. CASE OpenWindow
  BY <1>29, LifecycleAssumption, NoSwapType DEF OpenWindow
<1>30. CASE Crash
  <2>1. cur' = NoSwap /\ pc' = "down" /\ txs' = txs /\ file' \in {"missing", "ok", "torn"}
    BY <1>30 DEF Crash, Die
  <2>2. CurType'
    BY <2>1, NoSwapType
  <2>3. faults' \in 0 .. MaxFaults /\ seen' \subseteq Faults
    BY <1>30, LifecycleAssumption DEF Crash, Fault
  <2> QED
    BY <1>30, <2>1, <2>2, <2>3, NoSwapType DEF Crash, Die
<1>31. CASE UNCHANGED vars
  BY <1>31 DEF vars
<1> QED
  BY <1>1, <1>2, <1>3, <1>4, <1>5, <1>6, <1>7, <1>8, <1>9, <1>10, <1>11, <1>12, <1>13, <1>14,
     <1>15, <1>16, <1>17, <1>18, <1>19, <1>20, <1>21, <1>22, <1>23, <1>24, <1>25, <1>26, <1>27,
     <1>28, <1>29, <1>30, <1>31 DEF Next, Agent

-----------------------------------------------------------------------------
(* The visits of the exit passes and of the two liquidations.              *)
LEMMA VisitsStep == TypeInv /\ FlowInv /\ [Next]_vars => Visits'
<1> SUFFICES ASSUME TypeInv, FlowInv, [Next]_vars PROVE Visits'
  OBVIOUS
<1> USE DEF Visits, SwapAt, FlowInv, TypeInv, TypeOK, CurType, OpenSymbols, ExitSteps,
   ExitPass, SellSteps, Empty
<1>1. CASE Boot
  BY <1>1, NoSwapType DEF Boot, Persist
<1>2. CASE Reconcile
  BY <1>2, NoSwapType DEF Reconcile, CloseStale, ClosePosition, Persist, Fault
<1>3. CASE ReconcileDone
  BY <1>3, NoSwapType DEF ReconcileDone
<1>4. CASE BeginCycle
  BY <1>4, NoSwapType DEF BeginCycle
<1>5. CASE LiquidationOver
  BY <1>5, NoSwapType DEF LiquidationOver
<1>6. CASE Reconstruct
  BY <1>6, NoSwapType DEF Reconstruct, Persist, Fault
<1>7. CASE Evaluate
  BY <1>7, NoSwapType DEF Evaluate
<1>8. CASE MonitorExits
  BY <1>8, NoSwapType DEF MonitorExits, ExitPass
<1>9. CASE ExitsDone
  BY <1>9, NoSwapType DEF ExitsDone, ExitPass
<1>10. CASE KeepPosition
  BY <1>10, NoSwapType DEF KeepPosition, ExitPass
<1>11. CASE DropStale
  BY <1>11, NoSwapType DEF DropStale, CloseStale, ClosePosition, Persist, Selling, NoPendingHash,
     SymbolBalance, ExitPass, NoSwap
<1>12. CASE ReadForSale
  BY <1>12, NoSwapType DEF ReadForSale, Selling, NoPendingHash, SymbolBalance, Swap, Fault,
     ExitPass, Smaller
<1>13. CASE CallSell
  BY <1>13, NoSwapType DEF CallSell, Refused, Broadcast, Fault, NoSwap
<1>14. CASE SaleFails
  BY <1>14, NoSwapType DEF SaleFails, AnswersError, Fault, NoSwap
<1>15. CASE LiquidationDone
  BY <1>15, NoSwapType DEF LiquidationDone, CloseSold, AnswersHash, ClosePosition, Persist, Fault, NoSwap
<1>16. CASE ExitHashKnown
  BY <1>16, NoSwapType DEF ExitHashKnown, AnswersHash, Fault, ExitPass
<1>17. CASE VerifyFails
  BY <1>17, NoSwapType DEF VerifyFails, Fault, NoSwap
<1>18. CASE CloseExit
  BY <1>18, NoSwapType DEF CloseExit, CloseSold, ClosePosition, Persist
<1>19. CASE RecordSale
  BY <1>19, NoSwapType DEF RecordSale, NoSwap
<1>20. CASE NoEntry
  BY <1>20, NoSwapType DEF NoEntry
<1>21. CASE EntryRaises
  BY <1>21, NoSwapType DEF EntryRaises, Die, NoSwap
<1>22. CASE ChooseEntry
  BY <1>22, NoSwapType DEF ChooseEntry, Swap
<1>23. CASE CallBuy
  BY <1>23, NoSwapType DEF CallBuy, Refused, Broadcast, Fault, NoSwap, LogFailure
<1>24. CASE BuyFails
  BY <1>24, NoSwapType DEF BuyFails, AnswersError, Fault, NoSwap, LogFailure
<1>25. CASE BuyHashKnown
  BY <1>25, NoSwapType DEF BuyHashKnown, AnswersHash, Fault
<1>26. CASE BookEntry
  BY <1>26, NoSwapType DEF BookEntry, OpenPosition, Persist, NoSwap
<1>27. CASE Mine
  BY <1>27, NoSwapType DEF Mine, Affordable
<1>28. CASE Revert
  BY <1>28, NoSwapType DEF Revert, Fault
<1>29. CASE OpenWindow
  BY <1>29, NoSwapType DEF OpenWindow
<1>30. CASE Crash
  BY <1>30, NoSwapType DEF Crash, Die, NoSwap, Fault, Alive
<1>31. CASE UNCHANGED vars
  BY <1>31 DEF vars
<1> QED
  BY <1>1, <1>2, <1>3, <1>4, <1>5, <1>6, <1>7, <1>8, <1>9, <1>10, <1>11, <1>12, <1>13, <1>14,
     <1>15, <1>16, <1>17, <1>18, <1>19, <1>20, <1>21, <1>22, <1>23, <1>24, <1>25, <1>26, <1>27,
     <1>28, <1>29, <1>30, <1>31 DEF Next, Agent

-----------------------------------------------------------------------------
(* The swap being made.                                                    *)
LEMMA SwapAtStep == TypeInv /\ FlowInv /\ [Next]_vars => SwapAt'
<1> SUFFICES ASSUME TypeInv, FlowInv, [Next]_vars PROVE SwapAt'
  OBVIOUS
<1> USE DEF Visits, SwapAt, FlowInv, TypeInv, TypeOK, CurType, OpenSymbols, ExitSteps,
   ExitPass, SellSteps
<1>1. CASE Boot
  BY <1>1, NoSwapType DEF Boot, Persist
<1>2. CASE Reconcile
  BY <1>2, NoSwapType DEF Reconcile, CloseStale, ClosePosition, Persist, Fault
<1>3. CASE ReconcileDone
  BY <1>3, NoSwapType DEF ReconcileDone
<1>4. CASE BeginCycle
  BY <1>4, NoSwapType DEF BeginCycle
<1>5. CASE LiquidationOver
  BY <1>5, NoSwapType DEF LiquidationOver
<1>6. CASE Reconstruct
  BY <1>6, NoSwapType DEF Reconstruct, Persist, Fault
<1>7. CASE Evaluate
  BY <1>7, NoSwapType DEF Evaluate
<1>8. CASE MonitorExits
  BY <1>8, NoSwapType DEF MonitorExits, ExitPass
<1>9. CASE ExitsDone
  BY <1>9, NoSwapType DEF ExitsDone, ExitPass
<1>10. CASE KeepPosition
  BY <1>10, NoSwapType DEF KeepPosition, ExitPass
<1>11. CASE DropStale
  BY <1>11, NoSwapType DEF DropStale, CloseStale, ClosePosition, Persist, Selling, NoPendingHash,
     SymbolBalance, ExitPass, NoSwap
<1>12. CASE ReadForSale
  <2>1. PICK s \in todo, n \in Nat, m \in Nat : cur' = Swap(s, "sell", n, m, pc) /\ n > 0
    BY <1>12, SaleIsSized
  <2>2. pc' = "sell" /\ pc \in ExitSteps
    BY <1>12 DEF ReadForSale, Selling
  <2> QED
    BY <2>1, <2>2 DEF Swap
<1>13. CASE CallSell
  BY <1>13, NoSwapType DEF CallSell, Refused, Broadcast, Fault, NoSwap
<1>14. CASE SaleFails
  BY <1>14, NoSwapType DEF SaleFails, AnswersError, Fault, NoSwap
<1>15. CASE LiquidationDone
  BY <1>15, NoSwapType DEF LiquidationDone, CloseSold, AnswersHash, ClosePosition, Persist, Fault, NoSwap
<1>16. CASE ExitHashKnown
  BY <1>16, NoSwapType DEF ExitHashKnown, AnswersHash, Fault, ExitPass
<1>17. CASE VerifyFails
  BY <1>17, NoSwapType DEF VerifyFails, Fault, NoSwap
<1>18. CASE CloseExit
  BY <1>18, NoSwapType DEF CloseExit, CloseSold, ClosePosition, Persist
<1>19. CASE RecordSale
  BY <1>19, NoSwapType DEF RecordSale, NoSwap
<1>20. CASE NoEntry
  BY <1>20, NoSwapType DEF NoEntry
<1>21. CASE EntryRaises
  BY <1>21, NoSwapType DEF EntryRaises, Die, NoSwap
<1>22. CASE ChooseEntry
  BY <1>22, NoSwapType, LifecycleAssumption DEF ChooseEntry, Swap
<1>23. CASE CallBuy
  BY <1>23, NoSwapType DEF CallBuy, Refused, Broadcast, Fault, NoSwap, LogFailure
<1>24. CASE BuyFails
  BY <1>24, NoSwapType DEF BuyFails, AnswersError, Fault, NoSwap, LogFailure
<1>25. CASE BuyHashKnown
  BY <1>25, NoSwapType DEF BuyHashKnown, AnswersHash, Fault
<1>26. CASE BookEntry
  BY <1>26, NoSwapType DEF BookEntry, OpenPosition, Persist, NoSwap
<1>27. CASE Mine
  BY <1>27, NoSwapType DEF Mine, Affordable
<1>28. CASE Revert
  BY <1>28, NoSwapType DEF Revert, Fault
<1>29. CASE OpenWindow
  BY <1>29, NoSwapType DEF OpenWindow
<1>30. CASE Crash
  BY <1>30, NoSwapType DEF Crash, Die, NoSwap, Fault, Alive
<1>31. CASE UNCHANGED vars
  BY <1>31 DEF vars
<1> QED
  BY <1>1, <1>2, <1>3, <1>4, <1>5, <1>6, <1>7, <1>8, <1>9, <1>10, <1>11, <1>12, <1>13, <1>14,
     <1>15, <1>16, <1>17, <1>18, <1>19, <1>20, <1>21, <1>22, <1>23, <1>24, <1>25, <1>26, <1>27,
     <1>28, <1>29, <1>30, <1>31 DEF Next, Agent

-----------------------------------------------------------------------------
(* The numbers of the transactions.                                        *)
LEMMA NumberedStep == TypeInv /\ FlowInv /\ Numbered /\ [Next]_vars => Numbered'
<1> SUFFICES ASSUME TypeInv, FlowInv, Numbered, [Next]_vars PROVE Numbered'
  OBVIOUS
<1> USE DEF Numbered, TxOf, SwapAt, FlowInv, TypeInv, TypeOK, CurType, SellSteps, ExitSteps,
   ExitPass
<1>1. CASE Boot
  BY <1>1, NoSwapType DEF Boot, Persist
<1>2. CASE Reconcile
  BY <1>2, NoSwapType DEF Reconcile, CloseStale, ClosePosition, Persist, Fault
<1>3. CASE ReconcileDone
  BY <1>3, NoSwapType DEF ReconcileDone
<1>4. CASE BeginCycle
  BY <1>4, NoSwapType DEF BeginCycle
<1>5. CASE LiquidationOver
  BY <1>5, NoSwapType DEF LiquidationOver
<1>6. CASE Reconstruct
  BY <1>6, NoSwapType DEF Reconstruct, Persist, Fault
<1>7. CASE Evaluate
  BY <1>7, NoSwapType DEF Evaluate
<1>8. CASE MonitorExits
  BY <1>8, NoSwapType DEF MonitorExits, ExitPass
<1>9. CASE ExitsDone
  BY <1>9, NoSwapType DEF ExitsDone, ExitPass
<1>10. CASE KeepPosition
  BY <1>10, NoSwapType DEF KeepPosition, ExitPass
<1>11. CASE DropStale
  BY <1>11, NoSwapType DEF DropStale, CloseStale, ClosePosition, Persist, Selling, NoPendingHash,
     SymbolBalance, ExitPass, NoSwap
<1>12. CASE ReadForSale
  BY <1>12, NoSwapType DEF ReadForSale, Selling, NoPendingHash, SymbolBalance, Swap, Fault,
     ExitPass, Smaller
<1>13. CASE CallSell
  BY <1>13, NoSwapType DEF CallSell, Refused, Broadcast, Fault, NoSwap
<1>14. CASE SaleFails
  BY <1>14, NoSwapType DEF SaleFails, AnswersError, Fault, NoSwap
<1>15. CASE LiquidationDone
  BY <1>15, NoSwapType DEF LiquidationDone, CloseSold, AnswersHash, ClosePosition, Persist, Fault, NoSwap
<1>16. CASE ExitHashKnown
  BY <1>16, NoSwapType DEF ExitHashKnown, AnswersHash, Fault, ExitPass
<1>17. CASE VerifyFails
  BY <1>17, NoSwapType DEF VerifyFails, Fault, NoSwap
<1>18. CASE CloseExit
  BY <1>18, NoSwapType DEF CloseExit, CloseSold, ClosePosition, Persist
<1>19. CASE RecordSale
  BY <1>19, NoSwapType DEF RecordSale, NoSwap
<1>20. CASE NoEntry
  BY <1>20, NoSwapType DEF NoEntry
<1>21. CASE EntryRaises
  BY <1>21, NoSwapType DEF EntryRaises, Die, NoSwap
<1>22. CASE ChooseEntry
  BY <1>22, NoSwapType DEF ChooseEntry, Swap
<1>23. CASE CallBuy
  BY <1>23, NoSwapType DEF CallBuy, Refused, Broadcast, Fault, NoSwap, LogFailure
<1>24. CASE BuyFails
  BY <1>24, NoSwapType DEF BuyFails, AnswersError, Fault, NoSwap, LogFailure
<1>25. CASE BuyHashKnown
  BY <1>25, NoSwapType DEF BuyHashKnown, AnswersHash, Fault
<1>26. CASE BookEntry
  BY <1>26, NoSwapType DEF BookEntry, OpenPosition, Persist, NoSwap
<1>27. CASE Mine
  BY <1>27, NoSwapType DEF Mine, Affordable
<1>28. CASE Revert
  BY <1>28, NoSwapType DEF Revert, Fault
<1>29. CASE OpenWindow
  BY <1>29, NoSwapType DEF OpenWindow
<1>30. CASE Crash
  BY <1>30, NoSwapType DEF Crash, Die, NoSwap, Fault, Alive
<1>31. CASE UNCHANGED vars
  BY <1>31 DEF vars
<1> QED
  BY <1>1, <1>2, <1>3, <1>4, <1>5, <1>6, <1>7, <1>8, <1>9, <1>10, <1>11, <1>12, <1>13, <1>14,
     <1>15, <1>16, <1>17, <1>18, <1>19, <1>20, <1>21, <1>22, <1>23, <1>24, <1>25, <1>26, <1>27,
     <1>28, <1>29, <1>30, <1>31 DEF Next, Agent

-----------------------------------------------------------------------------
(* The book and its file.                                                  *)
LEMMA StoredStep == TypeInv /\ FlowInv /\ Stored /\ [Next]_vars => Stored'
<1> SUFFICES ASSUME TypeInv, FlowInv, Stored, [Next]_vars PROVE Stored'
  OBVIOUS
<1> USE DEF Stored, Alive
<1>1. CASE Boot
  BY <1>1 DEF Boot, Persist
<1>2. CASE Reconcile
  BY <1>2 DEF Reconcile, CloseStale, ClosePosition, Persist, Fault
<1>3. CASE ReconcileDone
  BY <1>3 DEF ReconcileDone
<1>4. CASE BeginCycle
  BY <1>4 DEF BeginCycle
<1>5. CASE LiquidationOver
  BY <1>5 DEF LiquidationOver
<1>6. CASE Reconstruct
  BY <1>6 DEF Reconstruct, Persist, Fault
<1>7. CASE Evaluate
  BY <1>7 DEF Evaluate
<1>8. CASE MonitorExits
  BY <1>8 DEF MonitorExits, ExitPass
<1>9. CASE ExitsDone
  BY <1>9 DEF ExitsDone, ExitPass
<1>10. CASE KeepPosition
  BY <1>10 DEF KeepPosition, ExitPass
<1>11. CASE DropStale
  BY <1>11 DEF DropStale, CloseStale, ClosePosition, Persist, Selling, NoPendingHash, SymbolBalance,
     ExitPass, NoSwap
<1>12. CASE ReadForSale
  BY <1>12 DEF ReadForSale, Selling, NoPendingHash, SymbolBalance, Swap, Fault, ExitPass,
     Smaller
<1>13. CASE CallSell
  BY <1>13 DEF CallSell, Refused, Broadcast, Fault, NoSwap
<1>14. CASE SaleFails
  BY <1>14 DEF SaleFails, AnswersError, Fault, NoSwap
<1>15. CASE LiquidationDone
  BY <1>15 DEF LiquidationDone, CloseSold, AnswersHash, ClosePosition, Persist, Fault, NoSwap
<1>16. CASE ExitHashKnown
  BY <1>16 DEF ExitHashKnown, AnswersHash, Fault, ExitPass
<1>17. CASE VerifyFails
  BY <1>17 DEF VerifyFails, Fault, NoSwap
<1>18. CASE CloseExit
  BY <1>18 DEF CloseExit, CloseSold, ClosePosition, Persist
<1>19. CASE RecordSale
  BY <1>19 DEF RecordSale, NoSwap
<1>20. CASE NoEntry
  BY <1>20 DEF NoEntry
<1>21. CASE EntryRaises
  BY <1>21 DEF EntryRaises, Die, NoSwap
<1>22. CASE ChooseEntry
  BY <1>22 DEF ChooseEntry, Swap
<1>23. CASE CallBuy
  BY <1>23 DEF CallBuy, Refused, Broadcast, Fault, NoSwap, LogFailure
<1>24. CASE BuyFails
  BY <1>24 DEF BuyFails, AnswersError, Fault, NoSwap, LogFailure
<1>25. CASE BuyHashKnown
  BY <1>25 DEF BuyHashKnown, AnswersHash, Fault
<1>26. CASE BookEntry
  BY <1>26 DEF BookEntry, OpenPosition, Persist, NoSwap
<1>27. CASE Mine
  BY <1>27 DEF Mine, Affordable
<1>28. CASE Revert
  BY <1>28 DEF Revert, Fault
<1>29. CASE OpenWindow
  BY <1>29 DEF OpenWindow
<1>30. CASE Crash
  BY <1>30 DEF Crash, Die, NoSwap, Fault, Alive
<1>31. CASE UNCHANGED vars
  BY <1>31 DEF vars
<1> QED
  BY <1>1, <1>2, <1>3, <1>4, <1>5, <1>6, <1>7, <1>8, <1>9, <1>10, <1>11, <1>12, <1>13, <1>14,
     <1>15, <1>16, <1>17, <1>18, <1>19, <1>20, <1>21, <1>22, <1>23, <1>24, <1>25, <1>26, <1>27,
     <1>28, <1>29, <1>30, <1>31 DEF Next, Agent

-----------------------------------------------------------------------------
(* The hashes of exits.                                                    *)
LEMMA HashKeptStep == TypeInv /\ FlowInv /\ HashKept /\ [Next]_vars => HashKept'
<1> SUFFICES ASSUME TypeInv, FlowInv, HashKept, [Next]_vars PROVE HashKept'
  OBVIOUS
<1> USE DEF HashKept, TypeInv, TypeOK, CurType, Empty, SwapAt, FlowInv, SellSteps
<1>1. CASE Boot
  BY <1>1, NoSwapType DEF Boot, Persist
<1>2. CASE Reconcile
  BY <1>2, NoSwapType DEF Reconcile, CloseStale, ClosePosition, Persist, Fault
<1>3. CASE ReconcileDone
  BY <1>3, NoSwapType DEF ReconcileDone
<1>4. CASE BeginCycle
  BY <1>4, NoSwapType DEF BeginCycle
<1>5. CASE LiquidationOver
  BY <1>5, NoSwapType DEF LiquidationOver
<1>6. CASE Reconstruct
  BY <1>6, NoSwapType DEF Reconstruct, Persist, Fault
<1>7. CASE Evaluate
  BY <1>7, NoSwapType DEF Evaluate
<1>8. CASE MonitorExits
  BY <1>8, NoSwapType DEF MonitorExits, ExitPass
<1>9. CASE ExitsDone
  BY <1>9, NoSwapType DEF ExitsDone, ExitPass
<1>10. CASE KeepPosition
  BY <1>10, NoSwapType DEF KeepPosition, ExitPass
<1>11. CASE DropStale
  BY <1>11, NoSwapType DEF DropStale, CloseStale, ClosePosition, Persist, Selling, NoPendingHash,
     SymbolBalance, ExitPass, NoSwap
<1>12. CASE ReadForSale
  BY <1>12, NoSwapType DEF ReadForSale, Selling, NoPendingHash, SymbolBalance, Swap, Fault,
     ExitPass, Smaller
<1>13. CASE CallSell
  BY <1>13, NoSwapType DEF CallSell, Refused, Broadcast, Fault, NoSwap
<1>14. CASE SaleFails
  BY <1>14, NoSwapType DEF SaleFails, AnswersError, Fault, NoSwap
<1>15. CASE LiquidationDone
  BY <1>15, NoSwapType DEF LiquidationDone, CloseSold, AnswersHash, ClosePosition, Persist, Fault, NoSwap
<1>16. CASE ExitHashKnown
  BY <1>16, NoSwapType DEF ExitHashKnown, AnswersHash, Fault, ExitPass
<1>17. CASE VerifyFails
  BY <1>17, NoSwapType DEF VerifyFails, Fault, NoSwap
<1>18. CASE CloseExit
  BY <1>18, NoSwapType DEF CloseExit, CloseSold, ClosePosition, Persist
<1>19. CASE RecordSale
  BY <1>19, NoSwapType DEF RecordSale, NoSwap
<1>20. CASE NoEntry
  BY <1>20, NoSwapType DEF NoEntry
<1>21. CASE EntryRaises
  BY <1>21, NoSwapType DEF EntryRaises, Die, NoSwap
<1>22. CASE ChooseEntry
  BY <1>22, NoSwapType DEF ChooseEntry, Swap
<1>23. CASE CallBuy
  BY <1>23, NoSwapType DEF CallBuy, Refused, Broadcast, Fault, NoSwap, LogFailure
<1>24. CASE BuyFails
  BY <1>24, NoSwapType DEF BuyFails, AnswersError, Fault, NoSwap, LogFailure
<1>25. CASE BuyHashKnown
  BY <1>25, NoSwapType DEF BuyHashKnown, AnswersHash, Fault
<1>26. CASE BookEntry
  BY <1>26, NoSwapType DEF BookEntry, OpenPosition, Persist, NoSwap
<1>27. CASE Mine
  BY <1>27, NoSwapType DEF Mine, Affordable
<1>28. CASE Revert
  BY <1>28, NoSwapType DEF Revert, Fault
<1>29. CASE OpenWindow
  BY <1>29, NoSwapType DEF OpenWindow
<1>30. CASE Crash
  BY <1>30, NoSwapType DEF Crash, Die, NoSwap, Fault, Alive
<1>31. CASE UNCHANGED vars
  BY <1>31 DEF vars
<1> QED
  BY <1>1, <1>2, <1>3, <1>4, <1>5, <1>6, <1>7, <1>8, <1>9, <1>10, <1>11, <1>12, <1>13, <1>14,
     <1>15, <1>16, <1>17, <1>18, <1>19, <1>20, <1>21, <1>22, <1>23, <1>24, <1>25, <1>26, <1>27,
     <1>28, <1>29, <1>30, <1>31 DEF Next, Agent

-----------------------------------------------------------------------------
(* The book and the wallet.                                                *)
LEMMA KillSame == left' = left => (ResiduesKill' <=> ResiduesKill)
BY DEF ResiduesKill

(* More residues are no less of a drawdown.                                *)
LEMMA KillGrows ==
    ASSUME left \in [Symbols -> Nat], ResiduesKill, NEW s \in Symbols, NEW n \in Nat,
           left' = [left EXCEPT ![s] = @ + n]
    PROVE  ResiduesKill'
<1> DEFINE u == Units(left)
           v == Units(left')
<1>1. u \in Nat /\ v \in Nat /\ v >= u
  <2>1. left' \in [Symbols -> Nat]
    OBVIOUS
  <2> QED
    BY <2>1, UnitsAreNat, UnitsGrow
<1>2. u * 100 >= KillPct * (Equity - u)
  BY DEF ResiduesKill
<1> HIDE DEF u, v
<1>3. Equity - v <= Equity - u /\ Equity - v \in Int /\ Equity - u \in Int
  BY <1>1, LifecycleAssumption
<1>4. KillPct \in Nat
  BY LifecycleAssumption
<1>5. /\ KillPct * (Equity - v) <= KillPct * (Equity - u)
      /\ KillPct * (Equity - v) \in Int /\ KillPct * (Equity - u) \in Int
  BY <1>3, <1>4, ProductGrows
<1>6. v * 100 >= KillPct * (Equity - v)
  BY <1>1, <1>2, <1>5
<1> QED
  BY <1>6 DEF ResiduesKill, v

(* A position closed as stale stays in the wallet, as a residue.           *)
LEMMA StaleIsLeft ==
    ASSUME TypeInv, NEW s \in Symbols, CloseStale(s), wallet = Held
    PROVE  Held' = Held /\ (ResiduesKill => ResiduesKill')
<1> USE DEF TypeInv, TypeOK
<1>1. Smaller(book[s], wallet[s]) = book[s]
  BY SmallerIsOne DEF Held
<1>2. book' = [book EXCEPT ![s] = 0] /\ left' = [left EXCEPT ![s] = @ + book[s]]
  BY <1>1 DEF CloseStale, ClosePosition, Persist
<1>3. Held' = Held
  BY <1>2 DEF Held
<1> QED
  BY <1>2, <1>3, KillGrows

(* The book after a sale, with what the sale kept back, is the wallet.     *)
LEMMA SoldIsHeld ==
    ASSUME TypeInv, CloseSold, cur.side = "sell", Described
    PROVE  Held' = AfterSwap /\ (ResiduesKill => ResiduesKill')
<1> USE DEF TypeInv, TypeOK, CurType
<1>1. book' = [book EXCEPT ![cur.sym] = 0] /\ left' = [left EXCEPT ![cur.sym] = @ + cur.kept]
  BY DEF CloseSold, ClosePosition, Persist
<1>2. book[cur.sym] + left[cur.sym] - cur.amt = left[cur.sym] + cur.kept
  BY DEF Described
<1>3. Held' = AfterSwap
  <2> DEFINE x == cur.sym
             after == [Held EXCEPT ![x] = @ - cur.amt]
  <2>1. /\ x \in Symbols /\ cur.kept \in Nat /\ cur.amt \in Nat
        /\ book \in [Symbols -> Nat] /\ left \in [Symbols -> Nat]
    OBVIOUS
  <2>2. AfterSwap = after
    BY DEF AfterSwap
  <2>3. book' = [book EXCEPT ![x] = 0] /\ left' = [left EXCEPT ![x] = @ + cur.kept]
    BY <1>1
  <2>4. book[x] + left[x] - cur.amt = left[x] + cur.kept
    BY <1>2
  <2> HIDE DEF x, TypeInv, TypeOK, CurType
  <2>5. ASSUME NEW r \in Symbols PROVE after[r] = book'[r] + left'[r]
    <3>1. book[r] \in Nat /\ left[r] \in Nat
      BY <2>1
    <3>2. Held[r] = book[r] + left[r]
      BY DEF Held
    <3>3. CASE r = x
      <4>1. after[r] = book[r] + left[r] - cur.amt
        BY <2>1, <3>2, <3>3 DEF Held
      <4>2. book'[r] = 0 /\ left'[r] = left[r] + cur.kept
        BY <2>1, <2>3, <3>3
      <4> HIDE DEF after
      <4> QED
        BY <2>1, <2>4, <3>1, <3>3, <4>1, <4>2
    <3>4. CASE r # x
      BY <2>1, <2>3, <3>1, <3>2, <3>4 DEF Held
    <3> QED
      BY <3>3, <3>4
  <2>6. after = [r \in Symbols |-> after[r]]
    BY DEF Held
  <2> HIDE DEF after
  <2>7. after = Held'
    BY <2>5, <2>6 DEF Held
  <2> QED
    BY <2>2, <2>7
<1> QED
  BY <1>1, <1>3, KillGrows

(* The book after a purchase is the wallet.                                *)
LEMMA BoughtIsHeld ==
    ASSUME TypeInv, OpenPosition(cur.sym), UNCHANGED left, cur.side = "buy", Described
    PROVE  Held' = AfterSwap
<1> USE DEF TypeInv, TypeOK, CurType
<1>1. book' = [book EXCEPT ![cur.sym] = Lot] /\ Lot \in Nat
  BY LifecycleAssumption DEF OpenPosition, Persist
<1>2. book[cur.sym] + left[cur.sym] + cur.amt = Lot + left[cur.sym]
  BY <1>1 DEF Described
<1> QED
  BY <1>1, <1>2 DEF Held, AfterSwap

(* Without a fault the portfolio is worth all but its residues, and a kill *)
(* is theirs.                                                              *)
LEMMA TrueValue ==
    ASSUME TypeInv, wallet = Held, ath <= Equity, Evaluate
    PROVE  ath' <= Equity /\ (latch' => latch \/ ResiduesKill)
                          /\ (pc' = "liquidate" \/ pc' = "exits")
<1> DEFINE u == Units(left)
           b == Units(book)
           v == PortfolioValue
<1> USE DEF TypeInv, TypeOK
<1>1. u \in Nat /\ b \in Nat /\ Units(wallet) = b + u
  BY UnitsAdd, UnitsAreNat DEF Held
<1>2. v = Equity - u /\ v \in Int /\ Equity \in Nat /\ KillPct \in Nat
  BY <1>1, LifecycleAssumption DEF PortfolioValue, Cash
<1> DEFINE a == IF v > ath THEN v ELSE ath
           killed == a > 0 /\ (a - v) * 100 >= KillPct * a
<1>3. ath' = a /\ latch' = (latch \/ killed) /\ pc' = IF killed THEN "liquidate" ELSE "exits"
  BY Zenon DEF Evaluate
<1> HIDE DEF u, b, v
<1>4. a \in Int /\ v <= a /\ a <= Equity
  <2>1. ath \in Nat /\ ath <= Equity
    OBVIOUS
  <2> HIDE DEF TypeInv, TypeOK
  <2> QED
    BY <1>1, <1>2, <2>1
<1>5. killed => ResiduesKill
  <2>1. KillPct * v <= KillPct * a /\ KillPct * v \in Int /\ KillPct * a \in Int
    <3> HIDE DEF a
    <3> QED
      BY <1>2, <1>4, ProductGrows
  <2>2. a - v <= u
    BY <1>1, <1>2, <1>4
  <2>3. killed => u * 100 >= KillPct * v
    <3> DEFINE k == KillPct * v
               m == KillPct * a
    <3>1. k <= m /\ k \in Int /\ m \in Int
      BY <2>1
    <3>2. killed => (a - v) * 100 >= m
      OBVIOUS
    <3> HIDE DEF a, k, m, killed
    <3>3. killed => u * 100 >= k
      BY <1>1, <1>2, <1>4, <2>2, <3>1, <3>2
    <3> QED
      BY <3>3 DEF k
  <2> HIDE DEF killed
  <2>4. v = Equity - Units(left)
    BY <1>2 DEF u
  <2> QED
    BY <2>3, <2>4 DEF ResiduesKill, u
<1>6. a <= Equity
  BY <1>4
<1> HIDE DEF a, killed
<1> QED
  BY <1>3, <1>5, <1>6

LEMMA WalletStep == TypeInv /\ FlowInv /\ Numbered /\ Stored /\ WalletInv /\ [Next]_vars
  => WalletInv'
<1> SUFFICES ASSUME TypeInv, FlowInv, Numbered, Stored, WalletInv, [Next]_vars PROVE WalletInv'
  OBVIOUS
<1> USE DEF WalletInv, Clean, BookIsWallet, TrueMark, Settled, SwapUnderWay, Described,
   AfterSwap, Resting, ExitSteps, ExitPass, SellSteps, Visits, SwapAt, FlowInv, Stored, Alive,
      OpenSymbols, Empty, TypeInv, TypeOK, CurType
<1>1. CASE Boot
  BY <1>1, HeldSame, KillSame, NoSwapType DEF Boot, Persist, Held
<1>2. CASE Reconcile
  <2>1. CASE Clean({"lost", "late", "crash", "readfail"})'
    <3>1. seen' = seen \/ seen' = seen \cup {"readfail"}
      BY <1>2 DEF Reconcile, Fault
    <3>2. seen' = seen
      BY <2>1, <3>1
    <3>3. PICK s \in todo : CloseStale(s) \/ UNCHANGED <<store, left>>
      BY <1>2 DEF Reconcile
    <3>4. s \in Symbols /\ book[s] > 0 /\ pc = "reconcile"
      BY <1>2, <3>3 DEF Reconcile
    <3>5. Settled /\ ~needsRec /\ TrueMark
      BY <2>1, <3>2, <3>4
    <3>6. Held' = Held /\ (ResiduesKill => ResiduesKill')
      BY <3>3, <3>4, <3>5, StaleIsLeft, HeldSame, KillSame
    <3>7. pc' = pc /\ UNCHANGED <<wallet, mempool, needsRec, ath, latch, cur>>
      BY <1>2 DEF Reconcile
    <3> HIDE DEF TypeInv, TypeOK, CurType, FlowInv
    <3> QED
      BY <3>2, <3>4, <3>5, <3>6, <3>7
  <2>2. CASE ~Clean({"lost", "late", "crash", "readfail"})'
    BY <2>2
  <2> QED
    BY <2>1, <2>2
<1>3. CASE ReconcileDone
  BY <1>3, HeldSame, KillSame, NoSwapType DEF ReconcileDone
<1>4. CASE BeginCycle
  BY <1>4, HeldSame, KillSame, NoSwapType DEF BeginCycle
<1>5. CASE LiquidationOver
  BY <1>5, HeldSame, KillSame, NoSwapType DEF LiquidationOver
<1>6. CASE Reconstruct
  <2>1. CASE Clean({"lost", "late", "crash", "readfail"})'
    <3>1. PICK skipped \in SUBSET Symbols :
            /\ IF skipped = {} THEN UNCHANGED bad ELSE Fault("readfail")
            /\ Persist([s \in Symbols |-> IF s \in {r \in Symbols \ skipped : wallet[r] > 0}
                                         THEN wallet[s] ELSE book[s]])
      BY <1>6 DEF Reconstruct
    <3>2. skipped = {} /\ seen' = seen
      BY <2>1, <3>1 DEF Fault
    <3>3. mempool = {} /\ book = Empty /\ left = Empty /\ TrueMark /\ pc = "value"
      BY <1>6, <2>1, <3>2 DEF Reconstruct
    <3>4. book' = wallet
      <4>1. book' = [s \in Symbols |-> IF wallet[s] > 0 THEN wallet[s] ELSE 0]
        BY <3>1, <3>2, <3>3 DEF Persist
      <4>2. \A s \in Symbols : wallet[s] \in Nat
        OBVIOUS
      <4>3. wallet = [s \in Symbols |-> wallet[s]]
        OBVIOUS
      <4> HIDE DEF TypeInv, TypeOK, FlowInv
      <4> QED
        BY <4>1, <4>2, <4>3
    <3>5. UNCHANGED <<wallet, mempool, ath, latch, pc, cur, left>> /\ needsRec' = FALSE
      BY <1>6 DEF Reconstruct
    <3>6. wallet' = Held'
      <4>1. \A s \in Symbols : wallet[s] \in Nat /\ left'[s] = 0
        BY <3>3, <3>5
      <4>2. Held' = [s \in Symbols |-> wallet[s]]
        BY <3>4, <4>1 DEF Held
      <4> QED
        BY <3>5, <4>2
    <3> HIDE DEF TypeInv, TypeOK, CurType, FlowInv
    <3> QED
      BY <3>2, <3>3, <3>5, <3>6, KillSame
  <2>2. CASE ~Clean({"lost", "late", "crash", "readfail"})'
    BY <2>2
  <2> QED
    BY <2>1, <2>2
<1>7. CASE Evaluate
  <2>1. CASE Clean({"lost", "late", "crash", "readfail"})
    <3>1. Settled /\ TrueMark /\ ~needsRec
      BY <1>7, <2>1 DEF Evaluate
    <3>2. ath' <= Equity /\ (latch' => latch \/ ResiduesKill)
      BY <1>7, <3>1, TrueValue
    <3>3. pc' \in {"liquidate", "exits"}
      BY <1>7, <3>1, TrueValue
    <3>4. UNCHANGED <<wallet, mempool, book, needsRec, cur, seen, left>>
      BY <1>7 DEF Evaluate
    <3> QED
      BY <3>1, <3>2, <3>3, <3>4, HeldSame, KillSame
  <2>2. CASE ~Clean({"lost", "late", "crash", "readfail"})
    BY <1>7, <2>2 DEF Evaluate
  <2> QED
    BY <2>1, <2>2
<1>8. CASE MonitorExits
  BY <1>8, HeldSame, KillSame, NoSwapType DEF MonitorExits, ExitPass
<1>9. CASE ExitsDone
  BY <1>9, HeldSame, KillSame, NoSwapType DEF ExitsDone, ExitPass
<1>10. CASE KeepPosition
  BY <1>10, HeldSame, KillSame, NoSwapType DEF KeepPosition, ExitPass
<1>11. CASE DropStale
  <2>1. CASE Clean({"lost", "late", "crash", "readfail"})
    <3>1. PICK s \in todo : CloseStale(s)
      BY <1>11 DEF DropStale
    <3>2. s \in Symbols /\ book[s] > 0 /\ pc \in ExitSteps
      BY <1>11, <3>1 DEF DropStale, Selling
    <3>3. Settled /\ ~needsRec /\ TrueMark
      BY <2>1, <3>2
    <3>4. Held' = Held /\ (ResiduesKill => ResiduesKill')
      BY <3>1, <3>2, <3>3, StaleIsLeft
    <3>5. UNCHANGED <<wallet, mempool, needsRec, ath, latch, pc, seen>>
      BY <1>11 DEF DropStale
    <3> HIDE DEF TypeInv, TypeOK, CurType, FlowInv
    <3> QED
      BY <3>2, <3>3, <3>4, <3>5
  <2>2. CASE ~Clean({"lost", "late", "crash", "readfail"})
    BY <1>11, <2>2 DEF DropStale
  <2> QED
    BY <2>1, <2>2
<1>12. CASE ReadForSale
  <2>1. CASE Clean({"lost", "late", "crash", "readfail"})'
    <3>1. PICK s \in todo, n \in Nat, m \in Nat :
            /\ cur' = Swap(s, "sell", n, m, pc)
            /\ book[s] <= wallet[s] => n + m = book[s]
      BY <1>12, SaleIsSized
    <3>2. s \in Symbols /\ book[s] > 0 /\ pc \in ExitSteps
      BY <1>12, <3>1 DEF ReadForSale, Selling
    <3>3. seen' = seen \/ seen' = seen \cup {"readfail"}
      BY <1>12 DEF ReadForSale, Fault
    <3>4. seen' = seen
      BY <2>1, <3>3
    <3>5. Settled /\ ~needsRec /\ TrueMark
      BY <2>1, <3>2, <3>4
    <3>6. n + m = book[s]
      <4>1. wallet[s] = book[s] + left[s] /\ left[s] \in Nat /\ book[s] \in Nat
        BY <3>2, <3>5 DEF Held
      <4> QED
        BY <3>1, <4>1
    <3>7. cur'.sym = s /\ cur'.side = "sell" /\ cur'.amt = n /\ cur'.kept = m
      BY <3>1 DEF Swap
    <3>8. pc' = "sell" /\ UNCHANGED <<wallet, mempool, needsRec, ath, latch, book, left>>
      BY <1>12 DEF ReadForSale
    <3>9. Described'
      BY <3>6, <3>7, <3>8
    <3> HIDE DEF TypeInv, TypeOK, CurType, FlowInv, Described
    <3> QED
      BY <3>4, <3>5, <3>8, <3>9, HeldSame, KillSame
  <2>2. CASE ~Clean({"lost", "late", "crash", "readfail"})'
    BY <2>2
  <2> QED
    BY <2>1, <2>2
<1>13. CASE CallSell
  <2>1. CASE Refused
    <3>1. cur' = NoSwap /\ UNCHANGED mempool /\ seen \subseteq seen'
      BY <2>1 DEF Refused, Fault
    <3>2. pc' \in Resting
      BY <1>13, <2>1 DEF CallSell, Refused, Broadcast
    <3>3. pc' # "gone" /\ pc' \notin {"down", "sell", "buy", "swapping", "verify", "bought"}
      BY <3>2
    <3> QED
      <4>1. UNCHANGED <<wallet, book, needsRec, ath, latch, left>>
        BY <1>13 DEF CallSell
      <4>2. CASE Clean({"lost", "late", "crash", "readfail"})
        <5>1. Settled /\ TrueMark /\ ~needsRec
          BY <1>13, <4>2 DEF CallSell
        <5> HIDE DEF TypeInv, TypeOK, CurType, FlowInv
        <5> QED
          BY <3>1, <3>2, <3>3, <4>1, <5>1, HeldSame, KillSame
      <4>3. CASE ~Clean({"lost", "late", "crash", "readfail"})
        BY <3>1, <4>3
      <4> QED
        BY <4>2, <4>3
  <2>2. CASE Broadcast
    <3>1. /\ pc' = "swapping" /\ seen' = seen /\ txs \in Nat
          /\ cur' = [cur EXCEPT !.tx = txs + 1]
      BY <2>2 DEF Broadcast
    <3>2. /\ cur'.sym = cur.sym /\ cur'.side = cur.side /\ cur'.amt = cur.amt
          /\ cur'.tx = txs + 1 /\ cur'.kept = cur.kept
      BY <3>1
    <3>3. CASE Clean({"lost", "late", "crash", "readfail"})
      <4>1. Settled /\ Described /\ ~needsRec /\ TrueMark
        BY <1>13, <3>3 DEF CallSell
      <4>2. \E t \in mempool' : mempool' = {t} /\ t.id = cur'.tx
        BY <2>2, <3>2, <4>1 DEF Broadcast
      <4>3. UNCHANGED <<wallet, book, needsRec, ath, latch, left>>
        BY <1>13 DEF CallSell
      <4> HIDE DEF TypeInv, TypeOK, CurType, FlowInv
      <4> QED
        BY <3>1, <3>2, <4>1, <4>2, <4>3, HeldSame, KillSame
    <3>4. CASE ~Clean({"lost", "late", "crash", "readfail"})
      BY <3>1, <3>4
    <3> QED
      BY <3>3, <3>4
  <2> QED
    BY <1>13, <2>1, <2>2 DEF CallSell
<1>14. CASE SaleFails
  <2>1. CASE Clean({"lost", "late", "crash", "readfail"})'
    <3>1. cur.failed /\ Clean({"lost", "late", "crash", "readfail"})
      BY <1>14, <2>1 DEF SaleFails, AnswersError, Fault
    <3>2. \A t \in mempool : t.id # cur.tx
      BY <3>1 DEF Numbered
    <3>3. Settled /\ ~needsRec /\ TrueMark
      BY <1>14, <3>1, <3>2 DEF SaleFails, AnswersError
    <3>4. /\ pc' \in Resting /\ cur' = NoSwap
          /\ pc' \notin {"gone", "down", "sell", "buy", "swapping", "verify", "bought"}
      BY <1>14 DEF SaleFails, AnswersError
    <3>5. UNCHANGED <<wallet, mempool, book, needsRec, ath, latch, left>>
      BY <1>14 DEF SaleFails
    <3> HIDE DEF TypeInv, TypeOK, CurType, FlowInv
    <3> QED
      BY <2>1, <3>3, <3>4, <3>5, HeldSame, KillSame
  <2>2. CASE ~Clean({"lost", "late", "crash", "readfail"})'
    BY <2>2
  <2> QED
    BY <2>1, <2>2
<1>15. CASE LiquidationDone
  <2>1. CASE Clean({"lost", "late", "crash", "readfail"})'
    <3>1. Clean({"lost", "late", "crash", "readfail"})
      BY <1>15, <2>1 DEF LiquidationDone, AnswersHash, Fault
    <3>2. mempool = {} /\ wallet = AfterSwap /\ Described /\ ~needsRec /\ TrueMark
      <4>1. pc = "swapping" /\ ~cur.failed /\ ~\E x \in mempool : x.id = cur.tx
        BY <1>15, <2>1 DEF LiquidationDone, AnswersHash, Fault
      <4> QED
        BY <3>1, <4>1
    <3>3. cur.side = "sell" /\ CloseSold
      BY <1>15 DEF LiquidationDone, AnswersHash
    <3>4. Held' = AfterSwap /\ (ResiduesKill => ResiduesKill')
      BY <3>2, <3>3, SoldIsHeld
    <3>5. pc' \in Resting /\ pc' \notin {"down", "sell", "buy", "swapping", "verify", "bought"}
      BY <1>15 DEF LiquidationDone
    <3>6. UNCHANGED <<wallet, mempool, needsRec, ath, latch>>
      BY <1>15 DEF LiquidationDone
    <3> HIDE DEF TypeInv, TypeOK, CurType, FlowInv, AfterSwap
    <3> QED
      BY <3>2, <3>4, <3>5, <3>6
  <2>2. CASE ~Clean({"lost", "late", "crash", "readfail"})'
    BY <2>2
  <2> QED
    BY <2>1, <2>2
<1>16. CASE ExitHashKnown
  BY <1>16, HeldSame, KillSame, NoSwapType DEF ExitHashKnown, AnswersHash, Fault, ExitPass
<1>17. CASE VerifyFails
  BY <1>17, HeldSame, KillSame, NoSwapType DEF VerifyFails, Fault, NoSwap
<1>18. CASE CloseExit
  <2>1. CASE Clean({"lost", "late", "crash", "readfail"})'
    <3>1. Clean({"lost", "late", "crash", "readfail"})
      BY <1>18, <2>1 DEF CloseExit, AnswersHash, Fault
    <3>2. mempool = {} /\ wallet = AfterSwap /\ Described /\ ~needsRec /\ TrueMark
      BY <1>18, <3>1 DEF CloseExit
    <3>3. cur.side = "sell" /\ CloseSold
      BY <1>18 DEF CloseExit
    <3>4. Held' = AfterSwap /\ (ResiduesKill => ResiduesKill')
      BY <3>2, <3>3, SoldIsHeld
    <3>5. pc' \in Resting /\ pc' \notin {"down", "sell", "buy", "swapping", "verify", "bought"}
      BY <1>18 DEF CloseExit
    <3>6. UNCHANGED <<wallet, mempool, needsRec, ath, latch>>
      BY <1>18 DEF CloseExit
    <3> HIDE DEF TypeInv, TypeOK, CurType, FlowInv, AfterSwap
    <3> QED
      BY <3>2, <3>4, <3>5, <3>6
  <2>2. CASE ~Clean({"lost", "late", "crash", "readfail"})'
    BY <2>2
  <2> QED
    BY <2>1, <2>2
<1>19. CASE RecordSale
  BY <1>19, HeldSame, KillSame, NoSwapType DEF RecordSale, NoSwap
<1>20. CASE NoEntry
  BY <1>20, HeldSame, KillSame, NoSwapType DEF NoEntry
<1>21. CASE EntryRaises
  <2>1. UNCHANGED <<wallet, mempool, file, disk, ath, latch, left, seen>> /\ pc = "entry"
    BY <1>21 DEF EntryRaises
  <2>2. pc' \in {"down", "gone"}
    BY <1>21 DEF EntryRaises, Die
  <2>3. CASE Clean({"lost", "late", "crash", "readfail"})
    <3>1. Settled /\ TrueMark /\ file = "ok" /\ book = disk
      BY <2>1, <2>3
    <3>2. wallet' = [s \in Symbols |-> disk'[s] + left'[s]]
      BY <2>1, <3>1 DEF Held
    <3> HIDE DEF TypeInv, TypeOK, CurType, FlowInv
    <3> QED
      BY <2>1, <2>2, <3>1, <3>2, KillSame
  <2>4. CASE ~Clean({"lost", "late", "crash", "readfail"})
    BY <2>1, <2>4
  <2> QED
    BY <2>3, <2>4
<1>22. CASE ChooseEntry
  BY <1>22, HeldSame, KillSame, NoSwapType DEF ChooseEntry, Swap
<1>23. CASE CallBuy
  <2>1. CASE Refused
    <3>1. cur' = NoSwap /\ UNCHANGED mempool /\ seen \subseteq seen'
      BY <2>1 DEF Refused, Fault
    <3>2. pc' \in Resting
      BY <1>23, <2>1 DEF CallBuy, Refused, Broadcast
    <3>3. pc' # "gone" /\ pc' \notin {"down", "sell", "buy", "swapping", "verify", "bought"}
      BY <3>2
    <3> QED
      <4>1. UNCHANGED <<wallet, book, needsRec, ath, latch, left>>
        BY <1>23 DEF CallBuy
      <4>2. CASE Clean({"lost", "late", "crash", "readfail"})
        <5>1. Settled /\ TrueMark /\ ~needsRec
          BY <1>23, <4>2 DEF CallBuy
        <5> HIDE DEF TypeInv, TypeOK, CurType, FlowInv
        <5> QED
          BY <3>1, <3>2, <3>3, <4>1, <5>1, HeldSame, KillSame
      <4>3. CASE ~Clean({"lost", "late", "crash", "readfail"})
        BY <3>1, <4>3
      <4> QED
        BY <4>2, <4>3
  <2>2. CASE Broadcast
    <3>1. /\ pc' = "swapping" /\ seen' = seen /\ txs \in Nat
          /\ cur' = [cur EXCEPT !.tx = txs + 1]
      BY <2>2 DEF Broadcast
    <3>2. /\ cur'.sym = cur.sym /\ cur'.side = cur.side /\ cur'.amt = cur.amt
          /\ cur'.tx = txs + 1 /\ cur'.kept = cur.kept
      BY <3>1
    <3>3. CASE Clean({"lost", "late", "crash", "readfail"})
      <4>1. Settled /\ Described /\ ~needsRec /\ TrueMark
        BY <1>23, <3>3 DEF CallBuy
      <4>2. \E t \in mempool' : mempool' = {t} /\ t.id = cur'.tx
        BY <2>2, <3>2, <4>1 DEF Broadcast
      <4>3. UNCHANGED <<wallet, book, needsRec, ath, latch, left>>
        BY <1>23 DEF CallBuy
      <4> HIDE DEF TypeInv, TypeOK, CurType, FlowInv
      <4> QED
        BY <3>1, <3>2, <4>1, <4>2, <4>3, HeldSame, KillSame
    <3>4. CASE ~Clean({"lost", "late", "crash", "readfail"})
      BY <3>1, <3>4
    <3> QED
      BY <3>3, <3>4
  <2> QED
    BY <1>23, <2>1, <2>2 DEF CallBuy
<1>24. CASE BuyFails
  <2>1. CASE Clean({"lost", "late", "crash", "readfail"})'
    <3>1. cur.failed /\ Clean({"lost", "late", "crash", "readfail"})
      BY <1>24, <2>1 DEF BuyFails, AnswersError, Fault
    <3>2. \A t \in mempool : t.id # cur.tx
      BY <3>1 DEF Numbered
    <3>3. Settled /\ ~needsRec /\ TrueMark
      BY <1>24, <3>1, <3>2 DEF BuyFails, AnswersError
    <3>4. /\ pc' \in Resting /\ cur' = NoSwap
          /\ pc' \notin {"gone", "down", "sell", "buy", "swapping", "verify", "bought"}
      BY <1>24 DEF BuyFails, AnswersError
    <3>5. UNCHANGED <<wallet, mempool, book, needsRec, ath, latch, left>>
      BY <1>24 DEF BuyFails
    <3> HIDE DEF TypeInv, TypeOK, CurType, FlowInv
    <3> QED
      BY <2>1, <3>3, <3>4, <3>5, HeldSame, KillSame
  <2>2. CASE ~Clean({"lost", "late", "crash", "readfail"})'
    BY <2>2
  <2> QED
    BY <2>1, <2>2
<1>25. CASE BuyHashKnown
  BY <1>25, HeldSame, KillSame, NoSwapType DEF BuyHashKnown, AnswersHash, Fault
<1>26. CASE BookEntry
  <2>1. CASE Clean({"lost", "late", "crash", "readfail"})
    <3>1. mempool = {} /\ wallet = AfterSwap /\ Described /\ ~needsRec /\ TrueMark
      BY <1>26, <2>1 DEF BookEntry
    <3>2. cur.side = "buy" /\ OpenPosition(cur.sym) /\ UNCHANGED left
      BY <1>26 DEF BookEntry
    <3>3. Held' = AfterSwap
      BY <3>1, <3>2, BoughtIsHeld
    <3>4. pc' = "top" /\ UNCHANGED <<wallet, mempool, needsRec, ath, latch>>
      BY <1>26 DEF BookEntry
    <3> HIDE DEF TypeInv, TypeOK, CurType, FlowInv, AfterSwap
    <3> QED
      BY <3>1, <3>2, <3>3, <3>4, KillSame
  <2>2. CASE ~Clean({"lost", "late", "crash", "readfail"})
    BY <1>26, <2>2 DEF BookEntry
  <2> QED
    BY <2>1, <2>2
<1>27. CASE Mine
  <2>1. PICK t \in mempool : /\ mempool' = mempool \ {t}
                             /\ wallet' = [wallet EXCEPT ![t.sym] = IF t.side = "buy" THEN @ + t.amt
                                                                  ELSE @ - t.amt]
    BY <1>27 DEF Mine
  <2>2. UNCHANGED <<book, left, disk, file, needsRec, ath, latch, pc, cur, seen>>
    BY <1>27 DEF Mine
  <2>3. CASE Clean({"lost", "late", "crash", "readfail"}) /\ pc \notin {"down", "gone"}
    <3>1. pc = "swapping" /\ SwapUnderWay /\ Described
      BY <2>1, <2>3 DEF Steps
    <3>2. mempool = {t} /\ t.id = cur.tx /\ wallet = Held
      BY <2>1, <3>1
    <3>3. t.side = cur.side /\ t.sym = cur.sym /\ t.amt = cur.amt /\ ~cur.failed
      BY <3>2 DEF Numbered, TxOf
    <3>4. wallet' = AfterSwap'
      BY <2>1, <2>2, <3>2, <3>3, HeldSame
    <3>5. mempool' = {}
      BY <2>1, <3>2
    <3> QED
      <4>1. Described' /\ TrueMark' /\ ~needsRec' /\ pc' = "swapping" /\ ~cur'.failed
        BY <2>2, <2>3, <3>1, <3>3, KillSame
      <4> HIDE DEF TypeInv, TypeOK, CurType, FlowInv, Described, TrueMark, AfterSwap
      <4> QED
        BY <3>4, <3>5, <4>1
  <2>4. CASE Clean({"lost", "late", "crash", "readfail"}) /\ pc \in {"down", "gone"}
    <3>1. pc = "down" => file = "torn"
      BY <2>1, <2>4
    <3>2. TrueMark'
      BY <2>2, <2>4, KillSame
    <3>3. pc' \in {"down", "gone"} /\ pc' = pc /\ file' = file
      BY <2>2, <2>4
    <3> HIDE DEF TypeInv, TypeOK, CurType, FlowInv, TrueMark
    <3> QED
      BY <3>1, <3>2, <3>3
  <2>5. CASE ~Clean({"lost", "late", "crash", "readfail"})
    BY <2>2, <2>5
  <2> QED
    BY <2>3, <2>4, <2>5
<1>28. CASE Revert
  BY <1>28, HeldSame, KillSame, NoSwapType DEF Revert, Fault
<1>29. CASE OpenWindow
  BY <1>29, HeldSame, KillSame, NoSwapType DEF OpenWindow
<1>30. CASE Crash
  BY <1>30, HeldSame, KillSame, NoSwapType DEF Crash, Die, NoSwap, Fault, Alive
<1>31. CASE UNCHANGED vars
  <2>1. UNCHANGED <<book, left>> /\ UNCHANGED <<wallet, mempool, disk, file, needsRec, ath, latch, pc, cur, seen>>
    BY <1>31 DEF vars
  <2> HIDE DEF TypeInv, TypeOK, CurType, FlowInv
  <2> QED
    BY <2>1, HeldSame, KillSame
<1> QED
  BY <1>1, <1>2, <1>3, <1>4, <1>5, <1>6, <1>7, <1>8, <1>9, <1>10, <1>11, <1>12, <1>13, <1>14,
     <1>15, <1>16, <1>17, <1>18, <1>19, <1>20, <1>21, <1>22, <1>23, <1>24, <1>25, <1>26, <1>27,
     <1>28, <1>29, <1>30, <1>31 DEF Next, Agent

-----------------------------------------------------------------------------
(* The sales not recorded yet.                                             *)
LEMMA SalesStep == TypeInv /\ FlowInv /\ Numbered /\ Stored /\ SalesInv /\ [Next]_vars
  => SalesInv'
<1> SUFFICES ASSUME TypeInv, FlowInv, Numbered, Stored, SalesInv, [Next]_vars PROVE SalesInv'
  OBVIOUS
<1> USE DEF SalesInv, Clean, SwapAt, FlowInv, Stored, Alive, ExitSteps, ExitPass, SellSteps,
   Numbered, TxOf, TypeInv, TypeOK, CurType, HistType
<1>1. CASE Boot
  BY <1>1, NoSwapType DEF Boot, Persist
<1>2. CASE Reconcile
  BY <1>2, NoSwapType DEF Reconcile, CloseStale, ClosePosition, Persist, Fault
<1>3. CASE ReconcileDone
  BY <1>3, NoSwapType DEF ReconcileDone
<1>4. CASE BeginCycle
  BY <1>4, NoSwapType DEF BeginCycle
<1>5. CASE LiquidationOver
  BY <1>5, NoSwapType DEF LiquidationOver
<1>6. CASE Reconstruct
  BY <1>6, NoSwapType DEF Reconstruct, Persist, Fault
<1>7. CASE Evaluate
  BY <1>7, NoSwapType DEF Evaluate
<1>8. CASE MonitorExits
  BY <1>8, NoSwapType DEF MonitorExits, ExitPass
<1>9. CASE ExitsDone
  BY <1>9, NoSwapType DEF ExitsDone, ExitPass
<1>10. CASE KeepPosition
  BY <1>10, NoSwapType DEF KeepPosition, ExitPass
<1>11. CASE DropStale
  BY <1>11, NoSwapType DEF DropStale, CloseStale, ClosePosition, Persist, Selling, NoPendingHash,
     SymbolBalance, ExitPass, NoSwap
<1>12. CASE ReadForSale
  BY <1>12, NoSwapType DEF ReadForSale, Selling, NoPendingHash, SymbolBalance, Swap, Fault,
     ExitPass, Smaller
<1>13. CASE CallSell
  BY <1>13, NoSwapType DEF CallSell, Refused, Broadcast, Fault, NoSwap
<1>14. CASE SaleFails
  BY <1>14, NoSwapType DEF SaleFails, AnswersError, Fault, NoSwap
<1>15. CASE LiquidationDone
  BY <1>15, NoSwapType DEF LiquidationDone, CloseSold, AnswersHash, ClosePosition, Persist, Fault, NoSwap
<1>16. CASE ExitHashKnown
  BY <1>16, NoSwapType DEF ExitHashKnown, AnswersHash, Fault, ExitPass
<1>17. CASE VerifyFails
  BY <1>17, NoSwapType DEF VerifyFails, Fault, NoSwap
<1>18. CASE CloseExit
  BY <1>18, NoSwapType DEF CloseExit, CloseSold, ClosePosition, Persist
<1>19. CASE RecordSale
  BY <1>19, NoSwapType DEF RecordSale, NoSwap
<1>20. CASE NoEntry
  BY <1>20, NoSwapType DEF NoEntry
<1>21. CASE EntryRaises
  BY <1>21, NoSwapType DEF EntryRaises, Die, NoSwap
<1>22. CASE ChooseEntry
  BY <1>22, NoSwapType DEF ChooseEntry, Swap
<1>23. CASE CallBuy
  BY <1>23, NoSwapType DEF CallBuy, Refused, Broadcast, Fault, NoSwap, LogFailure
<1>24. CASE BuyFails
  BY <1>24, NoSwapType DEF BuyFails, AnswersError, Fault, NoSwap, LogFailure
<1>25. CASE BuyHashKnown
  BY <1>25, NoSwapType DEF BuyHashKnown, AnswersHash, Fault
<1>26. CASE BookEntry
  BY <1>26, NoSwapType DEF BookEntry, OpenPosition, Persist, NoSwap
<1>27. CASE Mine
  BY <1>27, NoSwapType DEF Mine, Affordable
<1>28. CASE Revert
  BY <1>28, NoSwapType DEF Revert, Fault
<1>29. CASE OpenWindow
  BY <1>29, NoSwapType DEF OpenWindow
<1>30. CASE Crash
  BY <1>30, NoSwapType DEF Crash, Die, NoSwap, Fault, Alive
<1>31. CASE UNCHANGED vars
  BY <1>31 DEF vars
<1> QED
  BY <1>1, <1>2, <1>3, <1>4, <1>5, <1>6, <1>7, <1>8, <1>9, <1>10, <1>11, <1>12, <1>13, <1>14,
     <1>15, <1>16, <1>17, <1>18, <1>19, <1>20, <1>21, <1>22, <1>23, <1>24, <1>25, <1>26, <1>27,
     <1>28, <1>29, <1>30, <1>31 DEF Next, Agent

-----------------------------------------------------------------------------
(* The invariant holds.                                                    *)

LEMMA LifeInit == Init => LifeInv
<1> SUFFICES ASSUME Init PROVE LifeInv
  OBVIOUS
<1> USE DEF Init
<1>1. wallet \in [Symbols -> Nat]
  <2>1. Lot \in Nat /\ KeptBack(Lot) \in Nat
    BY LifecycleAssumption, KeepsBackLittle
  <2> QED
    BY <2>1
<1>2. Empty \in [Symbols -> Nat]
  BY DEF Empty
<1>3. TypeOK
  <2>1. /\ disk \in [Symbols -> Nat] /\ left \in [Symbols -> Nat]
        /\ book \in [Symbols -> Nat] /\ pendingExit \in [Symbols -> Nat]
    BY <1>1, <1>2, LifecycleAssumption
  <2>2. cur.sym \in Symbols /\ cur.tx \in 0 .. txs /\ faults \in 0 .. MaxFaults
    BY NoSwapType, LifecycleAssumption
  <2>3. pc \in Steps /\ file \in {"missing", "ok", "torn"} /\ txs \in Nat /\ ath \in Nat
    BY DEF Steps
  <2> QED
    BY <1>1, <2>1, <2>2, <2>3 DEF TypeOK
<1>4. HistType /\ CurType /\ LogType
  BY NoSwapType DEF HistType, CurType, LogType
<1>5. FlowInv
  BY NoSwapType DEF FlowInv, Visits, SwapAt, ExitSteps, ExitPass, SellSteps
<1>6. Numbered /\ Stored /\ HashKept
  BY DEF Numbered, Stored, Alive, HashKept
<1>7. WalletInv
  <2>1. file = "ok" => wallet = [s \in Symbols |-> disk[s] + left[s]]
    <3>1. SUFFICES ASSUME file = "ok" PROVE wallet = [s \in Symbols |-> disk[s] + left[s]]
      OBVIOUS
    <3>2. ASSUME NEW s \in Symbols PROVE wallet[s] = disk[s] + left[s]
      <4>1. wallet[s] \in Nat
        BY <1>1
      <4>2. CASE wallet[s] = Lot
        BY <3>1, <4>1, <4>2
      <4>3. CASE wallet[s] # Lot
        BY <3>1, <4>1, <4>3
      <4> QED
        BY <4>2, <4>3
    <3>3. wallet = [s \in Symbols |-> wallet[s]]
      BY <1>1
    <3> HIDE DEF Init
    <3> QED
      BY <3>2, <3>3
  <2>2. ath <= Equity
    BY LifecycleAssumption
  <2> QED
    BY <2>1, <2>2 DEF WalletInv, BookIsWallet, TrueMark, Resting, ExitSteps, ExitPass
<1>8. SalesInv
  BY DEF SalesInv
<1> QED
  BY <1>3, <1>4, <1>5, <1>6, <1>7, <1>8 DEF LifeInv, TypeInv

LEMMA LifeAlways == Spec => []LifeInv
<1>1. LifeInv /\ [Next]_vars => LifeInv'
  BY TypeStep, VisitsStep, SwapAtStep, NumberedStep, StoredStep, HashKeptStep, WalletStep,
     SalesStep
     DEF LifeInv, FlowInv
<1> QED
  BY LifeInit, <1>1, PTL DEF Spec

(* The chain, the store, the book and the flow of run_agent keep their     *)
(* types; a sale or purchase never asks for nothing.                       *)
THEOREM TypeCorrect == Spec => []TypeOK
<1>1. LifeInv => TypeOK
  BY DEF LifeInv, TypeInv
<1> QED
  BY <1>1, LifeAlways, PTL

(* PositionManager persists before it returns: in every state of a running *)
(* process, whatever crashes and torn writes came before, its book is what *)
(* the file says.                                                          *)
THEOREM BookStaysDurable == Spec => []BookIsDurable
<1>1. LifeInv => BookIsDurable
  BY DEF LifeInv, Stored, BookIsDurable
<1> QED
  BY <1>1, LifeAlways, PTL

(* No hash in _PENDING_EXIT_HASHES outlives the call that stored it, so    *)
(* that the idempotency check of _execute_position_exit never finds one.   *)
THEOREM HashesAlwaysCleared == Spec => []HashesCleared
<1>1. LifeInv => HashesCleared
  BY DEF LifeInv, HashKept, HashesCleared
<1> QED
  BY <1>1, LifeAlways, PTL

(* Refused swaps and reverted transactions never trip the kill switch of a *)
(* flat market, nor do sales answered truly and in time: the value that    *)
(* Guardrails.evaluate compares is the equity but for the residues of the  *)
(* sales, and a kill is theirs.                                            *)
THEOREM KillNeedsFault == Spec => []KillIsExplained
<1>1. LifeInv => KillIsExplained
  BY DEF LifeInv, WalletInv, Clean, TrueMark, ResiduesKill, KillIsExplained
<1> QED
  BY <1>1, LifeAlways, PTL

LEMMA ClaimWhenSettled ==
    ASSUME mempool = {}, NEW s \in Symbols, wallet[s] \in Nat
    PROVE  Claim(s) = wallet[s]
<1>1. Pending(s, "buy") = {} /\ Pending(s, "sell") = {}
  BY DEF Pending
<1>2. MapThenSumSet(LAMBDA t : t.amt, Pending(s, "buy")) = 0
  BY <1>1, NothingToSum
<1>3. MapThenSumSet(LAMBDA t : t.amt, Pending(s, "sell")) = 0
  BY <1>1, NothingToSum
<1> QED
  BY <1>2, <1>3 DEF Claim

(* Between cycles every token the wallet holds, or will hold, belongs to a *)
(* position or was left behind by one that was sold or dropped (the safety *)
(* factor and the dust floors of main.py), unless an answer was lost or    *)
(* late, a read failed or the process died.                                *)
THEOREM NoTokenIsStray == Spec => []NoStrayTokens
<1>1. ASSUME LifeInv PROVE NoStrayTokens
  <2>1. SUFFICES ASSUME pc = "top", ~needsRec, Clean({"lost", "late", "crash", "readfail"})
                 PROVE  \A s \in Symbols : Claim(s) <= book[s] + left[s]
    BY DEF NoStrayTokens, Clean
  <2>2. /\ mempool = {} /\ wallet = Held /\ wallet \in [Symbols -> Nat]
        /\ book \in [Symbols -> Nat] /\ left \in [Symbols -> Nat]
    BY <1>1, <2>1 DEF LifeInv, TypeInv, TypeOK, WalletInv, BookIsWallet, Resting, Settled
  <2>3. ASSUME NEW s \in Symbols PROVE Claim(s) <= book[s] + left[s]
    <3>1. wallet[s] \in Nat /\ wallet[s] = book[s] + left[s]
      BY <2>2 DEF Held
    <3> QED
      BY <2>2, <3>1, ClaimWhenSettled
  <2> QED
    BY <2>3
<1> QED
  BY <1>1, LifeAlways, PTL

(* A position that an exit has sold leaves the book through record_trade,  *)
(* so that its loss is counted, unless an answer was lost, a read failed   *)
(* or the process died; a late answer is no exception.                     *)
THEOREM ExitsAreRecorded == Spec => EveryExitIsRecorded
<1>1. ASSUME LifeInv, NEW s \in Symbols, pc \in ExitPass, s \in hist.sales
      PROVE  seen \cap {"lost", "crash", "readfail"} # {}
  <2>1. file = "ok"
    BY <1>1 DEF LifeInv, Stored, Alive, ExitPass
  <2> QED
    BY <1>1, <2>1 DEF LifeInv, SalesInv, Clean, ExitPass
<1>2. LifeInv /\ [Next]_vars =>
        [\A s \in Symbols :
            /\ pc \in ExitPass /\ Alive'
            /\ book[s] > 0 /\ book'[s] = 0
            /\ s \in hist.sales
            => seen \cap {"lost", "crash", "readfail"} # {}]_vars
  BY <1>1
<1> QED
  BY <1>2, LifeAlways, PTL DEF Spec, EveryExitIsRecorded
=============================================================================
