---------------------------- MODULE ChartProofs -----------------------------
(***************************************************************************)
(* What the charts show, for every tape, basis and price step: the trades  *)
(* a footprint was given are in their bars, and its points of control say  *)
(* of those bars what is so.  And for every book: a heatmap shows what was *)
(* seen of it, and boxes joined by size are where the runs are.            *)
(***************************************************************************)
EXTENDS Footprint, DepthHistory, FiniteSetTheorems, SequenceTheorems, WellFoundedInduction, TLAPS

-----------------------------------------------------------------------------
(* Every set of naturals that is not empty has a least element, and Min is *)
(* it.                                                                     *)
LEMMA LeastOfNat ==
  ASSUME NEW S, S \subseteq Nat, S # {}
  PROVE  Min(S) \in S /\ \A y \in S : Min(S) <= y
<1>1. PICK x \in S : \A y \in S : ~(<<y, x>> \in OpToRel(<, Nat))
  BY NatLessThanWellFounded, WFMin
<1>2. \A y \in S : ~(y < x)
  BY <1>1 DEF OpToRel
<1>3. \A y \in S : x <= y
  BY <1>2
<1> QED
  BY <1>3 DEF Min

(* Induction over a bounded set of naturals: what the library's induction  *)
(* theorems say of an operator, said here of a set.                        *)
LEMMA SetInduction ==
  ASSUME NEW n \in Nat, NEW S, 0 \in S,
         \A k \in 0 .. n - 1 : k \in S => k + 1 \in S
  PROVE  0 .. n \subseteq S
<1> DEFINE U == (0 .. n) \ S m == Min(U)
<1>1. ASSUME U # {}
      PROVE  FALSE
  <2>1. m \in U /\ \A k \in U : m <= k
    <3>1. U \subseteq Nat
      OBVIOUS
    <3> HIDE DEF U
    <3> QED
      BY <1>1, <3>1, LeastOfNat
  <2> HIDE DEF m
  <2>2. m # 0 /\ m - 1 \in 0 .. n - 1 /\ m = (m - 1) + 1
    BY <2>1
  <2>3. m - 1 \in S
    BY <2>1, <2>2
  <2> QED
    BY <2>1, <2>2, <2>3
<1> QED
  BY <1>1

(* W holds what Only has selected of each prefix, its recursion written    *)
(* out.                                                                    *)
IsSelection(W, seq, S) ==
  /\ W[0] = <<>>
  /\ \A i \in 1 .. Len(seq) :
       W[i] = W[i - 1] \o (IF seq[i] \in S THEN <<seq[i]>> ELSE <<>>)

(* The recursion of Only defines a function.                               *)
LEMMA OnlyDef ==
  ASSUME NEW seq, Len(seq) \in Nat, NEW S
  PROVE  \E W : IsSelection(W, seq, S) /\ Only(seq, S) = W[Len(seq)]
<1> DEFINE n == Len(seq)
           Take(w, i) == w \o (IF seq[i] \in S THEN <<seq[i]>> ELSE <<>>)
           Body(f, i) == IF i = 0 THEN <<>> ELSE Take(f[i - 1], i)
           Graph(f, k) == f = [i \in 0 .. k |-> Body(f, i)]
           T == {k \in 0 .. n : \E f : Graph(f, k)}
<1>0. n \in Nat
  OBVIOUS
<1>1. Only(seq, S) = (CHOOSE W : Graph(W, n))[n]
  BY DEF Only
<1>2. ASSUME NEW f, NEW i
      PROVE  Body(f, i) = IF i = 0 THEN <<>> ELSE Take(f[i - 1], i)
  OBVIOUS
<1> HIDE DEF Body, Take, n
<1>3. 0 \in T
  <2>1. [i \in 0 .. 0 |-> <<>>] = [i \in 0 .. 0 |-> Body([j \in 0 .. 0 |-> <<>>], i)]
    BY <1>2
  <2>2. \E f : Graph(f, 0)
    BY <2>1
  <2> QED
    BY <1>0, <2>2
<1>4. ASSUME NEW k \in 0 .. n - 1, k \in T
      PROVE  k + 1 \in T
  <2>1. PICK f : Graph(f, k)
    BY <1>4
  <2> DEFINE g == [i \in 0 .. k + 1 |-> IF i = k + 1 THEN Take(f[k], k + 1) ELSE f[i]]
  <2>2. \A i \in 0 .. k : g[i] = f[i]
    BY <1>0
  <2>3. g[k + 1] = Take(f[k], k + 1) /\ k + 1 # 0
    BY <1>0
  <2>4. ASSUME NEW i \in 0 .. k + 1
        PROVE  g[i] = Body(g, i)
    <3>1. CASE i = k + 1
      <4>1. g[i - 1] = f[k] /\ i # 0 /\ g[i] = Take(f[k], i)
        BY <1>0, <2>2, <2>3, <3>1
      <4> HIDE DEF g
      <4> QED
        BY <1>2, <4>1
    <3>2. CASE i # k + 1
      <4>1. i \in 0 .. k /\ (i # 0 => i - 1 \in 0 .. k)
        BY <1>0, <3>2
      <4>2. f[i] = IF i = 0 THEN <<>> ELSE Take(f[i - 1], i)
        BY <1>2, <2>1, <4>1
      <4> HIDE DEF g
      <4> QED
        BY <1>2, <2>2, <4>1, <4>2
    <3> QED
      BY <3>1, <3>2
  <2>5. Graph(g, k + 1)
    BY <2>4
  <2> HIDE DEF g, Graph
  <2>6. \E h : Graph(h, k + 1)
    BY <2>5
  <2> QED
    BY <1>0, <2>6
<1>5. n \in T
  <2> HIDE DEF T
  <2>1. 0 .. n \subseteq T
    BY <1>0, <1>3, <1>4, SetInduction
  <2> QED
    BY <1>0, <2>1
<1> DEFINE W == CHOOSE W : Graph(W, n)
<1>6. Graph(W, n)
  BY <1>5
<1> HIDE DEF W
<1>7. W[0] = <<>> /\ \A i \in 1 .. n : W[i] = Take(W[i - 1], i)
  BY <1>0, <1>2, <1>6
<1>8. IsSelection(W, seq, S)
  BY <1>7 DEF IsSelection, n, Take
<1> QED
  BY <1>1, <1>8 DEF W, n

(* What Only returns has the elements of the sequence that are in the set, *)
(* and no others.                                                          *)
LEMMA OnlySelects ==
  ASSUME NEW T, NEW seq \in Seq(T), NEW S
  PROVE  /\ Only(seq, S) \in Seq(T)
         /\ \A x : x \in ToSet(Only(seq, S)) <=> x \in ToSet(seq) /\ x \in S
         /\ Only(seq, S) = <<>> <=> \A i \in DOMAIN seq : seq[i] \notin S
<1> DEFINE n == Len(seq)
<1>1. n \in Nat /\ DOMAIN seq = 1 .. n
  OBVIOUS
<1>2. PICK W : IsSelection(W, seq, S) /\ Only(seq, S) = W[n]
  BY <1>1, OnlyDef
<1> DEFINE Upto(k, x) == \E i \in 1 .. k : seq[i] = x
           Right(w, k) == /\ w \in Seq(T)
                          /\ \A x : x \in ToSet(w) <=> Upto(k, x) /\ x \in S
           D == {k \in 0 .. n : Right(W[k], k)}
<1>3. 0 \in D
  <2>1. W[0] = <<>> /\ \A x : ~Upto(0, x) /\ x \notin ToSet(W[0])
    BY <1>2 DEF IsSelection, ToSet
  <2>2. Right(W[0], 0)
    BY <2>1
  <2> HIDE DEF Right
  <2> QED
    BY <1>1, <2>2
<1>4. ASSUME NEW k \in 0 .. n - 1, k \in D
      PROVE  k + 1 \in D
  <2>1. /\ k + 1 \in 1 .. n /\ (k + 1) - 1 = k
        /\ seq[k + 1] \in T
    BY <1>1
  <2>2. ASSUME NEW x
        PROVE  Upto(k + 1, x) <=> Upto(k, x) \/ seq[k + 1] = x
    BY <1>1
  <2> DEFINE w == W[k] v == W[k + 1] e == seq[k + 1]
  <2>3. w \in Seq(T) /\ (\A x : x \in ToSet(w) <=> Upto(k, x) /\ x \in S) /\ e \in T
    BY <1>4, <2>1
  <2>4. v = IF e \in S THEN Append(w, e) ELSE w
    <3>1. W[k + 1] = W[(k + 1) - 1] \o (IF seq[k + 1] \in S THEN <<seq[k + 1]>> ELSE <<>>)
      BY <1>2, <2>1 DEF IsSelection
    <3>2. v = w \o (IF e \in S THEN <<e>> ELSE <<>>)
      BY <2>1, <3>1
    <3> HIDE DEF w, v, e
    <3> QED
      BY <2>3, <3>2
  <2> HIDE DEF w, v, e, Upto
  <2>5. v \in Seq(T)
    BY <2>3, <2>4
  <2>6. ASSUME NEW x
        PROVE  x \in ToSet(Append(w, e)) <=> x \in ToSet(w) \/ x = e
    <3>1. /\ DOMAIN Append(w, e) = 1 .. Len(w) + 1 /\ DOMAIN w = 1 .. Len(w) /\ Len(w) \in Nat
          /\ Append(w, e)[Len(w) + 1] = e
          /\ \A i \in 1 .. Len(w) : Append(w, e)[i] = w[i]
      BY <2>3
    <3> QED
      BY <3>1 DEF ToSet
  <2>7. ASSUME NEW x
        PROVE  x \in ToSet(v) <=> Upto(k + 1, x) /\ x \in S
    <3>1. Upto(k + 1, x) <=> Upto(k, x) \/ e = x
      BY <2>2 DEF e
    <3> QED
      BY <2>3, <2>4, <2>6, <3>1
  <2>8. Right(v, k + 1)
    BY <2>5, <2>7
  <2> HIDE DEF Right
  <2> QED
    BY <1>1, <2>8 DEF v
<1>5. Right(W[n], n)
  <2> HIDE DEF D
  <2>1. 0 .. n \subseteq D
    BY <1>1, <1>3, <1>4, SetInduction
  <2> QED
    BY <1>1, <2>1 DEF D
<1>6. ASSUME NEW x
      PROVE  x \in ToSet(seq) <=> Upto(n, x)
  BY <1>1 DEF ToSet
<1> DEFINE w == W[n]
<1>7. w \in Seq(T) /\ \A x : x \in ToSet(w) <=> x \in ToSet(seq) /\ x \in S
  BY <1>5, <1>6
<1>8. w = <<>> <=> \A i \in DOMAIN seq : seq[i] \notin S
  <2> HIDE DEF w
  <2>1. w = <<>> <=> ToSet(w) = {}
    BY <1>7 DEF ToSet
  <2>2. ToSet(w) = {} <=> \A i \in DOMAIN seq : seq[i] \notin S
    BY <1>7 DEF ToSet
  <2> QED
    BY <2>1, <2>2
<1> QED
  BY <1>2, <1>7, <1>8
-----------------------------------------------------------------------------
(* What a bar and a chart always are, with trades of the first N only, and *)
(* what of them holds between two calls only.                              *)
WellFormed(bar, N) ==
  /\ bar = [low |-> bar.low, high |-> bar.high, trades |-> bar.trades, poc |-> bar.poc]
  /\ bar.low \in Int /\ bar.high \in Int /\ bar.low <= bar.high
  /\ bar.trades \in Seq(1 .. N)
  /\ bar.poc # NoPoc => bar.poc = [price |-> bar.poc.price, status |-> bar.poc.status]

(* Every bar of a chart is well formed.                                    *)
BarsWellFormed(bars, N) ==
  /\ bars = [k \in DOMAIN bars |-> bars[k]]
  /\ \A k \in DOMAIN bars : WellFormed(bars[k], N)

(* The types of a chart, as the steps of its proofs use them.              *)
SoundChart(c, N) ==
  /\ c = [basis |-> c.basis, step |-> c.step, bars |-> c.bars, raw |-> c.raw]
  /\ c.basis \in Bases /\ c.step \in Steps /\ c.raw \in Seq(1 .. N)
  /\ BarsWellFormed(c.bars, N)
  /\ ~OfTime(c) => c.bars \in Seq({c.bars[k] : k \in DOMAIN c.bars})

(* A bar with trades has a point of control, and only such a bar.          *)
PocsAreSet(c) ==
  \A k \in DOMAIN c.bars : c.bars[k].trades # <<>> <=> c.bars[k].poc # NoPoc

(* Points of control are at a busiest price, and their status is so.       *)
PricesAreTrue(c) ==
  \A k \in DOMAIN c.bars :
    c.bars[k].poc # NoPoc => c.bars[k].poc.price = BusiestPrice(c, c.bars[k].trades)

(* A point of control is marked untested, or with what became of it.       *)
StatusesAreTrue(c) ==
  \A k \in DOMAIN c.bars :
    c.bars[k].poc # NoPoc => c.bars[k].poc.status \in {Untested, StatusIn(c, k)}

(* Two charts with the same bars but for their trades and points of        *)
(* control.                                                                *)
SameRanges(c, e) ==
  /\ e.basis = c.basis /\ e.step = c.step
  /\ DOMAIN e.bars = DOMAIN c.bars
  /\ \A k \in DOMAIN c.bars : e.bars[k].low = c.bars[k].low /\ e.bars[k].high = c.bars[k].high

(* The busiest price depends on nothing of a chart but its step.           *)
LEMMA BusiestSame ==
  ASSUME NEW c, NEW e, e.step = c.step, NEW ts
  PROVE  BusiestPrice(e, ts) = BusiestPrice(c, ts)
<1>1. \A p : ToStep(e, p) = ToStep(c, p)
  BY DEF ToStep
<1>2. Prices(e, ts) = Prices(c, ts)
  BY <1>1 DEF Prices
<1>3. ASSUME NEW p
      PROVE  TradesAt(e, ts, p) = TradesAt(c, ts, p)
  <2>1. {j \in DOMAIN ts : ToStep(e, PriceOf(ts[j])) = p} = {j \in DOMAIN ts : ToStep(c, PriceOf(ts[j])) = p}
    BY <1>1
  <2> QED
    BY <2>1 DEF TradesAt
<1> DEFINE P == Prices(c, ts)
           most(d) == Max({TradesAt(d, ts, p) : p \in P})
           busiest(d) == {p \in P : TradesAt(d, ts, p) = most(d)}
<1>4. {TradesAt(e, ts, p) : p \in P} = {TradesAt(c, ts, p) : p \in P}
  BY <1>3
<1>5. most(e) = most(c)
  BY <1>4
<1> HIDE DEF most
<1>6. busiest(e) = busiest(c)
  BY <1>3, <1>5
<1>7. /\ BusiestPrice(e, ts) = IF tie = "low" THEN Min(busiest(e)) ELSE Max(busiest(e))
      /\ BusiestPrice(c, ts) = IF tie = "low" THEN Min(busiest(c)) ELSE Max(busiest(c))
  BY <1>2 DEF BusiestPrice, most
<1> HIDE DEF busiest
<1> QED
  BY <1>6, <1>7

(* The status of a point of control depends on its price and on the ranges *)
(* of the bars.                                                            *)
LEMMA StatusSame ==
  ASSUME NEW c, NEW e, SameRanges(c, e), Len(e.bars) = Len(c.bars) \/ OfTime(c),
         NEW k \in DOMAIN c.bars, e.bars[k].poc.price = c.bars[k].poc.price
  PROVE  StatusIn(e, k) = StatusIn(c, k)
<1> DEFINE later == {l \in DOMAIN c.bars : l > k}
           fill(d) == {l \in later : Reaches(d, d.bars[l], d.bars[k].poc.price)}
<1>1. \A l \in DOMAIN c.bars : \A p : Reaches(e, e.bars[l], p) <=> Reaches(c, c.bars[l], p)
  BY DEF Reaches, SameRanges, RoundedDown, RoundedUp
<1>2. fill(e) = fill(c)
  BY <1>1
<1>3. OfTime(e) <=> OfTime(c)
  BY DEF OfTime, SameRanges
<1>4. StatusIn(c, k) = CASE later = {} -> Untested
                         [] later # {} /\ fill(c) = {} -> Naked
                         [] fill(c) # {} -> IF OfTime(c) THEN Min(fill(c)) ELSE Len(c.bars) - Min(fill(c))
  BY DEF StatusIn
<1>5. StatusIn(e, k) = CASE later = {} -> Untested
                         [] later # {} /\ fill(e) = {} -> Naked
                         [] fill(e) # {} -> IF OfTime(e) THEN Min(fill(e)) ELSE Len(e.bars) - Min(fill(e))
  BY DEF StatusIn, SameRanges
<1> HIDE DEF fill, later
<1> QED
  BY <1>2, <1>3, <1>4, <1>5

(* calculate_poc sets the point of control and changes nothing else.       *)
LEMMA PocCalculated ==
  ASSUME NEW c, NEW N, NEW bar, WellFormed(bar, N)
  PROVE  LET b == CalculatePoc(c, bar)
         IN /\ WellFormed(b, N)
            /\ b.low = bar.low /\ b.high = bar.high /\ b.trades = bar.trades
            /\ b.poc # NoPoc
            /\ b.poc.price = BusiestPrice(c, bar.trades) /\ b.poc.status = Untested
<1> DEFINE p == [price |-> BusiestPrice(c, bar.trades), status |-> Untested]
           b == CalculatePoc(c, bar)
<1>1. p.price = BusiestPrice(c, bar.trades) /\ p.status = Untested /\ p = [price |-> p.price, status |-> p.status]
  OBVIOUS
<1>2. p # NoPoc
  BY DEF NoPoc
<1>3. b = [bar EXCEPT !.poc = p]
  BY DEF CalculatePoc
<1> HIDE DEF p, b
<1>4. b = [low |-> bar.low, high |-> bar.high, trades |-> bar.trades, poc |-> p]
  BY <1>3 DEF WellFormed
<1>5. b.low = bar.low /\ b.high = bar.high /\ b.trades = bar.trades /\ b.poc = p
  BY <1>4
<1>6. WellFormed(b, N)
  BY <1>1, <1>4, <1>5 DEF WellFormed
<1> QED
  BY <1>1, <1>2, <1>5, <1>6 DEF b
(* A chart whose bars are exchanged for others: what is a record stays     *)
(* one.                                                                    *)
LEMMA BarsExchanged ==
  ASSUME NEW c, NEW N, SoundChart(c, N), NEW bars
  PROVE  LET e == [c EXCEPT !.bars = bars]
         IN /\ e = [basis |-> c.basis, step |-> c.step, bars |-> bars, raw |-> c.raw]
            /\ e.basis = c.basis /\ e.step = c.step /\ e.bars = bars /\ e.raw = c.raw
            /\ OfTime(e) <=> OfTime(c)
<1> DEFINE e == [c EXCEPT !.bars = bars]
<1>1. e = [basis |-> c.basis, step |-> c.step, bars |-> bars, raw |-> c.raw]
  BY DEF SoundChart
<1>2. e.basis = c.basis /\ e.step = c.step /\ e.bars = bars /\ e.raw = c.raw
  BY <1>1
<1> HIDE DEF e
<1> QED
  BY <1>1, <1>2 DEF e, OfTime

(* Other bars at the same places leave a sound chart.                      *)
LEMMA PlacesKept ==
  ASSUME NEW c, NEW N, SoundChart(c, N), NEW bars, BarsWellFormed(bars, N),
         DOMAIN bars = DOMAIN c.bars
  PROVE  /\ SoundChart([c EXCEPT !.bars = bars], N)
         /\ Len(bars) = Len(c.bars) \/ OfTime(c)
<1> DEFINE e == [c EXCEPT !.bars = bars]
<1>1. /\ e = [basis |-> c.basis, step |-> c.step, bars |-> bars, raw |-> c.raw]
      /\ e.basis = c.basis /\ e.step = c.step /\ e.bars = bars /\ e.raw = c.raw
      /\ OfTime(e) <=> OfTime(c)
  BY BarsExchanged
<1> HIDE DEF e
<1>2. ASSUME ~OfTime(c)
      PROVE  bars \in Seq({bars[k] : k \in DOMAIN bars}) /\ Len(bars) = Len(c.bars)
  <2>1. Len(c.bars) \in Nat /\ DOMAIN bars = 1 .. Len(c.bars)
    BY <1>2 DEF SoundChart
  <2> DEFINE n == Len(c.bars) V == {bars[k] : k \in DOMAIN bars}
  <2>2. bars \in [1 .. n -> V]
    BY <2>1 DEF BarsWellFormed
  <2> HIDE DEF V
  <2> QED
    BY <2>1, <2>2 DEF V
<1> QED
  BY <1>1, <1>2 DEF SoundChart, e

(* update_poc_status: the status becomes so, and nothing else changes.     *)
LEMMA StatusUpdated ==
  ASSUME NEW c, NEW N, SoundChart(c, N)
  PROVE  LET e == UpdatePocStatus(c)
         IN /\ SoundChart(e, N) /\ SameRanges(c, e) /\ e.raw = c.raw
            /\ Len(e.bars) = Len(c.bars) \/ OfTime(c)
            /\ \A k \in DOMAIN c.bars :
                 /\ e.bars[k].trades = c.bars[k].trades
                 /\ e.bars[k].poc = NoPoc <=> c.bars[k].poc = NoPoc
            /\ StatusesAreTrue(e)
            /\ PricesAreTrue(c) => PricesAreTrue(e)
<1> DEFINE tested(k) == IF c.bars[k].poc = NoPoc THEN c.bars[k]
                        ELSE [c.bars[k] EXCEPT !.poc.status = StatusIn(c, k)]
           bars == [k \in DOMAIN c.bars |-> tested(k)]
           e == UpdatePocStatus(c)
<1>1. e = [c EXCEPT !.bars = bars]
  BY DEF UpdatePocStatus
<1>2. ASSUME NEW k \in DOMAIN c.bars
      PROVE  LET b == tested(k)
             IN /\ WellFormed(b, N) /\ b.low = c.bars[k].low /\ b.high = c.bars[k].high
                /\ b.trades = c.bars[k].trades
                /\ b.poc = NoPoc <=> c.bars[k].poc = NoPoc
                /\ b.poc # NoPoc => b.poc.price = c.bars[k].poc.price /\ b.poc.status = StatusIn(c, k)
  <2> DEFINE bar == c.bars[k] s == StatusIn(c, k)
  <2>1. WellFormed(bar, N)
    BY DEF SoundChart, BarsWellFormed
  <2>2. CASE bar.poc = NoPoc
    BY <2>1, <2>2
  <2>3. CASE bar.poc # NoPoc
    <3> DEFINE p == [bar.poc EXCEPT !.status = s]
               b == [bar EXCEPT !.poc = p]
    <3>1. tested(k) = b
      BY <2>3
    <3> HIDE DEF bar, s, tested
    <3>2. p = [price |-> bar.poc.price, status |-> s]
      BY <2>1, <2>3 DEF WellFormed
    <3>3. p.price = bar.poc.price /\ p.status = s /\ p # NoPoc
      BY <3>2 DEF NoPoc
    <3> HIDE DEF p
    <3>4. b = [low |-> bar.low, high |-> bar.high, trades |-> bar.trades, poc |-> p]
      BY <2>1 DEF WellFormed
    <3>5. b.low = bar.low /\ b.high = bar.high /\ b.trades = bar.trades /\ b.poc = p
      BY <3>4
    <3> HIDE DEF b
    <3>6. p = [price |-> p.price, status |-> p.status]
      BY <3>2, <3>3
    <3>7. WellFormed(b, N)
      BY <2>1, <3>4, <3>5, <3>6 DEF WellFormed
    <3> QED
      BY <2>3, <3>1, <3>3, <3>5, <3>7 DEF bar, s
  <2> QED
    BY <2>2, <2>3
<1> HIDE DEF tested
<1>3. BarsWellFormed(bars, N) /\ DOMAIN bars = DOMAIN c.bars
  BY <1>2 DEF BarsWellFormed
<1>4. /\ e.basis = c.basis /\ e.step = c.step /\ e.bars = bars /\ e.raw = c.raw
      /\ OfTime(e) <=> OfTime(c)
  <2> HIDE DEF bars, e
  <2> QED
    BY <1>1, BarsExchanged
<1>5. SoundChart(e, N) /\ (Len(bars) = Len(c.bars) \/ OfTime(c))
  BY <1>1, <1>3, PlacesKept
<1>6. ASSUME NEW k \in DOMAIN c.bars
      PROVE  bars[k] = tested(k)
  OBVIOUS
<1> HIDE DEF bars, e
<1>7. SameRanges(c, e)
  BY <1>2, <1>3, <1>4, <1>6 DEF SameRanges
<1>8. StatusesAreTrue(e)
  <2> SUFFICES ASSUME NEW k \in DOMAIN c.bars, bars[k].poc # NoPoc
               PROVE  bars[k].poc.status = StatusIn(e, k)
    BY <1>3, <1>4 DEF StatusesAreTrue
  <2>1. bars[k].poc.price = c.bars[k].poc.price /\ bars[k].poc.status = StatusIn(c, k)
    BY <1>2, <1>6
  <2> QED
    BY <1>4, <1>5, <1>7, <2>1, StatusSame
<1>9. ASSUME PricesAreTrue(c)
      PROVE  PricesAreTrue(e)
  <2> SUFFICES ASSUME NEW k \in DOMAIN c.bars, bars[k].poc # NoPoc
               PROVE  bars[k].poc.price = BusiestPrice(e, bars[k].trades)
    BY <1>3, <1>4 DEF PricesAreTrue
  <2>1. /\ bars[k].poc.price = c.bars[k].poc.price /\ c.bars[k].poc # NoPoc
        /\ bars[k].trades = c.bars[k].trades
    BY <1>2, <1>6
  <2>2. c.bars[k].poc.price = BusiestPrice(c, c.bars[k].trades)
    BY <1>9, <2>1 DEF PricesAreTrue
  <2>3. BusiestPrice(e, c.bars[k].trades) = BusiestPrice(c, c.bars[k].trades)
    BY <1>4, BusiestSame
  <2> QED
    BY <2>1, <2>2, <2>3
<1> QED
  BY <1>2, <1>3, <1>4, <1>5, <1>6, <1>7, <1>8, <1>9 DEF e
-----------------------------------------------------------------------------
(* Trades into bars of time.                                               *)

(* The trades of one bar, among some.                                      *)
LEMMA TradesOfOne ==
  ASSUME NEW c, NEW N, NEW ts \in Seq(1 .. N), NEW k
  PROVE  /\ TradesOf(c, ts, k) \in Seq(1 .. N)
         /\ \A i : i \in ToSet(TradesOf(c, ts, k)) <=> i \in ToSet(ts) /\ BucketOf(c, i) = k
         /\ TradesOf(c, ts, k) = <<>> <=> \A j \in DOMAIN ts : BucketOf(c, ts[j]) # k
<1> DEFINE S == {i \in ToSet(ts) : BucketOf(c, i) = k}
<1>1. TradesOf(c, ts, k) = Only(ts, S)
  BY DEF TradesOf
<1>2. /\ \A i : i \in S <=> i \in ToSet(ts) /\ BucketOf(c, i) = k
      /\ \A j \in DOMAIN ts : ts[j] \in ToSet(ts)
  BY DEF ToSet
<1> HIDE DEF S
<1>3. /\ Only(ts, S) \in Seq(1 .. N)
      /\ \A x : x \in ToSet(Only(ts, S)) <=> x \in ToSet(ts) /\ x \in S
      /\ Only(ts, S) = <<>> <=> \A j \in DOMAIN ts : ts[j] \notin S
  BY OnlySelects
<1> QED
  BY <1>1, <1>2, <1>3

(* The elements of two sequences, one after the other.                     *)
LEMMA Joined ==
  ASSUME NEW T, NEW a \in Seq(T), NEW b \in Seq(T)
  PROVE  /\ a \o b \in Seq(T)
         /\ \A x : x \in ToSet(a \o b) <=> x \in ToSet(a) \/ x \in ToSet(b)
         /\ a \o b = <<>> <=> a = <<>> /\ b = <<>>
<1> DEFINE m == Len(a) n == Len(b) s == a \o b
<1>1. /\ m \in Nat /\ n \in Nat /\ DOMAIN a = 1 .. m /\ DOMAIN b = 1 .. n /\ DOMAIN s = 1 .. m + n
      /\ s \in Seq(T) /\ Len(s) = m + n
      /\ \A j \in 1 .. m : s[j] = a[j]
      /\ \A j \in m + 1 .. m + n : s[j] = b[j - m]
  OBVIOUS
<1> HIDE DEF s, m, n
<1>2. ASSUME NEW x
      PROVE  x \in ToSet(s) <=> x \in ToSet(a) \/ x \in ToSet(b)
  <2>1. ASSUME x \in ToSet(s)
        PROVE  x \in ToSet(a) \/ x \in ToSet(b)
    <3>1. PICK j \in 1 .. m + n : x = s[j]
      BY <1>1, <2>1 DEF ToSet
    <3>2. CASE j \in 1 .. m
      BY <1>1, <3>1, <3>2 DEF ToSet
    <3>3. CASE j \notin 1 .. m
      <4>1. j \in m + 1 .. m + n /\ j - m \in 1 .. n
        BY <1>1, <3>1, <3>3
      <4> QED
        BY <1>1, <3>1, <4>1 DEF ToSet
    <3> QED
      BY <3>2, <3>3
  <2>2. ASSUME x \in ToSet(a)
        PROVE  x \in ToSet(s)
    BY <1>1, <2>2 DEF ToSet
  <2>3. ASSUME x \in ToSet(b)
        PROVE  x \in ToSet(s)
    <3>1. PICK j \in 1 .. n : x = b[j]
      BY <1>1, <2>3 DEF ToSet
    <3>2. m + j \in m + 1 .. m + n /\ (m + j) - m = j /\ m + j \in 1 .. m + n
      BY <1>1
    <3>3. s[m + j] = b[j]
      BY <1>1, <3>2
    <3> QED
      BY <1>1, <3>1, <3>2, <3>3 DEF ToSet
  <2> QED
    BY <2>1, <2>2, <2>3
<1>3. s = <<>> <=> a = <<>> /\ b = <<>>
  <2>1. (s = <<>> <=> m + n = 0) /\ (a = <<>> <=> m = 0) /\ (b = <<>> <=> n = 0)
    BY <1>1 DEF m, n
  <2> QED
    BY <1>1, <2>1
<1> QED
  BY <1>1, <1>2, <1>3 DEF s

(* insert_trades_existing_buckets: each bar takes its trades, and where it *)
(* took some its point of control is set anew.                             *)
LEMMA TradesInserted ==
  ASSUME NEW c, NEW N, SoundChart(c, N), NEW ts \in Seq(1 .. N)
  PROVE  LET e == IntoExistingBars(c, ts)
         IN /\ SoundChart(e, N) /\ SameRanges(c, e) /\ e.raw = c.raw
            /\ \A k \in DOMAIN c.bars : \A i :
                 i \in ToSet(e.bars[k].trades) <=>
                   i \in ToSet(c.bars[k].trades) \/ (i \in ToSet(ts) /\ BucketOf(c, i) = k)
            /\ PocsAreSet(c) => PocsAreSet(e)
            /\ PricesAreTrue(c) => PricesAreTrue(e)
            /\ StatusesAreTrue(c) => StatusesAreTrue(e)
<1> DEFINE mine(k)  == TradesOf(c, ts, k)
           more(k)  == [c.bars[k] EXCEPT !.trades = @ \o mine(k)]
           added(k) == IF mine(k) = <<>> THEN c.bars[k] ELSE CalculatePoc(c, more(k))
           bars == [k \in DOMAIN c.bars |-> added(k)]
           e == IntoExistingBars(c, ts)
<1>1. e = [c EXCEPT !.bars = bars]
  BY DEF IntoExistingBars
<1>2. ASSUME NEW k \in DOMAIN c.bars
      PROVE  LET b == added(k) bar == c.bars[k]
             IN /\ WellFormed(b, N) /\ b.low = bar.low /\ b.high = bar.high
                /\ \A i : i \in ToSet(b.trades) <=>
                     i \in ToSet(bar.trades) \/ (i \in ToSet(ts) /\ BucketOf(c, i) = k)
                /\ \/ b = bar
                   \/ b.trades # <<>> /\ b.poc # NoPoc /\ b.poc.status = Untested
                      /\ b.poc.price = BusiestPrice(c, b.trades)
  <2> DEFINE bar == c.bars[k] new == mine(k) m == more(k)
  <2>1. WellFormed(bar, N)
    BY DEF SoundChart, BarsWellFormed
  <2>2. /\ new \in Seq(1 .. N)
        /\ \A i : i \in ToSet(new) <=> i \in ToSet(ts) /\ BucketOf(c, i) = k
    BY TradesOfOne
  <2>3. bar.trades \in Seq(1 .. N)
    BY <2>1 DEF WellFormed
  <2>4. /\ bar.trades \o new \in Seq(1 .. N)
        /\ \A i : i \in ToSet(bar.trades \o new) <=> i \in ToSet(bar.trades) \/ i \in ToSet(new)
        /\ bar.trades \o new = <<>> <=> bar.trades = <<>> /\ new = <<>>
    <3> HIDE DEF bar, new
    <3> QED
      BY <2>2, <2>3, Joined
  <2>5. CASE new = <<>>
    <3>1. added(k) = bar /\ ToSet(new) = {}
      BY <2>5 DEF ToSet
    <3> HIDE DEF added, new
    <3> QED
      BY <2>1, <2>2, <3>1
  <2>6. CASE new # <<>>
    <3>1. added(k) = CalculatePoc(c, m) /\ m = [bar EXCEPT !.trades = bar.trades \o new]
      BY <2>6
    <3> HIDE DEF bar, new, m, mine, more, added
    <3>2. m = [low |-> bar.low, high |-> bar.high, trades |-> bar.trades \o new, poc |-> bar.poc]
      BY <2>1, <3>1 DEF WellFormed
    <3>3. m.low = bar.low /\ m.high = bar.high /\ m.trades = bar.trades \o new /\ m.poc = bar.poc
      BY <3>2
    <3>4. WellFormed(m, N)
      BY <2>1, <2>4, <3>2, <3>3 DEF WellFormed
    <3>5. /\ WellFormed(added(k), N)
          /\ added(k).low = m.low /\ added(k).high = m.high /\ added(k).trades = m.trades
          /\ added(k).poc # NoPoc
          /\ added(k).poc.price = BusiestPrice(c, m.trades) /\ added(k).poc.status = Untested
      <4> DEFINE b == CalculatePoc(c, m)
      <4>1. /\ WellFormed(b, N)
            /\ b.low = m.low /\ b.high = m.high /\ b.trades = m.trades
            /\ b.poc # NoPoc
            /\ b.poc.price = BusiestPrice(c, m.trades) /\ b.poc.status = Untested
        BY <3>4, PocCalculated
      <4>2. added(k) = b
        BY <3>1
      <4> HIDE DEF b
      <4> QED
        BY <4>1, <4>2
    <3> QED
      BY <2>2, <2>4, <2>6, <3>3, <3>5 DEF bar
  <2> QED
    BY <2>5, <2>6
<1> HIDE DEF added, mine, more
<1>3. BarsWellFormed(bars, N) /\ DOMAIN bars = DOMAIN c.bars
  BY <1>2 DEF BarsWellFormed
<1>4. /\ e.basis = c.basis /\ e.step = c.step /\ e.bars = bars /\ e.raw = c.raw
      /\ OfTime(e) <=> OfTime(c)
  <2> HIDE DEF bars, e
  <2> QED
    BY <1>1, BarsExchanged
<1>5. SoundChart(e, N) /\ (Len(bars) = Len(c.bars) \/ OfTime(c))
  BY <1>1, <1>3, PlacesKept
<1>6. ASSUME NEW k \in DOMAIN c.bars
      PROVE  bars[k] = added(k)
  OBVIOUS
<1> HIDE DEF bars, e
<1>7. SameRanges(c, e)
  BY <1>2, <1>3, <1>4, <1>6 DEF SameRanges
<1>8. ASSUME StatusesAreTrue(c)
      PROVE  StatusesAreTrue(e)
  <2> SUFFICES ASSUME NEW k \in DOMAIN c.bars, bars[k].poc # NoPoc
               PROVE  bars[k].poc.status \in {Untested, StatusIn(e, k)}
    BY <1>3, <1>4 DEF StatusesAreTrue
  <2>1. CASE bars[k] = c.bars[k]
    <3>1. StatusIn(e, k) = StatusIn(c, k)
      BY <1>4, <1>5, <1>7, <2>1, StatusSame
    <3>2. c.bars[k].poc.status \in {Untested, StatusIn(c, k)}
      BY <1>8, <2>1 DEF StatusesAreTrue
    <3> QED
      BY <2>1, <3>1, <3>2
  <2> QED
    BY <1>2, <1>6, <2>1
<1>9. ASSUME PricesAreTrue(c)
      PROVE  PricesAreTrue(e)
  <2> SUFFICES ASSUME NEW k \in DOMAIN c.bars, bars[k].poc # NoPoc
               PROVE  bars[k].poc.price = BusiestPrice(e, bars[k].trades)
    BY <1>3, <1>4 DEF PricesAreTrue
  <2>1. bars[k].poc.price = BusiestPrice(c, bars[k].trades)
    BY <1>2, <1>6, <1>9 DEF PricesAreTrue
  <2> QED
    BY <1>4, <2>1, BusiestSame
<1>10. ASSUME PocsAreSet(c)
       PROVE  PocsAreSet(e)
  BY <1>2, <1>3, <1>4, <1>6, <1>10 DEF PocsAreSet
<1> QED
  BY <1>2, <1>4, <1>5, <1>6, <1>7, <1>8, <1>9, <1>10 DEF e
-----------------------------------------------------------------------------
(* Bars from the venue.                                                    *)

(* The tape is one of the given ones, and now a place on it.               *)
TapeRuns == tape \in Tapes /\ now \in 1 .. Len(tape)

(* Trades so far have a price and a time.                                  *)
LEMMA TradesTyped ==
  ASSUME TapeRuns
  PROVE  /\ Len(tape) \in Nat /\ now \in Nat
         /\ \A i \in 1 .. Len(tape) : PriceOf(i) \in Nat /\ TimeOf(i) \in Nat
         /\ \A i \in 1 .. now : i \in 1 .. Len(tape)
<1>1. tape \in Seq([time : Nat, price : Nat])
  BY FootprintAssumption DEF TapeRuns
<1>2. Len(tape) \in Nat /\ \A i \in 1 .. Len(tape) : tape[i] \in [time : Nat, price : Nat]
  <2> DEFINE R == [time : Nat, price : Nat]
  <2>1. tape \in Seq(R)
    BY <1>1
  <2> HIDE DEF R
  <2>2. Len(tape) \in Nat /\ \A i \in 1 .. Len(tape) : tape[i] \in R
    BY <2>1
  <2> QED
    BY <2>2 DEF R
<1>3. now \in Nat /\ now <= Len(tape)
  BY <1>2 DEF TapeRuns
<1> QED
  BY <1>2, <1>3 DEF PriceOf, TimeOf

(* What finitely many natural numbers are bounded by.                      *)
LEMMA NumbersBounded ==
  ASSUME NEW n \in Nat, NEW f \in [1 .. n -> Nat]
  PROVE  \E p \in Nat : \A i \in 1 .. n : f[i] <= p
<1> DEFINE D == {k \in 0 .. n : \E p \in Nat : \A i \in 1 .. k : f[i] <= p}
<1>1. \A i \in 1 .. n : f[i] \in Nat
  OBVIOUS
<1>2. 0 \in D
  OBVIOUS
<1>3. ASSUME NEW k \in 0 .. n - 1, k \in D
      PROVE  k + 1 \in D
  <2>1. PICK p \in Nat : \A i \in 1 .. k : f[i] <= p
    BY <1>3
  <2>2. k + 1 \in 1 .. n /\ k + 1 \in 0 .. n
    OBVIOUS
  <2> DEFINE q == f[k + 1]
  <2>3. q \in Nat
    BY <1>1, <2>2
  <2>4. \A i \in 1 .. k + 1 : f[i] <= p + q
    <3> TAKE i \in 1 .. k + 1
    <3>1. CASE i = k + 1
      BY <2>1, <2>3, <3>1
    <3>2. CASE i # k + 1
      <4>1. i \in 1 .. k /\ i \in 1 .. n
        BY <3>2
      <4>2. f[i] <= p /\ f[i] \in Nat
        BY <1>1, <2>1, <4>1
      <4> HIDE DEF q
      <4> QED
        BY <2>3, <4>2
    <3> QED
      BY <3>1, <3>2
  <2>5. p + q \in Nat
    BY <2>3
  <2> QED
    BY <2>2, <2>4, <2>5
<1>4. n \in D
  <2> HIDE DEF D
  <2>1. 0 .. n \subseteq D
    BY <1>2, <1>3, SetInduction
  <2> QED
    BY <2>1
<1> QED
  BY <1>4

(* A bar of time begins at a natural number.                               *)
LEMMA BucketsTyped ==
  ASSUME NEW t \in Nat, NEW n \in Nat \ {0}
  PROVE  (t \div n) * n \in Nat
BY Z3

(* No trade so far was above some price, after some time, or in a bar that *)
(* begins after some time.                                                 *)
LEMMA TradesBounded ==
  ASSUME TapeRuns, NEW c, c.basis.n \in Nat \ {0}
  PROVE  /\ \A i \in 1 .. now : PriceOf(i) \in Nat /\ TimeOf(i) \in Nat /\ BucketOf(c, i) \in Nat
         /\ \E p \in Nat : \A i \in 1 .. now : PriceOf(i) <= p
         /\ \E p \in Nat : \A i \in 1 .. now : TimeOf(i) <= p
         /\ \E p \in Nat : \A i \in 1 .. now : BucketOf(c, i) <= p
<1>1. now \in Nat /\ \A i \in 1 .. now : PriceOf(i) \in Nat /\ TimeOf(i) \in Nat
  BY TradesTyped
<1>2. \A i \in 1 .. now : BucketOf(c, i) \in Nat
  BY <1>1, BucketsTyped DEF BucketOf
<1>3. \E p \in Nat : \A i \in 1 .. now : PriceOf(i) <= p
  <2> DEFINE f == [i \in 1 .. now |-> PriceOf(i)]
  <2>1. f \in [1 .. now -> Nat] /\ \A i \in 1 .. now : f[i] = PriceOf(i)
    BY <1>1
  <2> HIDE DEF f
  <2> QED
    BY <1>1, <2>1, NumbersBounded
<1>4. \E p \in Nat : \A i \in 1 .. now : TimeOf(i) <= p
  <2> DEFINE f == [i \in 1 .. now |-> TimeOf(i)]
  <2>1. f \in [1 .. now -> Nat] /\ \A i \in 1 .. now : f[i] = TimeOf(i)
    BY <1>1
  <2> HIDE DEF f
  <2> QED
    BY <1>1, <2>1, NumbersBounded
<1>5. \E p \in Nat : \A i \in 1 .. now : BucketOf(c, i) <= p
  <2> DEFINE f == [i \in 1 .. now |-> BucketOf(c, i)]
  <2>1. f \in [1 .. now -> Nat] /\ \A i \in 1 .. now : f[i] = BucketOf(c, i)
    BY <1>2
  <2> HIDE DEF f
  <2> QED
    BY <1>1, <2>1, NumbersBounded
<1> QED
  BY <1>1, <1>2, <1>3, <1>4, <1>5

(* A bounded set of naturals that is not empty has a greatest element, and *)
(* Max is it.                                                              *)
LEMMA GreatestOfNat ==
  ASSUME NEW S, S \subseteq Nat, S # {}, NEW n \in Nat, \A s \in S : s <= n
  PROVE  Max(S) \in S /\ \A y \in S : Max(S) >= y
<1> DEFINE T == {n - s : s \in S}
<1>1. T \subseteq Nat /\ T # {}
  <2>1. \A s \in S : n - s \in Nat
    OBVIOUS
  <2> QED
    BY <2>1
<1>2. Min(T) \in T /\ \A y \in T : Min(T) <= y
  BY <1>1, LeastOfNat
<1>3. PICK x \in S : Min(T) = n - x
  BY <1>2
<1>4. \A y \in S : x >= y
  <2> TAKE y \in S
  <2>1. n - x <= n - y
    BY <1>2, <1>3
  <2> QED
    BY <2>1
<1> QED
  BY <1>4 DEF Max

(* A new bar is one.                                                       *)
LEMMA NewBarIsOne ==
  ASSUME NEW N, NEW low \in Int, NEW high \in Int, low <= high, NEW ts \in Seq(1 .. N)
  PROVE  LET b == NewBar(low, high, ts)
         IN /\ WellFormed(b, N)
            /\ b.low = low /\ b.high = high /\ b.trades = ts /\ b.poc = NoPoc
<1> DEFINE b == NewBar(low, high, ts)
<1>1. b = [low |-> low, high |-> high, trades |-> ts, poc |-> NoPoc]
  BY DEF NewBar
<1>2. b.low = low /\ b.high = high /\ b.trades = ts /\ b.poc = NoPoc
  BY <1>1
<1> HIDE DEF b
<1> QED
  BY <1>1, <1>2 DEF b, WellFormed

(* A bar of the venue has a range, from the lowest to the highest price of *)
(* its trades.                                                             *)
LEMMA KlineIsOne ==
  ASSUME TapeRuns, NEW c, c.basis.n \in Nat \ {0}, NEW k \in Traded(c)
  PROVE  /\ WellFormed(KlineOf(c, k), now)
         /\ KlineOf(c, k).trades = <<>> /\ KlineOf(c, k).poc = NoPoc
<1> DEFINE S == {PriceOf(i) : i \in {j \in 1 .. now : BucketOf(c, j) = k}}
<1>1. \A i \in 1 .. now : PriceOf(i) \in Nat
  BY TradesTyped
<1>2. PICK p \in Nat : \A i \in 1 .. now : PriceOf(i) <= p
  BY TradesBounded
<1>3. S \subseteq Nat /\ S # {} /\ \A s \in S : s <= p
  BY <1>1, <1>2 DEF Traded
<1>4. KlineOf(c, k) = NewBar(Min(S), Max(S), <<>>)
  BY DEF KlineOf
<1> HIDE DEF S
<1>5. Min(S) \in S /\ Max(S) \in S /\ Min(S) <= Max(S)
  BY <1>3, LeastOfNat, GreatestOfNat
<1> DEFINE low == Min(S) high == Max(S)
<1>6. low \in Int /\ high \in Int /\ low <= high /\ <<>> \in Seq(1 .. now)
  <2>1. \A s \in S : s \in Int
    BY <1>3
  <2> QED
    BY <1>5, <2>1
<1>7. KlineOf(c, k) = NewBar(low, high, <<>>)
  BY <1>4
<1> HIDE DEF low, high
<1> DEFINE l == KlineOf(c, k)
<1>8. l = NewBar(low, high, <<>>)
  BY <1>7
<1> HIDE DEF l
<1>9. WellFormed(l, now) /\ l.trades = <<>> /\ l.poc = NoPoc
  <2> DEFINE none == <<>> b == NewBar(low, high, none)
  <2>1. none \in Seq(1 .. now)
    BY <1>6
  <2> HIDE DEF none
  <2>2. WellFormed(b, now) /\ b.trades = none /\ b.poc = NoPoc
    BY <1>6, <2>1, NewBarIsOne
  <2> HIDE DEF b
  <2>3. l = b
    BY <1>8 DEF b, none
  <2> QED
    BY <2>2, <2>3 DEF none
<1> QED
  BY <1>9 DEF l

(* insert_hist_klines and update_latest_kline: bars come, or their ranges  *)
(* change; the trades of a bar stay, and a new one has none.               *)
LEMMA KlinesInserted ==
  ASSUME TapeRuns, NEW c, SoundChart(c, now), OfTime(c), NEW ks, ks \subseteq Traded(c)
  PROVE  LET e == InsertKlines(c, ks)
         IN /\ SoundChart(e, now) /\ e.basis = c.basis /\ e.step = c.step /\ e.raw = c.raw
            /\ DOMAIN e.bars = DOMAIN c.bars \cup ks
            /\ \A k \in DOMAIN c.bars : e.bars[k].trades = c.bars[k].trades
            /\ \A k \in ks \ DOMAIN c.bars : e.bars[k].trades = <<>>
            /\ PocsAreSet(c) => PocsAreSet(e)
            /\ PricesAreTrue(c) => PricesAreTrue(e)
            /\ StatusesAreTrue(e)
<1> DEFINE merged(k) == IF k \notin DOMAIN c.bars THEN KlineOf(c, k)
                        ELSE [KlineOf(c, k) EXCEPT !.trades = c.bars[k].trades, !.poc = c.bars[k].poc]
           bar(k) == IF k \in ks THEN merged(k) ELSE c.bars[k]
           bars == [k \in DOMAIN c.bars \cup ks |-> bar(k)]
           d == [c EXCEPT !.bars = bars]
           e == InsertKlines(c, ks)
<1>1. e = UpdatePocStatus(d)
  BY DEF InsertKlines
<1>2. ASSUME NEW k \in DOMAIN c.bars \cup ks
      PROVE  /\ WellFormed(bar(k), now)
             /\ k \in DOMAIN c.bars => bar(k).trades = c.bars[k].trades /\ bar(k).poc = c.bars[k].poc
             /\ k \notin DOMAIN c.bars => bar(k).trades = <<>> /\ bar(k).poc = NoPoc
  <2> DEFINE b == c.bars[k] l == KlineOf(c, k)
  <2>1. k \in DOMAIN c.bars => WellFormed(b, now)
    BY DEF SoundChart, BarsWellFormed
  <2>2. k \in ks => WellFormed(l, now) /\ l.trades = <<>> /\ l.poc = NoPoc
    <3>1. c.basis.n \in Nat \ {0}
      BY FootprintAssumption DEF SoundChart
    <3> QED
      BY <3>1, KlineIsOne
  <2>3. CASE k \in ks /\ k \in DOMAIN c.bars
    <3> DEFINE m == [l EXCEPT !.trades = b.trades, !.poc = b.poc]
    <3>1. bar(k) = m
      BY <2>3
    <3> HIDE DEF b, l, bar
    <3>2. m = [low |-> l.low, high |-> l.high, trades |-> b.trades, poc |-> b.poc]
      <4>1. l = [low |-> l.low, high |-> l.high, trades |-> l.trades, poc |-> l.poc]
        BY <2>2, <2>3 DEF WellFormed
      <4> DEFINE v == b.trades w == b.poc
      <4>2. m = [l EXCEPT !.trades = v, !.poc = w]
        BY DEF m
      <4> HIDE DEF m, v, w
      <4>3. m = [low |-> l.low, high |-> l.high, trades |-> v, poc |-> w]
        BY <4>1, <4>2
      <4> QED
        BY <4>3 DEF v, w
    <3>3. m.low = l.low /\ m.high = l.high /\ m.trades = b.trades /\ m.poc = b.poc
      BY <3>2
    <3> HIDE DEF m
    <3>4. WellFormed(m, now)
      BY <2>1, <2>2, <2>3, <3>2, <3>3 DEF WellFormed
    <3> QED
      BY <2>3, <3>1, <3>3, <3>4 DEF b
  <2>4. CASE k \in ks /\ k \notin DOMAIN c.bars
    <3>1. bar(k) = l
      BY <2>4
    <3> HIDE DEF l, bar
    <3> QED
      BY <2>2, <2>4, <3>1
  <2>5. CASE k \notin ks
    <3>1. bar(k) = b /\ k \in DOMAIN c.bars
      BY <2>5
    <3> HIDE DEF bar
    <3> QED
      BY <2>1, <3>1
  <2> QED
    BY <2>3, <2>4, <2>5
<1> HIDE DEF bar, merged
<1>3. BarsWellFormed(bars, now) /\ DOMAIN bars = DOMAIN c.bars \cup ks
  BY <1>2 DEF BarsWellFormed
<1>4. \A k \in DOMAIN bars : bars[k] = bar(k)
  OBVIOUS
<1> HIDE DEF bars
<1>5. /\ d = [basis |-> c.basis, step |-> c.step, bars |-> bars, raw |-> c.raw]
      /\ d.basis = c.basis /\ d.step = c.step /\ d.bars = bars /\ d.raw = c.raw
      /\ OfTime(d)
  BY BarsExchanged
<1> HIDE DEF d
<1>6. SoundChart(d, now)
  BY <1>3, <1>5 DEF SoundChart
<1>7. PocsAreSet(c) => PocsAreSet(d)
  BY <1>2, <1>3, <1>4, <1>5 DEF PocsAreSet
<1>8. ASSUME PricesAreTrue(c)
      PROVE  PricesAreTrue(d)
  <2> SUFFICES ASSUME NEW k \in DOMAIN bars, bars[k].poc # NoPoc
               PROVE  bars[k].poc.price = BusiestPrice(d, bars[k].trades)
    BY <1>5 DEF PricesAreTrue
  <2>1. k \in DOMAIN c.bars /\ bars[k].poc = c.bars[k].poc /\ bars[k].trades = c.bars[k].trades
    BY <1>2, <1>3, <1>4
  <2>2. c.bars[k].poc.price = BusiestPrice(c, c.bars[k].trades)
    BY <1>8, <2>1 DEF PricesAreTrue
  <2> QED
    BY <1>5, <2>1, <2>2, BusiestSame
<1>9. /\ SoundChart(e, now) /\ SameRanges(d, e) /\ e.raw = d.raw
      /\ \A k \in DOMAIN d.bars :
           /\ e.bars[k].trades = d.bars[k].trades
           /\ e.bars[k].poc = NoPoc <=> d.bars[k].poc = NoPoc
      /\ StatusesAreTrue(e)
      /\ PricesAreTrue(d) => PricesAreTrue(e)
  BY <1>1, <1>6, StatusUpdated
<1> HIDE DEF e
<1>10. PocsAreSet(d) => PocsAreSet(e)
  BY <1>9 DEF PocsAreSet, SameRanges
<1> QED
  BY <1>2, <1>3, <1>4, <1>5, <1>7, <1>8, <1>9, <1>10 DEF SameRanges, e
(* The answer to the first fetch has a bar for every trade, so no other    *)
(* bar is made.                                                            *)
LEMMA NoBarsMissing ==
  ASSUME NEW c, NEW N, SoundChart(c, N), NEW ts,
         \A j \in DOMAIN ts : BucketOf(c, ts[j]) \in DOMAIN c.bars
  PROVE  OrNewBars(c, ts) = IntoExistingBars(c, ts)
<1> DEFINE keys   == DOMAIN c.bars \cup {BucketOf(c, ts[j]) : j \in DOMAIN ts}
           new(k) == LET p == PriceOf(TradesOf(c, ts, k)[1]) IN NewBar(p, p, <<>>)
           bars   == [k \in keys |-> IF k \in DOMAIN c.bars THEN c.bars[k] ELSE new(k)]
           d      == [c EXCEPT !.bars = bars]
<1>1. OrNewBars(c, ts) = IntoExistingBars(d, ts)
  BY DEF OrNewBars
<1> HIDE DEF new
<1>2. keys = DOMAIN c.bars
  OBVIOUS
<1>3. bars = [k \in DOMAIN c.bars |-> c.bars[k]]
  BY <1>2
<1> HIDE DEF bars, keys
<1>4. bars = c.bars
  BY <1>3 DEF SoundChart, BarsWellFormed
<1>5. d = [basis |-> c.basis, step |-> c.step, bars |-> bars, raw |-> c.raw]
  BY DEF SoundChart
<1> HIDE DEF d
<1>6. d = c
  BY <1>4, <1>5 DEF SoundChart
<1> QED
  BY <1>1, <1>6

-----------------------------------------------------------------------------
(* Trades into bars of a number of trades.                                 *)

(* Min of two numbers.                                                     *)
LEMMA MinOfTwo ==
  ASSUME NEW a \in Int, NEW b \in Int
  PROVE  Min({a, b}) = (IF a <= b THEN a ELSE b) /\ Min({a, b}) \in Int
<1> DEFINE m == IF a <= b THEN a ELSE b
<1>1. m \in {a, b} /\ \A y \in {a, b} : m <= y
  OBVIOUS
<1>2. Min({a, b}) \in {a, b} /\ \A y \in {a, b} : Min({a, b}) <= y
  BY <1>1 DEF Min
<1> QED
  BY <1>2

(* Max of two numbers.                                                     *)
LEMMA MaxOfTwo ==
  ASSUME NEW a \in Int, NEW b \in Int
  PROVE  Max({a, b}) = (IF a >= b THEN a ELSE b) /\ Max({a, b}) \in Int
<1> DEFINE m == IF a >= b THEN a ELSE b
<1>1. m \in {a, b} /\ \A y \in {a, b} : m >= y
  OBVIOUS
<1>2. Max({a, b}) \in {a, b} /\ \A y \in {a, b} : Max({a, b}) >= y
  BY <1>1 DEF Max
<1> QED
  BY <1>2

(* Multiples of the number of trades in a bar.                             *)
LEMMA Multiples ==
  ASSUME NEW n \in Nat \ {0}
  PROVE  /\ 0 * n = 0
         /\ \A k \in Nat : k * n \in Nat /\ (k + 1) * n = k * n + n
         /\ \A j, k \in Nat : j <= k => j * n <= k * n
BY Z3

(* The bars take the sequence of trades in turn, n each: every bar starts  *)
(* where the one before it ended, and the last one ends with the sequence. *)
InTurn(bars, n, g) ==
  LET upTo(k) == Min({k * n, Len(g)})
  IN /\ \A k \in DOMAIN bars : upTo(k - 1) < upTo(k) /\ bars[k].trades = SubSeq(g, upTo(k - 1) + 1, upTo(k))
     /\ upTo(Len(bars)) = Len(g)

(* The same without Min: all bars but the last one are full.               *)
AllFullButLast(bars, n, g) ==
  LET m == Len(bars)
  IN /\ m = 0 => Len(g) = 0
     /\ m # 0 => (m - 1) * n < Len(g) /\ Len(g) <= m * n
     /\ \A k \in 1 .. m : bars[k].trades = SubSeq(g, (k - 1) * n + 1, IF k = m THEN Len(g) ELSE k * n)

(* Both say the same.                                                      *)
LEMMA TwoForms ==
  ASSUME NEW n \in Nat \ {0}, NEW bars, Len(bars) \in Nat, DOMAIN bars = 1 .. Len(bars),
         NEW g, Len(g) \in Nat
  PROVE  InTurn(bars, n, g) <=> AllFullButLast(bars, n, g)
<1> DEFINE m == Len(bars) G == Len(g) P(k) == k * n upTo(k) == Min({P(k), G})
<1>1. /\ P(0) = 0
      /\ \A k \in Nat : P(k) \in Nat /\ P(k + 1) = P(k) + n
      /\ \A j, k \in Nat : j <= k => P(j) <= P(k)
  BY Multiples
<1>2. m \in Nat /\ G \in Nat /\ DOMAIN bars = 1 .. m
  OBVIOUS
<1>3. /\ InTurn(bars, n, g) <=>
           /\ \A k \in 1 .. m : upTo(k - 1) < upTo(k) /\ bars[k].trades = SubSeq(g, upTo(k - 1) + 1, upTo(k))
           /\ upTo(m) = G
      /\ AllFullButLast(bars, n, g) <=>
           /\ m = 0 => G = 0
           /\ m # 0 => P(m - 1) < G /\ G <= P(m)
           /\ \A k \in 1 .. m : bars[k].trades = SubSeq(g, P(k - 1) + 1, IF k = m THEN G ELSE P(k))
  BY <1>2 DEF InTurn, AllFullButLast
<1> HIDE DEF P
<1>4. ASSUME NEW k \in Nat
      PROVE  upTo(k) = IF P(k) <= G THEN P(k) ELSE G
  <2>1. P(k) \in Int /\ G \in Int
    BY <1>1, <1>2
  <2> HIDE DEF G
  <2> QED
    BY <2>1, MinOfTwo
<1> HIDE DEF upTo, m, G
<1>5. \A k \in 1 .. m : k \in Nat /\ k - 1 \in Nat /\ k <= m /\ k - 1 <= m /\ (k # m => k <= m - 1 /\ m - 1 \in Nat)
                        /\ (k - 1) + 1 = k
  BY <1>2
<1>6. ASSUME m # 0 => P(m - 1) < G /\ G <= P(m), m = 0 => G = 0
      PROVE  /\ \A k \in 1 .. m : /\ upTo(k - 1) = P(k - 1)
                                  /\ upTo(k) = IF k = m THEN G ELSE P(k)
                                  /\ upTo(k - 1) < upTo(k)
             /\ upTo(m) = G
  <2>1. upTo(m) = G
    <3>1. upTo(m) = (IF P(m) <= G THEN P(m) ELSE G) /\ P(m) \in Nat
      BY <1>1, <1>2, <1>4
    <3>2. G <= P(m)
      <4>1. CASE m = 0
        BY <1>1, <1>6, <4>1
      <4>2. CASE m # 0
        BY <1>6, <4>2
      <4> QED
        BY <4>1, <4>2
    <3> QED
      BY <1>2, <3>1, <3>2
  <2>2. ASSUME NEW k \in 1 .. m
        PROVE  /\ upTo(k - 1) = P(k - 1)
               /\ upTo(k) = IF k = m THEN G ELSE P(k)
               /\ upTo(k - 1) < upTo(k)
    <3>1. m \in Nat /\ m # 0 /\ m - 1 \in Nat /\ k \in Nat /\ k - 1 \in Nat /\ k - 1 <= m - 1
      BY <1>2, <1>5
    <3>2. P(k - 1) <= P(m - 1) /\ P(k - 1) \in Nat /\ P(m - 1) \in Nat
      BY <1>1, <3>1
    <3>3. upTo(k - 1) = P(k - 1) /\ P(k - 1) < G
      BY <1>2, <1>4, <1>6, <3>1, <3>2
    <3>4. CASE k = m
      BY <2>1, <3>3, <3>4
    <3>5. CASE k # m
      <4>1. P(k) <= P(m - 1) /\ P(k) \in Nat
        BY <1>1, <1>5, <3>1, <3>5
      <4>2. upTo(k) = P(k)
        BY <1>2, <1>4, <1>6, <3>1, <3>2, <4>1
      <4>3. P(k) = P(k - 1) + n
        BY <1>1, <1>5, <3>1
      <4> QED
        BY <3>2, <3>3, <3>5, <4>2, <4>3
    <3> QED
      BY <3>4, <3>5
  <2> QED
    BY <2>1, <2>2
<1>7. ASSUME AllFullButLast(bars, n, g)
      PROVE  InTurn(bars, n, g)
  BY <1>3, <1>6, <1>7
<1>8. ASSUME InTurn(bars, n, g)
      PROVE  AllFullButLast(bars, n, g)
  <2>1. m = 0 => G = 0
    BY <1>1, <1>2, <1>3, <1>4, <1>8
  <2>2. ASSUME m # 0
        PROVE  P(m - 1) < G /\ G <= P(m)
    <3>1. m \in 1 .. m /\ m - 1 \in Nat /\ m \in Nat
      BY <1>2, <2>2
    <3>2. upTo(m - 1) < upTo(m) /\ upTo(m) = G
      BY <1>3, <1>8, <3>1
    <3>3. P(m - 1) \in Nat /\ P(m) \in Nat
      BY <1>1, <3>1
    <3> QED
      BY <1>2, <1>4, <3>1, <3>2, <3>3
  <2> QED
    BY <1>3, <1>6, <1>8, <2>1, <2>2
<1> QED
  BY <1>7, <1>8
(* Parts of a sequence that grows.                                         *)
LEMMA PartsOfGrown ==
  ASSUME NEW T, NEW g \in Seq(T), NEW i \in T, NEW a \in Nat \ {0}
  PROVE  LET h == Append(g, i)
         IN /\ h \in Seq(T) /\ Len(h) = Len(g) + 1
            /\ \A b \in 0 .. Len(g) : SubSeq(h, a, b) = SubSeq(g, a, b)
            /\ a <= Len(g) + 1 =>
                 /\ SubSeq(h, a, Len(g) + 1) = Append(SubSeq(g, a, Len(g)), i)
                 /\ Len(SubSeq(g, a, Len(g))) = Len(g) - a + 1
            /\ SubSeq(h, Len(g) + 1, Len(g) + 1) = <<i>>
<1> DEFINE h == Append(g, i) G == Len(g)
<1>1. /\ G \in Nat /\ h \in Seq(T) /\ Len(h) = G + 1 /\ h[G + 1] = i
      /\ \A j \in 1 .. G : h[j] = g[j]
  OBVIOUS
<1> HIDE DEF h
<1>2. ASSUME NEW b \in 0 .. G
      PROVE  SubSeq(h, a, b) = SubSeq(g, a, b)
  <2> DEFINE s == SubSeq(g, a, b) u == SubSeq(h, a, b) l == IF a <= b THEN b - a + 1 ELSE 0
  <2>1. l \in Nat /\ \A k \in 1 .. l : a + k - 1 \in 1 .. G
    BY <1>1
  <2>2. s \in Seq(T) /\ Len(s) = l /\ \A k \in 1 .. l : s[k] = g[a + k - 1]
    BY <1>1
  <2>3. u \in Seq(T) /\ Len(u) = l /\ \A k \in 1 .. l : u[k] = h[a + k - 1]
    BY <1>1
  <2> HIDE DEF s, u, l
  <2>4. \A k \in 1 .. l : u[k] = s[k]
    BY <1>1, <2>1, <2>2, <2>3
  <2>5. u = s
    <3>1. Len(u) = Len(s) /\ \A k \in 1 .. Len(u) : u[k] = s[k]
      BY <2>2, <2>3, <2>4
    <3>2. u \in Seq(T) /\ s \in Seq(T)
      BY <2>2, <2>3
    <3> QED
      BY <3>1, <3>2, SeqEqual
  <2> QED
    BY <2>5 DEF s, u
<1>3. ASSUME a <= G + 1
      PROVE  /\ SubSeq(h, a, G + 1) = Append(SubSeq(g, a, G), i)
             /\ Len(SubSeq(g, a, G)) = G - a + 1
  <2> DEFINE s == SubSeq(g, a, G) m == G - a + 1 u == SubSeq(h, a, G + 1)
  <2>1. m \in Nat
    BY <1>1, <1>3
  <2>2. s \in Seq(T) /\ Len(s) = m /\ \A j \in 1 .. m : s[j] = g[a + j - 1]
    BY <1>1, <1>3
  <2>3. u \in Seq(T) /\ Len(u) = m + 1 /\ \A j \in 1 .. m + 1 : u[j] = h[a + j - 1]
    BY <1>1, <1>3
  <2> HIDE DEF s, u
  <2>4. Append(s, i) \in Seq(T) /\ Len(Append(s, i)) = m + 1
        /\ Append(s, i)[m + 1] = i /\ \A j \in 1 .. m : Append(s, i)[j] = s[j]
    BY <2>2
  <2>5. \A j \in 1 .. m + 1 : u[j] = Append(s, i)[j]
    <3> TAKE j \in 1 .. m + 1
    <3>1. CASE j = m + 1
      <4>1. a + j - 1 = G + 1
        BY <1>1, <3>1
      <4> QED
        BY <1>1, <2>1, <2>3, <2>4, <3>1, <4>1
    <3>2. CASE j # m + 1
      <4>1. j \in 1 .. m /\ a + j - 1 \in 1 .. G
        BY <1>1, <2>1, <3>2
      <4> QED
        BY <1>1, <2>1, <2>2, <2>3, <2>4, <4>1
    <3> QED
      BY <3>1, <3>2
  <2>6. u = Append(s, i)
    <3> DEFINE v == Append(s, i)
    <3>1. v \in Seq(T) /\ Len(v) = Len(u) /\ u \in Seq(T) /\ \A j \in 1 .. Len(u) : u[j] = v[j]
      BY <2>1, <2>3, <2>4, <2>5
    <3> HIDE DEF v
    <3>2. u = v
      BY <3>1
    <3> QED
      BY <3>2 DEF v
  <2> QED
    BY <2>2, <2>6 DEF s, u
<1>4. SubSeq(h, G + 1, G + 1) = <<i>>
  <2> DEFINE u == SubSeq(h, G + 1, G + 1)
  <2>1. u \in Seq(T) /\ Len(u) = 1 /\ u[1] = h[G + 1 + 1 - 1]
    BY <1>1
  <2>2. h[G + 1 + 1 - 1] = i
    BY <1>1
  <2> HIDE DEF u
  <2>3. u = <<i>>
    BY <2>1, <2>2
  <2> QED
    BY <2>3 DEF u
<1> QED
  BY <1>1, <1>2, <1>3, <1>4 DEF h

(* A trade begins a new bar: there was none, or the last one is full.      *)
NextBegun(bars, more, n, i) ==
  LET m == Len(bars)
  IN /\ m = 0 \/ Len(bars[m].trades) >= n
     /\ Len(more) = m + 1 /\ more[m + 1].trades = <<i>>
     /\ \A k \in 1 .. m : more[k].trades = bars[k].trades

(* Or it goes into the last one.                                           *)
LastTook(bars, more, n, i) ==
  LET m == Len(bars)
  IN /\ m # 0 /\ Len(bars[m].trades) < n
     /\ Len(more) = m /\ more[m].trades = Append(bars[m].trades, i)
     /\ \A k \in 1 .. m - 1 : more[k].trades = bars[k].trades

(* Either way the bars hold one trade more of the sequence.                *)
LEMMA OneMore ==
  ASSUME NEW n \in Nat \ {0}, NEW bars, Len(bars) \in Nat, NEW more,
         NEW T, NEW g \in Seq(T), NEW i \in T, AllFullButLast(bars, n, g),
         NextBegun(bars, more, n, i) \/ LastTook(bars, more, n, i)
  PROVE  AllFullButLast(more, n, Append(g, i))
<1> DEFINE m == Len(bars) G == Len(g) h == Append(g, i) P(k) == k * n
<1>1. /\ P(0) = 0
      /\ \A k \in Nat : P(k) \in Nat /\ P(k + 1) = P(k) + n
      /\ \A j, k \in Nat : j <= k => P(j) <= P(k)
  BY Multiples
<1>2. m \in Nat /\ G \in Nat /\ n \in Nat /\ n > 0
  OBVIOUS
<1>3. /\ m = 0 => G = 0
      /\ m # 0 => P(m - 1) < G /\ G <= P(m)
      /\ \A k \in 1 .. m : bars[k].trades = SubSeq(g, P(k - 1) + 1, IF k = m THEN G ELSE P(k))
  BY DEF AllFullButLast
<1>4. /\ Len(h) = G + 1
      /\ SubSeq(h, G + 1, G + 1) = <<i>>
      /\ \A a \in Nat \ {0} : /\ \A b \in 0 .. G : SubSeq(h, a, b) = SubSeq(g, a, b)
                              /\ a <= G + 1 =>
                                   /\ SubSeq(h, a, G + 1) = Append(SubSeq(g, a, G), i)
                                   /\ Len(SubSeq(g, a, G)) = G - a + 1
  <2>1. 1 \in Nat \ {0}
    OBVIOUS
  <2>2. Len(h) = G + 1 /\ SubSeq(h, G + 1, G + 1) = <<i>>
    BY <2>1, PartsOfGrown
  <2>3. ASSUME NEW a \in Nat \ {0}
        PROVE  /\ \A b \in 0 .. G : SubSeq(h, a, b) = SubSeq(g, a, b)
               /\ a <= G + 1 =>
                    /\ SubSeq(h, a, G + 1) = Append(SubSeq(g, a, G), i)
                    /\ Len(SubSeq(g, a, G)) = G - a + 1
    BY <2>3, PartsOfGrown
  <2> QED
    BY <2>2, <2>3
<1>5. AllFullButLast(more, n, h) <=>
        LET l == Len(more)
        IN /\ l = 0 => Len(h) = 0
           /\ l # 0 => P(l - 1) < Len(h) /\ Len(h) <= P(l)
           /\ \A k \in 1 .. l : more[k].trades = SubSeq(h, P(k - 1) + 1, IF k = l THEN Len(h) ELSE P(k))
  BY DEF AllFullButLast
<1> HIDE DEF P, h
<1>6. ASSUME m # 0
      PROVE  /\ m - 1 \in Nat /\ (m - 1) + 1 = m /\ m \in 1 .. m
             /\ P(m - 1) \in Nat /\ P(m) = P(m - 1) + n /\ P(m - 1) < G /\ G <= P(m)
             /\ Len(bars[m].trades) = G - P(m - 1)
  <2>1. m - 1 \in Nat /\ (m - 1) + 1 = m /\ m \in 1 .. m
    BY <1>2, <1>6
  <2>2. P(m - 1) \in Nat /\ P(m) = P(m - 1) + n /\ P(m - 1) < G /\ G <= P(m)
    BY <1>1, <1>3, <1>6, <2>1
  <2>3. bars[m].trades = SubSeq(g, P(m - 1) + 1, G)
    BY <1>3, <2>1
  <2>4. P(m - 1) + 1 \in Nat \ {0} /\ P(m - 1) + 1 <= G + 1
    BY <1>2, <2>2
  <2>5. Len(SubSeq(g, P(m - 1) + 1, G)) = G - (P(m - 1) + 1) + 1
    BY <1>4, <2>4
  <2> QED
    BY <1>2, <2>1, <2>2, <2>3, <2>5
<1>7. ASSUME NEW k \in 1 .. m
      PROVE  /\ k \in Nat /\ k - 1 \in Nat /\ P(k - 1) \in Nat /\ P(k) \in Nat
             /\ P(k - 1) + 1 \in Nat \ {0}
             /\ k # m => P(k) < G
             /\ P(k - 1) < G
  <2>1. k \in Nat /\ k - 1 \in Nat /\ m # 0 /\ k - 1 <= m - 1 /\ (k # m => k <= m - 1)
    BY <1>2
  <2>2. P(k - 1) \in Nat /\ P(k) \in Nat /\ P(k - 1) <= P(m - 1) /\ (k # m => P(k) <= P(m - 1))
    BY <1>1, <1>6, <2>1
  <2> QED
    BY <1>2, <1>6, <2>1, <2>2
<1>8. CASE NextBegun(bars, more, n, i)
  <2>1. G = P(m)
    <3>1. CASE m = 0
      BY <1>1, <1>3, <3>1
    <3>2. CASE m # 0
      BY <1>2, <1>6, <1>8, <3>2 DEF NextBegun
    <3> QED
      BY <3>1, <3>2
  <2>2. Len(more) = m + 1 /\ m + 1 # 0 /\ (m + 1) - 1 = m /\ P(m + 1) = P(m) + n
    BY <1>1, <1>2, <1>8 DEF NextBegun
  <2>3. ASSUME NEW k \in 1 .. m + 1
        PROVE  more[k].trades = SubSeq(h, P(k - 1) + 1, IF k = m + 1 THEN G + 1 ELSE P(k))
    <3>1. CASE k = m + 1
      <4>1. more[k].trades = <<i>> /\ k - 1 = m
        BY <1>2, <1>8, <3>1 DEF NextBegun
      <4> QED
        BY <1>4, <2>1, <3>1, <4>1
    <3>2. CASE k # m + 1
      <4>1. k \in 1 .. m
        BY <1>2, <3>2
      <4>2. more[k].trades = bars[k].trades
        BY <1>8, <4>1 DEF NextBegun
      <4>3. bars[k].trades = SubSeq(g, P(k - 1) + 1, P(k))
        BY <1>3, <2>1, <4>1
      <4>4. P(k) \in 0 .. G /\ P(k - 1) + 1 \in Nat \ {0}
        <5>1. P(k) \in Nat /\ P(k - 1) + 1 \in Nat \ {0} /\ (k # m => P(k) < G)
          BY <1>7, <4>1
        <5>2. P(k) <= G
          BY <1>2, <2>1, <5>1
        <5> QED
          BY <1>2, <5>1, <5>2
      <4>5. SubSeq(h, P(k - 1) + 1, P(k)) = SubSeq(g, P(k - 1) + 1, P(k))
        BY <1>4, <4>4
      <4> QED
        BY <3>2, <4>2, <4>3, <4>5
    <3> QED
      BY <3>1, <3>2
  <2>4. AllFullButLast(more, n, h)
    BY <1>2, <1>4, <1>5, <2>1, <2>2, <2>3
  <2> QED
    BY <2>4 DEF h
<1>9. CASE LastTook(bars, more, n, i)
  <2>1. m # 0 /\ Len(more) = m /\ more[m].trades = Append(bars[m].trades, i)
        /\ Len(bars[m].trades) < n
    BY <1>9 DEF LastTook
  <2>2. P(m - 1) < G + 1 /\ G + 1 <= P(m)
    BY <1>2, <1>6, <2>1
  <2>3. ASSUME NEW k \in 1 .. m
        PROVE  more[k].trades = SubSeq(h, P(k - 1) + 1, IF k = m THEN G + 1 ELSE P(k))
    <3>1. P(k - 1) + 1 \in Nat \ {0} /\ P(k - 1) + 1 <= G + 1 /\ (k # m => P(k) \in 0 .. G)
      BY <1>2, <1>7
    <3>2. CASE k = m
      <4>1. bars[m].trades = SubSeq(g, P(m - 1) + 1, G)
        BY <1>3, <3>2
      <4> QED
        BY <1>4, <2>1, <3>1, <3>2, <4>1
    <3>3. CASE k # m
      <4>1. k \in 1 .. m - 1
        BY <1>2, <3>3
      <4>2. more[k].trades = bars[k].trades
        BY <1>9, <4>1 DEF LastTook
      <4>3. bars[k].trades = SubSeq(g, P(k - 1) + 1, P(k))
        BY <1>3, <3>3
      <4>4. SubSeq(h, P(k - 1) + 1, P(k)) = SubSeq(g, P(k - 1) + 1, P(k))
        BY <1>4, <3>1, <3>3
      <4> QED
        BY <3>3, <4>2, <4>3, <4>4
    <3> QED
      BY <3>2, <3>3
  <2>4. AllFullButLast(more, n, h)
    BY <1>4, <1>5, <2>1, <2>2, <2>3
  <2> QED
    BY <2>4 DEF h
<1> QED
  BY <1>8, <1>9
(* One trade into a chart of trades: the chart stays sound, and its bars   *)
(* hold one trade more.                                                    *)
LEMMA TickAdded ==
  ASSUME TapeRuns, NEW N \in 1 .. Len(tape), NEW c, SoundChart(c, N), ~OfTime(c), NEW i \in 1 .. N,
         NEW g \in Seq(1 .. N), AllFullButLast(c.bars, c.basis.n, g)
  PROVE  LET e == AddTick(c, i)
         IN /\ SoundChart(e, N) /\ e.basis = c.basis /\ e.step = c.step /\ e.raw = c.raw
            /\ AllFullButLast(e.bars, c.basis.n, Append(g, i))
<1> DEFINE B == c.bars m == Len(B) V == {B[k] : k \in DOMAIN B} p == PriceOf(i) n == c.basis.n
           e == AddTick(c, i)
<1>1. p \in Nat /\ N \in Nat /\ i \in 1 .. N
  <2>1. Len(tape) \in Nat /\ \A j \in 1 .. Len(tape) : PriceOf(j) \in Nat
    BY TradesTyped
  <2> QED
    BY <2>1
<1>2. /\ c = [basis |-> c.basis, step |-> c.step, bars |-> B, raw |-> c.raw]
      /\ n \in Nat \ {0} /\ BarsWellFormed(B, N) /\ B \in Seq(V)
  BY FootprintAssumption DEF SoundChart
<1>3. /\ m \in Nat /\ DOMAIN B = 1 .. m /\ \A k \in 1 .. m : WellFormed(B[k], N)
  BY <1>2 DEF BarsWellFormed
<1>4. ASSUME NEW W, NEW more \in Seq(W), \A k \in 1 .. Len(more) : WellFormed(more[k], N),
             e = [c EXCEPT !.bars = more],
             NextBegun(B, more, n, i) \/ LastTook(B, more, n, i)
      PROVE  /\ SoundChart(e, N) /\ e.basis = c.basis /\ e.step = c.step /\ e.raw = c.raw
             /\ AllFullButLast(e.bars, n, Append(g, i))
  <2>1. /\ e = [basis |-> c.basis, step |-> c.step, bars |-> more, raw |-> c.raw]
        /\ e.basis = c.basis /\ e.step = c.step /\ e.bars = more /\ e.raw = c.raw
        /\ OfTime(e) <=> OfTime(c)
    <3> HIDE DEF e, B, m, V, n
    <3> QED
      BY <1>4, BarsExchanged
  <2> HIDE DEF e
  <2>2. /\ Len(more) \in Nat /\ DOMAIN more = 1 .. Len(more)
        /\ more = [k \in DOMAIN more |-> more[k]]
        /\ more \in Seq({more[k] : k \in DOMAIN more})
    <3>1. Len(more) \in Nat /\ DOMAIN more = 1 .. Len(more) /\ more = [k \in DOMAIN more |-> more[k]]
      BY <1>4
    <3> DEFINE l == Len(more) U == {more[k] : k \in DOMAIN more}
    <3>2. more \in [1 .. l -> U]
      BY <3>1
    <3> HIDE DEF U
    <3>3. more \in Seq(U)
      BY <3>1, <3>2
    <3> QED
      BY <3>1, <3>3 DEF U
  <2>3. SoundChart(e, N)
    <3>1. c.basis \in Bases /\ c.step \in Steps /\ c.raw \in Seq(1 .. N)
      BY DEF SoundChart
    <3>2. BarsWellFormed(more, N)
      BY <1>4, <2>2 DEF BarsWellFormed
    <3> QED
      BY <2>1, <2>2, <3>1, <3>2 DEF SoundChart
  <2>4. AllFullButLast(more, n, Append(g, i))
    <3> HIDE DEF B, n
    <3> QED
      BY <1>1, <1>2, <1>3, <1>4, OneMore DEF B, n
  <2> QED
    BY <2>1, <2>3, <2>4
<1>5. CASE m = 0 \/ Len(B[m].trades) >= n
  <2> DEFINE b == BarOf(i) more == Append(B, b)
  <2>1. e = [c EXCEPT !.bars = more]
    <3>1. B = <<>> <=> m = 0
      BY <1>2
    <3> QED
      BY <1>5, <3>1 DEF AddTick, IsFull, Last
  <2>2. WellFormed(b, N) /\ b.trades = <<i>>
    <3> DEFINE ts == <<i>>
    <3>1. p \in Int /\ p <= p /\ ts \in Seq(1 .. N) /\ b = NewBar(p, p, ts)
      BY <1>1 DEF BarOf
    <3> HIDE DEF p, ts, b
    <3> DEFINE d == NewBar(p, p, ts)
    <3>2. WellFormed(d, N) /\ d.trades = ts
      BY <3>1, NewBarIsOne
    <3> HIDE DEF d
    <3>3. b = d
      BY <3>1 DEF d
    <3> QED
      BY <3>2, <3>3 DEF ts
  <2> HIDE DEF b
  <2>3. /\ more \in Seq(V \cup {b}) /\ Len(more) = m + 1 /\ more[m + 1] = b
        /\ \A k \in 1 .. m : more[k] = B[k]
    <3> HIDE DEF B, V
    <3> QED
      BY <1>2
  <2> HIDE DEF more, B, n, V
  <2>4. \A k \in 1 .. Len(more) : WellFormed(more[k], N)
    BY <1>3, <2>2, <2>3
  <2>5. NextBegun(B, more, n, i)
    BY <1>3, <1>5, <2>2, <2>3 DEF NextBegun
  <2> QED
    BY <1>4, <2>1, <2>3, <2>4, <2>5 DEF e, n
<1>6. CASE ~(m = 0 \/ Len(B[m].trades) >= n)
  <2> DEFINE bar == B[m] b == AddTrade(bar, i) more == [B EXCEPT ![m] = b]
  <2>0. m \in 1 .. m /\ WellFormed(bar, N)
    BY <1>3, <1>6
  <2>1. e = [c EXCEPT !.bars = more]
    <3>1. B = <<>> <=> m = 0
      BY <1>2
    <3>2. e = [c EXCEPT !.bars[Len(c.bars)] = AddTrade(@, i)]
      BY <1>6, <3>1 DEF AddTick, IsFull, Last
    <3> QED
      BY <1>2, <3>2
  <2>2. WellFormed(b, N) /\ b.trades = Append(bar.trades, i)
    <3> DEFINE lo == Min({bar.low, p}) hi == Max({bar.high, p}) ts == Append(bar.trades, i)
    <3>1. b = [bar EXCEPT !.trades = ts, !.low = lo, !.high = hi]
      BY DEF AddTrade
    <3> HIDE DEF bar, b
    <3>2. bar.low \in Int /\ bar.high \in Int /\ bar.low <= bar.high /\ bar.trades \in Seq(1 .. N)
      BY <2>0 DEF WellFormed
    <3>3. lo \in Int /\ hi \in Int /\ lo <= hi
      <4>1. /\ lo \in Int /\ lo = IF bar.low <= p THEN bar.low ELSE p
            /\ hi \in Int /\ hi = IF bar.high >= p THEN bar.high ELSE p
        <5> DEFINE x == bar.low y == bar.high
        <5>1. x \in Int /\ y \in Int /\ p \in Int
          BY <1>1, <3>2
        <5> HIDE DEF x, y, p
        <5>2. /\ Min({x, p}) \in Int /\ Min({x, p}) = IF x <= p THEN x ELSE p
              /\ Max({y, p}) \in Int /\ Max({y, p}) = IF y >= p THEN y ELSE p
          BY <5>1, MinOfTwo, MaxOfTwo
        <5> QED
          BY <5>2 DEF x, y
      <4> HIDE DEF lo, hi, p
      <4> QED
        BY <1>1, <3>2, <4>1 DEF p
    <3>4. ts \in Seq(1 .. N) /\ ts # <<>>
      BY <1>1, <3>2
    <3> HIDE DEF lo, hi, ts
    <3>5. b = [low |-> lo, high |-> hi, trades |-> ts, poc |-> bar.poc]
      <4>1. bar = [low |-> bar.low, high |-> bar.high, trades |-> bar.trades, poc |-> bar.poc]
        BY <2>0 DEF WellFormed
      <4> QED
        BY <3>1, <4>1
    <3>6. b.low = lo /\ b.high = hi /\ b.trades = ts /\ b.poc = bar.poc
      BY <3>5
    <3> QED
      BY <2>0, <3>3, <3>4, <3>5, <3>6 DEF WellFormed, ts
  <2> HIDE DEF b
  <2>3. /\ more \in Seq(V \cup {b}) /\ Len(more) = m /\ more[m] = b
        /\ \A k \in 1 .. m : k # m => more[k] = B[k]
    <3> HIDE DEF B, V
    <3> QED
      BY <1>2, <1>3, <2>0
  <2> HIDE DEF more, B, n, V
  <2>4. \A k \in 1 .. Len(more) : WellFormed(more[k], N)
    BY <1>3, <2>2, <2>3
  <2>5. LastTook(B, more, n, i)
    <3>1. Len(B[m].trades) \in Nat
      BY <2>0 DEF WellFormed
    <3>2. n \in Nat
      BY <1>2
    <3>3. m \in Nat
      BY <1>3
    <3>4. LastTook(B, more, n, i) <=>
            /\ m # 0 /\ Len(B[m].trades) < n
            /\ Len(more) = m /\ more[m].trades = Append(B[m].trades, i)
            /\ \A k \in 1 .. m - 1 : more[k].trades = B[k].trades
      BY DEF LastTook
    <3> HIDE DEF m
    <3>5. \A k \in 1 .. m - 1 : k \in 1 .. m /\ k # m
      BY <3>3
    <3>6. \A k \in 1 .. m - 1 : more[k].trades = B[k].trades
      BY <2>3, <3>5
    <3>7. m # 0 /\ Len(B[m].trades) < n
      BY <1>6, <3>1, <3>2
    <3>8. Len(more) = m /\ more[m].trades = Append(B[m].trades, i)
      BY <2>2, <2>3
    <3> QED
      BY <3>4, <3>6, <3>7, <3>8
  <2> QED
    BY <1>4, <2>1, <2>3, <2>4, <2>5 DEF e, n
<1> QED
  BY <1>5, <1>6 DEF e

(* W holds the chart after each of the trades, the recursion of Filled     *)
(* written out.                                                            *)
IsFilling(W, c, ts) ==
  /\ W[0] = c
  /\ \A i \in 1 .. Len(ts) : W[i] = AddTick(W[i - 1], ts[i])

(* The recursion of Filled defines a function.                             *)
LEMMA FilledDef ==
  ASSUME NEW c, NEW ts, Len(ts) \in Nat
  PROVE  \E W : IsFilling(W, c, ts) /\ Filled(c, ts) = W[Len(ts)]
<1> DEFINE n == Len(ts)
           Take(w, i) == AddTick(w, ts[i])
           Graph(f, k) == f = [i \in 0 .. k |-> IF i = 0 THEN c ELSE Take(f[i - 1], i)]
           T == {k \in 0 .. n : \E f : Graph(f, k)}
<1>0. n \in Nat
  OBVIOUS
<1>1. Filled(c, ts) = (CHOOSE W : Graph(W, n))[n]
  BY DEF Filled
<1> HIDE DEF Take, n
<1>2. 0 \in T
  <2>1. Graph([i \in 0 .. 0 |-> c], 0)
    OBVIOUS
  <2> HIDE DEF Graph
  <2>2. \E f : Graph(f, 0)
    BY <2>1
  <2> QED
    BY <1>0, <2>2
<1>3. ASSUME NEW k \in 0 .. n - 1, k \in T
      PROVE  k + 1 \in T
  <2>1. PICK f : Graph(f, k)
    BY <1>3
  <2> DEFINE g == [i \in 0 .. k + 1 |-> IF i = k + 1 THEN Take(f[k], k + 1) ELSE f[i]]
  <2>2. \A i \in 0 .. k : g[i] = f[i]
    BY <1>0
  <2>3. g[k + 1] = Take(f[k], k + 1) /\ k + 1 # 0
    BY <1>0
  <2>4. ASSUME NEW i \in 0 .. k + 1
        PROVE  g[i] = IF i = 0 THEN c ELSE Take(g[i - 1], i)
    <3>1. CASE i = k + 1
      BY <1>0, <2>2, <2>3, <3>1
    <3>2. CASE i # k + 1
      <4>1. i \in 0 .. k /\ (i # 0 => i - 1 \in 0 .. k)
        BY <1>0, <3>2
      <4>2. f[i] = IF i = 0 THEN c ELSE Take(f[i - 1], i)
        BY <2>1, <4>1
      <4> HIDE DEF g
      <4> QED
        BY <2>2, <4>1, <4>2
    <3> QED
      BY <3>1, <3>2
  <2>5. Graph(g, k + 1)
    BY <2>4
  <2> HIDE DEF g, Graph
  <2>6. \E h : Graph(h, k + 1)
    BY <2>5
  <2> QED
    BY <1>0, <2>6
<1>4. n \in T
  <2> HIDE DEF T
  <2>1. 0 .. n \subseteq T
    BY <1>0, <1>2, <1>3, SetInduction
  <2> QED
    BY <1>0, <2>1
<1> DEFINE W == CHOOSE W : Graph(W, n)
<1>5. Graph(W, n)
  BY <1>4
<1> HIDE DEF W
<1>6. W[0] = c /\ \A i \in 1 .. n : W[i] = Take(W[i - 1], i)
  BY <1>0, <1>5
<1>7. IsFilling(W, c, ts)
  BY <1>6 DEF IsFilling, n, Take
<1> QED
  BY <1>1, <1>7 DEF W, n

(* Whatever was before: after trades, the bars hold what they held and     *)
(* those trades.                                                           *)
LEMMA AllFilled ==
  ASSUME TapeRuns, NEW N \in 1 .. Len(tape), NEW c, SoundChart(c, N), ~OfTime(c),
         NEW g \in Seq(1 .. N), AllFullButLast(c.bars, c.basis.n, g), NEW ts \in Seq(1 .. N)
  PROVE  LET e == Filled(c, ts)
         IN /\ SoundChart(e, N) /\ e.basis = c.basis /\ e.step = c.step /\ e.raw = c.raw
            /\ AllFullButLast(e.bars, c.basis.n, g \o ts)
<1> DEFINE n == Len(ts) sofar(k) == g \o SubSeq(ts, 1, k)
<1>1. n \in Nat /\ \A k \in 1 .. n : ts[k] \in 1 .. N
  OBVIOUS
<1>2. PICK W : IsFilling(W, c, ts) /\ Filled(c, ts) = W[n]
  BY <1>1, FilledDef
<1>3. /\ sofar(0) = g /\ sofar(n) = g \o ts
      /\ \A k \in 0 .. n : sofar(k) \in Seq(1 .. N)
  <2> DEFINE s(k) == SubSeq(ts, 1, k)
  <2>1. s(0) = <<>>
    OBVIOUS
  <2>2. s(n) = ts
    OBVIOUS
  <2>3. \A k \in 0 .. n : s(k) \in Seq(1 .. N)
    OBVIOUS
  <2> HIDE DEF s
  <2>4. /\ g \o s(0) = g /\ g \o s(n) = g \o ts
        /\ \A k \in 0 .. n : g \o s(k) \in Seq(1 .. N)
    BY <2>1, <2>2, <2>3
  <2> QED
    BY <2>4 DEF s
<1>4. ASSUME NEW k \in 0 .. n - 1
      PROVE  sofar(k + 1) = Append(sofar(k), ts[k + 1])
  <2> DEFINE s == SubSeq(ts, 1, k) t == SubSeq(ts, 1, k + 1) i == ts[k + 1]
  <2>1. i \in 1 .. N /\ s \in Seq(1 .. N)
    BY <1>1
  <2>2. t = Append(s, i)
    <3>1. s \in Seq(1 .. N) /\ Len(s) = k /\ \A j \in 1 .. k : s[j] = ts[j]
      BY <1>1
    <3>2. t \in Seq(1 .. N) /\ Len(t) = k + 1 /\ \A j \in 1 .. k + 1 : t[j] = ts[j]
      BY <1>1
    <3> HIDE DEF s, t, i
    <3>3. Append(s, i) \in Seq(1 .. N) /\ Len(Append(s, i)) = k + 1 /\ Append(s, i)[k + 1] = i
          /\ \A j \in 1 .. k : Append(s, i)[j] = s[j]
      <4> DEFINE T == 1 .. N
      <4>1. i \in T /\ s \in Seq(T) /\ Len(s) = k /\ k \in Nat
        BY <2>1, <3>1
      <4> HIDE DEF T
      <4>2. Append(s, i) \in Seq(T) /\ Len(Append(s, i)) = k + 1 /\ Append(s, i)[k + 1] = i
            /\ \A j \in 1 .. k : Append(s, i)[j] = s[j]
        BY <4>1
      <4> QED
        BY <4>2 DEF T
    <3>4. ASSUME NEW j \in 1 .. k + 1
          PROVE  t[j] = Append(s, i)[j]
      <4>1. CASE j = k + 1
        BY <3>2, <3>3, <4>1 DEF i
      <4>2. CASE j # k + 1
        <5>1. j \in 1 .. k
          BY <4>2
        <5> QED
          BY <3>1, <3>2, <3>3, <5>1
      <4> QED
        BY <4>1, <4>2
    <3> DEFINE v == Append(s, i)
    <3>5. v \in Seq(1 .. N) /\ Len(v) = k + 1 /\ \A j \in 1 .. k + 1 : t[j] = v[j]
      BY <3>3, <3>4
    <3> HIDE DEF v
    <3>6. t = v
      BY <3>2, <3>5
    <3> QED
      BY <3>6 DEF v
  <2> HIDE DEF s, t, i
  <2>3. g \o Append(s, i) = Append(g \o s, i)
    BY <2>1
  <2> QED
    BY <2>2, <2>3 DEF s, t, i
<1> DEFINE Right(w, k) == /\ SoundChart(w, N) /\ w.basis = c.basis /\ w.step = c.step /\ w.raw = c.raw
                          /\ AllFullButLast(w.bars, c.basis.n, sofar(k))
           D == {k \in 0 .. n : Right(W[k], k)}
<1>5. 0 \in D
  <2>1. W[0] = c
    BY <1>2 DEF IsFilling
  <2>2. Right(c, 0)
    BY <1>3
  <2> HIDE DEF Right
  <2> QED
    BY <1>1, <2>1, <2>2
<1> HIDE DEF sofar
<1>6. ASSUME NEW k \in 0 .. n - 1, k \in D
      PROVE  k + 1 \in D
  <2> DEFINE w == W[k] i == ts[k + 1] e == AddTick(w, i) h == sofar(k)
  <2>1. k + 1 \in 1 .. n /\ (k + 1) - 1 = k /\ k \in 0 .. n
    BY <1>1
  <2>2. W[k + 1] = e
    BY <1>2, <2>1 DEF IsFilling
  <2>3. /\ SoundChart(w, N) /\ w.basis = c.basis /\ w.step = c.step /\ w.raw = c.raw
        /\ AllFullButLast(w.bars, c.basis.n, h)
    BY <1>6
  <2>4. i \in 1 .. N /\ h \in Seq(1 .. N) /\ sofar(k + 1) = Append(h, i)
    BY <1>1, <1>3, <1>4, <2>1
  <2> HIDE DEF w, i, h
  <2>5. ~OfTime(w) /\ AllFullButLast(w.bars, w.basis.n, h)
    BY <2>3 DEF OfTime
  <2>6. /\ SoundChart(e, N) /\ e.basis = w.basis /\ e.step = w.step /\ e.raw = w.raw
        /\ AllFullButLast(e.bars, w.basis.n, Append(h, i))
    BY <2>3, <2>4, <2>5, TickAdded
  <2> HIDE DEF e
  <2>7. Right(e, k + 1)
    BY <2>3, <2>4, <2>6
  <2> HIDE DEF Right
  <2> QED
    BY <1>1, <2>1, <2>2, <2>7
<1>7. Right(W[n], n)
  <2> HIDE DEF D
  <2>1. 0 .. n \subseteq D
    BY <1>1, <1>5, <1>6, SetInduction
  <2> QED
    BY <1>1, <2>1 DEF D
<1> QED
  BY <1>2, <1>3, <1>7

(* insert_trades of TickAggr: as many trades as there are, and every point *)
(* of control set anew.                                                    *)
LEMMA TicksInserted ==
  ASSUME TapeRuns, NEW N \in 1 .. Len(tape), NEW c, SoundChart(c, N), ~OfTime(c),
         NEW g \in Seq(1 .. N), InTurn(c.bars, c.basis.n, g), NEW ts \in Seq(1 .. N)
  PROVE  LET e == TickInsert(c, ts)
         IN /\ SoundChart(e, N) /\ e.basis = c.basis /\ e.step = c.step /\ e.raw = c.raw
            /\ InTurn(e.bars, c.basis.n, g \o ts)
            /\ PocsAreSet(e) /\ PricesAreTrue(e) /\ StatusesAreTrue(e)
<1> DEFINE f == Filled(c, ts) n == c.basis.n h == g \o ts
           bars == [k \in DOMAIN f.bars |-> CalculatePoc(c, f.bars[k])]
           d == [f EXCEPT !.bars = bars]
           e == TickInsert(c, ts)
<1>0. n \in Nat \ {0} /\ h \in Seq(1 .. N) /\ Len(h) \in Nat
  BY FootprintAssumption DEF SoundChart
<1>1. e = UpdatePocStatus(d)
  BY DEF TickInsert
<1>2. AllFullButLast(c.bars, n, g)
  <2>1. Len(c.bars) \in Nat /\ DOMAIN c.bars = 1 .. Len(c.bars)
    BY DEF SoundChart
  <2> QED
    BY <1>0, <2>1, TwoForms
<1>3. /\ SoundChart(f, N) /\ f.basis = c.basis /\ f.step = c.step /\ f.raw = c.raw
      /\ AllFullButLast(f.bars, n, h)
  BY <1>2, AllFilled
<1> HIDE DEF f, n, h, e
<1>4. ~OfTime(f) /\ Len(f.bars) \in Nat /\ DOMAIN f.bars = 1 .. Len(f.bars)
  <2>1. ~OfTime(f)
    BY <1>3 DEF OfTime
  <2> QED
    BY <1>3, <2>1 DEF SoundChart
<1>5. InTurn(f.bars, n, h)
  BY <1>0, <1>3, <1>4, TwoForms
<1>6. ASSUME NEW k \in DOMAIN f.bars
      PROVE  LET b == bars[k]
             IN /\ WellFormed(b, N) /\ b.trades = f.bars[k].trades /\ b.trades # <<>> /\ b.poc # NoPoc
                /\ b.poc.price = BusiestPrice(c, b.trades)
  <2> DEFINE bar == f.bars[k] b == CalculatePoc(c, bar)
  <2>1. WellFormed(bar, N)
    BY <1>3 DEF SoundChart, BarsWellFormed
  <2>2. bars[k] = b
    OBVIOUS
  <2>3. bar.trades # <<>>
    <3> DEFINE x == Min({(k - 1) * n, Len(h)}) y == Min({k * n, Len(h)})
    <3>1. x < y /\ bar.trades = SubSeq(h, x + 1, y)
      BY <1>5 DEF InTurn
    <3>2. x \in Int /\ y \in Int /\ x >= 0 /\ y <= Len(h)
      <4> DEFINE u == (k - 1) * n v == k * n l == Len(h)
      <4>1. u \in Nat /\ v \in Nat /\ l \in Nat /\ u \in Int /\ v \in Int /\ l \in Int
        <5>1. k \in Nat /\ k - 1 \in Nat
          BY <1>4
        <5> QED
          BY <1>0, <5>1, Multiples
      <4>2. x = Min({u, l}) /\ y = Min({v, l})
        OBVIOUS
      <4> HIDE DEF u, v, l, x, y
      <4>3. Min({u, l}) = (IF u <= l THEN u ELSE l)
        BY <4>1, MinOfTwo
      <4>4. Min({v, l}) = (IF v <= l THEN v ELSE l)
        BY <4>1, MinOfTwo
      <4> QED
        BY <4>1, <4>2, <4>3, <4>4 DEF l
    <3> HIDE DEF x, y, bar
    <3>3. Len(SubSeq(h, x + 1, y)) = y - x
      BY <1>0, <3>1, <3>2
    <3>4. Len(bar.trades) > 0
      BY <3>1, <3>2, <3>3
    <3>5. Len(<<>>) = 0
      OBVIOUS
    <3> QED
      BY <3>4, <3>5
  <2> HIDE DEF bar, bars
  <2>4. /\ WellFormed(b, N)
        /\ b.low = bar.low /\ b.high = bar.high /\ b.trades = bar.trades
        /\ b.poc # NoPoc
        /\ b.poc.price = BusiestPrice(c, bar.trades) /\ b.poc.status = Untested
    BY <2>1, PocCalculated
  <2> HIDE DEF b, bars
  <2> QED
    BY <2>2, <2>3, <2>4 DEF bar
<1>7. BarsWellFormed(bars, N) /\ DOMAIN bars = DOMAIN f.bars
  BY <1>6 DEF BarsWellFormed
<1> HIDE DEF bars
<1>8. /\ d.basis = f.basis /\ d.step = f.step /\ d.bars = bars /\ d.raw = f.raw
      /\ SoundChart(d, N) /\ Len(bars) = Len(f.bars)
  BY <1>3, <1>4, <1>7, BarsExchanged, PlacesKept
<1> HIDE DEF d
<1>9. PricesAreTrue(d)
  <2> SUFFICES ASSUME NEW k \in DOMAIN bars
               PROVE  bars[k].poc.price = BusiestPrice(d, bars[k].trades)
    BY <1>8 DEF PricesAreTrue
  <2> QED
    BY <1>3, <1>6, <1>7, <1>8, BusiestSame
<1>10. /\ SoundChart(e, N) /\ SameRanges(d, e) /\ e.raw = d.raw
       /\ Len(e.bars) = Len(d.bars) \/ OfTime(d)
       /\ \A k \in DOMAIN d.bars :
            /\ e.bars[k].trades = d.bars[k].trades
            /\ e.bars[k].poc = NoPoc <=> d.bars[k].poc = NoPoc
       /\ StatusesAreTrue(e) /\ PricesAreTrue(e)
  BY <1>1, <1>8, <1>9, StatusUpdated
<1>11. Len(e.bars) = Len(f.bars) /\ DOMAIN e.bars = DOMAIN f.bars
       /\ \A k \in DOMAIN f.bars : e.bars[k].trades = f.bars[k].trades /\ e.bars[k].trades # <<>> /\ e.bars[k].poc # NoPoc
  <2>1. ~OfTime(d)
    BY <1>4, <1>8 DEF OfTime
  <2> QED
    BY <1>6, <1>7, <1>8, <1>10, <2>1 DEF SameRanges
<1>12. PocsAreSet(e)
  BY <1>11 DEF PocsAreSet
<1>13. InTurn(e.bars, n, h)
  BY <1>5, <1>11 DEF InTurn
<1> QED
  BY <1>3, <1>8, <1>10, <1>12, <1>13 DEF SameRanges, e, n, h
-----------------------------------------------------------------------------
(* All of what is true of a chart with trades of the first N, after every  *)
(* call: s of its raw trades came before its last reset, and the trades in *)
(* m may be missing.                                                       *)
BarsHadTrades(c, N) == OfTime(c) => DOMAIN c.bars \subseteq {BucketOf(c, i) : i \in 1 .. N}

(* The bars of ticks hold, in turn, the raw trades since the last reset.   *)
TicksInTurn(c, s) == ~OfTime(c) => InTurn(c.bars, c.basis.n, SubSeq(c.raw, s + 1, Len(c.raw)))

(* Every raw trade that has a bar is in it, but for those in m.            *)
TradesPlaced(c, m) ==
  OfTime(c) =>
    \A i \in ToSet(c.raw) \ m :
      BucketOf(c, i) \in DOMAIN c.bars => i \in ToSet(c.bars[BucketOf(c, i)].trades)

(* The three facts about points of control together.                       *)
PocsAreTrue(c) == PocsAreSet(c) /\ PricesAreTrue(c) /\ StatusesAreTrue(c)

(* All of what is true of a chart.                                         *)
ChartTrue(c, N, s, m) ==
  /\ SoundChart(c, N) /\ PocsAreTrue(c)
  /\ BarsHadTrades(c, N) /\ TicksInTurn(c, s) /\ TradesPlaced(c, m)
  /\ s \in Nat /\ s <= Len(c.raw) /\ m \subseteq 1 .. N

(* With more trades on the tape a chart is what it was.                    *)
LEMMA MoreTape ==
  ASSUME NEW c, NEW N \in Nat, NEW M \in Nat, N <= M
  PROVE  /\ SoundChart(c, N) => SoundChart(c, M)
         /\ \A s, m : ChartTrue(c, N, s, m) => ChartTrue(c, M, s, m)
<1>1. 1 .. N \subseteq 1 .. M
  OBVIOUS
<1>2. \A q : q \in Seq(1 .. N) => q \in Seq(1 .. M)
  <2> DEFINE A == 1 .. N B == 1 .. M
  <2>1. A \subseteq B
    BY <1>1
  <2> HIDE DEF A, B
  <2>2. \A q : q \in Seq(A) => q \in Seq(B)
    BY <2>1
  <2> QED
    BY <2>2 DEF A, B
<1>3. \A bar : WellFormed(bar, N) => WellFormed(bar, M)
  BY <1>2 DEF WellFormed
<1>4. SoundChart(c, N) => SoundChart(c, M)
  BY <1>2, <1>3 DEF SoundChart, BarsWellFormed
<1>5. BarsHadTrades(c, N) => BarsHadTrades(c, M)
  BY <1>1 DEF BarsHadTrades
<1> QED
  BY <1>1, <1>4, <1>5 DEF ChartTrue

(* Raw trades exchanged: the bars stay.                                    *)
LEMMA RawExchanged ==
  ASSUME NEW c, NEW N, SoundChart(c, N), NEW raw \in Seq(1 .. N)
  PROVE  LET e == [c EXCEPT !.raw = raw]
         IN /\ SoundChart(e, N) /\ e.basis = c.basis /\ e.step = c.step /\ e.bars = c.bars /\ e.raw = raw
            /\ PocsAreTrue(c) => PocsAreTrue(e)
<1> DEFINE e == [c EXCEPT !.raw = raw]
<1>1. e = [basis |-> c.basis, step |-> c.step, bars |-> c.bars, raw |-> raw]
  BY DEF SoundChart
<1>2. e.basis = c.basis /\ e.step = c.step /\ e.bars = c.bars /\ e.raw = raw
  BY <1>1
<1> HIDE DEF e
<1>3. OfTime(e) <=> OfTime(c)
  BY <1>2 DEF OfTime
<1>4. SoundChart(e, N)
  BY <1>1, <1>2, <1>3 DEF SoundChart
<1>5. ASSUME PocsAreTrue(c)
      PROVE  PocsAreTrue(e)
  <2>1. PocsAreSet(e)
    BY <1>2, <1>5 DEF PocsAreTrue, PocsAreSet
  <2>2. PricesAreTrue(e)
    BY <1>2, <1>5, BusiestSame DEF PocsAreTrue, PricesAreTrue
  <2>3. StatusesAreTrue(e)
    <3>1. SameRanges(c, e)
      BY <1>2 DEF SameRanges
    <3>2. \A k \in DOMAIN c.bars : StatusIn(e, k) = StatusIn(c, k)
      BY <1>2, <3>1, StatusSame
    <3> QED
      BY <1>2, <1>5, <3>2 DEF PocsAreTrue, StatusesAreTrue
  <2> QED
    BY <2>1, <2>2, <2>3 DEF PocsAreTrue
<1> QED
  BY <1>2, <1>4, <1>5 DEF e

(* The part of a sequence from a place on, when the sequence grows.        *)
LEMMA RestOfGrown ==
  ASSUME NEW T, NEW a \in Seq(T), NEW b \in Seq(T), NEW s \in 0 .. Len(a)
  PROVE  /\ SubSeq(a \o b, s + 1, Len(a \o b)) = SubSeq(a, s + 1, Len(a)) \o b
         /\ SubSeq(a, s + 1, Len(a)) \in Seq(T)
         /\ s <= Len(a \o b)
<1> DEFINE m == Len(a) n == Len(b) h == a \o b l == m - s
           u == SubSeq(h, s + 1, Len(h)) v == SubSeq(a, s + 1, m) w == v \o b
<1>1. m \in Nat /\ n \in Nat /\ s \in 0 .. m /\ l \in Nat
  OBVIOUS
<1>2. /\ h \in Seq(T) /\ Len(h) = m + n
      /\ \A j \in 1 .. m : h[j] = a[j]
      /\ \A j \in m + 1 .. m + n : h[j] = b[j - m]
  OBVIOUS
<1>3. v \in Seq(T) /\ Len(v) = l /\ \A j \in 1 .. l : v[j] = a[s + j]
  <2>1. v \in Seq(T) /\ Len(v) = l /\ \A j \in 1 .. l : v[j] = a[s + 1 + j - 1]
    BY <1>1
  <2>2. \A j \in 1 .. l : s + 1 + j - 1 = s + j
    BY <1>1
  <2> QED
    BY <2>1, <2>2
<1> HIDE DEF h, v
<1>4. u \in Seq(T) /\ Len(u) = l + n /\ \A j \in 1 .. l + n : u[j] = h[s + j]
  <2>1. u \in Seq(T) /\ Len(u) = l + n /\ \A j \in 1 .. l + n : u[j] = h[s + 1 + j - 1]
    BY <1>1, <1>2
  <2>2. \A j \in 1 .. l + n : s + 1 + j - 1 = s + j
    BY <1>1
  <2> QED
    BY <2>1, <2>2
<1>5. /\ w \in Seq(T) /\ Len(w) = l + n
      /\ \A j \in 1 .. l : w[j] = v[j]
      /\ \A j \in l + 1 .. l + n : w[j] = b[j - l]
  <2>1. b \in Seq(T) /\ Len(b) = n /\ v \in Seq(T) /\ Len(v) = l /\ n \in Nat /\ l \in Nat
    BY <1>1, <1>3
  <2> HIDE DEF l, n
  <2> QED
    BY <2>1
<1> HIDE DEF u, w, l, m, n
<1>6. ASSUME NEW j \in 1 .. l + n
      PROVE  u[j] = w[j]
  <2>1. CASE j \in 1 .. l
    <3>1. s + j \in 1 .. m
      BY <1>1, <2>1 DEF l
    <3> QED
      BY <1>2, <1>3, <1>4, <1>5, <2>1, <3>1
  <2>2. CASE j \notin 1 .. l
    <3>1. j \in l + 1 .. l + n /\ s + j \in m + 1 .. m + n /\ (s + j) - m = j - l
      BY <1>1, <2>2 DEF l
    <3> QED
      BY <1>2, <1>4, <1>5, <3>1
  <2> QED
    BY <2>1, <2>2
<1>7. l + n \in Nat
  BY <1>1
<1>8. u = w
  BY <1>4, <1>5, <1>6, <1>7
<1>9. s <= Len(h)
  BY <1>1, <1>2
<1> QED
  BY <1>3, <1>8, <1>9 DEF u, w, h, v, m

(* The bar of a trade is a matter of the basis.                            *)
LEMMA SameBuckets ==
  ASSUME NEW c, NEW e, e.basis = c.basis
  PROVE  (OfTime(e) <=> OfTime(c)) /\ \A i : BucketOf(e, i) = BucketOf(c, i)
  BY DEF OfTime, BucketOf

(* The trades of a stream or of a batch.                                   *)
LEMMA GivenIsTrue ==
  ASSUME TapeRuns, NEW N \in 1 .. Len(tape), NEW c, NEW s, NEW m, ChartTrue(c, N, s, m),
         NEW ts \in Seq(1 .. N)
  PROVE  ChartTrue(Given(c, ts), N, s, m) /\ (OfTime(c) => OfTime(Given(c, ts)))
<1> DEFINE d == InsertTrades(c, ts) raw == c.raw \o ts e == Given(c, ts) g == SubSeq(c.raw, s + 1, Len(c.raw))
<1>1. SoundChart(c, N) /\ PocsAreTrue(c) /\ BarsHadTrades(c, N) /\ TicksInTurn(c, s) /\ TradesPlaced(c, m)
      /\ s \in Nat /\ s <= Len(c.raw) /\ m \subseteq 1 .. N
  BY DEF ChartTrue
<1>2. c.raw \in Seq(1 .. N) /\ s \in 0 .. Len(c.raw)
  BY <1>1 DEF SoundChart
<1>3. /\ raw \in Seq(1 .. N) /\ g \in Seq(1 .. N) /\ s <= Len(raw)
      /\ SubSeq(raw, s + 1, Len(raw)) = g \o ts
      /\ \A i : i \in ToSet(raw) <=> i \in ToSet(c.raw) \/ i \in ToSet(ts)
  <2> DEFINE T == 1 .. N q == c.raw
  <2>1. q \in Seq(T) /\ ts \in Seq(T) /\ s \in 0 .. Len(q)
    BY <1>2
  <2> HIDE DEF T, q
  <2>2. /\ SubSeq(q \o ts, s + 1, Len(q \o ts)) = SubSeq(q, s + 1, Len(q)) \o ts
        /\ SubSeq(q, s + 1, Len(q)) \in Seq(T) /\ s <= Len(q \o ts)
    BY <2>1, RestOfGrown
  <2>3. q \o ts \in Seq(T) /\ \A i : i \in ToSet(q \o ts) <=> i \in ToSet(q) \/ i \in ToSet(ts)
    BY <2>1, Joined
  <2> QED
    BY <2>2, <2>3 DEF T, q
<1>4. e = [d EXCEPT !.raw = d.raw \o ts]
  BY DEF Given
<1> HIDE DEF d, raw, e, g
<1>5. CASE OfTime(c)
  <2> DEFINE f == IntoExistingBars(c, ts)
  <2>1. d = f
    BY <1>5 DEF d, InsertTrades
  <2>2. /\ SoundChart(f, N) /\ SameRanges(c, f) /\ f.raw = c.raw
        /\ \A k \in DOMAIN c.bars : \A i :
             i \in ToSet(f.bars[k].trades) <=>
               i \in ToSet(c.bars[k].trades) \/ (i \in ToSet(ts) /\ BucketOf(c, i) = k)
        /\ PocsAreSet(c) => PocsAreSet(f)
        /\ PricesAreTrue(c) => PricesAreTrue(f)
        /\ StatusesAreTrue(c) => StatusesAreTrue(f)
    BY <1>1, TradesInserted
  <2> HIDE DEF f
  <2>3. e = [f EXCEPT !.raw = raw]
    BY <1>4, <2>1, <2>2 DEF raw
  <2>4. /\ SoundChart(e, N) /\ e.basis = f.basis /\ e.step = f.step /\ e.bars = f.bars /\ e.raw = raw
        /\ PocsAreTrue(f) => PocsAreTrue(e)
    BY <1>3, <2>2, <2>3, RawExchanged
  <2>5. PocsAreTrue(e)
    BY <1>1, <2>2, <2>4 DEF PocsAreTrue
  <2>6. OfTime(e) /\ \A i : BucketOf(e, i) = BucketOf(c, i)
    <3>1. e.basis = c.basis
      BY <2>2, <2>4 DEF SameRanges
    <3> QED
      BY <1>5, <3>1, SameBuckets
  <2>7. DOMAIN e.bars = DOMAIN c.bars
    BY <2>2, <2>4 DEF SameRanges
  <2>8. BarsHadTrades(e, N)
    BY <1>1, <1>5, <2>6, <2>7 DEF BarsHadTrades
  <2>9. TradesPlaced(e, m)
    <3> SUFFICES ASSUME NEW i \in ToSet(raw) \ m, BucketOf(c, i) \in DOMAIN c.bars
                 PROVE  i \in ToSet(f.bars[BucketOf(c, i)].trades)
      BY <2>4, <2>6, <2>7 DEF TradesPlaced
    <3>1. CASE i \in ToSet(ts)
      BY <2>2, <3>1
    <3>2. CASE i \in ToSet(c.raw)
      <4>1. i \in ToSet(c.bars[BucketOf(c, i)].trades)
        BY <1>1, <1>5, <3>2 DEF TradesPlaced
      <4> QED
        BY <2>2, <4>1
    <3> QED
      BY <1>3, <3>1, <3>2
  <2>10. TicksInTurn(e, s)
    BY <2>6 DEF TicksInTurn
  <2>11. s <= Len(e.raw)
    BY <1>3, <2>4
  <2> QED
    BY <1>1, <2>4, <2>5, <2>6, <2>8, <2>9, <2>10, <2>11 DEF ChartTrue, e
<1>6. CASE ~OfTime(c)
  <2> DEFINE f == TickInsert(c, ts)
  <2>1. d = f
    BY <1>6 DEF d, InsertTrades
  <2>2. InTurn(c.bars, c.basis.n, g)
    BY <1>1, <1>6 DEF TicksInTurn, g
  <2>3. /\ SoundChart(f, N) /\ f.basis = c.basis /\ f.step = c.step /\ f.raw = c.raw
        /\ InTurn(f.bars, c.basis.n, g \o ts)
        /\ PocsAreSet(f) /\ PricesAreTrue(f) /\ StatusesAreTrue(f)
    BY <1>1, <1>3, <1>6, <2>2, TicksInserted
  <2> HIDE DEF f
  <2>4. e = [f EXCEPT !.raw = raw]
    BY <1>4, <2>1, <2>3 DEF raw
  <2>5. /\ SoundChart(e, N) /\ e.basis = f.basis /\ e.step = f.step /\ e.bars = f.bars /\ e.raw = raw
        /\ PocsAreTrue(f) => PocsAreTrue(e)
    BY <1>3, <2>3, <2>4, RawExchanged
  <2>6. PocsAreTrue(e)
    BY <2>3, <2>5 DEF PocsAreTrue
  <2>7. ~OfTime(e)
    BY <1>6, <2>3, <2>5 DEF OfTime
  <2>8. TicksInTurn(e, s)
    BY <1>3, <2>3, <2>5 DEF TicksInTurn
  <2>9. BarsHadTrades(e, N) /\ TradesPlaced(e, m)
    BY <2>7 DEF BarsHadTrades, TradesPlaced
  <2>10. s <= Len(e.raw)
    BY <1>3, <2>5
  <2> QED
    BY <1>1, <1>6, <2>5, <2>6, <2>8, <2>9, <2>10 DEF ChartTrue, e
<1> QED
  BY <1>5, <1>6

(* A chart that is emptied, perhaps with another basis or without its raw  *)
(* trades.                                                                 *)
LEMMA EmptiedIsTrue ==
  ASSUME NEW c, NEW N, SoundChart(c, N)
  PROVE  LET e == Emptied(c)
         IN /\ SoundChart(e, N) /\ e.basis = c.basis /\ e.step = c.step /\ e.raw = c.raw
            /\ e.bars = <<>> /\ DOMAIN e.bars = {} /\ PocsAreTrue(e)
<1> DEFINE none == <<>> e == Emptied(c)
<1>1. e = [c EXCEPT !.bars = none]
  BY DEF Emptied
<1>2. /\ DOMAIN none = {} /\ none = [k \in DOMAIN none |-> none[k]]
      /\ none \in Seq({none[k] : k \in DOMAIN none})
  OBVIOUS
<1>3. BarsWellFormed(none, N)
  BY <1>2 DEF BarsWellFormed
<1> HIDE DEF none, e
<1>4. /\ e = [basis |-> c.basis, step |-> c.step, bars |-> none, raw |-> c.raw]
      /\ e.basis = c.basis /\ e.step = c.step /\ e.bars = none /\ e.raw = c.raw
  BY <1>1, BarsExchanged
<1>5. SoundChart(e, N)
  BY <1>2, <1>3, <1>4 DEF SoundChart
<1>6. PocsAreTrue(e)
  BY <1>2, <1>4 DEF PocsAreTrue, PocsAreSet, PricesAreTrue, StatusesAreTrue
<1> QED
  BY <1>2, <1>4, <1>5, <1>6 DEF e, none

(* Of an emptied chart everything is true.                                 *)
LEMMA NothingIsTrue ==
  ASSUME NEW N, NEW c, SoundChart(c, N), c.bars = <<>>
  PROVE  /\ PocsAreTrue(c)
         /\ ChartTrue(c, N, Len(c.raw), {})
         /\ OfTime(c) => ChartTrue(c, N, 0, {})
         /\ InTurn(c.bars, c.basis.n, <<>>)
<1> DEFINE none == <<>> n == c.basis.n
<1>1. DOMAIN none = {} /\ Len(none) = 0
  OBVIOUS
<1>2. n \in Nat \ {0}
  BY FootprintAssumption DEF SoundChart
<1>3. InTurn(c.bars, n, <<>>)
  <2> DEFINE z == 0 * n
  <2>1. z = 0
    BY <1>2, Multiples
  <2> HIDE DEF z
  <2>2. Min({z, 0}) = 0
    <3>1. z \in Int /\ 0 \in Int
      BY <2>1
    <3>2. Min({z, 0}) = IF z <= 0 THEN z ELSE 0
      BY <3>1, MinOfTwo
    <3> QED
      BY <2>1, <3>2
  <2> QED
    BY <1>1, <2>2 DEF InTurn, z
<1>4. PocsAreTrue(c) /\ BarsHadTrades(c, N) /\ TradesPlaced(c, {})
  <2>1. DOMAIN c.bars = {}
    BY <1>1
  <2> QED
    BY <2>1 DEF PocsAreTrue, PocsAreSet, PricesAreTrue, StatusesAreTrue, BarsHadTrades, TradesPlaced
<1>5. c.raw \in Seq(1 .. N) /\ Len(c.raw) \in Nat
  BY DEF SoundChart
<1>6. SubSeq(c.raw, Len(c.raw) + 1, Len(c.raw)) = <<>>
  BY <1>5
<1>7. TicksInTurn(c, Len(c.raw))
  BY <1>3, <1>6 DEF TicksInTurn
<1>8. OfTime(c) => TicksInTurn(c, 0)
  BY DEF TicksInTurn
<1>9. 0 \in Nat /\ 0 <= Len(c.raw) /\ Len(c.raw) <= Len(c.raw) /\ {} \subseteq 1 .. N
  BY <1>5
<1> QED
  BY <1>3, <1>4, <1>5, <1>7, <1>8, <1>9 DEF ChartTrue

(* The bar of now, from the venue.                                         *)
LEMMA LatestIsTrue ==
  ASSUME TapeRuns, NEW c, NEW s, NEW m, ChartTrue(c, now, s, m), OfTime(c), NEW k, k = BucketOf(c, now)
  PROVE  /\ ChartTrue(InsertKlines(c, {k}), now, s,
                      IF k \in DOMAIN c.bars THEN m ELSE m \cup ToSet(TradesOf(c, c.raw, k)))
         /\ OfTime(InsertKlines(c, {k}))
<1> DEFINE e == InsertKlines(c, {k}) late == ToSet(TradesOf(c, c.raw, k))
           n == IF k \in DOMAIN c.bars THEN m ELSE m \cup late
<1>1. SoundChart(c, now) /\ PocsAreTrue(c) /\ BarsHadTrades(c, now) /\ TradesPlaced(c, m)
      /\ s \in Nat /\ s <= Len(c.raw) /\ m \subseteq 1 .. now
  BY DEF ChartTrue
<1>2. c.raw \in Seq(1 .. now) /\ now \in 1 .. now
  BY <1>1, TradesTyped DEF SoundChart, TapeRuns
<1>3. {k} \subseteq Traded(c)
  BY <1>2 DEF Traded
<1>4. /\ SoundChart(e, now) /\ e.basis = c.basis /\ e.step = c.step /\ e.raw = c.raw
      /\ DOMAIN e.bars = DOMAIN c.bars \cup {k}
      /\ \A j \in DOMAIN c.bars : e.bars[j].trades = c.bars[j].trades
      /\ PocsAreSet(c) => PocsAreSet(e)
      /\ PricesAreTrue(c) => PricesAreTrue(e)
      /\ StatusesAreTrue(e)
  BY <1>1, <1>3, KlinesInserted
<1>5. /\ \A i : i \in late <=> i \in ToSet(c.raw) /\ BucketOf(c, i) = k
      /\ late \subseteq 1 .. now
  <2>1. \A i : i \in late <=> i \in ToSet(c.raw) /\ BucketOf(c, i) = k
    <3> DEFINE q == c.raw N == now
    <3>1. q \in Seq(1 .. N)
      BY <1>2
    <3> HIDE DEF q, N
    <3>2. /\ TradesOf(c, q, k) \in Seq(1 .. N)
          /\ \A i : i \in ToSet(TradesOf(c, q, k)) <=> i \in ToSet(q) /\ BucketOf(c, i) = k
      BY <3>1, TradesOfOne
    <3> QED
      BY <3>2 DEF q
  <2>2. ToSet(c.raw) \subseteq 1 .. now
    BY <1>2 DEF ToSet
  <2> QED
    BY <2>1, <2>2
<1> HIDE DEF e, late
<1>6. OfTime(e) /\ \A i : BucketOf(e, i) = BucketOf(c, i)
  BY <1>4, SameBuckets
<1>7. BarsHadTrades(e, now)
  BY <1>1, <1>2, <1>4, <1>6 DEF BarsHadTrades
<1>8. PocsAreTrue(e)
  BY <1>1, <1>4 DEF PocsAreTrue
<1>9. TradesPlaced(e, n)
  BY <1>1, <1>4, <1>5, <1>6 DEF TradesPlaced
<1>10. TicksInTurn(e, s)
  BY <1>6 DEF TicksInTurn
<1>11. n \subseteq 1 .. now
  BY <1>1, <1>5
<1> QED
  BY <1>1, <1>4, <1>6, <1>7, <1>8, <1>9, <1>10, <1>11 DEF ChartTrue, e, late

(* A chart of time whose trades are all added (once more).                 *)
LEMMA RefilledIsTrue ==
  ASSUME NEW N, NEW c, SoundChart(c, N), OfTime(c), PocsAreTrue(c), BarsHadTrades(c, N),
         NEW s \in Nat, s <= Len(c.raw)
  PROVE  ChartTrue(IntoExistingBars(c, c.raw), N, s, {}) /\ OfTime(IntoExistingBars(c, c.raw))
<1> DEFINE e == IntoExistingBars(c, c.raw)
<1>1. c.raw \in Seq(1 .. N)
  BY DEF SoundChart
<1>2. /\ SoundChart(e, N) /\ SameRanges(c, e) /\ e.raw = c.raw
      /\ \A k \in DOMAIN c.bars : \A i :
           i \in ToSet(e.bars[k].trades) <=>
             i \in ToSet(c.bars[k].trades) \/ (i \in ToSet(c.raw) /\ BucketOf(c, i) = k)
      /\ PocsAreSet(c) => PocsAreSet(e)
      /\ PricesAreTrue(c) => PricesAreTrue(e)
      /\ StatusesAreTrue(c) => StatusesAreTrue(e)
  BY <1>1, TradesInserted
<1> HIDE DEF e
<1>3. OfTime(e) /\ DOMAIN e.bars = DOMAIN c.bars /\ \A i : BucketOf(e, i) = BucketOf(c, i)
  BY <1>2, SameBuckets DEF SameRanges
<1>4. BarsHadTrades(e, N) /\ TradesPlaced(e, {}) /\ TicksInTurn(e, s)
  BY <1>2, <1>3 DEF BarsHadTrades, TradesPlaced, TicksInTurn
<1>5. PocsAreTrue(e)
  BY <1>2 DEF PocsAreTrue
<1> QED
  BY <1>2, <1>3, <1>4, <1>5 DEF ChartTrue, e

(* Answers with bars.                                                      *)
LEMMA HistIsTrue ==
  ASSUME TapeRuns, NEW c, NEW s, NEW m, ChartTrue(c, now, s, m), OfTime(c),
         NEW ks, ks \subseteq Traded(c)
  PROVE  LET e == IntoExistingBars(InsertKlines(c, ks), c.raw)
         IN ChartTrue(e, now, s, {}) /\ OfTime(e)
<1> DEFINE e == InsertKlines(c, ks)
<1>1. SoundChart(c, now) /\ PocsAreTrue(c) /\ BarsHadTrades(c, now) /\ s \in Nat /\ s <= Len(c.raw)
  BY DEF ChartTrue
<1>2. /\ SoundChart(e, now) /\ e.basis = c.basis /\ e.raw = c.raw
      /\ DOMAIN e.bars = DOMAIN c.bars \cup ks
      /\ PocsAreSet(c) => PocsAreSet(e)
      /\ PricesAreTrue(c) => PricesAreTrue(e)
      /\ StatusesAreTrue(e)
  BY <1>1, KlinesInserted
<1> HIDE DEF e
<1>3. OfTime(e) /\ \A i : BucketOf(e, i) = BucketOf(c, i)
  BY <1>2, SameBuckets
<1>4. BarsHadTrades(e, now) /\ PocsAreTrue(e)
  BY <1>1, <1>2, <1>3 DEF BarsHadTrades, PocsAreTrue, Traded
<1>5. s <= Len(e.raw)
  BY <1>1, <1>2
<1>6. ChartTrue(IntoExistingBars(e, e.raw), now, s, {}) /\ OfTime(IntoExistingBars(e, e.raw))
  BY <1>1, <1>2, <1>3, <1>4, <1>5, RefilledIsTrue
<1> QED
  BY <1>2, <1>6 DEF e

(* A chart of trades made anew from its raw trades.                        *)
LEMMA CountedAnew ==
  ASSUME TapeRuns, NEW N \in 1 .. Len(tape), NEW c, SoundChart(c, N), ~OfTime(c), c.bars = <<>>
  PROVE  ChartTrue(TickInsert(c, c.raw), N, 0, {})
<1> DEFINE none == <<>> e == TickInsert(c, c.raw) q == c.raw
<1>1. q \in Seq(1 .. N) /\ none \in Seq(1 .. N)
  BY DEF SoundChart
<1>2. InTurn(c.bars, c.basis.n, none)
  BY NothingIsTrue
<1>3. none \o q = q /\ SubSeq(q, 0 + 1, Len(q)) = q /\ 0 <= Len(q)
  <2> DEFINE T == 1 .. N
  <2>1. q \in Seq(T)
    BY <1>1
  <2> HIDE DEF T, q
  <2> QED
    BY <2>1
<1> HIDE DEF none
<1>4. /\ SoundChart(e, N) /\ e.basis = c.basis /\ e.step = c.step /\ e.raw = c.raw
      /\ InTurn(e.bars, c.basis.n, none \o q)
      /\ PocsAreSet(e) /\ PricesAreTrue(e) /\ StatusesAreTrue(e)
  BY <1>1, <1>2, TicksInserted
<1> HIDE DEF e
<1>5. ~OfTime(e) /\ PocsAreTrue(e)
  BY <1>4, SameBuckets DEF PocsAreTrue
<1>6. TicksInTurn(e, 0)
  BY <1>3, <1>4 DEF TicksInTurn, q
<1>7. BarsHadTrades(e, N) /\ TradesPlaced(e, {})
  BY <1>5 DEF BarsHadTrades, TradesPlaced
<1>8. 0 \in Nat /\ 0 <= Len(e.raw)
  BY <1>3, <1>4 DEF q
<1> QED
  BY <1>4, <1>5, <1>6, <1>7, <1>8 DEF ChartTrue, e

(* A chart that is emptied and given another basis.                        *)
LEMMA BasisExchanged ==
  ASSUME NEW c, NEW N, SoundChart(c, N), NEW b \in Bases
  PROVE  LET e == Emptied([c EXCEPT !.basis = b])
         IN SoundChart(e, N) /\ e.basis = b /\ e.step = c.step /\ e.raw = c.raw /\ e.bars = <<>>
<1> DEFINE none == <<>> e == Emptied([c EXCEPT !.basis = b]) f == [c EXCEPT !.basis = b]
<1>1. e = [f EXCEPT !.bars = none]
  BY DEF Emptied
<1>2. /\ DOMAIN none = {} /\ none = [k \in DOMAIN none |-> none[k]]
      /\ none \in Seq({none[k] : k \in DOMAIN none})
  OBVIOUS
<1>3. BarsWellFormed(none, N)
  BY <1>2 DEF BarsWellFormed
<1>4. f = [basis |-> b, step |-> c.step, bars |-> c.bars, raw |-> c.raw]
  BY DEF SoundChart
<1> HIDE DEF none, f
<1>5. e = [basis |-> b, step |-> c.step, bars |-> none, raw |-> c.raw]
  BY <1>1, <1>4
<1> HIDE DEF e
<1>6. e.basis = b /\ e.step = c.step /\ e.bars = none /\ e.raw = c.raw
  BY <1>5
<1>7. SoundChart(e, N)
  BY <1>2, <1>3, <1>5, <1>6 DEF SoundChart
<1> QED
  BY <1>6, <1>7 DEF e, f, none

(* set_basis.                                                              *)
LEMMA BasisIsTrue ==
  ASSUME TapeRuns, NEW N \in 1 .. Len(tape), NEW c, SoundChart(c, N), NEW b \in Bases
  PROVE  LET e == Emptied([c EXCEPT !.basis = b])
         IN ChartTrue(IF OfTime(e) THEN e ELSE TickInsert(e, e.raw), N, 0, {})
<1> DEFINE e == Emptied([c EXCEPT !.basis = b]) new == IF OfTime(e) THEN e ELSE TickInsert(e, e.raw)
<1>1. SoundChart(e, N) /\ e.bars = <<>>
  BY BasisExchanged
<1> HIDE DEF e
<1>2. ASSUME OfTime(e)
      PROVE  ChartTrue(e, N, 0, {}) /\ new = e
  BY <1>1, <1>2, NothingIsTrue
<1>3. ASSUME ~OfTime(e)
      PROVE  ChartTrue(TickInsert(e, e.raw), N, 0, {}) /\ new = TickInsert(e, e.raw)
  BY <1>1, <1>3, CountedAnew
<1> HIDE DEF new
<1>4. ChartTrue(new, N, 0, {})
  BY <1>2, <1>3
<1> QED
  BY <1>4 DEF new, e

(* The answer to the first fetch: bars for all there were trades in.       *)
LEMMA FirstIsTrue ==
  ASSUME TapeRuns, NEW c, SoundChart(c, now), NEW b \in Bases, b.kind = "time"
  PROVE  LET e == Emptied([c EXCEPT !.basis = b])
         IN ChartTrue(OrNewBars(InsertKlines(e, Traded(e)), e.raw), now, 0, {})
<1> DEFINE e == Emptied([c EXCEPT !.basis = b]) ks == Traded(e) d == InsertKlines(e, ks)
<1>1. SoundChart(e, now) /\ e.basis = b /\ e.bars = <<>>
  BY BasisExchanged
<1> HIDE DEF e
<1>2. OfTime(e) /\ DOMAIN e.bars = {} /\ PocsAreTrue(e)
  <2>1. OfTime(e)
    BY <1>1 DEF OfTime
  <2>2. DOMAIN e.bars = {}
    BY <1>1
  <2> QED
    BY <1>1, <2>1, <2>2, NothingIsTrue
<1>3. ks \subseteq Traded(e)
  OBVIOUS
<1> HIDE DEF ks
<1>4. /\ SoundChart(d, now) /\ d.basis = e.basis /\ d.raw = e.raw
      /\ DOMAIN d.bars = DOMAIN e.bars \cup ks
      /\ PocsAreSet(e) => PocsAreSet(d)
      /\ PricesAreTrue(e) => PricesAreTrue(d)
      /\ StatusesAreTrue(d)
  BY <1>1, <1>2, <1>3, KlinesInserted
<1> HIDE DEF d
<1>5. OfTime(d) /\ \A i : BucketOf(d, i) = BucketOf(e, i)
  BY <1>2, <1>4, SameBuckets
<1>6. PocsAreTrue(d) /\ DOMAIN d.bars = {BucketOf(d, i) : i \in 1 .. now}
  BY <1>2, <1>4, <1>5 DEF PocsAreTrue, ks, Traded
<1>7. BarsHadTrades(d, now)
  BY <1>6 DEF BarsHadTrades
<1>8. d.raw \in Seq(1 .. now) /\ Len(d.raw) \in Nat
  BY <1>4 DEF SoundChart
<1>9. OrNewBars(d, d.raw) = IntoExistingBars(d, d.raw)
  <2> DEFINE q == d.raw T == 1 .. now
  <2>0. q \in Seq(T)
    BY <1>8
  <2> HIDE DEF q, T
  <2>1. \A j \in DOMAIN q : q[j] \in T
    BY <2>0
  <2>2. \A j \in DOMAIN q : BucketOf(d, q[j]) \in DOMAIN d.bars
    BY <1>6, <2>1 DEF T
  <2> QED
    BY <1>4, <2>2, NoBarsMissing DEF q
<1>10. ChartTrue(IntoExistingBars(d, d.raw), now, 0, {})
  <2>1. 0 \in Nat /\ 0 <= Len(d.raw)
    BY <1>8
  <2> QED
    BY <1>4, <1>5, <1>6, <1>7, <2>1, RefilledIsTrue
<1> QED
  BY <1>4, <1>9, <1>10 DEF d, ks, e

(* The bars of a chart of time without their trades.                       *)
LEMMA ClearedIsTrue ==
  ASSUME NEW c, NEW N, SoundChart(c, N), OfTime(c), BarsHadTrades(c, N)
  PROVE  LET e == Cleared(c)
         IN SoundChart(e, N) /\ OfTime(e) /\ e.raw = c.raw /\ PocsAreTrue(e) /\ BarsHadTrades(e, N)
<1> DEFINE none == <<>>
           bar(k) == NewBar(c.bars[k].low, c.bars[k].high, none)
           bars == [k \in DOMAIN c.bars |-> bar(k)]
           e == Cleared(c)
<1>1. e = [c EXCEPT !.bars = bars]
  BY DEF Cleared
<1>2. none \in Seq(1 .. N)
  OBVIOUS
<1> HIDE DEF none
<1>3. ASSUME NEW k \in DOMAIN c.bars
      PROVE  LET b == bar(k) IN WellFormed(b, N) /\ b.trades = none /\ b.poc = NoPoc
  <2> DEFINE low == c.bars[k].low high == c.bars[k].high
  <2>1. low \in Int /\ high \in Int /\ low <= high
    BY DEF SoundChart, BarsWellFormed, WellFormed
  <2> HIDE DEF low, high
  <2>2. LET b == NewBar(low, high, none) IN WellFormed(b, N) /\ b.trades = none /\ b.poc = NoPoc
    BY <1>2, <2>1, NewBarIsOne
  <2> QED
    BY <2>2 DEF low, high
<1> HIDE DEF bar
<1>4. /\ DOMAIN bars = DOMAIN c.bars /\ bars = [k \in DOMAIN bars |-> bars[k]]
      /\ \A k \in DOMAIN bars : WellFormed(bars[k], N) /\ bars[k].trades = none /\ bars[k].poc = NoPoc
  BY <1>3
<1> HIDE DEF bars
<1>5. BarsWellFormed(bars, N)
  BY <1>4 DEF BarsWellFormed
<1> HIDE DEF e
<1>6. SoundChart(e, N)
  BY <1>1, <1>4, <1>5, PlacesKept
<1>7. /\ e.basis = c.basis /\ e.bars = bars /\ e.raw = c.raw
      /\ OfTime(e) <=> OfTime(c)
  BY <1>1, BarsExchanged
<1>8. \A i : BucketOf(e, i) = BucketOf(c, i)
  BY <1>7, SameBuckets
<1>9. PocsAreTrue(e)
  BY <1>4, <1>7 DEF PocsAreTrue, PocsAreSet, PricesAreTrue, StatusesAreTrue, none
<1>10. BarsHadTrades(e, N)
  BY <1>4, <1>7, <1>8 DEF BarsHadTrades
<1> QED
  BY <1>6, <1>7, <1>9, <1>10 DEF e

(* change_tick_size.                                                       *)
LEMMA StepIsTrue ==
  ASSUME TapeRuns, NEW N \in 1 .. Len(tape), NEW c, NEW s, NEW m, ChartTrue(c, N, s, m),
         NEW step \in Steps
  PROVE  ChartTrue(Regrouped([c EXCEPT !.step = step]), N, 0, {})
<1> DEFINE d == [c EXCEPT !.step = step] new == Regrouped(d)
<1>1. SoundChart(c, N) /\ BarsHadTrades(c, N)
  BY DEF ChartTrue
<1>2. d = [basis |-> c.basis, step |-> step, bars |-> c.bars, raw |-> c.raw]
  BY <1>1 DEF SoundChart
<1>3. d.basis = c.basis /\ d.step = step /\ d.bars = c.bars /\ d.raw = c.raw
  BY <1>2
<1> HIDE DEF d
<1>4. (OfTime(d) <=> OfTime(c)) /\ \A i : BucketOf(d, i) = BucketOf(c, i)
  BY <1>3, SameBuckets
<1>5. SoundChart(d, N) /\ BarsHadTrades(d, N)
  BY <1>1, <1>2, <1>3, <1>4 DEF SoundChart, BarsHadTrades
<1>6. d.raw \in Seq(1 .. N) /\ Len(d.raw) \in Nat
  BY <1>5 DEF SoundChart
<1>7. CASE OfTime(d)
  <2> DEFINE e == Cleared(d)
  <2>1. SoundChart(e, N) /\ OfTime(e) /\ e.raw = d.raw /\ PocsAreTrue(e) /\ BarsHadTrades(e, N)
    BY <1>5, <1>7, ClearedIsTrue
  <2>2. new = IntoExistingBars(e, d.raw)
    BY <1>7 DEF Regrouped
  <2> HIDE DEF e, new
  <2>3. 0 \in Nat /\ 0 <= Len(e.raw)
    BY <1>6, <2>1
  <2>4. ChartTrue(IntoExistingBars(e, e.raw), N, 0, {})
    BY <2>1, <2>3, RefilledIsTrue
  <2>5. ChartTrue(new, N, 0, {})
    BY <2>1, <2>2, <2>4
  <2> QED
    BY <2>5 DEF new, d
<1>8. CASE ~OfTime(d)
  <2> DEFINE e == Emptied(d)
  <2>1. SoundChart(e, N) /\ e.basis = d.basis /\ e.raw = d.raw /\ e.bars = <<>>
    BY <1>5, EmptiedIsTrue
  <2>2. new = TickInsert(e, d.raw)
    BY <1>8 DEF Regrouped
  <2> HIDE DEF e, new
  <2>3. ~OfTime(e)
    BY <1>8, <2>1, SameBuckets
  <2>4. ChartTrue(TickInsert(e, e.raw), N, 0, {})
    BY <2>1, <2>3, CountedAnew
  <2>5. ChartTrue(new, N, 0, {})
    BY <2>1, <2>2, <2>4
  <2> QED
    BY <2>5 DEF new, d
<1> QED
  BY <1>7, <1>8

(* reset_for_seek and rebuild_content.                                     *)
LEMMA ResetIsTrue ==
  ASSUME NEW N \in Nat, NEW c, SoundChart(c, N)
  PROVE  /\ ChartTrue(Emptied(c), N, Len(c.raw), {})
         /\ ChartTrue([Emptied(c) EXCEPT !.raw = <<>>], N, 0, {})
<1> DEFINE e == Emptied(c) none == <<>> f == [e EXCEPT !.raw = none]
<1>1. SoundChart(e, N) /\ e.raw = c.raw /\ e.bars = <<>>
  BY EmptiedIsTrue
<1> HIDE DEF e
<1>2. ChartTrue(e, N, Len(c.raw), {})
  BY <1>1, NothingIsTrue
<1>3. none \in Seq(1 .. N) /\ Len(none) = 0
  OBVIOUS
<1> HIDE DEF none
<1>4. /\ SoundChart(f, N) /\ f.basis = e.basis /\ f.step = e.step /\ f.bars = e.bars /\ f.raw = none
      /\ PocsAreTrue(e) => PocsAreTrue(f)
  BY <1>1, <1>3, RawExchanged
<1> HIDE DEF f
<1>5. ChartTrue(f, N, 0, {})
  <2>1. ChartTrue(f, N, Len(f.raw), {})
    BY <1>1, <1>4, NothingIsTrue
  <2> QED
    BY <1>3, <1>4, <2>1
<1> QED
  BY <1>2, <1>5 DEF e, f, none

(* What is true of the next chart is true of the chart in the next state,  *)
(* as the tape stays.                                                      *)
LEMMA TrueNext ==
  ASSUME tape' = tape, tie' = tie, ChartTrue(chart', now', since', missed')
  PROVE  ChartTrue(chart, now, since, missed)'
<1>1. BarsHadTrades(chart, now)' <=> BarsHadTrades(chart', now')
  BY DEF BarsHadTrades, BucketOf, TimeOf, OfTime
<1>2. TradesPlaced(chart, missed)' <=> TradesPlaced(chart', missed')
  BY DEF TradesPlaced, BucketOf, TimeOf, OfTime
<1>3. SoundChart(chart, now)' <=> SoundChart(chart', now')
  BY DEF SoundChart, BarsWellFormed, WellFormed, OfTime, NoPoc
<1>4. TicksInTurn(chart, since)' <=> TicksInTurn(chart', since')
  BY DEF TicksInTurn, InTurn, OfTime
<1>5. PocsAreSet(chart)' <=> PocsAreSet(chart')
  BY DEF PocsAreSet
<1>6. PricesAreTrue(chart)' <=> PricesAreTrue(chart')
  BY DEF PricesAreTrue, BusiestPrice, Prices, TradesAt, ToStep, PriceOf
<1>7. StatusesAreTrue(chart)' <=> StatusesAreTrue(chart')
  BY DEF StatusesAreTrue, StatusIn, Reaches, RoundedDown, RoundedUp, OfTime
<1> QED
  BY <1>1, <1>2, <1>3, <1>4, <1>5, <1>6, <1>7 DEF ChartTrue, PocsAreTrue

(* The bars of a chart of time begin at times that were on the tape.       *)
LEMMA KeysTyped ==
  ASSUME TapeRuns, NEW c, SoundChart(c, now), OfTime(c), BarsHadTrades(c, now)
  PROVE  DOMAIN c.bars \subseteq Nat /\ \E p \in Nat : \A k \in DOMAIN c.bars : k <= p
<1>1. c.basis.n \in Nat \ {0}
  BY FootprintAssumption DEF SoundChart
<1>2. \A i \in 1 .. now : BucketOf(c, i) \in Nat
  BY <1>1, TradesBounded
<1>3. PICK p \in Nat : \A i \in 1 .. now : BucketOf(c, i) <= p
  BY <1>1, TradesBounded
<1>4. \A k \in DOMAIN c.bars : k \in Nat /\ k <= p
  BY <1>2, <1>3 DEF BarsHadTrades
<1> QED
  BY <1>4

(* The first and the last of the times at a price.                         *)
LEMMA TimesTyped ==
  ASSUME TapeRuns, NEW ts \in Seq(1 .. now), NEW p \in Prices(chart, ts)
  PROVE  /\ TimesAt(ts, p).first \in {TimeOf(i) : i \in 1 .. now}
         /\ TimesAt(ts, p).last \in {TimeOf(i) : i \in 1 .. now}
<1> DEFINE N == now
           S == {i \in ToSet(ts) : ToStep(chart, PriceOf(i)) = p}
           at == Only(ts, S)
<1>1. PICK j \in DOMAIN ts : ToStep(chart, PriceOf(ts[j])) = p
  BY DEF Prices
<1>2. ts[j] \in S
  BY <1>1 DEF ToSet
<1>3. ts \in Seq(1 .. N)
  OBVIOUS
<1> HIDE DEF N, S
<1>4. at \in Seq(1 .. N) /\ (at = <<>> <=> \A i \in DOMAIN ts : ts[i] \notin S)
  BY <1>3, OnlySelects
<1>5. at # <<>>
  BY <1>1, <1>2, <1>4
<1> DEFINE times == [first |-> TimeOf(at[1]), last |-> TimeOf(at[Len(at)])]
<1>6. TimesAt(ts, p) = times
  BY DEF TimesAt, Last, S
<1> HIDE DEF at
<1>7. at[1] \in 1 .. N /\ at[Len(at)] \in 1 .. N
  <2> DEFINE T == 1 .. N
  <2>1. at \in Seq(T)
    BY <1>4
  <2> HIDE DEF T
  <2>2. at[1] \in T /\ at[Len(at)] \in T
    BY <1>5, <2>1
  <2> QED
    BY <2>2 DEF T
<1>8. times.first = TimeOf(at[1]) /\ times.last = TimeOf(at[Len(at)])
  OBVIOUS
<1> HIDE DEF times
<1> QED
  BY <1>6, <1>7, <1>8 DEF N

(* The times around a gap are times.                                       *)
LEMMA BarTimesTyped ==
  ASSUME TapeRuns, NEW k, chart.bars[k].trades \in Seq(1 .. now), chart.bars[k].trades # <<>>
  PROVE  LastTradeTime(k) \in Nat /\ FirstTradeTime(k) \in Nat
<1> DEFINE ts == chart.bars[k].trades P == Prices(chart, ts)
           A == {TimesAt(ts, p).last : p \in P} B == {TimesAt(ts, p).first : p \in P}
           times == {TimeOf(i) : i \in 1 .. now}
<1>1. LastTradeTime(k) = Max(A) /\ FirstTradeTime(k) = Min(B)
  BY DEF LastTradeTime, FirstTradeTime
<1>2. ts \in Seq(1 .. now) /\ ts # <<>>
  OBVIOUS
<1> HIDE DEF ts
<1>3. P # {}
  <2>1. 1 \in DOMAIN ts
    BY <1>2
  <2> QED
    BY <2>1 DEF Prices
<1>4. \A p \in P : TimesAt(ts, p).first \in times /\ TimesAt(ts, p).last \in times
  BY <1>2, TimesTyped
<1>5. times \subseteq Nat
  BY TradesTyped
<1>6. PICK q \in Nat : \A i \in 1 .. now : TimeOf(i) <= q
  <2>1. \A i \in 1 .. now : TimeOf(i) \in Nat
    BY TradesTyped
  <2> DEFINE f == [i \in 1 .. now |-> TimeOf(i)]
  <2>2. f \in [1 .. now -> Nat] /\ \A i \in 1 .. now : f[i] = TimeOf(i)
    BY <2>1
  <2> HIDE DEF f
  <2>3. now \in Nat
    BY TradesTyped
  <2>4. \E q \in Nat : \A i \in 1 .. now : f[i] <= q
    BY <2>2, <2>3, NumbersBounded
  <2> QED
    BY <2>2, <2>4
<1>7. \A t \in times : t <= q
  BY <1>6
<1> HIDE DEF P, times
<1>8. A \subseteq Nat /\ A # {} /\ B \subseteq Nat /\ B # {} /\ \A t \in A : t <= q
  BY <1>3, <1>4, <1>5, <1>7
<1> HIDE DEF A, B
<1>9. Max(A) \in A
  BY <1>8, GreatestOfNat
<1>10. Min(B) \in B
  BY <1>8, LeastOfNat
<1> QED
  BY <1>1, <1>8, <1>9, <1>10

(* The ends of a gap are numbers.                                          *)
LEMMA GapTyped ==
  ASSUME TapeRuns, ChartTrue(chart, now, since, missed), OfTime(chart), Empty # {}
  PROVE  GapStart \in Int /\ GapEnd \in Int
<1> DEFINE B == TradedBeforeGap A == TradedAfterGap
<1>1. SoundChart(chart, now) /\ BarsHadTrades(chart, now)
  BY DEF ChartTrue
<1>2. Keys \subseteq Nat
  BY <1>1, KeysTyped DEF Keys
<1>3. PICK p \in Nat : \A k \in Keys : k <= p
  BY <1>1, KeysTyped DEF Keys
<1>4. Keys # {} /\ B \subseteq Keys \ Empty /\ A \subseteq Keys \ Empty
  BY DEF Empty, TradedBeforeGap, TradedAfterGap
<1>5. \A k \in Keys \ Empty : LastTradeTime(k) \in Nat /\ FirstTradeTime(k) \in Nat
  <2> TAKE k \in Keys \ Empty
  <2>1. chart.bars[k].trades \in Seq(1 .. now) /\ chart.bars[k].trades # <<>>
    BY <1>1 DEF SoundChart, BarsWellFormed, WellFormed, Keys, Empty
  <2> QED
    BY <2>1, BarTimesTyped
<1>6. GapStart = (IF B # {} THEN LastTradeTime(Max(B)) + 1 ELSE Min(Keys))
      /\ GapEnd = (IF A # {} THEN FirstTradeTime(Min(A)) - 1 ELSE Max(Keys))
  BY DEF GapStart, GapEnd
<1> HIDE DEF A, B
<1>7. Min(Keys) \in Keys
  BY <1>2, <1>4, LeastOfNat
<1>8. Max(Keys) \in Keys
  BY <1>2, <1>3, <1>4, GreatestOfNat
<1>9. ASSUME B # {}
      PROVE  Max(B) \in B
  <2>1. B \subseteq Nat /\ \A k \in B : k <= p
    BY <1>2, <1>3, <1>4
  <2> QED
    BY <1>9, <2>1, GreatestOfNat
<1>10. ASSUME A # {}
       PROVE  Min(A) \in A
  <2>1. A \subseteq Nat
    BY <1>2, <1>4
  <2> QED
    BY <1>10, <2>1, LeastOfNat
<1>11. GapStart \in Int
  <2>1. CASE B # {}
    <3>1. LastTradeTime(Max(B)) \in Nat
      BY <1>4, <1>5, <1>9, <2>1
    <3> QED
      BY <1>6, <2>1, <3>1
  <2>2. CASE B = {}
    BY <1>2, <1>6, <1>7, <2>2
  <2> QED
    BY <2>1, <2>2
<1>12. GapEnd \in Int
  <2>1. CASE A # {}
    <3>1. FirstTradeTime(Min(A)) \in Nat
      BY <1>4, <1>5, <1>10, <2>1
    <3> QED
      BY <1>6, <2>1, <3>1
  <2>2. CASE A = {}
    BY <1>2, <1>6, <1>8, <2>2
  <2> QED
    BY <2>1, <2>2
<1> QED
  BY <1>11, <1>12

(* The venue's answers are of trades so far.                               *)
LEMMA AnswersTyped ==
  ASSUME TapeRuns, NEW from
  PROVE  FetchTrades(from) \in Seq(1 .. now)
<1> DEFINE N == now T == 1 .. N none == <<>>
<1>1. N \in Nat /\ BatchSize \in Nat
  BY TradesTyped, FootprintAssumption
<1>2. SoFar \in Seq(T)
  BY <1>1 DEF SoFar
<1> HIDE DEF N
<1>3. none \in Seq(T)
  OBVIOUS
<1>4. \A S : Only(SoFar, S) \in Seq(T)
  BY <1>2, OnlySelects
<1>5. DayFile \in Seq(T)
  BY <1>4 DEF DayFile
<1>6. ASSUME NEW f
      PROVE  Intraday(f) \in Seq(T)
  <2> DEFINE ts == Only(SoFar, {i \in 1 .. now : TimeOf(i) >= f}) l == Min({BatchSize, Len(ts)})
  <2>1. Intraday(f) = SubSeq(ts, 1, l)
    BY DEF Intraday
  <2>2. ts \in Seq(T)
    BY <1>4
  <2> HIDE DEF ts, T
  <2>3. Len(ts) \in Nat
    BY <2>2
  <2> DEFINE b == BatchSize n == Len(ts)
  <2>4. b \in Int /\ n \in Int /\ b \in Nat /\ n \in Nat
    BY <1>1, <2>3
  <2>5. l = Min({b, n})
    OBVIOUS
  <2> HIDE DEF b, n, l
  <2>6. Min({b, n}) = IF b <= n THEN b ELSE n
    BY <2>4, MinOfTwo
  <2>7. l \in 0 .. Len(ts)
    BY <2>4, <2>5, <2>6 DEF n
  <2>8. SubSeq(ts, 1, l) \in Seq(T)
    BY <2>2, <2>7
  <2> QED
    BY <2>1, <2>8
<1> DEFINE more == IF DayFile = <<>> THEN <<>> ELSE Intraday(TimeOf(Last(DayFile)))
<1>7. more \in Seq(T)
  BY <1>3, <1>6
<1>8. FetchTrades(from) = IF from >= Midnight THEN Intraday(from) ELSE DayFile \o more
  BY DEF FetchTrades
<1> HIDE DEF more, T
<1>9. DayFile \o more \in Seq(T)
  BY <1>5, <1>7
<1> QED
  BY <1>6, <1>8, <1>9 DEF T, N

(* The last of some trades is one of them.                                 *)
LEMMA LastTyped ==
  ASSUME TapeRuns, NEW ts \in Seq(1 .. now), ts # <<>>
  PROVE  TimeOf(Last(ts)) \in Nat
<1> DEFINE T == 1 .. now
<1>1. ts \in Seq(T)
  OBVIOUS
<1> HIDE DEF T
<1>2. ts[Len(ts)] \in T
  BY <1>1
<1> QED
  BY <1>2, TradesTyped DEF T, Last
-----------------------------------------------------------------------------
(* The fetch of older trades has a range, on a chart of time, and what it  *)
(* has sent are trades so far.                                             *)
FetchTyped ==
  /\ fetchingTrades \in BOOLEAN /\ firstAsked \in BOOLEAN
  /\ fetchTask # NoTask =>
       /\ fetchTask = [from |-> fetchTask.from, until |-> fetchTask.until]
       /\ fetchTask.from \in Int /\ fetchTask.until \in Int /\ fetchTask.from <= fetchTask.until
       /\ OfTime(chart)
  /\ batch # NoBatch => batch.trades \in Seq(1 .. now) /\ batch.trades # <<>>

(* The invariant the proofs work with.                                     *)
FootprintInv ==
  /\ TapeRuns /\ tie \in {"low", "high"}
  /\ ChartTrue(chart, now, since, missed)
  /\ FetchTyped

(* It holds at the start.                                                  *)
LEMMA FootprintInitInv == FootprintInit => FootprintInv
<1> SUFFICES ASSUME FootprintInit
             PROVE  FootprintInv
  OBVIOUS
<1> DEFINE none == <<>> N == 1
<1>1. TapeRuns
  <2> DEFINE R == [time : Nat, price : Nat]
  <2>1. tape \in Seq(R) /\ tape # <<>> /\ now = 1
    BY FootprintAssumption DEF FootprintInit
  <2> HIDE DEF R
  <2>2. now \in 1 .. Len(tape)
    BY <2>1
  <2> QED
    BY <2>2 DEF TapeRuns, FootprintInit
<1>2. Min(Steps) \in Steps
  <2>1. Steps \subseteq Nat /\ Steps # {}
    BY FootprintAssumption
  <2> QED
    BY <2>1, LeastOfNat
<1>3. /\ chart = [basis |-> chart.basis, step |-> chart.step, bars |-> chart.bars, raw |-> chart.raw]
      /\ chart.basis \in Bases /\ chart.basis.kind = "time" /\ chart.step = Min(Steps)
      /\ chart.bars = none /\ chart.raw = none
  BY DEF FootprintInit
<1>4. /\ DOMAIN none = {} /\ none = [k \in DOMAIN none |-> none[k]]
      /\ none \in Seq(1 .. N) /\ Len(none) = 0
  OBVIOUS
<1>5. BarsWellFormed(none, N)
  BY <1>4 DEF BarsWellFormed
<1>6. OfTime(chart)
  BY <1>3 DEF OfTime
<1> HIDE DEF none, N
<1>7. SoundChart(chart, N)
  BY <1>2, <1>3, <1>4, <1>5, <1>6 DEF SoundChart
<1>8. ChartTrue(chart, N, 0, {})
  BY <1>3, <1>6, <1>7, NothingIsTrue DEF none
<1>9. ChartTrue(chart, now, since, missed)
  BY <1>8 DEF FootprintInit, N
<1>10. FetchTyped
  BY DEF FetchTyped, FootprintInit
<1> QED
  BY <1>1, <1>9, <1>10 DEF FootprintInv, FootprintInit

(* The fetch when it goes on, and when it is aborted.                      *)
LEMMA FetchKept ==
  ASSUME FetchTyped, UNCHANGED <<Fetching, firstAsked>>, now \in Nat, now' \in Nat, now <= now',
         OfTime(chart) => OfTime(chart')
  PROVE  FetchTyped'
<1>1. OfTime(chart)' <=> OfTime(chart')
  BY DEF OfTime
<1>2. \A q : q \in Seq(1 .. now) => q \in Seq(1 .. now')
  <2> DEFINE A == 1 .. now B == 1 .. now'
  <2>1. A \subseteq B
    OBVIOUS
  <2> HIDE DEF A, B
  <2>2. \A q : q \in Seq(A) => q \in Seq(B)
    BY <2>1
  <2> QED
    BY <2>2 DEF A, B
<1>3. UNCHANGED <<fetchingTrades, fetchTask, batch, firstAsked>>
  BY DEF Fetching
<1>4. batch' # NoBatch => batch'.trades \in Seq(1 .. now') /\ batch'.trades # <<>>
  BY <1>2, <1>3 DEF FetchTyped
<1> QED
  BY <1>1, <1>3, <1>4 DEF FetchTyped, NoTask, NoBatch

(* An aborted fetch is no fetch.                                           *)
LEMMA FetchAborted ==
  ASSUME FetchTyped, AbortFetch, now' = now, firstAsked' \in BOOLEAN
  PROVE  FetchTyped'
BY DEF FetchTyped, AbortFetch, NoTask, NoBatch

(* Trades of the stream, and trades nobody told the chart about.           *)
LEMMA ReceivedKeepsInv ==
  ASSUME FootprintInv, NEW n \in 1 .. 2, TradesReceived(n)
  PROVE  FootprintInv'
<1>1. /\ TapeRuns /\ ChartTrue(chart, now, since, missed) /\ FetchTyped
      /\ Len(tape) \in Nat /\ now \in Nat
  BY TradesTyped DEF FootprintInv
<1>2. /\ now + n <= Len(tape) /\ now' = now + n /\ tape' = tape /\ tie' = tie
      /\ UNCHANGED <<Fetching, firstAsked>> /\ since' = since /\ missed' = missed
  BY DEF TradesReceived, History
<1> DEFINE N == now + n ts == [j \in 1 .. n |-> now + j]
<1>3. chart' = Given(chart, ts)
  BY DEF TradesReceived
<1>4. N \in 1 .. Len(tape) /\ N \in Nat /\ now <= N
  BY <1>1, <1>2
<1>5. ts \in Seq(1 .. N)
  <2> DEFINE T == 1 .. N
  <2>1. \A j \in 1 .. n : now + j \in T
    BY <1>1
  <2> HIDE DEF T
  <2>2. ts \in Seq(T)
    BY <2>1
  <2> QED
    BY <2>2 DEF T
<1>6. N = now'
  BY <1>2
<1> HIDE DEF N, ts
<1>7. ChartTrue(chart, N, since, missed)
  BY <1>1, <1>4, MoreTape
<1>8. ChartTrue(Given(chart, ts), N, since, missed) /\ (OfTime(chart) => OfTime(Given(chart, ts)))
  BY <1>1, <1>4, <1>5, <1>7, GivenIsTrue
<1>9. ChartTrue(chart', now', since', missed') /\ (OfTime(chart) => OfTime(chart'))
  BY <1>2, <1>3, <1>6, <1>8
<1>10. ChartTrue(chart, now, since, missed)'
  BY <1>2, <1>9, TrueNext
<1>11. FetchTyped'
  BY <1>1, <1>2, <1>4, <1>6, <1>9, FetchKept
<1>12. TapeRuns'
  BY <1>1, <1>2, <1>4, <1>6 DEF TapeRuns
<1> QED
  BY <1>2, <1>10, <1>11, <1>12 DEF FootprintInv

(* A trade the chart is not told of leaves the chart as it was.            *)
LEMMA UnheardKeepsInv ==
  ASSUME FootprintInv, TradesUnheard
  PROVE  FootprintInv'
<1>1. /\ TapeRuns /\ ChartTrue(chart, now, since, missed) /\ FetchTyped
      /\ Len(tape) \in Nat /\ now \in Nat
  BY TradesTyped DEF FootprintInv
<1>2. /\ now < Len(tape) /\ now' = now + 1 /\ tape' = tape /\ tie' = tie /\ chart' = chart
      /\ UNCHANGED <<Fetching, firstAsked>> /\ since' = since /\ missed' = missed
  BY DEF TradesUnheard, History
<1>3. now' \in 1 .. Len(tape) /\ now' \in Nat /\ now <= now'
  BY <1>1, <1>2
<1>4. ChartTrue(chart, now', since, missed)
  BY <1>1, <1>3, MoreTape
<1>5. ChartTrue(chart', now', since', missed')
  BY <1>2, <1>4
<1>6. ChartTrue(chart, now, since, missed)'
  BY <1>2, <1>5, TrueNext
<1>7. FetchTyped'
  BY <1>1, <1>2, <1>3, FetchKept
<1> QED
  BY <1>1, <1>2, <1>3, <1>6, <1>7 DEF FootprintInv, TapeRuns

(* Steps after which the chart is true again, with the tape where it was.  *)
LEMMA StillTrue ==
  ASSUME FootprintInv, UNCHANGED Venue, ChartTrue(chart', now, since', missed'), FetchTyped'
  PROVE  FootprintInv'
<1>1. tape' = tape /\ now' = now /\ tie' = tie
  BY DEF Venue
<1>2. ChartTrue(chart', now', since', missed')
  BY <1>1
<1>3. ChartTrue(chart, now, since, missed)'
  BY <1>1, <1>2, TrueNext
<1> QED
  BY <1>1, <1>3 DEF FootprintInv, TapeRuns

(* Bars from the venue.                                                    *)
LEMMA LatestKeepsInv ==
  ASSUME FootprintInv, LatestKline
  PROVE  FootprintInv'
<1>1. /\ TapeRuns /\ ChartTrue(chart, now, since, missed) /\ FetchTyped /\ now \in Nat
  BY TradesTyped DEF FootprintInv
<1> DEFINE k == BucketOf(chart, now) late == ToSet(TradesOf(chart, chart.raw, k))
           e == InsertKlines(chart, {k})
           m == IF k \in DOMAIN chart.bars THEN missed ELSE missed \cup late
<1>2. /\ OfTime(chart) /\ chart' = e /\ missed' = m
      /\ UNCHANGED <<Venue, Fetching, firstAsked>> /\ since' = since
  BY DEF LatestKline
<1>3. k = BucketOf(chart, now)
  OBVIOUS
<1> HIDE DEF k
<1>4. ChartTrue(e, now, since, m) /\ OfTime(e)
  BY <1>1, <1>2, <1>3, LatestIsTrue
<1> HIDE DEF e, m
<1>5. now' = now /\ OfTime(chart') /\ ChartTrue(chart', now, since', missed')
  BY <1>2, <1>4 DEF Venue
<1>6. FetchTyped'
  BY <1>1, <1>2, <1>5, FetchKept
<1> QED
  BY <1>2, <1>5, <1>6, StillTrue

(* Klines of the past arrive: the raw trades go into the new bars.         *)
LEMMA HistKeepsInv ==
  ASSUME FootprintInv, NEW ks, ks \subseteq Traded(chart), HistKlines(ks)
  PROVE  FootprintInv'
<1>1. /\ TapeRuns /\ ChartTrue(chart, now, since, missed) /\ FetchTyped /\ now \in Nat
  BY TradesTyped DEF FootprintInv
<1> DEFINE e == IntoExistingBars(InsertKlines(chart, ks), chart.raw)
<1>2. /\ OfTime(chart) /\ chart' = e /\ missed' = {}
      /\ UNCHANGED <<Venue, Fetching, firstAsked>> /\ since' = since
  BY DEF HistKlines
<1>3. ChartTrue(e, now, since, {}) /\ OfTime(e)
  BY <1>1, <1>2, HistIsTrue
<1> HIDE DEF e
<1>4. now' = now /\ OfTime(chart') /\ ChartTrue(chart', now, since', missed')
  BY <1>2, <1>3 DEF Venue
<1>5. FetchTyped'
  BY <1>1, <1>2, <1>4, FetchKept
<1> QED
  BY <1>2, <1>4, <1>5, StillTrue

(* The first klines of a basis arrive: a chart of its own, all trades      *)
(* placed.                                                                 *)
LEMMA FirstKeepsInv ==
  ASSUME FootprintInv, NEW b \in Bases, FirstKlines(b)
  PROVE  FootprintInv'
<1>1. /\ TapeRuns /\ ChartTrue(chart, now, since, missed) /\ FetchTyped
      /\ SoundChart(chart, now)
  BY DEF FootprintInv, ChartTrue
<1> DEFINE d == Emptied([chart EXCEPT !.basis = b])
           e == OrNewBars(InsertKlines(d, Traded(d)), d.raw)
<1>2. /\ b.kind = "time" /\ chart' = e /\ missed' = {} /\ since' = 0
      /\ UNCHANGED Venue /\ AbortFetch /\ firstAsked' = FALSE
  BY DEF FirstKlines
<1>3. ChartTrue(e, now, 0, {})
  BY <1>1, <1>2, FirstIsTrue
<1> HIDE DEF e
<1>4. now' = now /\ ChartTrue(chart', now, since', missed')
  BY <1>2, <1>3 DEF Venue
<1>5. FetchTyped'
  BY <1>1, <1>2, <1>4, FetchAborted
<1> QED
  BY <1>2, <1>4, <1>5, StillTrue

(* The user, and a replay.                                                 *)
LEMMA SetBasisKeepsInv ==
  ASSUME FootprintInv, NEW b \in Bases, SetBasis(b)
  PROVE  FootprintInv'
<1>1. /\ TapeRuns /\ ChartTrue(chart, now, since, missed) /\ FetchTyped
      /\ SoundChart(chart, now) /\ now \in 1 .. Len(tape)
  BY DEF FootprintInv, ChartTrue, TapeRuns
<1> DEFINE d == Emptied([chart EXCEPT !.basis = b])
           e == IF OfTime(d) THEN d ELSE TickInsert(d, d.raw)
<1>2. /\ chart' = e /\ missed' = {} /\ since' = 0
      /\ UNCHANGED Venue /\ AbortFetch /\ firstAsked' = firstAsked
  BY DEF SetBasis
<1>3. ChartTrue(e, now, 0, {})
  BY <1>1, BasisIsTrue
<1> HIDE DEF e
<1>4. now' = now /\ ChartTrue(chart', now, since', missed')
  BY <1>2, <1>3 DEF Venue
<1>5. FetchTyped'
  BY <1>1, <1>2, <1>4, FetchAborted DEF FetchTyped
<1> QED
  BY <1>2, <1>4, <1>5, StillTrue

(* Another tick size: the same trades, grouped anew.                       *)
LEMMA ChangeTickSizeKeepsInv ==
  ASSUME FootprintInv, NEW s \in Steps, ChangeTickSize(s)
  PROVE  FootprintInv'
<1>1. /\ TapeRuns /\ ChartTrue(chart, now, since, missed) /\ FetchTyped /\ now \in 1 .. Len(tape)
  BY DEF FootprintInv, TapeRuns
<1> DEFINE e == Regrouped([chart EXCEPT !.step = s])
<1>2. /\ chart' = e /\ missed' = {} /\ since' = 0
      /\ UNCHANGED Venue /\ AbortFetch /\ firstAsked' = firstAsked
  BY DEF ChangeTickSize
<1>3. ChartTrue(e, now, 0, {})
  BY <1>1, StepIsTrue
<1> HIDE DEF e
<1>4. now' = now /\ ChartTrue(chart', now, since', missed')
  BY <1>2, <1>3 DEF Venue
<1>5. FetchTyped'
  BY <1>1, <1>2, <1>4, FetchAborted DEF FetchTyped
<1> QED
  BY <1>2, <1>4, <1>5, StillTrue

(* A seek empties the bars, and keeps the raw trades for later klines.     *)
LEMMA ResetKeepsInv ==
  ASSUME FootprintInv, ResetForSeek
  PROVE  FootprintInv'
<1>1. /\ TapeRuns /\ FetchTyped /\ SoundChart(chart, now) /\ now \in Nat
  BY TradesTyped DEF FootprintInv, ChartTrue
<1> DEFINE e == Emptied(chart)
<1>2. /\ chart' = e /\ missed' = {} /\ since' = Len(chart.raw)
      /\ UNCHANGED <<Venue, Fetching, firstAsked>>
  BY DEF ResetForSeek
<1>3. ChartTrue(e, now, Len(chart.raw), {})
  BY <1>1, ResetIsTrue
<1>4. e.basis = chart.basis
  BY <1>1, EmptiedIsTrue
<1> HIDE DEF e
<1>5. now' = now /\ ChartTrue(chart', now, since', missed')
  BY <1>2, <1>3 DEF Venue
<1>6. OfTime(chart) => OfTime(chart')
  BY <1>2, <1>4 DEF OfTime
<1>7. FetchTyped'
  BY <1>1, <1>2, <1>5, <1>6, FetchKept
<1> QED
  BY <1>2, <1>5, <1>7, StillTrue

(* A rebuilt content has no trades at all.                                 *)
LEMMA RebuildKeepsInv ==
  ASSUME FootprintInv, RebuildContent
  PROVE  FootprintInv'
<1>1. /\ TapeRuns /\ FetchTyped /\ SoundChart(chart, now) /\ now \in Nat
  BY TradesTyped DEF FootprintInv, ChartTrue
<1> DEFINE e == [Emptied(chart) EXCEPT !.raw = <<>>]
<1>2. /\ chart' = e /\ missed' = {} /\ since' = 0
      /\ UNCHANGED Venue /\ AbortFetch /\ firstAsked' = firstAsked
  BY DEF RebuildContent
<1>3. ChartTrue(e, now, 0, {})
  BY <1>1, ResetIsTrue
<1> HIDE DEF e
<1>4. now' = now /\ ChartTrue(chart', now, since', missed')
  BY <1>2, <1>3 DEF Venue
<1>5. FetchTyped'
  BY <1>1, <1>2, <1>4, FetchAborted DEF FetchTyped
<1> QED
  BY <1>2, <1>4, <1>5, StillTrue

(* Older trades are asked for, fetched and given to the chart.             *)
LEMMA RequestKeepsInv ==
  ASSUME FootprintInv, NEW w \in Views, RequestTrades(w)
  PROVE  FootprintInv'
<1>1. /\ TapeRuns /\ ChartTrue(chart, now, since, missed) /\ FetchTyped
  BY DEF FootprintInv
<1> DEFINE gs == GapStart ge == GapEnd a == w[1] z == w[2]
           from == Max({gs, a}) until == Min({ge, z})
<1>2. /\ OfTime(chart) /\ Empty # {} /\ from < until /\ fetchTask' = [from |-> from, until |-> until]
      /\ fetchingTrades' = TRUE
      /\ UNCHANGED Venue /\ chart' = chart /\ batch' = batch /\ firstAsked' = firstAsked
      /\ since' = since /\ missed' = missed
  BY DEF RequestTrades, History
<1>3. gs \in Int /\ ge \in Int /\ a \in Int /\ z \in Int
  <2>1. GapStart \in Int /\ GapEnd \in Int
    BY <1>1, <1>2, GapTyped
  <2>2. w[1] \in Nat /\ w[2] \in Nat
    BY FootprintAssumption
  <2> QED
    BY <2>1, <2>2
<1> HIDE DEF gs, ge, a, z
<1>4. from \in Int
  BY <1>3, MaxOfTwo
<1>5. until \in Int
  BY <1>3, MinOfTwo
<1>6. from <= until
  <2> HIDE DEF from, until
  <2> QED
    BY <1>2, <1>4, <1>5
<1> HIDE DEF from, until
<1>7. now' = now /\ ChartTrue(chart', now, since', missed')
  BY <1>1, <1>2 DEF Venue
<1>8. fetchTask'.from = from /\ fetchTask'.until = until
  BY <1>2
<1>9. OfTime(chart)'
  BY <1>2 DEF OfTime
<1>10. FetchTyped'
  BY <1>1, <1>2, <1>4, <1>5, <1>6, <1>7, <1>8, <1>9 DEF FetchTyped
<1> QED
  BY <1>2, <1>7, <1>10, StillTrue

(* A batch on its way holds trades that happened.                          *)
LEMMA SendBatchKeepsInv ==
  ASSUME FootprintInv, SendBatch
  PROVE  FootprintInv'
<1>1. /\ TapeRuns /\ ChartTrue(chart, now, since, missed) /\ FetchTyped
  BY DEF FootprintInv
<1> DEFINE ts == FetchTrades(fetchTask.from) last == TimeOf(Last(ts)) until == fetchTask.until
<1>2. /\ fetchTask # NoTask /\ ts # <<>>
      /\ batch' = [trades |-> ts, until |-> until]
      /\ fetchTask' = IF last >= until THEN NoTask ELSE [fetchTask EXCEPT !.from = last]
      /\ UNCHANGED Venue /\ chart' = chart /\ fetchingTrades' = fetchingTrades /\ firstAsked' = firstAsked
      /\ since' = since /\ missed' = missed
  BY DEF SendBatch, History
<1>3. ts \in Seq(1 .. now)
  BY <1>1, AnswersTyped
<1> HIDE DEF ts
<1>4. last \in Nat
  BY <1>1, <1>2, <1>3, LastTyped
<1>5. /\ fetchTask = [from |-> fetchTask.from, until |-> until]
      /\ until \in Int /\ OfTime(chart)
  BY <1>1, <1>2 DEF FetchTyped
<1> HIDE DEF last, until
<1>6. now' = now /\ ChartTrue(chart', now, since', missed') /\ OfTime(chart)'
  BY <1>1, <1>2, <1>5 DEF Venue, OfTime
<1>7. batch'.trades = ts
  BY <1>2
<1>8. ASSUME fetchTask' # NoTask
      PROVE  /\ fetchTask' = [from |-> last, until |-> until]
             /\ fetchTask'.from = last /\ fetchTask'.until = until /\ last <= until
  <2>1. fetchTask' = [fetchTask EXCEPT !.from = last] /\ last <= until
    BY <1>2, <1>4, <1>5, <1>8
  <2> DEFINE task == [from |-> last, until |-> until]
  <2>2. task.from = last /\ task.until = until
    OBVIOUS
  <2>3. fetchTask' = task
    BY <1>5, <2>1
  <2> HIDE DEF task
  <2>4. fetchTask'.from = last /\ fetchTask'.until = until
    BY <2>2, <2>3
  <2> QED
    BY <2>1, <2>3, <2>4 DEF task
<1>9. FetchTyped'
  BY <1>1, <1>2, <1>3, <1>4, <1>5, <1>6, <1>7, <1>8 DEF FetchTyped
<1> QED
  BY <1>2, <1>6, <1>9, StillTrue

(* The end of a fetch leaves the chart as it was.                          *)
LEMMA FetchEndsKeepsInv ==
  ASSUME FootprintInv, FetchEnds
  PROVE  FootprintInv'
<1>1. /\ TapeRuns /\ ChartTrue(chart, now, since, missed) /\ FetchTyped
  BY DEF FootprintInv
<1>2. /\ fetchTask' = NoTask /\ UNCHANGED Venue /\ UNCHANGED <<chart, fetchingTrades, batch, firstAsked>>
      /\ since' = since /\ missed' = missed
  BY DEF FetchEnds, History
<1>3. now' = now /\ ChartTrue(chart', now, since', missed')
  BY <1>1, <1>2 DEF Venue
<1>4. FetchTyped'
  BY <1>1, <1>2, <1>3 DEF FetchTyped
<1> QED
  BY <1>2, <1>3, <1>4, StillTrue

(* A batch arrives: the chart is given what is not after the range.        *)
LEMMA BatchKeepsInv ==
  ASSUME FootprintInv, BatchArrives
  PROVE  FootprintInv'
<1>1. /\ TapeRuns /\ ChartTrue(chart, now, since, missed) /\ FetchTyped /\ now \in 1 .. Len(tape)
  BY DEF FootprintInv, TapeRuns
<1> DEFINE isDone == TimeOf(Last(batch.trades)) >= batch.until
           S == {i \in 1 .. now : isDone => TimeOf(i) <= batch.until}
           q == batch.trades ts == Only(q, S)
<1>2. /\ batch # NoBatch /\ batch' = NoBatch /\ chart' = Given(chart, ts)
      /\ fetchingTrades' = (fetchingTrades /\ ~isDone)
      /\ UNCHANGED Venue /\ fetchTask' = fetchTask /\ firstAsked' = firstAsked
      /\ since' = since /\ missed' = missed
  BY DEF BatchArrives, History
<1>3. fetchingTrades' \in BOOLEAN
  BY <1>2
<1>4. q \in Seq(1 .. now)
  BY <1>1, <1>2 DEF FetchTyped
<1> HIDE DEF isDone, S, q
<1>5. ts \in Seq(1 .. now)
  <2> DEFINE T == 1 .. now
  <2>1. q \in Seq(T)
    BY <1>4
  <2> HIDE DEF T
  <2>2. ts \in Seq(T)
    BY <2>1, OnlySelects
  <2> QED
    BY <2>2 DEF T
<1> HIDE DEF ts
<1>6. ChartTrue(Given(chart, ts), now, since, missed) /\ (OfTime(chart) => OfTime(Given(chart, ts)))
  BY <1>1, <1>5, GivenIsTrue
<1>7. /\ now' = now /\ ChartTrue(chart', now, since', missed')
      /\ OfTime(chart) => OfTime(chart')
  BY <1>2, <1>6 DEF Venue
<1>8. OfTime(chart)' <=> OfTime(chart')
  BY DEF OfTime
<1>9. FetchTyped'
  BY <1>1, <1>2, <1>3, <1>7, <1>8 DEF FetchTyped
<1> QED
  BY <1>2, <1>7, <1>9, StillTrue

(* Every step keeps it.                                                    *)
LEMMA FootprintStep == FootprintInv /\ [FootprintNext]_footprintVars => FootprintInv'
<1> SUFFICES ASSUME FootprintInv, [FootprintNext]_footprintVars
             PROVE  FootprintInv'
  OBVIOUS
<1>1. CASE UNCHANGED footprintVars
  <2>1. /\ UNCHANGED Venue /\ UNCHANGED <<chart, fetchingTrades, fetchTask, batch, firstAsked>>
        /\ since' = since /\ missed' = missed
    BY <1>1 DEF footprintVars, Venue
  <2>2. TapeRuns /\ ChartTrue(chart, now, since, missed) /\ FetchTyped
    BY DEF FootprintInv
  <2>3. now' = now /\ ChartTrue(chart', now, since', missed')
    BY <2>1, <2>2 DEF Venue
  <2>4. FetchTyped'
    BY <2>1, <2>2, <2>3 DEF FetchTyped, OfTime
  <2> QED
    BY <2>1, <2>3, <2>4, StillTrue
<1>2. CASE \E n \in 1 .. 2 : TradesReceived(n)
  BY <1>2, ReceivedKeepsInv
<1>3. CASE TradesUnheard
  BY <1>3, UnheardKeepsInv
<1>4. CASE LatestKline
  BY <1>4, LatestKeepsInv
<1>5. CASE \E a, b \in Traded(chart) : a <= b /\ HistKlines({k \in Traded(chart) : a <= k /\ k <= b})
  <2>1. PICK a, b \in Traded(chart) : HistKlines({k \in Traded(chart) : a <= k /\ k <= b})
    BY <1>5
  <2> DEFINE ks == {k \in Traded(chart) : a <= k /\ k <= b}
  <2>2. ks \subseteq Traded(chart) /\ HistKlines(ks)
    BY <2>1
  <2> HIDE DEF ks
  <2> QED
    BY <2>2, HistKeepsInv
<1>6. CASE \E b \in Bases : FirstKlines(b)
  BY <1>6, FirstKeepsInv
<1>7. CASE \E b \in Bases : SetBasis(b)
  BY <1>7, SetBasisKeepsInv
<1>8. CASE \E s \in Steps : ChangeTickSize(s)
  BY <1>8, ChangeTickSizeKeepsInv
<1>9. CASE ResetForSeek
  BY <1>9, ResetKeepsInv
<1>10. CASE RebuildContent
  BY <1>10, RebuildKeepsInv
<1>11. CASE \E w \in Views : RequestTrades(w)
  BY <1>11, RequestKeepsInv
<1>12. CASE SendBatch
  BY <1>12, SendBatchKeepsInv
<1>13. CASE FetchEnds
  BY <1>13, FetchEndsKeepsInv
<1>14. CASE BatchArrives
  BY <1>14, BatchKeepsInv
<1> QED
  BY <1>1, <1>2, <1>3, <1>4, <1>5, <1>6, <1>7, <1>8, <1>9, <1>10, <1>11, <1>12, <1>13, <1>14
  DEF FootprintNext

(* The proofs' invariant is one.                                           *)
LEMMA FootprintInvariant == FootprintSpec => []FootprintInv
BY FootprintInitInv, FootprintStep, PTL DEF FootprintSpec

(* What the chart shows is in it: the trades, and the points of control.   *)
LEMMA InvIsTrue == FootprintInv => FootprintIsTrue
<1> SUFFICES ASSUME FootprintInv
             PROVE  FootprintIsTrue
  OBVIOUS
<1>1. PocsAreTrue(chart) /\ TicksInTurn(chart, since) /\ TradesPlaced(chart, missed)
  BY DEF FootprintInv, ChartTrue
<1>2. TickBarsAreTheTrades
  BY <1>1 DEF TicksInTurn, InTurn, TickBarsAreTheTrades
<1>3. TradesHaveTheirPlace
  BY <1>1 DEF TradesPlaced, TradesHaveTheirPlace, Keys
<1>4. PocStatusIsTrue
  BY <1>1 DEF PocsAreTrue, PricesAreTrue, StatusesAreTrue, PocStatusIsTrue, Keys
<1> QED
  BY <1>2, <1>3, <1>4 DEF FootprintIsTrue, TradesAreInTheirBars

(* Whatever comes, in whatever order, from the streams, the answers, the   *)
(* batches, the user and a replay: the trades a footprint was given are in *)
(* their bars, and its points of control are at a busiest price, with the  *)
(* status they have by the bars there are.                                 *)
THEOREM ChartsShowWhatTheyWereGiven == FootprintSpec => []FootprintIsTrue
BY FootprintInvariant, InvIsTrue, PTL

(* The types of the footprint are kept.                                    *)
LEMMA InvIsTyped == FootprintInv => TypeOKFootprint
<1> SUFFICES ASSUME FootprintInv
             PROVE  TypeOKFootprint
  OBVIOUS
<1>1. /\ TapeRuns /\ FetchTyped /\ SoundChart(chart, now) /\ PocsAreSet(chart)
      /\ since <= Len(chart.raw) /\ missed \subseteq 1 .. now
      /\ Len(tape) \in Nat /\ now \in Nat
  BY TradesTyped DEF FootprintInv, ChartTrue, PocsAreTrue
<1>2. tape \in Tapes /\ now \in 0 .. Len(tape) /\ tie \in {"low", "high"}
  BY <1>1 DEF FootprintInv, TapeRuns
<1>3. \A q : q \in Seq(1 .. now) => ToSet(q) \subseteq 1 .. now
  <2> DEFINE T == 1 .. now
  <2>1. \A q : q \in Seq(T) => \A i \in DOMAIN q : q[i] \in T
    <3> HIDE DEF T
    <3> QED
      OBVIOUS
  <2> QED
    BY <2>1 DEF ToSet
<1>4. chart.basis \in Bases /\ chart.step \in Steps /\ ToSet(chart.raw) \subseteq 1 .. now
  BY <1>1, <1>3 DEF SoundChart
<1>5. ASSUME NEW k \in DOMAIN chart.bars
      PROVE  /\ chart.bars[k].low <= chart.bars[k].high /\ ToSet(chart.bars[k].trades) \subseteq 1 .. now
             /\ chart.bars[k].trades # <<>> <=> chart.bars[k].poc # NoPoc
  BY <1>1, <1>3 DEF SoundChart, BarsWellFormed, WellFormed, PocsAreSet
<1> QED
  BY <1>1, <1>2, <1>4, <1>5 DEF FetchTyped, TypeOKFootprint

(* A footprint keeps to its types.                                         *)
THEOREM FootprintTypeCorrect == FootprintSpec => []TypeOKFootprint
BY FootprintInvariant, InvIsTyped, PTL

-----------------------------------------------------------------------------
(* The runs of a level as numbers and orders, whatever the bounds of a run *)
(* of the model.                                                           *)
OrderRun == [start : Nat, until : Nat, order : Resting]

(* A sequence of things with a start and an end.                           *)
Timed(rs) ==
  /\ Len(rs) \in Nat /\ DOMAIN rs = 1 .. Len(rs)
  /\ \A i \in DOMAIN rs : rs[i].start \in Nat /\ rs[i].until \in Nat

(* Sequences of runs have starts and ends.                                 *)
LEMMA RunsTimed ==
  ASSUME NEW rs \in Seq(OrderRun)
  PROVE  Timed(rs) /\ \A i \in DOMAIN rs : rs[i].order \in Resting
<1>1. Len(rs) \in Nat /\ DOMAIN rs = 1 .. Len(rs) /\ \A i \in DOMAIN rs : rs[i] \in OrderRun
  OBVIOUS
<1>2. \A r \in OrderRun : r.start \in Nat /\ r.until \in Nat /\ r.order \in Resting
  BY DEF OrderRun
<1> QED
  BY <1>1, <1>2 DEF Timed

(* An order has a size, and Nothing has none.                              *)
LEMMA RestingIsSomething ==
  ASSUME NEW o \in Resting
  PROVE  o # Nothing /\ o.qty \in Nat \ {0} /\ o.isBid \in BOOLEAN
         /\ o = [qty |-> o.qty, isBid |-> o.isBid]
<1>1. o.qty \in Quantities /\ o.isBid \in BOOLEAN /\ o = [qty |-> o.qty, isBid |-> o.isBid]
  BY DEF Resting
<1>2. o.qty \in Nat /\ o.qty # 0
  BY <1>1, DepthHistoryAssumption
<1>3. Nothing.qty = 0
  BY DEF Nothing
<1> QED
  BY <1>1, <1>2, <1>3

(* What is in order one after the other is in order from any one to any    *)
(* later one.                                                              *)
LEMMA OrderedThroughout ==
  ASSUME NEW rs, Timed(rs), InOrder(rs)
  PROVE  \A j \in DOMAIN rs : \A i \in DOMAIN rs : i < j => rs[i].until <= rs[j].start
<1> DEFINE n == Len(rs)
           D == {k \in 0 .. n : \A j \in DOMAIN rs : \A i \in DOMAIN rs : i < j /\ j <= k => rs[i].until <= rs[j].start}
<1>1. /\ n \in Nat /\ DOMAIN rs = 1 .. n
      /\ \A i \in 1 .. n : rs[i].start \in Nat /\ rs[i].until \in Nat /\ rs[i].start <= rs[i].until
      /\ \A i \in 1 .. n - 1 : rs[i].until <= rs[i + 1].start
  BY DEF Timed, InOrder
<1> HIDE DEF n
<1>2. 0 \in D
  BY <1>1
<1>3. ASSUME NEW k \in 0 .. n - 1, k \in D
      PROVE  k + 1 \in D
  <2>1. ASSUME NEW j \in 1 .. n, NEW i \in 1 .. n, i < j, j <= k + 1
        PROVE  rs[i].until <= rs[j].start
    <3>1. CASE j <= k
      BY <1>1, <1>3, <2>1, <3>1
    <3>2. CASE j = k + 1 /\ i = k
      BY <1>1, <2>1, <3>2
    <3>3. CASE j = k + 1 /\ i < k
      <4>1. k \in 1 .. n /\ k \in 1 .. n - 1 /\ i <= k
        BY <1>1, <2>1, <3>3
      <4>2. rs[i].until <= rs[k].start
        <5>1. k \in DOMAIN rs /\ i \in DOMAIN rs /\ i < k /\ k <= k
          BY <1>1, <2>1, <3>3, <4>1
        <5> QED
          BY <1>3, <5>1
      <4>3. rs[k].start <= rs[k].until /\ rs[k].until <= rs[k + 1].start
        BY <1>1, <4>1
      <4>4. rs[i].until \in Nat /\ rs[k].start \in Nat /\ rs[k].until \in Nat /\ rs[k + 1].start \in Nat
        BY <1>1, <2>1, <3>3, <4>1
      <4> QED
        BY <3>3, <4>2, <4>3, <4>4
    <3> QED
      BY <1>1, <2>1, <3>1, <3>2, <3>3
  <2>2. k + 1 \in 0 .. n
    BY <1>1
  <2> QED
    BY <1>1, <2>1, <2>2
<1>4. n \in D
  <2> HIDE DEF D
  <2>1. 0 .. n \subseteq D
    BY <1>1, <1>2, <1>3, SetInduction
  <2> QED
    BY <1>1, <2>1
<1> QED
  BY <1>1, <1>4

(* Of runs in order, at most one covers a time, and the chart shows it.    *)
LEMMA ShownOnce ==
  ASSUME NEW rs, Timed(rs), InOrder(rs), NEW t \in Nat, NEW i \in DOMAIN rs, Covers(rs[i], t)
  PROVE  ShownIn(rs, t) = rs[i].order
<1> DEFINE covering == {j \in DOMAIN rs : Covers(rs[j], t)}
<1>1. ASSUME NEW j \in DOMAIN rs, Covers(rs[j], t)
      PROVE  j = i
  <2>1. /\ i < j => rs[i].until <= rs[j].start
        /\ j < i => rs[j].until <= rs[i].start
    BY OrderedThroughout
  <2>2. i \in Int /\ j \in Int /\ rs[i].until \in Int /\ rs[j].until \in Int
        /\ rs[i].start \in Int /\ rs[j].start \in Int
    BY DEF Timed
  <2> QED
    BY <1>1, <2>1, <2>2 DEF Covers
<1>2. covering = {i}
  BY <1>1
<1>3. i \in Nat
  BY DEF Timed
<1>4. Min({i}) = i
  BY <1>3, LeastOfNat
<1>5. ShownIn(rs, t) = IF covering = {} THEN Nothing ELSE rs[Min(covering)].order
  BY DEF ShownIn
<1> QED
  BY <1>2, <1>4, <1>5

(* Where no run covers a time the chart shows nothing.                     *)
LEMMA ShownNot ==
  ASSUME NEW rs, NEW t, \A i \in DOMAIN rs : ~Covers(rs[i], t)
  PROVE  ShownIn(rs, t) = Nothing
BY DEF ShownIn

(* A run that begins after all others goes behind them.                    *)
LEMMA RunAppended ==
  ASSUME NEW rs \in Seq(OrderRun), InOrder(rs), NEW r \in OrderRun, r.start <= r.until,
         rs # <<>> => Last(rs).until <= r.start
  PROVE  LET e == Append(rs, r)
         IN /\ e \in Seq(OrderRun) /\ InOrder(e)
            /\ Len(e) = Len(rs) + 1 /\ DOMAIN e = 1 .. Len(rs) + 1 /\ e[Len(rs) + 1] = r
            /\ \A i \in DOMAIN rs : i \in DOMAIN e /\ e[i] = rs[i]
<1> DEFINE n == Len(rs) e == Append(rs, r)
<1>1. /\ n \in Nat /\ DOMAIN rs = 1 .. n /\ Len(e) = n + 1 /\ DOMAIN e = 1 .. n + 1
      /\ e \in Seq(OrderRun) /\ e[n + 1] = r /\ \A i \in 1 .. n : e[i] = rs[i]
      /\ rs # <<>> <=> n # 0
  OBVIOUS
<1>2. /\ \A i \in 1 .. n : rs[i].start <= rs[i].until
      /\ \A i \in 1 .. n - 1 : rs[i].until <= rs[i + 1].start
      /\ n # 0 => rs[n].until <= r.start
  BY <1>1 DEF InOrder, Last
<1> HIDE DEF e, n
<1>3. \A i \in 1 .. n + 1 : e[i].start <= e[i].until
  <2> TAKE i \in 1 .. n + 1
  <2>1. CASE i = n + 1
    BY <1>1, <2>1
  <2>2. CASE i # n + 1
    <3>1. i \in 1 .. n
      BY <1>1, <2>2
    <3> QED
      BY <1>1, <1>2, <3>1
  <2> QED
    BY <2>1, <2>2
<1>4. \A i \in 1 .. (n + 1) - 1 : e[i].until <= e[i + 1].start
  <2> TAKE i \in 1 .. (n + 1) - 1
  <2>1. CASE i = n
    BY <1>1, <1>2, <2>1
  <2>2. CASE i # n
    <3>1. i \in 1 .. n - 1 /\ i \in 1 .. n /\ i + 1 \in 1 .. n
      BY <1>1, <2>2
    <3> QED
      BY <1>1, <1>2, <3>1
  <2> QED
    BY <2>1, <2>2
<1>5. InOrder(e)
  BY <1>1, <1>3, <1>4 DEF InOrder
<1> QED
  BY <1>1, <1>5 DEF e, n

(* The end of the last run may be put anywhere after its start.            *)
LEMMA LastMoved ==
  ASSUME NEW rs \in Seq(OrderRun), InOrder(rs), rs # <<>>, NEW x \in Nat, Last(rs).start <= x
  PROVE  LET e == EndLast(rs, x)
         IN /\ e \in Seq(OrderRun) /\ InOrder(e) /\ e # <<>>
            /\ Len(e) = Len(rs) /\ DOMAIN e = DOMAIN rs /\ Last(e).until = x
            /\ \A i \in DOMAIN rs :
                 /\ e[i].start = rs[i].start /\ e[i].order = rs[i].order
                 /\ e[i].until = IF i = Len(rs) THEN x ELSE rs[i].until
<1> DEFINE n == Len(rs) r == [rs[n] EXCEPT !.until = x] e == EndLast(rs, x)
<1>1. /\ n \in Nat \ {0} /\ DOMAIN rs = 1 .. n /\ \A i \in 1 .. n : rs[i] \in OrderRun
      /\ rs = [i \in 1 .. n |-> rs[i]]
  OBVIOUS
<1>2. /\ \A i \in 1 .. n : rs[i].start <= rs[i].until
      /\ \A i \in 1 .. n - 1 : rs[i].until <= rs[i + 1].start
      /\ rs[n].start <= x
  BY <1>1 DEF InOrder, Last
<1>3. e = [i \in 1 .. n |-> IF i = n THEN r ELSE rs[i]]
  BY <1>1 DEF EndLast
<1>4. r \in OrderRun /\ r.start = rs[n].start /\ r.order = rs[n].order /\ r.until = x
  BY <1>1 DEF OrderRun
<1> HIDE DEF r, e, n
<1>5. e \in Seq(OrderRun) /\ Len(e) = n /\ DOMAIN e = 1 .. n
  <2>1. e \in [1 .. n -> OrderRun]
    BY <1>1, <1>3, <1>4
  <2> QED
    BY <1>1, <2>1
<1>6. ASSUME NEW i \in 1 .. n
      PROVE  /\ e[i].start = rs[i].start /\ e[i].order = rs[i].order
             /\ e[i].until = IF i = n THEN x ELSE rs[i].until
  BY <1>1, <1>3, <1>4
<1>7. \A i \in 1 .. n : e[i].start <= e[i].until
  BY <1>1, <1>2, <1>6
<1>8. \A i \in 1 .. n - 1 : e[i].until <= e[i + 1].start
  <2> TAKE i \in 1 .. n - 1
  <2>1. i \in 1 .. n /\ i + 1 \in 1 .. n /\ i # n
    BY <1>1
  <2>2. e[i].until = rs[i].until /\ e[i + 1].start = rs[i + 1].start
    BY <1>6, <2>1
  <2> QED
    BY <1>2, <2>2
<1>9. InOrder(e)
  BY <1>5, <1>7, <1>8 DEF InOrder
<1>10. Last(e).until = x /\ e # <<>>
  BY <1>1, <1>5, <1>6 DEF Last
<1> QED
  BY <1>1, <1>5, <1>6, <1>9, <1>10 DEF e, n

(* The last run ends last.                                                 *)
LEMMA LastEndsLast ==
  ASSUME NEW rs \in Seq(OrderRun), InOrder(rs), rs # <<>>
  PROVE  /\ Len(rs) \in DOMAIN rs /\ Last(rs) = rs[Len(rs)] /\ Last(rs) \in OrderRun
         /\ Last(rs).start \in Nat /\ Last(rs).until \in Nat /\ Last(rs).order \in Resting
         /\ Last(rs).start <= Last(rs).until
         /\ \A i \in DOMAIN rs : rs[i].until <= Last(rs).until
<1> DEFINE n == Len(rs)
<1>1. Timed(rs) /\ \A i \in DOMAIN rs : rs[i].order \in Resting
  BY RunsTimed
<1>2. n \in Nat /\ n \in DOMAIN rs /\ DOMAIN rs = 1 .. n /\ rs[n] \in OrderRun /\ Last(rs) = rs[n]
  BY DEF Last
<1>3. /\ \A i \in DOMAIN rs : i < n => rs[i].until <= rs[n].start
      /\ rs[n].start <= rs[n].until
  BY <1>1, <1>2, OrderedThroughout DEF InOrder
<1>4. \A i \in DOMAIN rs : rs[i].until \in Nat /\ rs[i].start \in Nat
  BY <1>1 DEF Timed
<1> HIDE DEF n
<1>5. \A i \in DOMAIN rs : rs[i].until <= rs[n].until
  <2> TAKE i \in DOMAIN rs
  <2>1. CASE i = n
    BY <1>4, <2>1
  <2>2. CASE i # n
    <3>1. i < n
      BY <1>2, <2>2
    <3> QED
      BY <1>2, <1>3, <1>4, <3>1
  <2> QED
    BY <2>1, <2>2
<1> QED
  BY <1>1, <1>2, <1>3, <1>4, <1>5 DEF n

(* The runs of a level after a snapshot of time last: in order, begun by   *)
(* then, and none goes on for longer than one bucket.                      *)
LevelFits(rs, last, w) ==
  /\ rs \in Seq(OrderRun) /\ InOrder(rs)
  /\ \A i \in DOMAIN rs : rs[i].start <= last /\ rs[i].until <= last + w

(* What has covered a time before t still does, with the same order.       *)
StillCovered(rs, e, t) ==
  \A u \in Nat : \A i \in DOMAIN rs :
    u < t /\ Covers(rs[i], u) => \E j \in DOMAIN e : e[j].order = rs[i].order /\ Covers(e[j], u)

(* What covers a time before t has done so before, or bridges a gap.       *)
OnlyBridges(rs, e, t, gap) ==
  \A u \in Nat : \A j \in DOMAIN e :
    u < t /\ Covers(e[j], u) =>
      (\E i \in DOMAIN rs : Covers(rs[i], u)) \/ (gap /\ \A i \in DOMAIN rs : rs[i].until <= u)

(* A new run begins at t, and its order is shown there.                    *)
LEMMA RunBegun ==
  ASSUME interval \in Nat \ {0}, NEW t \in Nat, NEW o \in Resting,
         NEW d \in Seq(OrderRun), InOrder(d), d # <<>> => Last(d).until <= t
  PROVE  LET e == Append(d, NewRun(t, o))
         IN /\ LevelFits(e, t, interval)
            /\ \E i \in DOMAIN e : Covers(e[i], t) /\ e[i].order = o
            /\ \A i \in DOMAIN d : i \in DOMAIN e /\ e[i] = d[i]
            /\ \A j \in DOMAIN e : j \in DOMAIN d \/ e[j].start = t
<1> DEFINE r == NewRun(t, o) e == Append(d, r) n == Len(d)
<1>1. r \in OrderRun /\ r.start = t /\ r.until = t + interval /\ r.order = o /\ r.start <= r.until
  BY DEF NewRun, OrderRun
<1> HIDE DEF r
<1>2. /\ e \in Seq(OrderRun) /\ InOrder(e)
      /\ Len(e) = n + 1 /\ DOMAIN e = 1 .. n + 1 /\ e[n + 1] = r
      /\ \A i \in DOMAIN d : i \in DOMAIN e /\ e[i] = d[i]
  BY <1>1, RunAppended
<1>3. n \in Nat /\ DOMAIN d = 1 .. n /\ (n # 0 => d # <<>>)
  OBVIOUS
<1>4. \A i \in 1 .. n : d[i].start \in Nat /\ d[i].until \in Nat /\ d[i].start <= d[i].until
  BY <1>3, RunsTimed DEF Timed, InOrder
<1>5. \A i \in 1 .. n : d[i].until <= t
  <2> TAKE i \in 1 .. n
  <2>1. d # <<>>
    BY <1>3
  <2>2. Last(d).until \in Nat /\ d[i].until <= Last(d).until /\ Last(d).until <= t
    BY <1>3, <2>1, LastEndsLast
  <2> QED
    BY <1>4, <2>2
<1> HIDE DEF e, n
<1>6. \A i \in DOMAIN e : e[i].start <= t /\ e[i].until <= t + interval
  <2> TAKE i \in DOMAIN e
  <2>1. CASE i = n + 1
    BY <1>1, <1>2, <2>1
  <2>2. CASE i # n + 1
    <3>1. i \in 1 .. n
      BY <1>2, <1>3, <2>2
    <3> QED
      BY <1>2, <1>3, <1>4, <1>5, <3>1
  <2> QED
    BY <2>1, <2>2
<1>7. LevelFits(e, t, interval)
  BY <1>2, <1>6 DEF LevelFits
<1>8. n + 1 \in DOMAIN e /\ Covers(e[n + 1], t) /\ e[n + 1].order = o /\ e[n + 1].start = t
  BY <1>1, <1>2, <1>3 DEF Covers
<1>9. \A j \in DOMAIN e : j \in DOMAIN d \/ e[j].start = t
  BY <1>2, <1>3, <1>8
<1> QED
  BY <1>2, <1>7, <1>8, <1>9 DEF e, r

(* update_price_level of a snapshot that is not ignored: the level is in   *)
(* order, shows the new order at its time, and what it showed before.      *)
LEMMA LevelUpdated ==
  ASSUME interval \in Nat \ {0}, NEW last \in Nat \cup {Never}, NEW rs, LevelFits(rs, last, interval),
         NEW t \in Nat, last <= t, NEW o \in Resting, NEW gap \in BOOLEAN
  PROVE  LET e == UpdatePriceLevel(rs, t, o, gap)
         IN /\ LevelFits(e, t, interval)
            /\ \E i \in DOMAIN e : Covers(e[i], t) /\ e[i].order = o
            /\ StillCovered(rs, e, t)
            /\ OnlyBridges(rs, e, t, gap)
<1> DEFINE e == UpdatePriceLevel(rs, t, o, gap) n == Len(rs) old == Last(rs) s == old.start f == old.until
           begun(d) == Append(d, NewRun(t, o))
           Good(x) == /\ LevelFits(x, t, interval)
                      /\ \E i \in DOMAIN x : Covers(x[i], t) /\ x[i].order = o
                      /\ StillCovered(rs, x, t)
                      /\ OnlyBridges(rs, x, t, gap)
<1>1. rs \in Seq(OrderRun) /\ InOrder(rs) /\ last \in Int
  BY DEF LevelFits, Never
<1>2. n \in Nat /\ DOMAIN rs = 1 .. n /\ (rs = <<>> <=> n = 0)
  BY <1>1
<1>3. \A i \in DOMAIN rs : /\ rs[i].start \in Nat /\ rs[i].until \in Nat /\ rs[i].order \in Resting
                           /\ rs[i].start <= t
  BY <1>1, RunsTimed DEF Timed, LevelFits
<1>4. ASSUME rs # <<>>
      PROVE  /\ n \in DOMAIN rs /\ old = rs[n] /\ old.order \in Resting
             /\ s \in Nat /\ f \in Nat /\ s <= f /\ s <= t
             /\ \A i \in DOMAIN rs : rs[i].until <= f
  BY <1>1, <1>3, <1>4, LastEndsLast
<1> HIDE DEF n, old
<1>5. ASSUME rs # <<>> => f <= t
      PROVE  Good(begun(rs))
  <2> DEFINE x == begun(rs)
  <2>1. /\ LevelFits(x, t, interval) /\ \E i \in DOMAIN x : Covers(x[i], t) /\ x[i].order = o
        /\ \A i \in DOMAIN rs : i \in DOMAIN x /\ x[i] = rs[i]
        /\ \A j \in DOMAIN x : j \in DOMAIN rs \/ x[j].start = t
    BY <1>1, <1>5, RunBegun DEF old
  <2> HIDE DEF x
  <2>2. StillCovered(rs, x, t)
    BY <2>1 DEF StillCovered
  <2>3. OnlyBridges(rs, x, t, gap)
    BY <2>1 DEF OnlyBridges, Covers
  <2> QED
    BY <2>1, <2>2, <2>3 DEF x
<1>6. ASSUME rs # <<>>, f > t \/ (gap /\ t > f)
      PROVE  Good(begun(EndLast(rs, t)))
  <2> DEFINE d == EndLast(rs, t) x == begun(d)
  <2>1. /\ d \in Seq(OrderRun) /\ InOrder(d) /\ d # <<>> /\ DOMAIN d = DOMAIN rs /\ Last(d).until = t
        /\ \A i \in DOMAIN rs : /\ d[i].start = rs[i].start /\ d[i].order = rs[i].order
                                /\ d[i].until = IF i = n THEN t ELSE rs[i].until
    BY <1>1, <1>4, <1>6, LastMoved DEF old, n
  <2> HIDE DEF d
  <2>2. /\ LevelFits(x, t, interval) /\ \E i \in DOMAIN x : Covers(x[i], t) /\ x[i].order = o
        /\ \A i \in DOMAIN d : i \in DOMAIN x /\ x[i] = d[i]
        /\ \A j \in DOMAIN x : j \in DOMAIN d \/ x[j].start = t
    <3>1. d \in Seq(OrderRun) /\ InOrder(d) /\ (d # <<>> => Last(d).until <= t)
      BY <2>1
    <3>2. interval \in Nat \ {0} /\ t \in Nat /\ o \in Resting
      OBVIOUS
    <3> QED
      BY <3>1, <3>2, RunBegun
  <2> HIDE DEF x
  <2>3. ASSUME NEW u \in Nat, NEW i \in DOMAIN rs, u < t, Covers(rs[i], u)
        PROVE  x[i].order = rs[i].order /\ Covers(x[i], u) /\ i \in DOMAIN x
    BY <2>1, <2>2, <2>3 DEF Covers
  <2>4. StillCovered(rs, x, t)
    BY <2>3 DEF StillCovered
  <2>5. ASSUME NEW u \in Nat, NEW j \in DOMAIN x, u < t, Covers(x[j], u)
        PROVE  (\E i \in DOMAIN rs : Covers(rs[i], u)) \/ (gap /\ \A i \in DOMAIN rs : rs[i].until <= u)
    <3>1. j \in DOMAIN rs /\ x[j] = d[j]
      BY <2>1, <2>2, <2>5 DEF Covers
    <3>2. CASE Covers(rs[j], u)
      BY <3>1, <3>2
    <3>3. CASE ~Covers(rs[j], u)
      <4>1. j = n /\ f <= u /\ u < t
        BY <1>3, <1>4, <1>6, <2>1, <2>5, <3>1, <3>3 DEF Covers
      <4>2. gap /\ \A i \in DOMAIN rs : rs[i].until <= f
        BY <1>4, <1>6, <4>1
      <4>3. \A i \in DOMAIN rs : rs[i].until <= u
        BY <1>3, <1>4, <1>6, <4>1, <4>2
      <4> QED
        BY <4>2, <4>3
    <3> QED
      BY <3>2, <3>3
  <2>6. OnlyBridges(rs, x, t, gap)
    BY <2>5 DEF OnlyBridges
  <2> QED
    BY <2>2, <2>4, <2>6 DEF x, d
<1>7. ASSUME rs # <<>>, SameSide(rs, o), SameAmount(rs, o), t <= f \/ gap
      PROVE  Good(ExtendLast(rs, t))
  <2> DEFINE y == Max({f, t + interval}) x == EndLast(rs, y)
  <2>1. t + interval \in Nat
    OBVIOUS
  <2>2. y \in Nat /\ y >= f /\ y >= t + interval /\ (y = f \/ y = t + interval)
    BY <1>4, <1>7, <2>1, MaxOfTwo
  <2>3. f <= t + interval
    <3>1. f <= last + interval
      BY <1>1, <1>4, <1>7 DEF LevelFits
    <3> QED
      BY <1>1, <1>4, <1>7, <3>1
  <2>4. ExtendLast(rs, t) = x
    BY DEF ExtendLast, EndLast, old, Last
  <2> HIDE DEF y
  <2>5. /\ x \in Seq(OrderRun) /\ InOrder(x) /\ x # <<>> /\ DOMAIN x = DOMAIN rs
        /\ \A i \in DOMAIN rs : /\ x[i].start = rs[i].start /\ x[i].order = rs[i].order
                                /\ x[i].until = IF i = n THEN y ELSE rs[i].until
    <3>1. s <= y
      BY <1>4, <1>7, <2>2
    <3> QED
      BY <1>1, <1>7, <2>2, <3>1, LastMoved DEF old, n
  <2> HIDE DEF x
  <2>6. ASSUME NEW i \in DOMAIN x
        PROVE  x[i].start <= t /\ x[i].until <= t + interval
    <3>1. i \in DOMAIN rs /\ rs[i].start <= t /\ rs[i].until <= f /\ rs[i].until \in Nat
      BY <1>3, <1>4, <1>7, <2>5
    <3>2. CASE i = n
      BY <1>4, <1>7, <2>1, <2>2, <2>3, <2>5, <3>1, <3>2
    <3>3. CASE i # n
      BY <1>4, <1>7, <2>1, <2>3, <2>5, <3>1, <3>3
    <3> QED
      BY <3>2, <3>3
  <2>7. LevelFits(x, t, interval)
    BY <2>5, <2>6 DEF LevelFits
  <2>8. n \in DOMAIN x /\ Covers(x[n], t) /\ x[n].order = o
    <3>1. n \in DOMAIN rs /\ x[n].start = s /\ x[n].order = old.order /\ x[n].until = y
      BY <1>4, <1>7, <2>5
    <3>2. old.order = o
      <4>1. old.order.qty = o.qty /\ old.order.isBid = o.isBid
        BY <1>7 DEF SameSide, SameAmount, old
      <4> QED
        BY <1>4, <1>7, <4>1 DEF Resting
    <3>3. s <= t /\ y > t
      BY <1>4, <1>7, <2>2
    <3> QED
      BY <2>5, <3>1, <3>2, <3>3 DEF Covers
  <2>9. ASSUME NEW u \in Nat, NEW i \in DOMAIN rs, u < t, Covers(rs[i], u)
        PROVE  x[i].order = rs[i].order /\ Covers(x[i], u) /\ i \in DOMAIN x
    <3>1. x[i].order = rs[i].order /\ i \in DOMAIN x /\ x[i].start = rs[i].start
      BY <2>5
    <3>2. rs[i].until <= x[i].until
      BY <1>3, <1>4, <1>7, <2>2, <2>5
    <3> QED
      BY <1>3, <1>7, <2>2, <2>5, <2>9, <3>1, <3>2 DEF Covers
  <2>10. StillCovered(rs, x, t)
    BY <2>9 DEF StillCovered
  <2>11. ASSUME NEW u \in Nat, NEW j \in DOMAIN x, u < t, Covers(x[j], u)
         PROVE  (\E i \in DOMAIN rs : Covers(rs[i], u)) \/ (gap /\ \A i \in DOMAIN rs : rs[i].until <= u)
    <3>1. j \in DOMAIN rs
      BY <2>5
    <3>2. CASE Covers(rs[j], u)
      BY <3>1, <3>2
    <3>3. CASE ~Covers(rs[j], u)
      <4>1. j = n /\ f <= u /\ u < t
        BY <1>3, <1>4, <1>7, <2>5, <2>11, <3>1, <3>3 DEF Covers
      <4>2. gap /\ \A i \in DOMAIN rs : rs[i].until <= f
        BY <1>4, <1>7, <4>1
      <4>3. \A i \in DOMAIN rs : rs[i].until <= u
        BY <1>3, <1>4, <1>7, <4>1, <4>2
      <4> QED
        BY <4>2, <4>3
    <3> QED
      BY <3>2, <3>3
  <2>12. OnlyBridges(rs, x, t, gap)
    BY <2>11 DEF OnlyBridges
  <2> QED
    BY <2>4, <2>7, <2>8, <2>10, <2>12
<1> HIDE DEF Good, begun
<1>8. CASE rs = <<>>
  <2>1. e = begun(rs)
    BY <1>8 DEF UpdatePriceLevel, begun
  <2> QED
    BY <1>5, <1>8, <2>1 DEF Good
<1>9. CASE rs # <<>> /\ SameSide(rs, o) /\ t > f
  <2>1. e = Reappears(rs, t, o, gap)
    BY <1>4, <1>9 DEF UpdatePriceLevel, old
  <2>2. CASE ~gap
    <3>1. e = begun(rs)
      BY <2>1, <2>2 DEF Reappears, begun
    <3> QED
      BY <1>4, <1>5, <1>9, <3>1 DEF Good
  <2>3. CASE gap /\ SameAmount(rs, o)
    <3>1. e = ExtendLast(rs, t)
      BY <2>1, <2>3 DEF Reappears
    <3> QED
      BY <1>7, <1>9, <2>3, <3>1 DEF Good
  <2>4. CASE gap /\ ~SameAmount(rs, o)
    <3>1. e = begun(EndLast(rs, t))
      BY <2>1, <2>4 DEF Reappears, begun
    <3> QED
      BY <1>6, <1>9, <2>4, <3>1 DEF Good
  <2> QED
    BY <2>2, <2>3, <2>4
<1>10. CASE rs # <<>> /\ SameSide(rs, o) /\ t <= f /\ SameAmount(rs, o)
  <2>1. e = ExtendLast(rs, t)
    BY <1>4, <1>10 DEF UpdatePriceLevel, old
  <2> QED
    BY <1>7, <1>10, <2>1 DEF Good
<1>11. CASE rs # <<>> /\ ~(SameSide(rs, o) /\ t > f) /\ ~(SameSide(rs, o) /\ t <= f /\ SameAmount(rs, o))
  <2>1. e = begun(CutLast(rs, t))
    BY <1>11 DEF UpdatePriceLevel, old, begun
  <2>2. CASE f > t
    <3>1. e = begun(EndLast(rs, t))
      BY <2>1, <2>2 DEF CutLast, old
    <3> QED
      BY <1>6, <1>11, <2>2, <3>1 DEF Good
  <2>3. CASE ~(f > t)
    <3>1. e = begun(rs) /\ f <= t
      BY <1>4, <1>11, <2>1, <2>3 DEF CutLast, old
    <3> QED
      BY <1>5, <3>1 DEF Good
  <2> QED
    BY <2>2, <2>3
<1> QED
  BY <1>8, <1>9, <1>10, <1>11

(* Two different multiples of a number are at least that far apart.        *)
LEMMA BucketsApart ==
  ASSUME NEW w \in Nat \ {0}, NEW a \in Nat, NEW b \in Nat, a % w = 0, b % w = 0, a < b
  PROVE  a + w <= b
<1> DEFINE p == a \div w q == b \div w
<1>1. p \in Nat /\ q \in Nat /\ a = p * w /\ b = q * w
  BY Z3
<1> HIDE DEF p, q
<1>2. p < q
  <2>1. q <= p => b <= a
    BY <1>1, Multiples
  <2> QED
    BY <1>1, <2>1
<1>3. (p + 1) * w = a + w /\ (p + 1) * w <= q * w
  <2>1. p + 1 \in Nat /\ p + 1 <= q
    BY <1>1, <1>2
  <2> QED
    BY <1>1, <2>1, Multiples
<1> QED
  BY <1>1, <1>3

(* What the buckets of a book have seen: of each bucket, what it last saw  *)
(* of each level.                                                          *)
IsSights(past) ==
  /\ past = [t \in DOMAIN past |-> past[t]] /\ DOMAIN past \subseteq Nat
  /\ \A t \in DOMAIN past : past[t] \in [Levels -> Resting \cup {Nothing}]

(* All buckets are of the basis.                                           *)
OnBuckets(past) == \A t \in DOMAIN past : t % interval = 0

(* The order is next seen at m, right after a gap.                         *)
ReseenAt(past, l, t, m) ==
  /\ m > t /\ past[m][l] # Nothing
  /\ \A u \in DOMAIN past : u > t /\ past[u][l] # Nothing => m <= u
  /\ \A u \in DOMAIN past : u < m => u + interval < m

(* The level shows what was seen of it, and nothing else, as HistoryIsTrue *)
(* has it, of any runs and any past.                                       *)
LevelShows(rs, last, past, l, from) ==
  /\ LevelFits(rs, last, interval)
  /\ \A t \in DOMAIN past :
       t >= from /\ past[t][l] # Nothing =>
         \E i \in DOMAIN rs : Covers(rs[i], t) /\ rs[i].order = past[t][l]
  /\ OnBuckets(past) =>
       \A t \in DOMAIN past :
         t >= from /\ past[t][l] = Nothing =>
           \/ \A i \in DOMAIN rs : ~Covers(rs[i], t)
           \/ \E m \in DOMAIN past : ReseenAt(past, l, t, m)

(* A history with the snapshots it was made from.                          *)
Shows(h, past, from) ==
  /\ h.last \in Nat \cup {Never}
  /\ IsSights(past)
  /\ h.last = Never => DOMAIN past = {}
  /\ h.last # Never => h.last \in DOMAIN past
  /\ \A t \in DOMAIN past : t <= h.last
  /\ h.runs = [l \in Levels |-> h.runs[l]]
  /\ \A l \in Levels : LevelShows(h.runs[l], h.last, past, l, from)

(* A snapshot, with any time.                                              *)
IsSnapshot(s) == s.time \in Nat /\ s.book \in [Levels -> Resting \cup {Nothing}]

(* What a snapshot adds to what was seen of a level.                       *)
Adds(p, past, s, l) ==
  /\ DOMAIN p = DOMAIN past \cup {s.time}
  /\ \A t \in DOMAIN past : t # s.time => p[t] = past[t]
  /\ p[s.time][l] = IF s.book[l] # Nothing \/ s.time \notin DOMAIN past
                   THEN s.book[l] ELSE past[s.time][l]

(* What was seen, with a snapshot more.                                    *)
LEMMA SightsSeen ==
  ASSUME NEW past, IsSights(past), NEW s, IsSnapshot(s)
  PROVE  LET p == Seen(past, s)
         IN /\ IsSights(p) /\ DOMAIN p = DOMAIN past \cup {s.time}
            /\ \A l \in Levels : Adds(p, past, s, l)
<1> DEFINE V == Resting \cup {Nothing} p == Seen(past, s)
           latest(t) == [l \in Levels |-> IF s.book[l] = Nothing /\ t \in DOMAIN past THEN past[t][l] ELSE s.book[l]]
<1>1. p = [t \in DOMAIN past \cup {s.time} |-> IF t # s.time THEN past[t] ELSE latest(t)]
  BY DEF Seen
<1>2. \A l \in Levels : s.book[l] \in V
  BY DEF IsSnapshot
<1>3. \A t \in DOMAIN past : past[t] \in [Levels -> V]
  BY DEF IsSights
<1>4. latest(s.time) \in [Levels -> V]
  <2>1. \A l \in Levels : s.time \in DOMAIN past => past[s.time][l] \in V
    BY <1>3
  <2> HIDE DEF V
  <2> QED
    BY <1>2, <2>1
<1>5. \A l \in Levels : latest(s.time)[l] = IF s.book[l] = Nothing /\ s.time \in DOMAIN past
                                         THEN past[s.time][l] ELSE s.book[l]
  OBVIOUS
<1> HIDE DEF V, latest, p
<1>6. DOMAIN p = DOMAIN past \cup {s.time} /\ p = [t \in DOMAIN p |-> p[t]] /\ p[s.time] = latest(s.time)
      /\ \A t \in DOMAIN past : t # s.time => p[t] = past[t]
  BY <1>1
<1>7. DOMAIN p \subseteq Nat
  BY <1>6 DEF IsSights, IsSnapshot
<1>8. \A t \in DOMAIN p : p[t] \in [Levels -> V]
  BY <1>3, <1>4, <1>6
<1>9. IsSights(p)
  BY <1>6, <1>7, <1>8 DEF IsSights, V
<1>10. ASSUME NEW l \in Levels
       PROVE  Adds(p, past, s, l)
  <2>1. p[s.time][l] = IF s.book[l] = Nothing /\ s.time \in DOMAIN past
                       THEN past[s.time][l] ELSE s.book[l]
    BY <1>5, <1>6
  <2> QED
    BY <1>6, <2>1 DEF Adds
<1> QED
  BY <1>6, <1>9, <1>10 DEF p

(* Later sights do not change that an order was next seen after a gap.     *)
LEMMA ReseenStays ==
  ASSUME NEW past, IsSights(past), NEW s, IsSnapshot(s), \A u \in DOMAIN past : u <= s.time,
         NEW l \in Levels, NEW p, Adds(p, past, s, l),
         NEW t \in DOMAIN past, NEW m \in DOMAIN past, ReseenAt(past, l, t, m)
  PROVE  m \in DOMAIN p /\ ReseenAt(p, l, t, m)
<1> DEFINE x == s.time
<1>1. /\ DOMAIN p = DOMAIN past \cup {x}
      /\ \A u \in DOMAIN past : u # x => p[u] = past[u]
      /\ p[x][l] = IF s.book[l] # Nothing \/ x \notin DOMAIN past THEN s.book[l] ELSE past[x][l]
  BY DEF Adds
<1>2. x \in Nat /\ DOMAIN past \subseteq Nat
  BY DEF IsSnapshot, IsSights
<1>3. \A u \in DOMAIN past : past[u][l] # Nothing => p[u][l] # Nothing
  <2> TAKE u \in DOMAIN past
  <2>1. CASE u = x
    BY <1>1, <2>1
  <2>2. CASE u # x
    BY <1>1, <2>2
  <2> QED
    BY <2>1, <2>2
<1>4. \A u \in DOMAIN p : u # x => u \in DOMAIN past /\ p[u] = past[u]
  BY <1>1
<1>5. m <= x /\ m \in Nat /\ m \in DOMAIN p
  BY <1>1, <1>2
<1>6. /\ m > t /\ past[m][l] # Nothing
      /\ \A u \in DOMAIN past : u > t /\ past[u][l] # Nothing => m <= u
      /\ \A u \in DOMAIN past : u < m => u + interval < m
  BY DEF ReseenAt
<1> HIDE DEF x
<1>7. ASSUME NEW u \in DOMAIN p, u > t, p[u][l] # Nothing
      PROVE  m <= u
  <2>1. CASE u = x
    BY <1>5, <2>1
  <2>2. CASE u # x
    BY <1>4, <1>6, <1>7, <2>2
  <2> QED
    BY <2>1, <2>2
<1>8. ASSUME NEW u \in DOMAIN p, u < m
      PROVE  u + interval < m
  <2>1. u # x
    BY <1>2, <1>5, <1>8
  <2> QED
    BY <1>4, <1>6, <1>8, <2>1
<1>9. ReseenAt(p, l, t, m)
  BY <1>3, <1>6, <1>7, <1>8 DEF ReseenAt
<1> QED
  BY <1>5, <1>9

(* A level that the snapshot does not have shows what it showed.           *)
LEMMA LevelPassedOver ==
  ASSUME interval \in Nat \ {0}, NEW from \in Nat, NEW past, NEW last \in Nat \cup {Never},
         IsSights(past), last = Never => DOMAIN past = {}, last # Never => last \in DOMAIN past,
         \A u \in DOMAIN past : u <= last,
         NEW s, IsSnapshot(s), last <= s.time,
         NEW l \in Levels, s.book[l] = Nothing, NEW p, Adds(p, past, s, l),
         NEW rs, LevelShows(rs, last, past, l, from)
  PROVE  LevelShows(rs, s.time, p, l, from)
<1> DEFINE t == s.time
<1>1. /\ DOMAIN p = DOMAIN past \cup {t}
      /\ \A u \in DOMAIN past : u # t => p[u] = past[u]
      /\ p[t][l] = IF t \in DOMAIN past THEN past[t][l] ELSE Nothing
  BY DEF Adds
<1>2. t \in Nat /\ DOMAIN past \subseteq Nat /\ last \in Int
  BY DEF IsSnapshot, IsSights, Never
<1>3. /\ LevelFits(rs, last, interval)
      /\ \A u \in DOMAIN past :
           u >= from /\ past[u][l] # Nothing =>
             \E i \in DOMAIN rs : Covers(rs[i], u) /\ rs[i].order = past[u][l]
      /\ OnBuckets(past) =>
           \A u \in DOMAIN past :
             u >= from /\ past[u][l] = Nothing =>
               \/ \A i \in DOMAIN rs : ~Covers(rs[i], u)
               \/ \E m \in DOMAIN past : ReseenAt(past, l, u, m)
  BY DEF LevelShows
<1>4. rs \in Seq(OrderRun) /\ InOrder(rs) /\ \A i \in DOMAIN rs : rs[i].start <= last /\ rs[i].until <= last + interval
  BY <1>3 DEF LevelFits
<1>5. \A i \in DOMAIN rs : rs[i].start \in Nat /\ rs[i].until \in Nat
  BY <1>4, RunsTimed DEF Timed
<1>6. \A u \in DOMAIN past : u <= t
  BY <1>2
<1>7. \A u \in DOMAIN past : p[u][l] = past[u][l]
  <2> TAKE u \in DOMAIN past
  <2>1. CASE u = t
    BY <1>1, <2>1
  <2>2. CASE u # t
    BY <1>1, <2>2
  <2> QED
    BY <2>1, <2>2
<1> HIDE DEF t
<1>8. LevelFits(rs, t, interval)
  <2>1. last <= t
    BY DEF t
  <2>2. \A i \in DOMAIN rs : rs[i].start <= t /\ rs[i].until <= t + interval
    BY <1>2, <1>4, <1>5, <2>1
  <2> QED
    BY <1>4, <2>2 DEF LevelFits
<1>9. ASSUME NEW u \in DOMAIN p, u >= from, p[u][l] # Nothing
      PROVE  \E i \in DOMAIN rs : Covers(rs[i], u) /\ rs[i].order = p[u][l]
  <2>1. u \in DOMAIN past
    BY <1>1, <1>9
  <2> QED
    BY <1>3, <1>7, <1>9, <2>1
<1>10. ASSUME OnBuckets(p), NEW u \in DOMAIN p, u >= from, p[u][l] = Nothing
       PROVE  \/ \A i \in DOMAIN rs : ~Covers(rs[i], u)
              \/ \E m \in DOMAIN p : ReseenAt(p, l, u, m)
  <2>1. OnBuckets(past) /\ t % interval = 0
    BY <1>1, <1>10 DEF OnBuckets
  <2>2. CASE u \in DOMAIN past
    <3>1. CASE \A i \in DOMAIN rs : ~Covers(rs[i], u)
      BY <3>1
    <3>2. CASE \E m \in DOMAIN past : ReseenAt(past, l, u, m)
      BY <1>6, <2>2, <3>2, ReseenStays DEF t
    <3> QED
      BY <1>3, <1>7, <1>10, <2>1, <2>2, <3>1, <3>2
  <2>3. CASE u \notin DOMAIN past
    <3>1. u = t
      BY <1>1, <2>3
    <3>2. ASSUME NEW i \in DOMAIN rs, Covers(rs[i], u)
          PROVE  FALSE
      <4>1. last # Never /\ last \in Nat
        <5>1. rs[i].start \in Nat /\ rs[i].start <= last
          BY <1>4, <1>5
        <5> QED
          BY <1>2, <5>1 DEF Never
      <4>2. last \in DOMAIN past /\ last % interval = 0
        BY <2>1, <4>1 DEF OnBuckets
      <4>3. last < t
        BY <1>2, <1>6, <2>3, <3>1, <4>2
      <4>4. last + interval <= t
        BY <1>2, <2>1, <4>1, <4>2, <4>3, BucketsApart
      <4>5. rs[i].until <= last + interval /\ rs[i].until > t
        BY <1>4, <3>1, <3>2 DEF Covers
      <4> QED
        BY <1>2, <1>5, <4>4, <4>5
    <3> QED
      BY <3>2
  <2> QED
    BY <2>2, <2>3
<1>11. LevelShows(rs, t, p, l, from)
  BY <1>8, <1>9, <1>10 DEF LevelShows
<1> QED
  BY <1>11 DEF t

(* A level that the snapshot has shows its order, and what it showed.      *)
LEMMA LevelSeen ==
  ASSUME interval \in Nat \ {0}, NEW from \in Nat, NEW past, NEW last \in Nat \cup {Never},
         IsSights(past), \A u \in DOMAIN past : u <= last,
         NEW s, IsSnapshot(s), last <= s.time,
         NEW l \in Levels, s.book[l] # Nothing, NEW p, Adds(p, past, s, l),
         NEW gap \in BOOLEAN, gap => last # Never /\ s.time > last + interval,
         NEW rs, LevelShows(rs, last, past, l, from)
  PROVE  LevelShows(UpdatePriceLevel(rs, s.time, s.book[l], gap), s.time, p, l, from)
<1> DEFINE t == s.time o == s.book[l] e == UpdatePriceLevel(rs, t, o, gap)
<1>1. /\ DOMAIN p = DOMAIN past \cup {t}
      /\ \A u \in DOMAIN past : u # t => p[u] = past[u]
      /\ p[t][l] = o
  BY DEF Adds
<1>2. t \in Nat /\ DOMAIN past \subseteq Nat /\ last \in Int /\ o \in Resting /\ last <= t
  BY DEF IsSnapshot, IsSights, Never
<1>3. /\ LevelFits(rs, last, interval)
      /\ \A u \in DOMAIN past :
           u >= from /\ past[u][l] # Nothing =>
             \E i \in DOMAIN rs : Covers(rs[i], u) /\ rs[i].order = past[u][l]
      /\ OnBuckets(past) =>
           \A u \in DOMAIN past :
             u >= from /\ past[u][l] = Nothing =>
               \/ \A i \in DOMAIN rs : ~Covers(rs[i], u)
               \/ \E m \in DOMAIN past : ReseenAt(past, l, u, m)
  BY DEF LevelShows
<1>4. /\ LevelFits(e, t, interval)
      /\ \E i \in DOMAIN e : Covers(e[i], t) /\ e[i].order = o
      /\ StillCovered(rs, e, t)
      /\ OnlyBridges(rs, e, t, gap)
  BY <1>2, <1>3, LevelUpdated
<1>5. \A i \in DOMAIN rs : rs[i].start \in Nat /\ rs[i].until \in Nat
  BY <1>3, RunsTimed DEF Timed, LevelFits
<1>6. \A u \in DOMAIN past : u <= t
  BY <1>2
<1>7. gap => t > last + interval
  OBVIOUS
<1>8. o # Nothing
  OBVIOUS
<1> HIDE DEF t, e, o
<1>9. \A u \in DOMAIN p : u # t => u \in DOMAIN past /\ p[u] = past[u] /\ u < t /\ u \in Nat
  BY <1>1, <1>2, <1>6
<1>10. ASSUME NEW u \in DOMAIN p, u >= from, p[u][l] # Nothing
       PROVE  \E i \in DOMAIN e : Covers(e[i], u) /\ e[i].order = p[u][l]
  <2>1. CASE u = t
    BY <1>1, <1>4, <2>1
  <2>2. CASE u # t
    <3>1. PICK i \in DOMAIN rs : Covers(rs[i], u) /\ rs[i].order = p[u][l]
      BY <1>3, <1>9, <1>10, <2>2
    <3> QED
      BY <1>4, <1>9, <2>2, <3>1 DEF StillCovered
  <2> QED
    BY <2>1, <2>2
<1>11. ASSUME OnBuckets(p), NEW u \in DOMAIN p, u >= from, p[u][l] = Nothing
       PROVE  \/ \A i \in DOMAIN e : ~Covers(e[i], u)
              \/ \E m \in DOMAIN p : ReseenAt(p, l, u, m)
  <2>1. OnBuckets(past)
    BY <1>1, <1>11 DEF OnBuckets
  <2>2. u # t
    BY <1>1, <1>8, <1>11
  <2>3. u \in DOMAIN past /\ past[u][l] = Nothing /\ u < t /\ u \in Nat
    BY <1>9, <1>11, <2>2
  <2>4. CASE \E m \in DOMAIN past : ReseenAt(past, l, u, m)
    BY <1>6, <2>3, <2>4, ReseenStays DEF t
  <2>5. ASSUME \A i \in DOMAIN rs : ~Covers(rs[i], u), NEW j \in DOMAIN e, Covers(e[j], u)
        PROVE  t \in DOMAIN p /\ ReseenAt(p, l, u, t)
    <3>1. gap /\ \A i \in DOMAIN rs : rs[i].until <= u
      BY <1>4, <2>3, <2>5 DEF OnlyBridges
    <3>2. ASSUME NEW v \in DOMAIN p, v > u, p[v][l] # Nothing
          PROVE  t <= v
      <4>1. CASE v = t
        BY <1>2, <4>1
      <4>2. CASE v # t
        <5>1. v \in DOMAIN past /\ past[v][l] # Nothing /\ v >= from /\ v \in Nat
          BY <1>9, <1>11, <2>3, <3>2, <4>2
        <5>2. PICK i \in DOMAIN rs : Covers(rs[i], v)
          BY <1>3, <5>1
        <5>3. rs[i].until > v /\ rs[i].until <= u
          BY <3>1, <5>2 DEF Covers
        <5> QED
          BY <1>5, <2>3, <3>2, <5>1, <5>3
      <4> QED
        BY <4>1, <4>2
    <3>3. ASSUME NEW v \in DOMAIN p, v < t
          PROVE  v + interval < t
      <4>1. v \in DOMAIN past /\ v \in Nat
        BY <1>2, <1>9, <3>3
      <4>2. v <= last
        BY <4>1
      <4> QED
        BY <1>2, <1>7, <3>1, <4>1, <4>2
    <3>4. t > u /\ p[t][l] # Nothing /\ t \in DOMAIN p
      BY <1>1, <1>2, <1>8, <2>3
    <3> QED
      BY <3>2, <3>3, <3>4 DEF ReseenAt
  <2> QED
    BY <1>3, <2>1, <2>3, <2>4, <2>5, <1>11
<1>12. LevelShows(e, t, p, l, from)
  BY <1>4, <1>10, <1>11 DEF LevelShows
<1> QED
  BY <1>12 DEF e, t, o

(* insert_latest_depth of a snapshot that is not too old: the history      *)
(* shows what it showed, and the snapshot.                                 *)
LEMMA SnapshotShown ==
  ASSUME interval \in Nat \ {0}, NEW from \in Nat, NEW h, NEW past, Shows(h, past, from),
         NEW s, IsSnapshot(s), h.last <= s.time
  PROVE  LET e == InsertLatestDepth(h, s)
         IN Shows(e, Seen(past, s), from) /\ e.last = s.time
<1> DEFINE t == s.time gap == h.last # Never /\ t > h.last + interval e == InsertLatestDepth(h, s)
           p == Seen(past, s)
           level(l) == IF s.book[l] = Nothing THEN h.runs[l] ELSE UpdatePriceLevel(h.runs[l], t, s.book[l], gap)
<1>1. t \in Nat /\ h.last \in Int /\ h.last \in Nat \cup {Never}
  BY DEF IsSnapshot, Shows, Never
<1>2. ~(h.last # Never /\ t < h.last)
  BY <1>1
<1>3. e = [last |-> t, runs |-> [l \in Levels |-> level(l)]]
  BY <1>2 DEF InsertLatestDepth
<1>4. e.last = t /\ e.runs = [l \in Levels |-> level(l)]
  BY <1>3
<1>5. IsSights(p) /\ DOMAIN p = DOMAIN past \cup {t} /\ \A l \in Levels : Adds(p, past, s, l)
  BY SightsSeen DEF Shows
<1>6. \A u \in DOMAIN past : u <= h.last /\ u \in Nat
  BY DEF Shows, IsSights
<1>7. ASSUME NEW l \in Levels
      PROVE  LevelShows(level(l), t, p, l, from)
  <2>1. LevelShows(h.runs[l], h.last, past, l, from)
    BY DEF Shows
  <2>2. /\ IsSights(past) /\ (h.last = Never => DOMAIN past = {}) /\ (h.last # Never => h.last \in DOMAIN past)
        /\ \A u \in DOMAIN past : u <= h.last
    BY DEF Shows
  <2>3. gap \in BOOLEAN /\ (gap => h.last # Never /\ t > h.last + interval)
    OBVIOUS
  <2>4. Adds(p, past, s, l)
    BY <1>5
  <2>5. CASE s.book[l] = Nothing
    <3>1. LevelShows(h.runs[l], t, p, l, from)
      BY <1>1, <2>1, <2>2, <2>4, <2>5, LevelPassedOver
    <3> QED
      BY <2>5, <3>1
  <2>6. CASE s.book[l] # Nothing
    <3> HIDE DEF gap
    <3>1. LevelShows(UpdatePriceLevel(h.runs[l], t, s.book[l], gap), t, p, l, from)
      BY <1>1, <2>1, <2>2, <2>3, <2>4, <2>6, LevelSeen
    <3> QED
      BY <2>6, <3>1
  <2> QED
    BY <2>5, <2>6
<1> HIDE DEF level, e, p
<1>8. \A u \in DOMAIN p : u <= t
  BY <1>1, <1>5, <1>6
<1>9. e.runs = [l \in Levels |-> e.runs[l]] /\ \A l \in Levels : e.runs[l] = level(l)
  BY <1>4
<1>10. e.last # Never
  BY <1>1, <1>4 DEF Never
<1>11. Shows(e, p, from)
  BY <1>1, <1>4, <1>5, <1>7, <1>8, <1>9, <1>10 DEF Shows
<1> QED
  BY <1>4, <1>11 DEF e, p

-----------------------------------------------------------------------------
(* The histories that inserting one snapshot after the other leads to, the *)
(* recursion of InsertAll written out.                                     *)
IsInserting(V, h, ss) ==
  /\ V[0] = h
  /\ \A i \in 1 .. Len(ss) : V[i] = InsertLatestDepth(V[i - 1], ss[i])

(* The recursion of InsertAll defines a function.                          *)
LEMMA InsertAllDef ==
  ASSUME NEW h, NEW ss, Len(ss) \in Nat
  PROVE  \E W : IsInserting(W, h, ss) /\ InsertAll(h, ss) = W[Len(ss)]
<1> DEFINE n == Len(ss)
           Take(w, i) == InsertLatestDepth(w, ss[i])
           Graph(f, k) == f = [i \in 0 .. k |-> IF i = 0 THEN h ELSE Take(f[i - 1], i)]
           T == {k \in 0 .. n : \E f : Graph(f, k)}
<1>0. n \in Nat
  OBVIOUS
<1>1. InsertAll(h, ss) = (CHOOSE W : Graph(W, n))[n]
  BY DEF InsertAll
<1> HIDE DEF Take, n
<1>2. 0 \in T
  <2>1. Graph([i \in 0 .. 0 |-> h], 0)
    OBVIOUS
  <2> HIDE DEF Graph
  <2>2. \E f : Graph(f, 0)
    BY <2>1
  <2> QED
    BY <1>0, <2>2
<1>3. ASSUME NEW k \in 0 .. n - 1, k \in T
      PROVE  k + 1 \in T
  <2>1. PICK f : Graph(f, k)
    BY <1>3
  <2> DEFINE g == [i \in 0 .. k + 1 |-> IF i = k + 1 THEN Take(f[k], k + 1) ELSE f[i]]
  <2>2. \A i \in 0 .. k : g[i] = f[i]
    BY <1>0
  <2>3. g[k + 1] = Take(f[k], k + 1) /\ k + 1 # 0
    BY <1>0
  <2>4. ASSUME NEW i \in 0 .. k + 1
        PROVE  g[i] = IF i = 0 THEN h ELSE Take(g[i - 1], i)
    <3>1. CASE i = k + 1
      BY <1>0, <2>2, <2>3, <3>1
    <3>2. CASE i # k + 1
      <4>1. i \in 0 .. k /\ (i # 0 => i - 1 \in 0 .. k)
        BY <1>0, <3>2
      <4>2. f[i] = IF i = 0 THEN h ELSE Take(f[i - 1], i)
        BY <2>1, <4>1
      <4> HIDE DEF g
      <4> QED
        BY <2>2, <4>1, <4>2
    <3> QED
      BY <3>1, <3>2
  <2>5. Graph(g, k + 1)
    BY <2>4
  <2> HIDE DEF g, Graph
  <2>6. \E x : Graph(x, k + 1)
    BY <2>5
  <2> QED
    BY <1>0, <2>6
<1>4. n \in T
  <2> HIDE DEF T
  <2>1. 0 .. n \subseteq T
    BY <1>0, <1>2, <1>3, SetInduction
  <2> QED
    BY <1>0, <2>1
<1> DEFINE W == CHOOSE W : Graph(W, n)
<1>5. Graph(W, n)
  BY <1>4
<1> HIDE DEF W
<1>6. W[0] = h /\ \A i \in 1 .. n : W[i] = Take(W[i - 1], i)
  BY <1>0, <1>5
<1>7. IsInserting(W, h, ss)
  BY <1>6 DEF IsInserting, n, Take
<1> QED
  BY <1>1, <1>7 DEF W, n

(* What is seen of one snapshot after the other, but for those that are    *)
(* older than a time.                                                      *)
IsSeeing(W, past, last, ss) ==
  /\ W[0] = past
  /\ \A i \in 1 .. Len(ss) : W[i] = IF ss[i].time < last THEN W[i - 1] ELSE Seen(W[i - 1], ss[i])

(* The same with all of them, the recursion of SeenAll written out.        *)
IsSeeingAll(W, ss) ==
  /\ W[0] = <<>>
  /\ \A i \in 1 .. Len(ss) : W[i] = Seen(W[i - 1], ss[i])

(* The recursion of SeenAll defines a function.                            *)
LEMMA SeenAllDef ==
  ASSUME NEW ss, Len(ss) \in Nat
  PROVE  \E W : IsSeeingAll(W, ss) /\ SeenAll(ss) = W[Len(ss)]
<1> DEFINE n == Len(ss)
           Take(w, i) == Seen(w, ss[i])
           Graph(f, k) == f = [i \in 0 .. k |-> IF i = 0 THEN <<>> ELSE Take(f[i - 1], i)]
           T == {k \in 0 .. n : \E f : Graph(f, k)}
<1>0. n \in Nat
  OBVIOUS
<1>1. SeenAll(ss) = (CHOOSE W : Graph(W, n))[n]
  BY DEF SeenAll
<1> HIDE DEF Take, n
<1>2. 0 \in T
  <2>1. Graph([i \in 0 .. 0 |-> <<>>], 0)
    OBVIOUS
  <2> HIDE DEF Graph
  <2>2. \E f : Graph(f, 0)
    BY <2>1
  <2> QED
    BY <1>0, <2>2
<1>3. ASSUME NEW k \in 0 .. n - 1, k \in T
      PROVE  k + 1 \in T
  <2>1. PICK f : Graph(f, k)
    BY <1>3
  <2> DEFINE g == [i \in 0 .. k + 1 |-> IF i = k + 1 THEN Take(f[k], k + 1) ELSE f[i]]
  <2>2. \A i \in 0 .. k : g[i] = f[i]
    BY <1>0
  <2>3. g[k + 1] = Take(f[k], k + 1) /\ k + 1 # 0
    BY <1>0
  <2>4. ASSUME NEW i \in 0 .. k + 1
        PROVE  g[i] = IF i = 0 THEN <<>> ELSE Take(g[i - 1], i)
    <3>1. CASE i = k + 1
      BY <1>0, <2>2, <2>3, <3>1
    <3>2. CASE i # k + 1
      <4>1. i \in 0 .. k /\ (i # 0 => i - 1 \in 0 .. k)
        BY <1>0, <3>2
      <4>2. f[i] = IF i = 0 THEN <<>> ELSE Take(f[i - 1], i)
        BY <2>1, <4>1
      <4> HIDE DEF g
      <4> QED
        BY <2>2, <4>1, <4>2
    <3> QED
      BY <3>1, <3>2
  <2>5. Graph(g, k + 1)
    BY <2>4
  <2> HIDE DEF g, Graph
  <2>6. \E x : Graph(x, k + 1)
    BY <2>5
  <2> QED
    BY <1>0, <2>6
<1>4. n \in T
  <2> HIDE DEF T
  <2>1. 0 .. n \subseteq T
    BY <1>0, <1>2, <1>3, SetInduction
  <2> QED
    BY <1>0, <2>1
<1> DEFINE W == CHOOSE W : Graph(W, n)
<1>5. Graph(W, n)
  BY <1>4
<1> HIDE DEF W
<1>6. W[0] = <<>> /\ \A i \in 1 .. n : W[i] = Take(W[i - 1], i)
  BY <1>0, <1>5
<1>7. IsSeeingAll(W, ss)
  BY <1>6 DEF IsSeeingAll, n, Take
<1> QED
  BY <1>1, <1>7 DEF W, n

(* The sequence sorted so far, the recursion of ByTime written out.        *)
IsSorting(W, ss) ==
  /\ W[0] = <<>>
  /\ \A i \in 1 .. Len(ss) : W[i] = SortedIn(W[i - 1], ss[i])

(* The recursion of ByTime defines a function.                             *)
LEMMA ByTimeDef ==
  ASSUME NEW ss, Len(ss) \in Nat
  PROVE  \E W : IsSorting(W, ss) /\ ByTime(ss) = W[Len(ss)]
<1> DEFINE n == Len(ss)
           Take(w, i) == SortedIn(w, ss[i])
           Graph(f, k) == f = [i \in 0 .. k |-> IF i = 0 THEN <<>> ELSE Take(f[i - 1], i)]
           T == {k \in 0 .. n : \E f : Graph(f, k)}
<1>0. n \in Nat
  OBVIOUS
<1>1. ByTime(ss) = (CHOOSE W : Graph(W, n))[n]
  BY DEF ByTime
<1> HIDE DEF Take, n
<1>2. 0 \in T
  <2>1. Graph([i \in 0 .. 0 |-> <<>>], 0)
    OBVIOUS
  <2> HIDE DEF Graph
  <2>2. \E f : Graph(f, 0)
    BY <2>1
  <2> QED
    BY <1>0, <2>2
<1>3. ASSUME NEW k \in 0 .. n - 1, k \in T
      PROVE  k + 1 \in T
  <2>1. PICK f : Graph(f, k)
    BY <1>3
  <2> DEFINE g == [i \in 0 .. k + 1 |-> IF i = k + 1 THEN Take(f[k], k + 1) ELSE f[i]]
  <2>2. \A i \in 0 .. k : g[i] = f[i]
    BY <1>0
  <2>3. g[k + 1] = Take(f[k], k + 1) /\ k + 1 # 0
    BY <1>0
  <2>4. ASSUME NEW i \in 0 .. k + 1
        PROVE  g[i] = IF i = 0 THEN <<>> ELSE Take(g[i - 1], i)
    <3>1. CASE i = k + 1
      BY <1>0, <2>2, <2>3, <3>1
    <3>2. CASE i # k + 1
      <4>1. i \in 0 .. k /\ (i # 0 => i - 1 \in 0 .. k)
        BY <1>0, <3>2
      <4>2. f[i] = IF i = 0 THEN <<>> ELSE Take(f[i - 1], i)
        BY <2>1, <4>1
      <4> HIDE DEF g
      <4> QED
        BY <2>2, <4>1, <4>2
    <3> QED
      BY <3>1, <3>2
  <2>5. Graph(g, k + 1)
    BY <2>4
  <2> HIDE DEF g, Graph
  <2>6. \E x : Graph(x, k + 1)
    BY <2>5
  <2> QED
    BY <1>0, <2>6
<1>4. n \in T
  <2> HIDE DEF T
  <2>1. 0 .. n \subseteq T
    BY <1>0, <1>2, <1>3, SetInduction
  <2> QED
    BY <1>0, <2>1
<1> DEFINE W == CHOOSE W : Graph(W, n)
<1>5. Graph(W, n)
  BY <1>4
<1> HIDE DEF W
<1>6. W[0] = <<>> /\ \A i \in 1 .. n : W[i] = Take(W[i - 1], i)
  BY <1>0, <1>5
<1>7. IsSorting(W, ss)
  BY <1>6 DEF IsSorting, n, Take
<1> QED
  BY <1>1, <1>7 DEF W, n

(* What Only selects, where the selected elements are a stretch of the     *)
(* sequence.                                                               *)
LEMMA OnlyStretch ==
  ASSUME NEW T, NEW seq \in Seq(T), NEW S, NEW a \in 0 .. Len(seq), NEW b \in a .. Len(seq),
         \A i \in DOMAIN seq : seq[i] \in S <=> (a < i /\ i <= b)
  PROVE  /\ Only(seq, S) \in Seq(T)
         /\ Len(Only(seq, S)) = b - a
         /\ \A i \in 1 .. b - a : Only(seq, S)[i] = seq[a + i]
<1> DEFINE n == Len(seq)
           size(k) == IF k <= a THEN 0 ELSE IF k <= b THEN k - a ELSE b - a
           Right(w, k) == w \in Seq(T) /\ Len(w) = size(k) /\ \A i \in 1 .. size(k) : w[i] = seq[a + i]
<1>1. /\ n \in Nat /\ DOMAIN seq = 1 .. n /\ a \in Nat /\ b \in Nat /\ a <= b /\ b <= n
      /\ \A i \in 1 .. n : seq[i] \in T
  OBVIOUS
<1>2. \A i \in 1 .. n : seq[i] \in S <=> (a < i /\ i <= b)
  OBVIOUS
<1>3. PICK W : IsSelection(W, seq, S) /\ Only(seq, S) = W[n]
  BY <1>1, OnlyDef
<1>4. W[0] = <<>> /\ \A i \in 1 .. n : W[i] = W[i - 1] \o (IF seq[i] \in S THEN <<seq[i]>> ELSE <<>>)
  BY <1>3 DEF IsSelection
<1> DEFINE D == {k \in 0 .. n : Right(W[k], k)}
<1> HIDE DEF n
<1>5. 0 \in D
  <2>1. size(0) = 0
    BY <1>1
  <2>2. W[0] \in Seq(T) /\ Len(W[0]) = 0
    BY <1>4
  <2>3. Right(W[0], 0)
    BY <2>1, <2>2
  <2> HIDE DEF Right
  <2> QED
    BY <1>1, <2>3
<1>6. ASSUME NEW k \in 0 .. n - 1, k \in D
      PROVE  k + 1 \in D
  <2> DEFINE w == W[k] v == W[k + 1] e == seq[k + 1]
  <2>1. k + 1 \in 1 .. n /\ (k + 1) - 1 = k /\ e \in T /\ k \in Nat
    BY <1>1
  <2>2. w \in Seq(T) /\ Len(w) = size(k) /\ \A i \in 1 .. size(k) : w[i] = seq[a + i]
    BY <1>6
  <2>3. v = w \o (IF e \in S THEN <<e>> ELSE <<>>)
    <3>1. W[k + 1] = W[(k + 1) - 1] \o (IF seq[k + 1] \in S THEN <<seq[k + 1]>> ELSE <<>>)
      BY <1>4, <2>1
    <3> QED
      BY <2>1, <3>1
  <2>4. e \in S <=> (a < k + 1 /\ k + 1 <= b)
    BY <1>2, <2>1
  <2> HIDE DEF w, v, e
  <2>5. CASE e \in S
    <3>1. v = Append(w, e)
      BY <2>1, <2>2, <2>3, <2>5
    <3>2. size(k) = k - a /\ size(k + 1) = k - a + 1 /\ k - a \in Nat /\ a + (k - a + 1) = k + 1
      BY <1>1, <2>1, <2>4, <2>5
    <3>3. v \in Seq(T) /\ Len(v) = size(k) + 1 /\ v[size(k) + 1] = e /\ \A i \in 1 .. size(k) : v[i] = w[i]
      BY <2>1, <2>2, <3>1
    <3>4. e = seq[a + (k - a + 1)]
      BY <3>2 DEF e
    <3> DEFINE m == k - a
    <3>5. \A i \in 1 .. m + 1 : v[i] = seq[a + i]
      <4>0. /\ m \in Nat /\ size(k) = m /\ v[m + 1] = e /\ e = seq[a + (m + 1)]
            /\ \A i \in 1 .. m : v[i] = w[i]
            /\ \A i \in 1 .. m : w[i] = seq[a + i]
        BY <2>2, <3>2, <3>3, <3>4
      <4> HIDE DEF m, size
      <4> TAKE i \in 1 .. m + 1
      <4>1. CASE i = m + 1
        BY <4>0, <4>1
      <4>2. CASE i # m + 1
        <5>1. i \in 1 .. m
          BY <4>0, <4>2
        <5> QED
          BY <4>0, <5>1
      <4> QED
        BY <4>1, <4>2
    <3>6. Right(v, k + 1)
      <4>1. size(k + 1) = m + 1 /\ size(k) = m
        BY <3>2
      <4> HIDE DEF size, m
      <4> QED
        BY <3>3, <3>5, <4>1
    <3> HIDE DEF Right
    <3> QED
      BY <1>1, <2>1, <3>6 DEF v
  <2>6. CASE e \notin S
    <3>1. v = w
      BY <2>2, <2>3, <2>6
    <3>2. size(k + 1) = size(k)
      BY <1>1, <2>1, <2>4, <2>6
    <3>3. Right(v, k + 1)
      <4> HIDE DEF size
      <4> QED
        BY <2>2, <3>1, <3>2
    <3> HIDE DEF Right
    <3> QED
      BY <1>1, <2>1, <3>3 DEF v
  <2> QED
    BY <2>5, <2>6
<1>7. Right(W[n], n)
  <2> HIDE DEF D
  <2>1. 0 .. n \subseteq D
    BY <1>1, <1>5, <1>6, SetInduction
  <2> QED
    BY <1>1, <2>1 DEF D
<1>8. size(n) = b - a
  BY <1>1
<1> DEFINE w == W[n]
<1>9. w \in Seq(T) /\ Len(w) = b - a /\ \A i \in 1 .. b - a : w[i] = seq[a + i]
  <2> HIDE DEF size
  <2> QED
    BY <1>7, <1>8
<1> HIDE DEF w
<1> QED
  BY <1>3, <1>9 DEF w

(* Of numbers that do not fall, those up to a bound come first.            *)
LEMMA UpToBound ==
  ASSUME NEW n \in Nat, NEW f, \A i \in 1 .. n : f[i] \in Int,
         \A j \in 1 .. n : \A i \in 1 .. n : i < j => f[i] <= f[j], NEW x \in Int
  PROVE  \E a \in 0 .. n : \A i \in 1 .. n : f[i] <= x <=> i <= a
<1> DEFINE D == {k \in 0 .. n : \E a \in 0 .. k : \A i \in 1 .. k : f[i] <= x <=> i <= a}
<1>1. 0 \in D
  OBVIOUS
<1>2. ASSUME NEW k \in 0 .. n - 1, k \in D
      PROVE  k + 1 \in D
  <2>1. PICK a \in 0 .. k : \A i \in 1 .. k : f[i] <= x <=> i <= a
    BY <1>2
  <2>2. k + 1 \in 1 .. n /\ k + 1 \in 0 .. n /\ k \in Nat /\ a \in Nat /\ a <= k
    OBVIOUS
  <2>3. \A i \in 1 .. k + 1 : i # k + 1 => i \in 1 .. k /\ i \in 1 .. n /\ i < k + 1
    BY <2>2
  <2> DEFINE b == IF f[k + 1] <= x THEN k + 1 ELSE a
  <2>4. b \in 0 .. k + 1
    BY <2>2
  <2>5. ASSUME NEW i \in 1 .. k + 1
        PROVE  f[i] <= x <=> i <= b
    <3>1. CASE i = k + 1
      BY <2>2, <3>1
    <3>2. CASE i # k + 1 /\ f[k + 1] <= x
      <4>1. f[i] <= f[k + 1] /\ f[i] \in Int /\ f[k + 1] \in Int
        BY <2>2, <2>3, <3>2
      <4> QED
        BY <2>2, <2>3, <3>2, <4>1
    <3>3. CASE i # k + 1 /\ ~(f[k + 1] <= x)
      BY <2>1, <2>3, <3>3
    <3> QED
      BY <3>1, <3>2, <3>3
  <2> HIDE DEF b
  <2>6. \E c \in 0 .. k + 1 : \A i \in 1 .. k + 1 : f[i] <= x <=> i <= c
    BY <2>4, <2>5
  <2> QED
    BY <2>2, <2>6
<1>3. n \in D
  <2> HIDE DEF D
  <2>1. 0 .. n \subseteq D
    BY <1>1, <1>2, SetInduction
  <2> QED
    BY <2>1
<1> QED
  BY <1>3

(* No snapshot is before an older one.                                     *)
InTimeOrder(ss) ==
  \A j \in DOMAIN ss : \A i \in DOMAIN ss : i < j => ss[i].time <= ss[j].time

(* The snapshot s is put into a sequence behind its first a ones, which    *)
(* are all those that are not later.                                       *)
IsPutIn(e, ss, s, a) ==
  /\ Len(e) = Len(ss) + 1
  /\ \A i \in 1 .. a : e[i] = ss[i] /\ ss[i].time <= s.time
  /\ e[a + 1] = s
  /\ \A i \in a + 1 .. Len(ss) : e[i + 1] = ss[i] /\ s.time < ss[i].time

(* A snapshot that is sorted in is put behind those that are not later.    *)
LEMMA PutInTime ==
  ASSUME NEW T, \A s \in T : s.time \in Nat, NEW ss \in Seq(T), InTimeOrder(ss), NEW s \in T
  PROVE  /\ SortedIn(ss, s) \in Seq(T) /\ InTimeOrder(SortedIn(ss, s))
         /\ \E a \in 0 .. Len(ss) : IsPutIn(SortedIn(ss, s), ss, s, a)
<1> DEFINE n == Len(ss) f == [i \in 1 .. n |-> ss[i].time] e == SortedIn(ss, s)
           A == Only(ss, Before(ss, s)) B == Only(ss, ToSet(ss) \ Before(ss, s))
<1>1. n \in Nat /\ DOMAIN ss = 1 .. n /\ \A i \in 1 .. n : ss[i] \in T /\ ss[i].time \in Nat /\ ss[i] \in ToSet(ss)
  BY DEF ToSet
<1>2. s.time \in Nat
  OBVIOUS
<1>3. \E a \in 0 .. n : \A i \in 1 .. n : f[i] <= s.time <=> i <= a
  <2>1. \A i \in 1 .. n : f[i] = ss[i].time
    OBVIOUS
  <2>2. \A i \in 1 .. n : f[i] \in Int
    BY <1>1, <2>1
  <2>3. \A j \in 1 .. n : \A i \in 1 .. n : i < j => f[i] <= f[j]
    BY <1>1, <2>1 DEF InTimeOrder
  <2>4. s.time \in Int
    BY <1>2
  <2> DEFINE x == s.time
  <2> HIDE DEF n, f, x
  <2>5. n \in Nat /\ x \in Int
    BY <1>1, <2>4 DEF x
  <2>6. \E a \in 0 .. n : \A i \in 1 .. n : f[i] <= x <=> i <= a
    BY <2>2, <2>3, <2>5, UpToBound
  <2> QED
    BY <2>6 DEF x
<1>4. PICK a \in 0 .. n : \A i \in 1 .. n : ss[i].time <= s.time <=> i <= a
  BY <1>3
<1>5. a \in Nat /\ a <= n /\ n - a \in Nat /\ a \in 0 .. n /\ n \in a .. n /\ 0 \in 0 .. n
  BY <1>1
<1>6. A \in Seq(T) /\ Len(A) = a /\ \A i \in 1 .. a : A[i] = ss[i]
  <2> DEFINE S == Before(ss, s)
  <2>1. \A i \in DOMAIN ss : ss[i] \in S <=> (0 < i /\ i <= a)
    BY <1>1, <1>4 DEF Before
  <2> HIDE DEF S
  <2>2. /\ Only(ss, S) \in Seq(T) /\ Len(Only(ss, S)) = a - 0
        /\ \A i \in 1 .. a - 0 : Only(ss, S)[i] = ss[0 + i]
    BY <1>5, <2>1, OnlyStretch
  <2> QED
    BY <1>5, <2>2 DEF S
<1>7. B \in Seq(T) /\ Len(B) = n - a /\ \A i \in 1 .. n - a : B[i] = ss[a + i]
  <2> DEFINE S == ToSet(ss) \ Before(ss, s)
  <2>1. \A i \in DOMAIN ss : ss[i] \in S <=> (a < i /\ i <= n)
    BY <1>1, <1>4, <1>5 DEF Before
  <2> HIDE DEF S
  <2>2. /\ Only(ss, S) \in Seq(T) /\ Len(Only(ss, S)) = n - a
        /\ \A i \in 1 .. n - a : Only(ss, S)[i] = ss[a + i]
    <3>1. a \in 0 .. Len(ss) /\ n \in a .. Len(ss)
      BY <1>5
    <3> HIDE DEF n
    <3> QED
      BY <2>1, <3>1, OnlyStretch
  <2> QED
    BY <2>2 DEF S
<1>8. e = A \o <<s>> \o B
  BY DEF SortedIn
<1> HIDE DEF A, B, e, n, f
<1>9. /\ e \in Seq(T) /\ Len(e) = n + 1
      /\ \A i \in 1 .. a : e[i] = A[i]
      /\ e[a + 1] = s
      /\ \A i \in 1 .. n - a : e[a + 1 + i] = B[i]
  <2>1. A \o <<s>> = Append(A, s)
    BY <1>6
  <2> DEFINE C == Append(A, s)
  <2>2. C \in Seq(T) /\ Len(C) = a + 1 /\ C[a + 1] = s /\ \A i \in 1 .. a : C[i] = A[i]
    BY <1>5, <1>6
  <2>3. e = C \o B
    BY <1>8, <2>1
  <2> HIDE DEF C
  <2>4. /\ e \in Seq(T) /\ Len(e) = (a + 1) + (n - a)
        /\ \A i \in 1 .. a + 1 : e[i] = C[i]
        /\ \A i \in (a + 1) + 1 .. (a + 1) + (n - a) : e[i] = B[i - (a + 1)]
    <3> DEFINE m == n - a k == a + 1
    <3>1. m \in Nat /\ k \in Nat /\ B \in Seq(T) /\ Len(B) = m /\ C \in Seq(T) /\ Len(C) = k
      BY <1>5, <1>7, <2>2
    <3> HIDE DEF m, k
    <3>2. /\ e \in Seq(T) /\ Len(e) = k + m
          /\ \A i \in 1 .. k : e[i] = C[i]
          /\ \A i \in k + 1 .. k + m : e[i] = B[i - k]
      <4>1. /\ C \o B \in Seq(T) /\ Len(C \o B) = Len(C) + Len(B)
            /\ \A i \in 1 .. Len(C) + Len(B) :
                 (C \o B)[i] = IF i <= Len(C) THEN C[i] ELSE B[i - Len(C)]
        BY <3>1, ConcatProperties
      <4>2. /\ e \in Seq(T) /\ Len(e) = k + m
            /\ \A i \in 1 .. k + m : e[i] = IF i <= k THEN C[i] ELSE B[i - k]
        BY <2>3, <3>1, <4>1
      <4>3. \A i \in 1 .. k : i \in 1 .. k + m /\ i <= k
        BY <3>1
      <4>4. \A i \in k + 1 .. k + m : i \in 1 .. k + m /\ ~(i <= k)
        BY <3>1
      <4> QED
        BY <4>2, <4>3, <4>4
    <3> QED
      BY <3>2 DEF m, k
  <2>5. \A i \in 1 .. a : i \in 1 .. a + 1
    BY <1>5
  <2>6. \A i \in 1 .. n - a : a + 1 + i \in (a + 1) + 1 .. (a + 1) + (n - a) /\ (a + 1 + i) - (a + 1) = i
    BY <1>5
  <2> QED
    BY <1>1, <1>5, <2>2, <2>4, <2>5, <2>6
<1>10. \A i \in 1 .. a : e[i] = ss[i] /\ ss[i].time <= s.time /\ i \in 1 .. n
  BY <1>1, <1>4, <1>5, <1>6, <1>9
<1>11. ASSUME NEW i \in a + 1 .. n
       PROVE  e[i + 1] = ss[i] /\ s.time < ss[i].time /\ i \in 1 .. n
  <2>1. i - a \in 1 .. n - a /\ a + 1 + (i - a) = i + 1 /\ a + (i - a) = i /\ i \in 1 .. n /\ ~(i <= a)
    BY <1>1, <1>5
  <2>2. e[a + 1 + (i - a)] = B[i - a] /\ B[i - a] = ss[a + (i - a)]
    BY <1>7, <1>9, <2>1
  <2>3. ss[i].time \in Nat /\ ~(ss[i].time <= s.time)
    BY <1>1, <1>4, <2>1
  <2> QED
    BY <1>2, <2>1, <2>2, <2>3
<1>12. IsPutIn(e, ss, s, a)
  BY <1>9, <1>10, <1>11 DEF IsPutIn, n
<1>13. InTimeOrder(e)
  <2>1. DOMAIN e = 1 .. n + 1
    BY <1>1, <1>9
  <2>2. ASSUME NEW j \in 1 .. n + 1, NEW i \in 1 .. n + 1, i < j
        PROVE  e[i].time <= e[j].time
    <3>1. \A k \in 1 .. n : \A m \in 1 .. n : m < k => ss[m].time <= ss[k].time
      BY <1>1 DEF InTimeOrder
    <3>2. CASE j <= a
      <4>1. i \in 1 .. a /\ j \in 1 .. a
        BY <1>5, <2>2, <3>2
      <4> QED
        BY <1>10, <2>2, <3>1, <4>1
    <3>3. CASE j = a + 1
      <4>1. i \in 1 .. a
        BY <1>5, <2>2, <3>3
      <4> QED
        BY <1>9, <1>10, <3>3, <4>1
    <3>4. CASE j > a + 1
      <4>1. j - 1 \in a + 1 .. n /\ (j - 1) + 1 = j
        BY <1>1, <1>5, <2>2, <3>4
      <4>2. e[j] = ss[j - 1] /\ s.time < ss[j - 1].time /\ j - 1 \in 1 .. n
        BY <1>11, <4>1
      <4>3. CASE i <= a
        <5>1. i \in 1 .. a /\ i < j - 1 /\ i \in 1 .. n
          BY <1>5, <1>10, <2>2, <3>4, <4>3
        <5> QED
          BY <1>10, <3>1, <4>2, <5>1
      <4>4. CASE i = a + 1
        BY <1>1, <1>2, <1>9, <4>2, <4>4
      <4>5. CASE i > a + 1
        <5>1. i - 1 \in a + 1 .. n /\ (i - 1) + 1 = i /\ i - 1 < j - 1
          BY <1>1, <1>5, <2>2, <4>1, <4>5
        <5>2. e[i] = ss[i - 1] /\ i - 1 \in 1 .. n
          BY <1>11, <5>1
        <5> QED
          BY <3>1, <4>2, <5>1, <5>2
      <4> QED
        BY <1>5, <2>2, <4>3, <4>4, <4>5
    <3> QED
      BY <1>5, <2>2, <3>2, <3>3, <3>4
  <2> QED
    BY <2>1, <2>2 DEF InTimeOrder
<1>14. a \in 0 .. Len(ss)
  BY DEF n
<1> QED
  BY <1>9, <1>12, <1>13, <1>14 DEF e

(* What is put into a sequence is in it, with what was there.              *)
LEMMA PutInAdds ==
  ASSUME NEW ss, Len(ss) \in Nat, DOMAIN ss = 1 .. Len(ss), NEW s, NEW a \in 0 .. Len(ss),
         NEW e, DOMAIN e = 1 .. Len(e), IsPutIn(e, ss, s, a)
  PROVE  ToSet(e) = ToSet(ss) \cup {s}
<1> DEFINE n == Len(ss)
<1>1. n \in Nat /\ a \in Nat /\ a <= n /\ DOMAIN ss = 1 .. n /\ DOMAIN e = 1 .. n + 1
  BY DEF IsPutIn
<1>2. /\ \A i \in 1 .. a : e[i] = ss[i]
      /\ e[a + 1] = s
      /\ \A i \in a + 1 .. n : e[i + 1] = ss[i]
  BY DEF IsPutIn
<1> HIDE DEF n
<1>3. ASSUME NEW x \in ToSet(e)
      PROVE  x \in ToSet(ss) \cup {s}
  <2>1. PICK j \in 1 .. n + 1 : x = e[j]
    BY <1>1, <1>3 DEF ToSet
  <2>2. CASE j <= a
    <3>1. j \in 1 .. a /\ j \in 1 .. n
      BY <1>1, <2>1, <2>2
    <3> QED
      BY <1>1, <1>2, <2>1, <3>1 DEF ToSet
  <2>3. CASE j = a + 1
    BY <1>2, <2>1, <2>3
  <2>4. CASE j > a + 1
    <3>1. j - 1 \in a + 1 .. n /\ (j - 1) + 1 = j /\ j - 1 \in 1 .. n
      BY <1>1, <2>1, <2>4
    <3>2. e[(j - 1) + 1] = ss[j - 1]
      BY <1>2, <3>1
    <3>3. x = ss[j - 1]
      BY <2>1, <3>1, <3>2
    <3> QED
      BY <1>1, <3>1, <3>3 DEF ToSet
  <2> QED
    BY <1>1, <2>1, <2>2, <2>3, <2>4
<1>4. s \in ToSet(e)
  <2>1. a + 1 \in 1 .. n + 1
    BY <1>1
  <2> QED
    BY <1>1, <1>2, <2>1 DEF ToSet
<1>5. ASSUME NEW x \in ToSet(ss)
      PROVE  x \in ToSet(e)
  <2>1. PICK i \in 1 .. n : x = ss[i]
    BY <1>1, <1>5 DEF ToSet
  <2>2. CASE i <= a
    <3>1. i \in 1 .. a /\ i \in 1 .. n + 1
      BY <1>1, <2>1, <2>2
    <3>2. x = e[i]
      BY <1>2, <2>1, <3>1
    <3> QED
      BY <1>1, <3>1, <3>2 DEF ToSet
  <2>3. CASE i > a
    <3>1. i \in a + 1 .. n /\ i + 1 \in 1 .. n + 1
      BY <1>1, <2>1, <2>3
    <3>2. x = e[i + 1]
      BY <1>2, <2>1, <3>1
    <3> QED
      BY <1>1, <3>1, <3>2 DEF ToSet
  <2> QED
    BY <1>1, <2>1, <2>2, <2>3
<1> QED
  BY <1>3, <1>4, <1>5

(* Sorting loses no snapshot and adds none.                                *)
LEMMA SortedByTime ==
  ASSUME NEW T, \A s \in T : s.time \in Nat, NEW ss \in Seq(T)
  PROVE  /\ ByTime(ss) \in Seq(T) /\ InTimeOrder(ByTime(ss)) /\ Len(ByTime(ss)) = Len(ss)
         /\ ToSet(ByTime(ss)) = ToSet(ss)
<1> DEFINE n == Len(ss)
<1>1. n \in Nat /\ DOMAIN ss = 1 .. n /\ \A i \in 1 .. n : ss[i] \in T
  OBVIOUS
<1>2. PICK W : IsSorting(W, ss) /\ ByTime(ss) = W[n]
  BY <1>1, ByTimeDef
<1>3. W[0] = <<>> /\ \A i \in 1 .. n : W[i] = SortedIn(W[i - 1], ss[i])
  BY <1>2 DEF IsSorting
<1> DEFINE first(k) == {ss[i] : i \in 1 .. k}
           Right(w, k) == w \in Seq(T) /\ InTimeOrder(w) /\ Len(w) = k /\ ToSet(w) = first(k)
           D == {k \in 0 .. n : Right(W[k], k)}
<1> HIDE DEF n
<1>4. 0 \in D
  <2>1. first(0) = {} /\ W[0] \in Seq(T) /\ Len(W[0]) = 0 /\ DOMAIN W[0] = {}
    BY <1>3
  <2>2. ToSet(W[0]) = {} /\ InTimeOrder(W[0])
    BY <2>1 DEF ToSet, InTimeOrder
  <2>3. Right(W[0], 0)
    BY <2>1, <2>2
  <2> HIDE DEF Right
  <2> QED
    BY <1>1, <2>3
<1>5. ASSUME NEW k \in 0 .. n - 1, k \in D
      PROVE  k + 1 \in D
  <2> DEFINE w == W[k] s == ss[k + 1] e == SortedIn(w, s)
  <2>1. k + 1 \in 1 .. n /\ (k + 1) - 1 = k /\ k \in Nat /\ s \in T
    BY <1>1
  <2>2. W[k + 1] = e
    BY <1>3, <2>1
  <2>3. w \in Seq(T) /\ InTimeOrder(w) /\ Len(w) = k /\ ToSet(w) = first(k)
    BY <1>5
  <2>4. first(k + 1) = first(k) \cup {s}
    <3>1. \A i \in 1 .. k + 1 : i \in 1 .. k \/ i = k + 1
      BY <2>1
    <3>2. \A i \in 1 .. k : i \in 1 .. k + 1
      BY <2>1
    <3>3. k + 1 \in 1 .. k + 1
      BY <2>1
    <3> QED
      BY <3>1, <3>2, <3>3
  <2> HIDE DEF w, s
  <2>5. e \in Seq(T) /\ InTimeOrder(e) /\ \E a \in 0 .. Len(w) : IsPutIn(e, w, s, a)
    BY <2>1, <2>3, PutInTime
  <2> HIDE DEF e, first
  <2>6. Len(e) = k + 1
    BY <2>3, <2>5 DEF IsPutIn
  <2>7. ToSet(e) = ToSet(w) \cup {s}
    BY <2>1, <2>3, <2>5, PutInAdds
  <2>8. Right(e, k + 1)
    BY <2>3, <2>4, <2>5, <2>6, <2>7
  <2> HIDE DEF Right
  <2> QED
    BY <1>1, <2>1, <2>2, <2>8
<1>6. Right(W[n], n)
  <2> HIDE DEF D
  <2>1. 0 .. n \subseteq D
    BY <1>1, <1>4, <1>5, SetInduction
  <2>2. n \in D
    BY <1>1, <2>1
  <2> HIDE DEF Right
  <2> QED
    BY <2>2 DEF D
<1>7. first(n) = ToSet(ss)
  BY <1>1 DEF ToSet
<1> HIDE DEF first
<1> QED
  BY <1>2, <1>6, <1>7 DEF n

(* Sorting a sequence with one more is sorting that one in.                *)
LEMMA SortedGrown ==
  ASSUME NEW T, NEW ss \in Seq(T), NEW s \in T
  PROVE  ByTime(Append(ss, s)) = SortedIn(ByTime(ss), s)
<1> DEFINE n == Len(ss) more == Append(ss, s)
<1>1. /\ n \in Nat /\ Len(more) = n + 1 /\ more[n + 1] = s /\ \A i \in 1 .. n : more[i] = ss[i]
  OBVIOUS
<1> HIDE DEF more
<1>2. PICK W : IsSorting(W, ss) /\ ByTime(ss) = W[n]
  BY <1>1, ByTimeDef
<1>3. PICK V : IsSorting(V, more) /\ ByTime(more) = V[n + 1]
  <2>1. Len(more) \in Nat
    BY <1>1
  <2> QED
    BY <1>1, <2>1, ByTimeDef
<1>4. W[0] = <<>> /\ \A i \in 1 .. n : W[i] = SortedIn(W[i - 1], ss[i])
  BY <1>2 DEF IsSorting
<1>5. V[0] = <<>> /\ \A i \in 1 .. n + 1 : V[i] = SortedIn(V[i - 1], more[i])
  BY <1>1, <1>3 DEF IsSorting
<1> HIDE DEF n
<1> DEFINE D == {k \in 0 .. n : V[k] = W[k]}
<1>6. 0 \in D
  BY <1>1, <1>4, <1>5
<1>7. ASSUME NEW k \in 0 .. n - 1, k \in D
      PROVE  k + 1 \in D
  <2>1. k + 1 \in 1 .. n /\ k + 1 \in 1 .. n + 1 /\ (k + 1) - 1 = k /\ V[k] = W[k] /\ k + 1 \in 0 .. n
    BY <1>1, <1>7
  <2>2. V[k + 1] = SortedIn(V[k], more[k + 1]) /\ W[k + 1] = SortedIn(W[k], ss[k + 1])
    BY <1>4, <1>5, <2>1
  <2> QED
    BY <1>1, <2>1, <2>2
<1>8. V[n] = W[n]
  <2> HIDE DEF D
  <2>1. 0 .. n \subseteq D
    BY <1>1, <1>6, <1>7, SetInduction
  <2> QED
    BY <1>1, <2>1 DEF D
<1>9. V[n + 1] = SortedIn(V[n], s)
  <2>1. n + 1 \in 1 .. n + 1 /\ (n + 1) - 1 = n
    BY <1>1
  <2> QED
    BY <1>1, <1>5, <2>1
<1> QED
  BY <1>2, <1>3, <1>8, <1>9 DEF more

(* Snapshots put into a history in the order of their times: it shows what *)
(* it showed, and those that are not older than its last one.              *)
LEMMA AllShown ==
  ASSUME interval \in Nat \ {0}, NEW from \in Nat, NEW h, NEW past, Shows(h, past, from),
         NEW ss, Len(ss) \in Nat, DOMAIN ss = 1 .. Len(ss), \A i \in 1 .. Len(ss) : IsSnapshot(ss[i]),
         InTimeOrder(ss), NEW V, IsInserting(V, h, ss), NEW W, IsSeeing(W, past, h.last, ss)
  PROVE  /\ Shows(V[Len(ss)], W[Len(ss)], from)
         /\ V[Len(ss)].last = h.last \/ \E i \in 1 .. Len(ss) : V[Len(ss)].last = ss[i].time
         /\ h.last <= V[Len(ss)].last
         /\ \A i \in 1 .. Len(ss) : ss[i].time <= V[Len(ss)].last
<1> DEFINE n == Len(ss)
           Right(k) ==
             /\ Shows(V[k], W[k], from)
             /\ V[k].last = h.last \/ \E i \in 1 .. k : V[k].last = ss[i].time
             /\ h.last <= V[k].last
             /\ \A i \in 1 .. k : ss[i].time <= V[k].last
           D == {k \in 0 .. n : Right(k)}
<1>1. n \in Nat /\ DOMAIN ss = 1 .. n /\ \A i \in 1 .. n : IsSnapshot(ss[i])
  OBVIOUS
<1>2. V[0] = h /\ \A i \in 1 .. n : V[i] = InsertLatestDepth(V[i - 1], ss[i])
  BY DEF IsInserting
<1>3. /\ W[0] = past
      /\ \A i \in 1 .. n : W[i] = IF ss[i].time < h.last THEN W[i - 1] ELSE Seen(W[i - 1], ss[i])
  BY DEF IsSeeing
<1>4. h.last \in Nat \cup {Never}
  BY DEF Shows
<1> HIDE DEF n
<1>5. 0 \in D
  <2>1. Right(0)
    BY <1>2, <1>3, <1>4 DEF Never
  <2> HIDE DEF Right
  <2> QED
    BY <1>1, <2>1
<1>6. ASSUME NEW k \in 0 .. n - 1, k \in D
      PROVE  k + 1 \in D
  <2> DEFINE s == ss[k + 1]
  <2>1. k + 1 \in 1 .. n /\ (k + 1) - 1 = k /\ k \in Nat /\ IsSnapshot(s) /\ k + 1 \in 0 .. n
    BY <1>1
  <2>2. Right(k)
    BY <1>6
  <2>3. s.time \in Nat /\ V[k].last \in Nat \cup {Never}
    BY <2>1, <2>2 DEF IsSnapshot, Shows
  <2>4. V[k + 1] = InsertLatestDepth(V[k], s)
    BY <1>2, <2>1
  <2>5. W[k + 1] = IF s.time < h.last THEN W[k] ELSE Seen(W[k], s)
    BY <1>3, <2>1
  <2>6. \A i \in 1 .. k + 1 : i \in 1 .. k \/ i = k + 1
    BY <2>1
  <2>7. \A i \in 1 .. k : i \in 1 .. k + 1 /\ ss[i].time <= s.time
    <3>1. ASSUME NEW i \in 1 .. k
          PROVE  i \in 1 .. k + 1 /\ ss[i].time <= s.time
      <4>1. i \in 1 .. n /\ i < k + 1 /\ i \in 1 .. k + 1
        BY <1>1, <2>1
      <4> QED
        BY <1>1, <2>1, <4>1 DEF InTimeOrder
    <3> QED
      BY <3>1
  <2>8. k + 1 \in 1 .. k + 1
    BY <2>1
  <2>9. Right(k + 1)
    <3>1. CASE s.time < h.last
      <4>1. V[k].last # Never /\ s.time < V[k].last
        BY <1>4, <2>2, <2>3, <3>1 DEF Never
      <4>2. V[k + 1] = V[k]
        BY <2>4, <4>1 DEF InsertLatestDepth
      <4>3. W[k + 1] = W[k]
        BY <2>5, <3>1
      <4>4. Shows(V[k + 1], W[k + 1], from) /\ h.last <= V[k + 1].last
        BY <2>2, <4>2, <4>3
      <4>5. V[k + 1].last = h.last \/ \E i \in 1 .. k + 1 : V[k + 1].last = ss[i].time
        BY <2>2, <2>7, <4>2
      <4>6. s.time <= V[k + 1].last
        BY <2>3, <4>1, <4>2 DEF Never
      <4>7. \A i \in 1 .. k + 1 : ss[i].time <= V[k + 1].last
        BY <2>2, <2>6, <4>2, <4>6
      <4> QED
        BY <4>4, <4>5, <4>7
    <3>2. CASE ~(s.time < h.last)
      <4>1. h.last <= s.time
        BY <1>4, <2>3, <3>2 DEF Never
      <4>2. V[k].last <= s.time
        BY <2>2, <2>7, <4>1
      <4>3. W[k + 1] = Seen(W[k], s)
        BY <2>5, <3>2
      <4>4. Shows(V[k], W[k], from)
        BY <2>2
      <4> HIDE DEF s, Right
      <4>5. Shows(InsertLatestDepth(V[k], s), Seen(W[k], s), from) /\ InsertLatestDepth(V[k], s).last = s.time
        BY <2>1, <4>2, <4>4, SnapshotShown
      <4>6. Shows(V[k + 1], W[k + 1], from) /\ V[k + 1].last = s.time
        BY <2>4, <4>3, <4>5
      <4>7. \A i \in 1 .. k + 1 : ss[i].time <= V[k + 1].last
        BY <2>3, <2>6, <2>7, <4>6 DEF s
      <4>8. \E i \in 1 .. k + 1 : V[k + 1].last = ss[i].time
        BY <2>8, <4>6 DEF s
      <4> QED
        BY <4>1, <4>6, <4>7, <4>8 DEF Right
    <3> QED
      BY <3>1, <3>2
  <2> HIDE DEF Right
  <2> QED
    BY <2>1, <2>9
<1>7. Right(n)
  <2> HIDE DEF D
  <2>1. 0 .. n \subseteq D
    BY <1>1, <1>5, <1>6, SetInduction
  <2>2. n \in D
    BY <1>1, <2>1
  <2> HIDE DEF Right
  <2> QED
    BY <2>2 DEF D
<1> QED
  BY <1>7 DEF n

(* Dropping the runs that ended before a time leaves a level as it was     *)
(* from then on.                                                           *)
LEMMA OldRunsGone ==
  ASSUME NEW from \in Nat, NEW later \in Nat, from <= later, NEW cut \in Nat, cut <= later,
         NEW last, last \in Nat \cup {Never}, interval \in Nat \ {0}, NEW past, DOMAIN past \subseteq Nat, NEW l,
         NEW rs, LevelShows(rs, last, past, l, from)
  PROVE  LevelShows(Only(rs, {r \in ToSet(rs) : r.until >= cut}), last, past, l, later)
<1> DEFINE n == Len(rs)
           S == {r \in ToSet(rs) : r.until >= cut}
           f == [i \in 1 .. n |-> rs[i].until]
<1>1. rs \in Seq(OrderRun) /\ InOrder(rs)
      /\ \A i \in DOMAIN rs : rs[i].start <= last /\ rs[i].until <= last + interval
  BY DEF LevelShows, LevelFits
<1>2. Timed(rs)
  BY <1>1, RunsTimed
<1>3. n \in Nat /\ DOMAIN rs = 1 .. n /\ \A i \in 1 .. n : rs[i].start \in Nat /\ rs[i].until \in Nat
  BY <1>2 DEF Timed
<1>4. /\ \A i \in 1 .. n : rs[i].start <= rs[i].until
      /\ \A i \in 1 .. n - 1 : rs[i].until <= rs[i + 1].start
  BY <1>1, <1>3 DEF InOrder
<1>5. \A j \in 1 .. n : \A i \in 1 .. n : i < j => rs[i].until <= rs[j].start
  BY <1>1, <1>2, <1>3, OrderedThroughout
<1> HIDE DEF n
<1>6. \E a \in 0 .. n : \A i \in 1 .. n : f[i] <= cut - 1 <=> i <= a
  <2>1. cut - 1 \in Int /\ \A i \in 1 .. n : f[i] \in Int
    BY <1>3
  <2>2. ASSUME NEW j \in 1 .. n, NEW i \in 1 .. n, i < j
        PROVE  f[i] <= f[j]
    <3>1. rs[i].until <= rs[j].start /\ rs[j].start <= rs[j].until
      BY <1>4, <1>5, <2>2
    <3> QED
      BY <1>3, <3>1
  <2> HIDE DEF f
  <2> QED
    BY <1>3, <2>1, <2>2, UpToBound
<1>7. PICK a \in 0 .. n : \A i \in 1 .. n : f[i] <= cut - 1 <=> i <= a
  BY <1>6
<1>8. \A i \in 1 .. n : rs[i] \in S <=> a < i
  <2>1. ASSUME NEW i \in 1 .. n
        PROVE  rs[i] \in S <=> a < i
    <3>1. rs[i] \in ToSet(rs)
      BY <1>3 DEF ToSet
    <3>2. rs[i].until <= cut - 1 <=> i <= a
      BY <1>7
    <3>3. rs[i].until >= cut <=> a < i
      BY <1>3, <3>2
    <3> QED
      BY <3>1, <3>3
  <2> QED
    BY <2>1
<1> HIDE DEF S, f
<1> DEFINE e == Only(rs, S) m == n - a
<1>9. m \in Nat /\ a \in Nat /\ a + m = n
  BY <1>3
<1> HIDE DEF e, m
<1>10. e \in Seq(OrderRun) /\ Len(e) = m /\ DOMAIN e = 1 .. m /\ \A i \in 1 .. m : e[i] = rs[a + i]
  <2>1. n \in a .. Len(rs) /\ a \in 0 .. Len(rs)
    BY <1>3 DEF n
  <2>2. \A i \in DOMAIN rs : rs[i] \in S <=> (a < i /\ i <= n)
    BY <1>3, <1>8
  <2>3. /\ Only(rs, S) \in Seq(OrderRun) /\ Len(Only(rs, S)) = n - a
        /\ \A i \in 1 .. n - a : Only(rs, S)[i] = rs[a + i]
    <3>1. rs \in Seq(OrderRun)
      BY <1>1
    <3> HIDE DEF OrderRun
    <3> QED
      BY <2>1, <2>2, <3>1, OnlyStretch
  <2>4. DOMAIN Only(rs, S) = 1 .. Len(Only(rs, S))
    BY <2>3
  <2> QED
    BY <2>3, <2>4 DEF e, m
<1>11. \A i \in 1 .. m : a + i \in 1 .. n /\ (a + i) + 1 = a + (i + 1)
  BY <1>3, <1>9
<1>12. LevelFits(e, last, interval)
  <2>1. \A i \in 1 .. m : e[i].start <= e[i].until
    BY <1>4, <1>10, <1>11
  <2>2. ASSUME NEW i \in 1 .. m - 1
        PROVE  e[i].until <= e[i + 1].start
    <3>1. i \in 1 .. m /\ i + 1 \in 1 .. m /\ a + i \in 1 .. n - 1 /\ (a + i) + 1 = a + (i + 1)
      BY <1>3, <1>9
    <3>2. e[i] = rs[a + i] /\ e[i + 1] = rs[(a + i) + 1]
      BY <1>10, <3>1
    <3> QED
      BY <1>4, <3>1, <3>2
  <2>3. InOrder(e)
    BY <1>10, <2>1, <2>2 DEF InOrder
  <2>4. \A i \in 1 .. m : e[i].start <= last /\ e[i].until <= last + interval
    BY <1>1, <1>3, <1>10, <1>11
  <2> QED
    BY <1>10, <2>3, <2>4 DEF LevelFits
<1>13. ASSUME NEW t \in DOMAIN past, t >= later, past[t][l] # Nothing
       PROVE  \E i \in DOMAIN e : Covers(e[i], t) /\ e[i].order = past[t][l]
  <2>1. t \in Nat /\ t >= from /\ t >= cut
    BY <1>13
  <2>2. PICK i \in DOMAIN rs : Covers(rs[i], t) /\ rs[i].order = past[t][l]
    BY <1>13, <2>1 DEF LevelShows
  <2>3. rs[i].until > t
    BY <2>2 DEF Covers
  <2>4. rs[i].until >= cut
    BY <1>3, <2>1, <2>3
  <2>5. rs[i] \in S
    BY <1>3, <2>4 DEF S, ToSet
  <2>6. a < i /\ i \in 1 .. n
    BY <1>3, <1>8, <2>5
  <2>7. i - a \in 1 .. m /\ a + (i - a) = i
    BY <1>3, <1>9, <2>6
  <2>8. e[i - a] = rs[i]
    BY <1>10, <2>7
  <2> QED
    BY <1>10, <2>2, <2>7, <2>8
<1>14. ASSUME OnBuckets(past), NEW t \in DOMAIN past, t >= later, past[t][l] = Nothing
       PROVE  \/ \A i \in DOMAIN e : ~Covers(e[i], t)
              \/ \E u \in DOMAIN past : ReseenAt(past, l, t, u)
  <2>1. t >= from
    BY <1>14
  <2>2. \/ \A i \in DOMAIN rs : ~Covers(rs[i], t)
        \/ \E u \in DOMAIN past : ReseenAt(past, l, t, u)
    BY <1>14, <2>1 DEF LevelShows
  <2>3. \A i \in DOMAIN e : a + i \in DOMAIN rs /\ e[i] = rs[a + i]
    BY <1>3, <1>10, <1>11
  <2> QED
    BY <2>2, <2>3
<1> QED
  BY <1>12, <1>13, <1>14 DEF LevelShows, e, S

(* cleanup_old_price_levels leaves a history as it was from then on.       *)
LEMMA CleanedShown ==
  ASSUME NEW from \in Nat, NEW later \in Nat, from <= later, NEW cut \in Nat, cut <= later,
         interval \in Nat \ {0}, NEW past, NEW last, Shows([last |-> last, runs |-> runs], past, from)
  PROVE  Shows([last |-> last, runs |-> CleanupOldPriceLevels(cut)], past, later)
<1> DEFINE h == [last |-> last, runs |-> runs]
           c == [last |-> last, runs |-> CleanupOldPriceLevels(cut)]
<1>1. /\ h.last \in Nat \cup {Never} /\ IsSights(past)
      /\ h.last = Never => DOMAIN past = {}
      /\ h.last # Never => h.last \in DOMAIN past
      /\ \A t \in DOMAIN past : t <= h.last
      /\ \A l \in Levels : LevelShows(h.runs[l], h.last, past, l, from)
  BY DEF Shows
<1>2. h.last = last /\ h.runs = runs /\ c.last = last /\ c.runs = CleanupOldPriceLevels(cut)
  OBVIOUS
<1> HIDE DEF h, c
<1>3. DOMAIN past \subseteq Nat
  BY <1>1 DEF IsSights
<1>4. ASSUME NEW l \in Levels
      PROVE  LevelShows(c.runs[l], c.last, past, l, later)
  <2>1. c.runs[l] = Only(runs[l], {r \in ToSet(runs[l]) : r.until >= cut})
    BY <1>2 DEF CleanupOldPriceLevels
  <2>2. LevelShows(runs[l], last, past, l, from) /\ last \in Nat \cup {Never}
    BY <1>1, <1>2
  <2>3. LevelShows(Only(runs[l], {r \in ToSet(runs[l]) : r.until >= cut}), last, past, l, later)
    BY <1>3, <2>2, OldRunsGone
  <2> QED
    BY <1>2, <2>1, <2>3
<1>5. c.runs = [l \in Levels |-> c.runs[l]]
  BY <1>2 DEF CleanupOldPriceLevels
<1> QED
  BY <1>1, <1>2, <1>4, <1>5 DEF Shows, c

(* Snapshots of different times are seen in either order.                  *)
LEMMA SeenCommutes ==
  ASSUME NEW past, NEW s, NEW r, s.time # r.time
  PROVE  Seen(Seen(past, s), r) = Seen(Seen(past, r), s)
<1> DEFINE p == Seen(past, s) q == Seen(past, r) x == Seen(p, r) y == Seen(q, s)
           At(b, w, t) == [l \in Levels |-> IF b.book[l] = Nothing /\ t \in DOMAIN w THEN w[t][l] ELSE b.book[l]]
<1>1. /\ DOMAIN p = DOMAIN past \cup {s.time} /\ DOMAIN q = DOMAIN past \cup {r.time}
      /\ x = [t \in DOMAIN past \cup {s.time, r.time} |-> x[t]]
      /\ y = [t \in DOMAIN past \cup {s.time, r.time} |-> y[t]]
  BY DEF Seen
<1>2. /\ p[s.time] = At(s, past, s.time) /\ q[r.time] = At(r, past, r.time)
      /\ \A t \in DOMAIN past : t # s.time => p[t] = past[t]
      /\ \A t \in DOMAIN past : t # r.time => q[t] = past[t]
  BY DEF Seen
<1>3. /\ x[r.time] = At(r, p, r.time) /\ y[s.time] = At(s, q, s.time)
      /\ \A t \in DOMAIN p : t # r.time => x[t] = p[t]
      /\ \A t \in DOMAIN q : t # s.time => y[t] = q[t]
  BY DEF Seen
<1>4. At(r, p, r.time) = At(r, past, r.time)
  <2>1. r.time \in DOMAIN p <=> r.time \in DOMAIN past
    BY <1>1
  <2>2. r.time \in DOMAIN past => p[r.time] = past[r.time]
    BY <1>2
  <2> HIDE DEF p
  <2> QED
    BY <2>1, <2>2
<1>5. At(s, q, s.time) = At(s, past, s.time)
  <2>1. s.time \in DOMAIN q <=> s.time \in DOMAIN past
    BY <1>1
  <2>2. s.time \in DOMAIN past => q[s.time] = past[s.time]
    BY <1>2
  <2> HIDE DEF q
  <2> QED
    BY <2>1, <2>2
<1> HIDE DEF p, q, x, y, At
<1>6. ASSUME NEW t \in DOMAIN past \cup {s.time, r.time}
      PROVE  x[t] = y[t]
  <2>1. CASE t = s.time
    BY <1>1, <1>2, <1>3, <1>5, <2>1
  <2>2. CASE t = r.time
    BY <1>1, <1>2, <1>3, <1>4, <2>2
  <2>3. CASE t # s.time /\ t # r.time
    BY <1>1, <1>2, <1>3, <2>3
  <2> QED
    BY <2>1, <2>2, <2>3
<1>7. x = y
  BY <1>1, <1>6
<1> QED
  BY <1>7 DEF x, y, p, q

(* A snapshot put into its place in time is seen as if it came last.       *)
LEMMA SeenPutIn ==
  ASSUME NEW ss, Len(ss) \in Nat, \A i \in 1 .. Len(ss) : ss[i].time \in Nat,
         NEW s, s.time \in Nat, NEW a \in 0 .. Len(ss), NEW e, IsPutIn(e, ss, s, a),
         NEW past, NEW last \in Int, NEW W, IsSeeing(W, past, last, ss)
  PROVE  \E U : /\ IsSeeing(U, past, last, e)
                /\ U[Len(e)] = IF s.time < last THEN W[Len(ss)] ELSE Seen(W[Len(ss)], s)
<1> DEFINE n == Len(ss)
           add(p) == IF s.time < last THEN p ELSE Seen(p, s)
           U == [i \in 0 .. n + 1 |-> IF i <= a THEN W[i] ELSE add(W[i - 1])]
<1>1. n \in Nat /\ a \in Nat /\ a <= n
  OBVIOUS
<1>2. /\ Len(e) = n + 1
      /\ \A i \in 1 .. a : e[i] = ss[i]
      /\ e[a + 1] = s
      /\ \A i \in a + 1 .. n : e[i + 1] = ss[i] /\ s.time < ss[i].time
  BY DEF IsPutIn
<1>3. /\ W[0] = past
      /\ \A i \in 1 .. n : W[i] = IF ss[i].time < last THEN W[i - 1] ELSE Seen(W[i - 1], ss[i])
  BY DEF IsSeeing
<1> HIDE DEF n, add
<1>4. \A i \in 0 .. a : U[i] = W[i]
  BY <1>1
<1>5. \A i \in a .. n : U[i + 1] = add(W[i])
  <2>1. ASSUME NEW i \in a .. n
        PROVE  U[i + 1] = add(W[i])
    <3>1. i + 1 \in 0 .. n + 1 /\ ~(i + 1 <= a) /\ (i + 1) - 1 = i
      BY <1>1
    <3> QED
      BY <3>1
  <2> QED
    BY <2>1
<1> HIDE DEF U
<1>6. ASSUME NEW i \in 1 .. n + 1
      PROVE  U[i] = IF e[i].time < last THEN U[i - 1] ELSE Seen(U[i - 1], e[i])
  <2>1. CASE i <= a
    <3>1. i \in 1 .. a /\ i \in 0 .. a /\ i - 1 \in 0 .. a /\ i \in 1 .. n
      BY <1>1, <2>1
    <3>2. U[i] = W[i] /\ U[i - 1] = W[i - 1] /\ e[i] = ss[i]
      BY <1>2, <1>4, <3>1
    <3> QED
      BY <1>3, <3>1, <3>2
  <2>2. CASE i = a + 1
    <3>1. a \in 0 .. a /\ a \in a .. n /\ i - 1 = a
      BY <1>1, <2>2
    <3>2. U[i] = add(W[a]) /\ U[i - 1] = W[a] /\ e[i] = s
      BY <1>2, <1>4, <1>5, <2>2, <3>1
    <3> QED
      BY <3>2 DEF add
  <2>3. CASE i > a + 1
    <3> DEFINE j == i - 1 r == ss[j] k == j - 1
    <3>1. j \in a + 1 .. n /\ j \in a .. n /\ k \in a .. n /\ j + 1 = i /\ k + 1 = j /\ j \in 1 .. n
      BY <1>1, <2>3
    <3>2. e[j + 1] = r /\ s.time < r.time /\ r.time \in Nat
      BY <1>2, <3>1 DEF n
    <3>3. U[j + 1] = add(W[j]) /\ U[k + 1] = add(W[k])
      BY <1>5, <3>1
    <3>4. W[j] = IF r.time < last THEN W[k] ELSE Seen(W[k], r)
      BY <1>3, <3>1
    <3> HIDE DEF j, k, r
    <3>5. U[i] = add(W[j]) /\ U[j] = add(W[k]) /\ e[i] = r
      BY <3>1, <3>2, <3>3
    <3>6. CASE r.time < last
      <4>1. W[j] = W[k]
        BY <3>4, <3>6
      <4>2. U[i] = U[j]
        BY <3>5, <4>1
      <4> QED
        BY <3>5, <3>6, <4>2 DEF j
    <3>7. CASE ~(r.time < last)
      <4>1. W[j] = Seen(W[k], r)
        BY <3>4, <3>7
      <4>2. add(Seen(W[k], r)) = Seen(add(W[k]), r)
        <5>1. s.time # r.time
          BY <3>2
        <5>2. Seen(Seen(W[k], r), s) = Seen(Seen(W[k], s), r)
          BY <5>1, SeenCommutes
        <5> QED
          BY <5>2 DEF add
      <4>3. U[i] = Seen(U[j], r)
        BY <3>5, <4>1, <4>2
      <4> QED
        BY <3>5, <3>7, <4>3 DEF j
    <3> QED
      BY <3>6, <3>7
  <2> QED
    BY <1>1, <2>1, <2>2, <2>3
<1>7. U[0] = past
  <2>1. 0 \in 0 .. a
    BY <1>1
  <2> QED
    BY <1>3, <1>4, <2>1
<1>8. IsSeeing(U, past, last, e)
  BY <1>2, <1>6, <1>7 DEF IsSeeing
<1>9. U[n + 1] = add(W[n])
  <2>1. n \in a .. n
    BY <1>1
  <2> QED
    BY <1>5, <2>1
<1>10. U[Len(e)] = IF s.time < last THEN W[Len(ss)] ELSE Seen(W[Len(ss)], s)
  BY <1>2, <1>9 DEF add, n
<1> QED
  BY <1>8, <1>10

-----------------------------------------------------------------------------
(* A snapshot as the chart holds it.                                       *)
BookSnapshot == [time : Moments, book : Books]

(* Times of the venue are numbers, and its books are books.                *)
LEMMA SnapshotsAreSnapshots ==
  /\ Moments \subseteq Nat
  /\ \A s \in BookSnapshot : IsSnapshot(s) /\ s.time \in Moments /\ s.time \in Nat
<1>1. MaxMoment \in Nat
  BY DepthHistoryAssumption
<1>2. Moments \subseteq Nat
  BY <1>1 DEF Moments
<1>3. \A b \in Books : b \in [Levels -> Resting \cup {Nothing}]
  BY DEF Books
<1> QED
  BY <1>2, <1>3 DEF BookSnapshot, IsSnapshot

(* What is held back, by time.                                             *)
LEMMA BufferSorted ==
  ASSUME NEW ss \in Seq(BookSnapshot)
  PROVE  /\ ByTime(ss) \in Seq(BookSnapshot) /\ InTimeOrder(ByTime(ss))
         /\ Len(ByTime(ss)) = Len(ss) /\ Len(ss) \in Nat /\ ToSet(ByTime(ss)) = ToSet(ss)
         /\ DOMAIN ByTime(ss) = 1 .. Len(ss)
         /\ \A i \in 1 .. Len(ss) : IsSnapshot(ByTime(ss)[i]) /\ ByTime(ss)[i].time \in Moments
<1>1. \A s \in BookSnapshot : s.time \in Nat
  BY SnapshotsAreSnapshots
<1>2. /\ ByTime(ss) \in Seq(BookSnapshot) /\ InTimeOrder(ByTime(ss)) /\ Len(ByTime(ss)) = Len(ss)
      /\ ToSet(ByTime(ss)) = ToSet(ss)
  BY <1>1, SortedByTime
<1>3. Len(ss) \in Nat /\ DOMAIN ByTime(ss) = 1 .. Len(ss)
  BY <1>2
<1>4. \A i \in 1 .. Len(ss) : ByTime(ss)[i] \in BookSnapshot
  BY <1>2, <1>3
<1> QED
  BY <1>2, <1>3, <1>4, SnapshotsAreSnapshots

(* Nothing held back is nothing to sort.                                   *)
LEMMA NothingSorted == ByTime(<<>>) = <<>>
<1>1. <<>> \in Seq(BookSnapshot)
  OBVIOUS
<1>2. ByTime(<<>>) \in Seq(BookSnapshot) /\ Len(ByTime(<<>>)) = Len(<<>>)
  BY <1>1, BufferSorted
<1>3. Len(<<>>) = 0
  OBVIOUS
<1> QED
  BY <1>2, <1>3

(* What is held back goes in first, by time, and then the snapshot that    *)
(* came.  One that is older than what went in before it changes nothing.   *)
LEMMA BufferInserted ==
  ASSUME interval \in Nat \ {0}, NEW from \in Nat, NEW h, NEW past, Shows(h, past, from),
         h.last \in Moments \cup {Never},
         NEW ss \in Seq(BookSnapshot), InTimeOrder(ss), NEW s \in BookSnapshot,
         NEW W, IsSeeing(W, past, h.last, ss)
  PROVE  LET e    == InsertAll(h, Append(ss, s))
             over == h.last <= s.time /\ \A u \in ToSet(ss) : u.time <= s.time
         IN /\ Shows(e, IF over THEN Seen(W[Len(ss)], s) ELSE W[Len(ss)], from)
            /\ e.last \in Moments \cup {Never}
<1> DEFINE n == Len(ss) all == Append(ss, s)
<1>1. /\ n \in Nat /\ DOMAIN ss = 1 .. n /\ \A i \in 1 .. n : ss[i] \in BookSnapshot
      /\ Len(all) = n + 1 /\ Len(all) \in Nat /\ all[n + 1] = s /\ \A i \in 1 .. n : all[i] = ss[i]
  OBVIOUS
<1> HIDE DEF all
<1>2. PICK V : IsInserting(V, h, all) /\ InsertAll(h, all) = V[n + 1]
  BY <1>1, InsertAllDef
<1>3. V[0] = h /\ \A i \in 1 .. n + 1 : V[i] = InsertLatestDepth(V[i - 1], all[i])
  BY <1>1, <1>2 DEF IsInserting
<1>4. \A i \in 1 .. n : i \in 1 .. n + 1
  BY <1>1
<1>5. IsInserting(V, h, ss)
  BY <1>1, <1>3, <1>4 DEF IsInserting
<1>6. \A i \in 1 .. n : IsSnapshot(ss[i]) /\ ss[i].time \in Moments /\ ss[i].time \in Nat
  BY <1>1, SnapshotsAreSnapshots
<1> DEFINE v == V[n] w == W[n]
<1>7. /\ Shows(v, w, from) /\ h.last <= v.last
      /\ v.last = h.last \/ \E i \in 1 .. n : v.last = ss[i].time
      /\ \A i \in 1 .. n : ss[i].time <= v.last
  <2>1. Len(ss) \in Nat /\ DOMAIN ss = 1 .. Len(ss) /\ \A i \in 1 .. Len(ss) : IsSnapshot(ss[i])
    BY <1>1, <1>6
  <2> HIDE DEF n
  <2>2. /\ Shows(V[Len(ss)], W[Len(ss)], from)
        /\ V[Len(ss)].last = h.last \/ \E i \in 1 .. Len(ss) : V[Len(ss)].last = ss[i].time
        /\ h.last <= V[Len(ss)].last
        /\ \A i \in 1 .. Len(ss) : ss[i].time <= V[Len(ss)].last
    BY <1>5, <2>1, AllShown
  <2> QED
    BY <2>2 DEF n
<1>8. V[n + 1] = InsertLatestDepth(v, s)
  <2>1. n + 1 \in 1 .. n + 1 /\ (n + 1) - 1 = n
    BY <1>1
  <2> QED
    BY <1>1, <1>3, <2>1
<1>9. IsSnapshot(s) /\ s.time \in Nat /\ s.time \in Moments
  BY SnapshotsAreSnapshots
<1>10. v.last \in Nat \cup {Never} /\ v.last \in Moments \cup {Never} /\ h.last \in Int
  BY <1>6, <1>7, SnapshotsAreSnapshots DEF Shows, Never
<1> HIDE DEF v, w, n
<1> DEFINE over == h.last <= s.time /\ \A u \in ToSet(ss) : u.time <= s.time
<1>11. CASE over
  <2>1. \A i \in 1 .. n : ss[i].time <= s.time
    BY <1>1, <1>11 DEF ToSet
  <2>2. v.last <= s.time
    BY <1>7, <1>11, <2>1
  <2>3. Shows(InsertLatestDepth(v, s), Seen(w, s), from) /\ InsertLatestDepth(v, s).last = s.time
    BY <1>7, <1>9, <2>2, SnapshotShown
  <2>4. Shows(V[n + 1], Seen(w, s), from) /\ V[n + 1].last \in Moments
    BY <1>8, <1>9, <2>3
  <2> QED
    BY <1>2, <1>11, <2>4 DEF w, n, all
<1>12. CASE ~over
  <2>1. s.time < v.last
    <3>1. CASE ~(h.last <= s.time)
      BY <1>7, <1>9, <1>10, <3>1 DEF Never
    <3>2. CASE \E u \in ToSet(ss) : ~(u.time <= s.time)
      <4>1. PICK i \in 1 .. n : ~(ss[i].time <= s.time)
        BY <1>1, <3>2 DEF ToSet
      <4> QED
        BY <1>6, <1>7, <1>9, <1>10, <4>1 DEF Never
    <3> QED
      BY <1>12, <3>1, <3>2
  <2>2. InsertLatestDepth(v, s) = v
    BY <1>9, <2>1 DEF InsertLatestDepth, Never
  <2>3. Shows(V[n + 1], w, from) /\ V[n + 1].last \in Moments \cup {Never}
    BY <1>7, <1>8, <1>10, <2>2
  <2> QED
    BY <1>2, <1>12, <2>3 DEF w, n, all
<1> QED
  BY <1>11, <1>12

-----------------------------------------------------------------------------
(* The inductive invariant.  Some past explains the runs: it is what was   *)
(* seen of the snapshots that went in.  What was seen of all of them is    *)
(* that past with what is held back, by time, and not too old to go in.    *)
HistoryNumbers ==
  /\ interval \in Intervals
  /\ lastSnapshot \in Moments \cup {Never}
  /\ tradeBuckets \subseteq Moments
  /\ paused \in BOOLEAN
  /\ pauseBuffer \in Seq(BookSnapshot)
  /\ moment \in Moments /\ snapshots \in 0 .. MaxSnapshots
  /\ oldest \in Moments

(* The past is what the runs show, and what was seen is the past with the  *)
(* snapshots that are held back.                                           *)
Explains(past) ==
  /\ Shows([last |-> lastSnapshot, runs |-> runs], past, oldest)
  /\ \E W : IsSeeing(W, past, lastSnapshot, SortedBuffer) /\ sights = W[Len(SortedBuffer)]

(* The inductive invariant of the heatmap: there is such a past.           *)
HistoryInv == HistoryNumbers /\ \E past : Explains(past)

(* A history shows the same as long as the basis is the same.              *)
LEMMA ShowsStill ==
  ASSUME interval' = interval, NEW h, NEW past, NEW from, Shows(h, past, from)
  PROVE  Shows(h, past, from)'
<1>1. ASSUME NEW l \in Levels
      PROVE  LevelShows(h.runs[l], h.last, past, l, from)'
  <2>1. LevelShows(h.runs[l], h.last, past, l, from)
    BY DEF Shows
  <2>2. OnBuckets(past)' = OnBuckets(past)
    BY DEF OnBuckets
  <2>3. \A t \in DOMAIN past : \A m \in DOMAIN past : ReseenAt(past, l, t, m)' = ReseenAt(past, l, t, m)
    BY DEF ReseenAt
  <2> QED
    BY <2>1, <2>2, <2>3 DEF LevelShows, LevelFits
<1> QED
  BY <1>1 DEF Shows

(* What explains a history with nothing held back.                         *)
LEMMA ExplainsSettled ==
  ASSUME NEW past, Shows([last |-> lastSnapshot, runs |-> runs], past, oldest),
         pauseBuffer = <<>>, sights = past
  PROVE  Explains(past)
<1>1. SortedBuffer = <<>>
  BY NothingSorted DEF SortedBuffer
<1>2. Len(SortedBuffer) = 0
  BY <1>1
<1> DEFINE W == [i \in {0} |-> past]
<1>3. W[0] = past
  OBVIOUS
<1> HIDE DEF W
<1>4. \A i \in 1 .. 0 : FALSE
  OBVIOUS
<1>5. IsSeeing(W, past, lastSnapshot, SortedBuffer)
  BY <1>2, <1>3, <1>4 DEF IsSeeing
<1> QED
  BY <1>2, <1>3, <1>5 DEF Explains

(* A history of nothing, before a step and after it.                       *)
LEMMA NothingShown ==
  LET nothing == [last |-> Never, runs |-> [l \in Levels |-> <<>>]]
  IN Shows(nothing, <<>>, 0) /\ Shows(nothing, <<>>, 0)'
<1> DEFINE h == [last |-> Never, runs |-> [l \in Levels |-> <<>>]]
<1>1. DOMAIN <<>> = {} /\ <<>> \in Seq(OrderRun) /\ Len(<<>>) = 0 /\ <<>> = [t \in DOMAIN <<>> |-> <<>>[t]]
  OBVIOUS
<1>2. IsSights(<<>>)
  BY <1>1 DEF IsSights
<1>3. InOrder(<<>>)
  BY <1>1 DEF InOrder
<1>4. \A l \in Levels : LevelShows(<<>>, Never, <<>>, l, 0) /\ LevelShows(<<>>, Never, <<>>, l, 0)'
  BY <1>1, <1>3 DEF LevelShows, LevelFits
<1>5. h.last = Never /\ h.runs = [l \in Levels |-> <<>>]
  OBVIOUS
<1> HIDE DEF h
<1>6. /\ \A l \in Levels : h.runs[l] = <<>>
      /\ h.runs = [l \in Levels |-> h.runs[l]]
  BY <1>5
<1>7. Shows(h, <<>>, 0) /\ Shows(h, <<>>, 0)'
  BY <1>1, <1>2, <1>4, <1>5, <1>6 DEF Shows
<1> QED
  BY <1>7 DEF h

(* The basis is a number, and the time of its bucket is not after a time.  *)
LEMMA BucketNotAfter ==
  ASSUME interval \in Intervals
  PROVE  interval \in Nat \ {0} /\ \A t \in Moments : Bucket(t) \in Moments
<1>1. interval \in Nat \ {0}
  BY DepthHistoryAssumption
<1>2. ASSUME NEW t \in Nat, NEW n \in Nat \ {0}
      PROVE  (t \div n) * n \in Nat /\ (t \div n) * n <= t
  BY <1>2, Z3
<1>3. ASSUME NEW t \in Moments
      PROVE  Bucket(t) \in Moments
  <2>1. t \in Nat /\ t <= MaxMoment /\ MaxMoment \in Nat
    BY DepthHistoryAssumption DEF Moments
  <2>2. (t \div interval) * interval \in Nat /\ (t \div interval) * interval <= t
    BY <1>1, <1>2, <2>1
  <2> DEFINE b == (t \div interval) * interval
  <2>3. b \in Nat /\ b <= t
    BY <2>2
  <2> HIDE DEF b
  <2>4. b \in Moments
    BY <2>1, <2>3 DEF Moments
  <2> QED
    BY <2>4 DEF b, Bucket
<1> QED
  BY <1>1, <1>3

(* The initial states.                                                     *)
LEMMA HistoryInitInv == HistoryInit => HistoryInv
<1> SUFFICES ASSUME HistoryInit PROVE HistoryInv
  OBVIOUS
<1>1. 0 \in Moments /\ 0 \in 0 .. MaxSnapshots
  BY DepthHistoryAssumption DEF Moments
<1>2. HistoryNumbers
  <2>1. /\ lastSnapshot = Never /\ interval \in Intervals /\ tradeBuckets = {} /\ paused = FALSE
        /\ pauseBuffer = <<>> /\ moment = 0 /\ snapshots = 0 /\ oldest = 0
    BY DEF HistoryInit
  <2>2. pauseBuffer \in Seq(BookSnapshot)
    BY <2>1
  <2> QED
    BY <1>1, <2>1, <2>2 DEF HistoryNumbers
<1>4. Shows([last |-> Never, runs |-> [l \in Levels |-> <<>>]], <<>>, 0)
  BY NothingShown
<1>5. Shows([last |-> lastSnapshot, runs |-> runs], sights, oldest) /\ pauseBuffer = <<>>
  BY <1>4 DEF HistoryInit
<1>6. Explains(sights)
  BY <1>5, ExplainsSettled
<1> QED
  BY <1>2, <1>6 DEF HistoryInv

(* Steps that neither add to the history nor hold back anything.           *)
LEMMA ExplainsStill ==
  ASSUME UNCHANGED <<runs, lastSnapshot, interval, pauseBuffer, sights, oldest>>,
         NEW past, Explains(past)
  PROVE  Explains(past)'
<1> DEFINE h == [last |-> lastSnapshot, runs |-> runs]
<1>1. Shows(h, past, oldest)
  BY DEF Explains
<1>2. h' = h /\ oldest' = oldest /\ SortedBuffer' = SortedBuffer
  BY DEF SortedBuffer
<1>3. Shows(h, past, oldest)'
  <2>1. ASSUME NEW a, NEW f, Shows(a, past, f)
        PROVE  Shows(a, past, f)'
    BY <2>1, ShowsStill
  <2> QED
    BY <1>1, <1>2, <2>1
<1> QED
  BY <1>2, <1>3 DEF Explains

(* Trades leave the past as it is.                                         *)
LEMMA TradesKeepHistory ==
  ASSUME HistoryInv, HeatmapTrades
  PROVE  HistoryInv'
<1>1. PICK past : Explains(past)
  BY DEF HistoryInv
<1>2. Explains(past)'
  BY <1>1, ExplainsStill DEF HeatmapTrades
<1>3. HistoryNumbers /\ Bucket(moment) \in Moments
  BY BucketNotAfter DEF HistoryInv, HistoryNumbers
<1>4. HistoryNumbers'
  BY <1>3 DEF HeatmapTrades, HistoryNumbers
<1> QED
  BY <1>2, <1>4 DEF HistoryInv

(* So does moving the view.                                                *)
LEMMA PanKeepsHistory ==
  ASSUME HistoryInv, Pan
  PROVE  HistoryInv'
<1>1. PICK past : Explains(past)
  BY DEF HistoryInv
<1>2. Explains(past)'
  BY <1>1, ExplainsStill DEF Pan
<1>3. HistoryNumbers'
  BY DEF Pan, HistoryNumbers, HistoryInv
<1> QED
  BY <1>2, <1>3 DEF HistoryInv

(* A new history begins with what is held back.                            *)
LEMMA StartOverKeepsHistory ==
  ASSUME HistoryInv, StartOver, interval' \in Intervals, paused' \in BOOLEAN
  PROVE  HistoryInv'
<1> DEFINE ss == SortedBuffer nothing == [last |-> Never, runs |-> [l \in Levels |-> <<>>]]
<1>1. HistoryNumbers
  BY DEF HistoryInv
<1>2. Len(ss) \in Nat
  BY <1>1, BufferSorted DEF HistoryNumbers, SortedBuffer
<1>3. PICK W : IsSeeingAll(W, ss) /\ SeenAll(ss) = W[Len(ss)]
  BY <1>2, SeenAllDef
<1>4. \A i \in 1 .. Len(ss) : ss[i].time \in Nat
  <2>1. \A i \in 1 .. Len(ss) : IsSnapshot(ss[i])
    BY <1>1, BufferSorted DEF HistoryNumbers, SortedBuffer
  <2> QED
    BY <2>1 DEF IsSnapshot
<1> HIDE DEF ss
<1>5. IsSeeing(W, <<>>, Never, ss)
  <2>1. \A i \in 1 .. Len(ss) : ~(ss[i].time < Never)
    BY <1>4 DEF Never
  <2> QED
    BY <1>3, <2>1 DEF IsSeeing, IsSeeingAll
<1>6. SortedBuffer' = ss /\ sights' = W[Len(ss)] /\ lastSnapshot' = Never
  BY <1>3 DEF ss, SortedBuffer, StartOver
<1>7. Shows(nothing, <<>>, 0)'
  BY NothingShown
<1>8. [last |-> lastSnapshot, runs |-> runs]' = nothing /\ oldest' = 0
  BY DEF StartOver
<1>9. Explains(<<>>)'
  <2> HIDE DEF nothing
  <2>1. Shows([last |-> lastSnapshot, runs |-> runs], <<>>, oldest)'
    BY <1>7, <1>8
  <2>2. IsSeeing(W, <<>>, lastSnapshot', SortedBuffer') /\ sights' = W[Len(SortedBuffer')]
    BY <1>5, <1>6
  <2> QED
    BY <2>1, <2>2 DEF Explains
<1>10. HistoryNumbers'
  <2>1. 0 \in Moments
    BY DepthHistoryAssumption DEF Moments
  <2> QED
    BY <1>1, <2>1 DEF StartOver, HistoryNumbers
<1> QED
  BY <1>9, <1>10 DEF HistoryInv

(* While the chart is paused a snapshot waits in its place.                *)
LEMMA HeldBackKeepsHistory ==
  ASSUME HistoryNumbers, NEW past, Explains(past), NEW s \in BookSnapshot, paused,
         pauseBuffer' = Append(pauseBuffer, s),
         UNCHANGED <<runs, lastSnapshot, interval, oldest>>,
         sights' = IF Accepted(s.time) THEN Seen(sights, s) ELSE sights
  PROVE  Explains(past)'
<1> DEFINE ss == SortedBuffer e == SortedIn(ss, s)
<1>1. /\ ss \in Seq(BookSnapshot) /\ InTimeOrder(ss) /\ Len(ss) \in Nat
      /\ \A i \in 1 .. Len(ss) : ss[i].time \in Nat
  <2>1. /\ ss \in Seq(BookSnapshot) /\ InTimeOrder(ss) /\ Len(ss) = Len(pauseBuffer) /\ Len(pauseBuffer) \in Nat
        /\ \A i \in 1 .. Len(pauseBuffer) : IsSnapshot(ss[i])
    BY BufferSorted DEF HistoryNumbers, SortedBuffer
  <2> HIDE DEF ss
  <2> QED
    BY <2>1 DEF IsSnapshot
<1>2. SortedBuffer' = e
  <2>1. ByTime(Append(pauseBuffer, s)) = SortedIn(ByTime(pauseBuffer), s)
    BY SortedGrown DEF HistoryNumbers
  <2> QED
    BY <2>1 DEF SortedBuffer
<1>3. /\ \A u \in BookSnapshot : u.time \in Nat
      /\ s.time \in Nat
  BY SnapshotsAreSnapshots
<1> HIDE DEF ss
<1>4. PICK a \in 0 .. Len(ss) : IsPutIn(e, ss, s, a)
  BY <1>1, <1>3, PutInTime
<1>5. PICK W : IsSeeing(W, past, lastSnapshot, ss) /\ sights = W[Len(ss)]
  BY DEF Explains, ss
<1>6. lastSnapshot \in Moments \cup {Never} /\ Moments \subseteq Nat /\ lastSnapshot \in Int
  BY SnapshotsAreSnapshots DEF HistoryNumbers, Never
<1> HIDE DEF e
<1>7. PICK U : /\ IsSeeing(U, past, lastSnapshot, e)
               /\ U[Len(e)] = IF s.time < lastSnapshot THEN W[Len(ss)] ELSE Seen(W[Len(ss)], s)
  BY <1>1, <1>3, <1>4, <1>5, <1>6, SeenPutIn
<1>8. Accepted(s.time) <=> ~(s.time < lastSnapshot)
  BY <1>3, <1>6 DEF Accepted, Never
<1>9. sights' = U[Len(e)]
  BY <1>5, <1>7, <1>8
<1>10. Shows([last |-> lastSnapshot, runs |-> runs], past, oldest)'
  <2> DEFINE h == [last |-> lastSnapshot, runs |-> runs]
  <2>1. Shows(h, past, oldest) /\ h' = h /\ oldest' = oldest /\ interval' = interval
    BY DEF Explains
  <2>2. ASSUME NEW x, NEW f, Shows(x, past, f)
        PROVE  Shows(x, past, f)'
    BY <2>1, <2>2, ShowsStill
  <2> QED
    BY <2>1, <2>2
<1>11. lastSnapshot' = lastSnapshot
  OBVIOUS
<1> QED
  BY <1>2, <1>7, <1>9, <1>10, <1>11 DEF Explains

(* What is dropped is what ended before the trades that are kept.          *)
LEMMA CleanedStillShown ==
  ASSUME HistoryNumbers, NEW past, Shows([last |-> lastSnapshot, runs |-> runs], past, oldest),
         NEW cleans \in BOOLEAN
  PROVE  LET cleaned == IF cleans /\ Kept # {} THEN CleanupOldPriceLevels(Min(Kept)) ELSE runs
             from    == IF cleans /\ Kept # {} THEN Max({oldest, Min(Kept)}) ELSE oldest
         IN Shows([last |-> lastSnapshot, runs |-> cleaned], past, from) /\ from \in Moments
<1>1. oldest \in Moments /\ Moments \subseteq Nat
  BY SnapshotsAreSnapshots DEF HistoryNumbers
<1>2. CASE ~(cleans /\ Kept # {})
  BY <1>1, <1>2
<1>3. CASE cleans /\ Kept # {}
  <2> DEFINE k == Min(Kept) from == Max({oldest, k})
  <2>1. Kept \subseteq Moments
    BY DEF Kept, HistoryNumbers
  <2>2. Kept \subseteq Nat /\ Kept # {}
    BY <1>1, <1>3, <2>1
  <2>3. k \in Kept
    BY <2>2, LeastOfNat
  <2> HIDE DEF k
  <2>4. k \in Moments /\ k \in Nat /\ k \in Int /\ oldest \in Nat /\ oldest \in Int
    BY <1>1, <2>1, <2>2, <2>3
  <2>5. from = (IF oldest >= k THEN oldest ELSE k)
    BY <2>4, MaxOfTwo
  <2> HIDE DEF from
  <2>6. from \in Moments /\ from \in Nat /\ oldest <= from /\ k <= from
    BY <1>1, <2>4, <2>5
  <2>7. interval \in Nat \ {0}
    BY BucketNotAfter DEF HistoryNumbers
  <2>8. Shows([last |-> lastSnapshot, runs |-> CleanupOldPriceLevels(k)], past, from)
    BY <2>4, <2>6, <2>7, CleanedShown
  <2> QED
    BY <1>3, <2>6, <2>8 DEF from, k
<1> QED
  BY <1>2, <1>3

(* Otherwise what was held back goes into the history, and then it.        *)
LEMMA ProcessKeepsHistory ==
  ASSUME HistoryNumbers, NEW past, Explains(past), NEW s \in BookSnapshot, ~paused, Process(s),
         UNCHANGED interval, sights' = IF Accepted(s.time) THEN Seen(sights, s) ELSE sights
  PROVE  Explains(sights)' /\ lastSnapshot' \in Moments \cup {Never} /\ oldest' \in Moments
<1> DEFINE ss      == SortedBuffer
           cleans  == pauseBuffer = <<>> /\ CleansUp
           cleaned == IF cleans /\ Kept # {} THEN CleanupOldPriceLevels(Min(Kept)) ELSE runs
           from    == IF cleans /\ Kept # {} THEN Max({oldest, Min(Kept)}) ELSE oldest
           h       == [last |-> lastSnapshot, runs |-> cleaned]
           e       == InsertAll(h, Append(ss, s))
           over    == h.last <= s.time /\ \A u \in ToSet(ss) : u.time <= s.time
<1>1. /\ runs' = e.runs /\ lastSnapshot' = e.last /\ pauseBuffer' = <<>> /\ oldest' = from
  BY DEF Process
<1>2. Shows(h, past, from) /\ from \in Moments
  <2>1. cleans \in BOOLEAN /\ Shows([last |-> lastSnapshot, runs |-> runs], past, oldest)
    BY DEF Explains
  <2> HIDE DEF cleans
  <2> QED
    BY <2>1, CleanedStillShown
<1>3. h.last = lastSnapshot
  OBVIOUS
<1>4. ss \in Seq(BookSnapshot) /\ InTimeOrder(ss) /\ ToSet(ss) = ToSet(pauseBuffer)
  BY BufferSorted DEF HistoryNumbers, SortedBuffer
<1>5. PICK W : IsSeeing(W, past, lastSnapshot, ss) /\ sights = W[Len(ss)]
  BY DEF Explains
<1>6. interval \in Nat \ {0}
  BY BucketNotAfter DEF HistoryNumbers
<1>7. lastSnapshot \in Moments \cup {Never} /\ Moments \subseteq Nat /\ s.time \in Nat
  BY SnapshotsAreSnapshots DEF HistoryNumbers
<1> HIDE DEF ss, cleans, cleaned, from, h
<1>8. /\ Shows(e, IF over THEN Seen(W[Len(ss)], s) ELSE W[Len(ss)], from)
      /\ e.last \in Moments \cup {Never}
  <2>1. from \in Nat /\ h.last \in Moments \cup {Never} /\ IsSeeing(W, past, h.last, ss)
    BY <1>2, <1>3, <1>5, <1>7
  <2> QED
    BY <1>2, <1>4, <1>6, <2>1, BufferInserted
<1> HIDE DEF e
<1>9. over <=> Accepted(s.time)
  <2>1. h.last <= s.time <=> (lastSnapshot # Never => s.time >= lastSnapshot)
    BY <1>3, <1>7 DEF Never
  <2>2. (\A u \in ToSet(ss) : u.time <= s.time) <=> \A i \in DOMAIN pauseBuffer : s.time >= pauseBuffer[i].time
    <3>1. pauseBuffer \in Seq(BookSnapshot)
      BY DEF HistoryNumbers
    <3>2. \A i \in DOMAIN pauseBuffer : pauseBuffer[i] \in BookSnapshot /\ pauseBuffer[i].time \in Nat
      BY <3>1, SnapshotsAreSnapshots
    <3>3. ToSet(ss) = {pauseBuffer[i] : i \in DOMAIN pauseBuffer}
      BY <1>4 DEF ToSet
    <3> QED
      BY <1>7, <3>2, <3>3
  <2> QED
    BY <2>1, <2>2 DEF Accepted
<1> HIDE DEF over
<1>10. Shows(e, sights', from)
  BY <1>5, <1>8, <1>9
<1>11. Shows([last |-> e.last, runs |-> e.runs], sights', from)
  BY <1>10 DEF Shows
<1>12. Shows([last |-> lastSnapshot', runs |-> runs'], sights', oldest')
  BY <1>1, <1>11
<1>13. Shows([last |-> lastSnapshot, runs |-> runs], sights, oldest)'
  <2>1. \A l \in Levels : LevelShows(runs'[l], lastSnapshot', sights', l, oldest')
    BY <1>12 DEF Shows
  <2>2. OnBuckets(sights)' <=> OnBuckets(sights')
    BY DEF OnBuckets
  <2>3. \A l \in Levels : \A t \in DOMAIN sights' : \A m \in DOMAIN sights' :
          ReseenAt(sights, l, t, m)' <=> ReseenAt(sights', l, t, m)
    BY DEF ReseenAt
  <2>4. \A l \in Levels : LevelShows(runs[l], lastSnapshot, sights, l, oldest)'
    <3>1. ASSUME NEW l \in Levels
          PROVE  LevelShows(runs[l], lastSnapshot, sights, l, oldest)'
      <4>1. LevelShows(runs'[l], lastSnapshot', sights', l, oldest')
        BY <2>1
      <4>2. LevelFits(runs[l], lastSnapshot, interval)'
        BY <4>1 DEF LevelShows, LevelFits
      <4>3. \A m \in DOMAIN sights' : \A t \in DOMAIN sights' :
              ReseenAt(sights, l, t, m)' <=> ReseenAt(sights', l, t, m)
        BY <2>3
      <4> QED
        BY <2>2, <4>1, <4>2, <4>3 DEF LevelShows
    <3> QED
      BY <3>1
  <2> QED
    BY <1>12, <2>4 DEF Shows
<1>14. Explains(sights)'
  <2>1. SortedBuffer' = <<>>
    BY <1>1, NothingSorted DEF SortedBuffer
  <2>2. Len(SortedBuffer') = 0
    BY <2>1
  <2> DEFINE V == [i \in {0} |-> sights']
  <2>3. V[0] = sights'
    OBVIOUS
  <2> HIDE DEF V
  <2>4. IsSeeing(V, sights', lastSnapshot', SortedBuffer')
    <3>1. \A i \in 1 .. 0 : FALSE
      OBVIOUS
    <3> QED
      BY <2>2, <2>3, <3>1 DEF IsSeeing
  <2> QED
    BY <1>13, <2>2, <2>3, <2>4 DEF Explains
<1>15. lastSnapshot' \in Moments \cup {Never} /\ oldest' \in Moments
  BY <1>1, <1>2, <1>8
<1> QED
  BY <1>14, <1>15

(* A snapshot that is put in takes the past one step on; one that is held  *)
(* back leaves it as it is.                                                *)
LEMMA InsertKeepsHistory ==
  ASSUME HistoryInv, NEW book \in Books, NEW t \in Moments, InsertDepth(book, t)
  PROVE  HistoryInv'
<1> DEFINE s == [time |-> Bucket(t), book |-> book]
<1>1. HistoryNumbers
  BY DEF HistoryInv
<1>2. PICK past : Explains(past)
  BY DEF HistoryInv
<1>3. s \in BookSnapshot
  BY <1>1, BucketNotAfter DEF BookSnapshot, HistoryNumbers
<1>4. /\ snapshots < MaxSnapshots /\ snapshots' = snapshots + 1 /\ moment' = Max({moment, t})
      /\ sights' = IF Accepted(s.time) THEN Seen(sights, s) ELSE sights
      /\ IF paused
         THEN pauseBuffer' = Append(pauseBuffer, s) /\ UNCHANGED <<runs, lastSnapshot, tradeBuckets, oldest>>
         ELSE Process(s)
      /\ UNCHANGED <<interval, paused>>
  BY DEF InsertDepth
<1> HIDE DEF s
<1>5. snapshots' \in 0 .. MaxSnapshots
  <2>1. snapshots \in 0 .. MaxSnapshots /\ MaxSnapshots \in Nat
    BY <1>1, DepthHistoryAssumption DEF HistoryNumbers
  <2> QED
    BY <1>4, <2>1
<1>6. moment' \in Moments
  <2>1. moment \in Moments /\ moment \in Int /\ t \in Int
    BY <1>1, SnapshotsAreSnapshots DEF HistoryNumbers
  <2> QED
    BY <1>4, <2>1, MaxOfTwo
<1>7. CASE paused
  <2>1. /\ pauseBuffer' = Append(pauseBuffer, s)
        /\ UNCHANGED <<runs, lastSnapshot, interval, oldest>> /\ UNCHANGED tradeBuckets
    BY <1>4, <1>7
  <2>2. Explains(past)'
    BY <1>1, <1>2, <1>3, <1>4, <1>7, <2>1, HeldBackKeepsHistory
  <2>3. pauseBuffer' \in Seq(BookSnapshot)
    BY <1>1, <1>3, <2>1 DEF HistoryNumbers
  <2>4. HistoryNumbers'
    BY <1>1, <1>4, <1>5, <1>6, <2>1, <2>3 DEF HistoryNumbers
  <2> QED
    BY <2>2, <2>4 DEF HistoryInv
<1>8. CASE ~paused
  <2>1. Process(s) /\ UNCHANGED interval
    BY <1>4, <1>8
  <2>2. Explains(sights)' /\ lastSnapshot' \in Moments \cup {Never} /\ oldest' \in Moments
    BY <1>1, <1>2, <1>3, <1>4, <1>8, <2>1, ProcessKeepsHistory
  <2>3. pauseBuffer' = <<>> /\ tradeBuckets' \subseteq tradeBuckets
    BY <2>1 DEF Process, Kept
  <2>4. pauseBuffer' \in Seq(BookSnapshot)
    BY <2>3
  <2>5. HistoryNumbers'
    BY <1>1, <1>4, <1>5, <1>6, <2>2, <2>3, <2>4 DEF HistoryNumbers
  <2> QED
    BY <2>2, <2>5 DEF HistoryInv
<1> QED
  BY <1>7, <1>8

(* Every step keeps it.                                                    *)
LEMMA HistoryStep == HistoryInv /\ [HistoryNext]_historyVars => HistoryInv'
<1> SUFFICES ASSUME HistoryInv, [HistoryNext]_historyVars PROVE HistoryInv'
  OBVIOUS
<1>1. CASE \E book \in Books, t \in Moments : InsertDepth(book, t)
  BY <1>1, InsertKeepsHistory
<1>2. CASE HeatmapTrades
  BY <1>2, TradesKeepHistory
<1>3. CASE Pan
  BY <1>3, PanKeepsHistory
<1>4. CASE \E i \in Intervals : HeatmapBasis(i)
  <2>1. PICK i \in Intervals : HeatmapBasis(i)
    BY <1>4
  <2>2. StartOver /\ interval' \in Intervals /\ paused' \in BOOLEAN
    BY <2>1 DEF HeatmapBasis
  <2> QED
    BY <2>2, StartOverKeepsHistory
<1>5. CASE HeatmapTickSize
  <2>1. StartOver /\ interval' \in Intervals /\ paused' \in BOOLEAN
    BY <1>5 DEF HeatmapTickSize, HistoryInv, HistoryNumbers
  <2> QED
    BY <2>1, StartOverKeepsHistory
<1>6. CASE UNCHANGED historyVars
  <2>1. PICK past : Explains(past)
    BY DEF HistoryInv
  <2>2. Explains(past)'
    BY <1>6, <2>1, ExplainsStill DEF historyVars
  <2>3. HistoryNumbers'
    BY <1>6 DEF historyVars, HistoryNumbers, HistoryInv
  <2> QED
    BY <2>2, <2>3 DEF HistoryInv
<1> QED
  BY <1>1, <1>2, <1>3, <1>4, <1>5, <1>6 DEF HistoryNext

(* In every state some past explains what is shown.                        *)
LEMMA HistoryInvariant == HistorySpec => []HistoryInv
<1> QED
  BY HistoryInitInv, HistoryStep, PTL DEF HistorySpec

(* The runs of a level, by the invariant.                                  *)
LEMMA InvLevelFits ==
  ASSUME HistoryInv, NEW l \in Levels
  PROVE  /\ LevelFits(runs[l], lastSnapshot, interval)
         /\ Timed(runs[l]) /\ InOrder(runs[l])
         /\ runs = [k \in Levels |-> runs[k]]
<1> DEFINE h == [last |-> lastSnapshot, runs |-> runs]
<1>1. PICK past : Shows(h, past, oldest)
  BY DEF HistoryInv, Explains
<1>2. LevelShows(h.runs[l], h.last, past, l, oldest) /\ h.runs = [k \in Levels |-> h.runs[k]]
  BY <1>1 DEF Shows
<1>3. LevelFits(runs[l], lastSnapshot, interval)
  BY <1>2 DEF LevelShows
<1>4. runs[l] \in Seq(OrderRun) /\ InOrder(runs[l])
  BY <1>3 DEF LevelFits
<1>5. Timed(runs[l])
  BY <1>4, RunsTimed
<1> QED
  BY <1>2, <1>3, <1>4, <1>5

(* With nothing held back, what was seen explains the runs.                *)
LEMMA InvSettled ==
  ASSUME HistoryInv, Settled, NEW l \in Levels
  PROVE  LevelShows(runs[l], lastSnapshot, sights, l, oldest) /\ DOMAIN sights \subseteq Nat
<1> DEFINE h == [last |-> lastSnapshot, runs |-> runs]
<1>1. PICK past : Explains(past)
  BY DEF HistoryInv
<1>2. PICK W : IsSeeing(W, past, lastSnapshot, SortedBuffer) /\ sights = W[Len(SortedBuffer)]
  BY <1>1 DEF Explains
<1>3. SortedBuffer = <<>>
  BY NothingSorted DEF SortedBuffer, Settled
<1>4. Len(SortedBuffer) = 0
  BY <1>3
<1>5. sights = past
  BY <1>2, <1>4 DEF IsSeeing
<1>6. Shows(h, sights, oldest)
  BY <1>1, <1>5 DEF Explains
<1>7. LevelShows(h.runs[l], h.last, sights, l, oldest) /\ IsSights(sights)
  BY <1>6 DEF Shows
<1> QED
  BY <1>7 DEF IsSights

(* The runs of a level follow each other.                                  *)
LEMMA InvRunsInOrder == HistoryInv => RunsInOrder
BY InvLevelFits DEF RunsInOrder

(* What was seen is shown.                                                 *)
LEMMA InvSightsAreShown == HistoryInv => SightsAreShown
<1> SUFFICES ASSUME HistoryInv, Settled, NEW t \in DOMAIN sights, NEW l \in Levels,
                    t >= oldest, sights[t][l] # Nothing
             PROVE  Shown(l, t) = sights[t][l]
  BY DEF SightsAreShown
<1>1. LevelShows(runs[l], lastSnapshot, sights, l, oldest) /\ t \in Nat
  BY InvSettled
<1>2. PICK i \in DOMAIN runs[l] : Covers(runs[l][i], t) /\ runs[l][i].order = sights[t][l]
  BY <1>1 DEF LevelShows
<1>3. Timed(runs[l]) /\ InOrder(runs[l])
  BY InvLevelFits
<1>4. ShownIn(runs[l], t) = runs[l][i].order
  BY <1>1, <1>2, <1>3, ShownOnce
<1> QED
  BY <1>2, <1>4 DEF Shown

(* And nothing else, but for what is seen again after a gap.               *)
LEMMA InvNothingIsInvented == HistoryInv => NothingIsInvented
<1> SUFFICES ASSUME HistoryInv, Settled, \A t \in DOMAIN sights : t % interval = 0,
                    NEW t \in DOMAIN sights, NEW l \in Levels, t >= oldest, sights[t][l] = Nothing
             PROVE  Shown(l, t) = Nothing \/ SeenAgainAfterGap(l, t)
  BY DEF NothingIsInvented
<1>1. LevelShows(runs[l], lastSnapshot, sights, l, oldest) /\ DOMAIN sights \subseteq Nat
  BY InvSettled
<1>2. OnBuckets(sights)
  BY DEF OnBuckets
<1>3. \/ \A i \in DOMAIN runs[l] : ~Covers(runs[l][i], t)
      \/ \E m \in DOMAIN sights : ReseenAt(sights, l, t, m)
  BY <1>1, <1>2 DEF LevelShows
<1>4. CASE \A i \in DOMAIN runs[l] : ~Covers(runs[l][i], t)
  BY <1>4, ShownNot DEF Shown
<1>5. CASE \E m \in DOMAIN sights : ReseenAt(sights, l, t, m)
  <2> DEFINE later == {u \in DOMAIN sights : u > t /\ sights[u][l] # Nothing}
  <2>1. PICK m \in DOMAIN sights : ReseenAt(sights, l, t, m)
    BY <1>5
  <2>2. m \in later /\ \A u \in later : m <= u
    BY <2>1 DEF ReseenAt
  <2>3. later \subseteq Nat /\ later # {}
    BY <1>1, <2>2
  <2>4. \A u \in DOMAIN sights : u < m => u + interval < m
    BY <2>1 DEF ReseenAt
  <2> HIDE DEF later
  <2>5. Min(later) \in later /\ Min(later) <= m
    BY <2>2, <2>3, LeastOfNat
  <2>6. Min(later) = m
    BY <2>2, <2>3, <2>5
  <2>7. later # {} /\ AfterGap(Min(later))
    BY <2>3, <2>4, <2>6 DEF AfterGap
  <2> QED
    BY <2>7 DEF SeenAgainAfterGap, later
<1> QED
  BY <1>3, <1>4, <1>5

(* What is seen of snapshots is of the times and levels of the snapshots.  *)
LEMMA SightsOfAll ==
  ASSUME NEW past, IsSights(past), NEW M, DOMAIN past \subseteq M, NEW last,
         NEW ss, Len(ss) \in Nat, \A i \in 1 .. Len(ss) : IsSnapshot(ss[i]) /\ ss[i].time \in M,
         NEW W, IsSeeing(W, past, last, ss)
  PROVE  IsSights(W[Len(ss)]) /\ DOMAIN W[Len(ss)] \subseteq M
<1> DEFINE n == Len(ss)
           Right(k) == IsSights(W[k]) /\ DOMAIN W[k] \subseteq M
           D == {k \in 0 .. n : Right(k)}
<1>1. n \in Nat /\ \A i \in 1 .. n : IsSnapshot(ss[i]) /\ ss[i].time \in M
  OBVIOUS
<1>2. /\ W[0] = past
      /\ \A i \in 1 .. n : W[i] = IF ss[i].time < last THEN W[i - 1] ELSE Seen(W[i - 1], ss[i])
  BY DEF IsSeeing
<1> HIDE DEF n
<1>3. 0 \in D
  BY <1>1, <1>2
<1>4. ASSUME NEW k \in 0 .. n - 1, k \in D
      PROVE  k + 1 \in D
  <2> DEFINE s == ss[k + 1] w == W[k]
  <2>1. k + 1 \in 1 .. n /\ (k + 1) - 1 = k /\ k + 1 \in 0 .. n
    BY <1>1
  <2>2. IsSights(w) /\ DOMAIN w \subseteq M /\ IsSnapshot(s) /\ s.time \in M
    BY <1>1, <1>4, <2>1
  <2>3. W[k + 1] = w \/ W[k + 1] = Seen(w, s)
    BY <1>2, <2>1
  <2> HIDE DEF s, w
  <2>4. IsSights(Seen(w, s)) /\ DOMAIN Seen(w, s) = DOMAIN w \cup {s.time}
    BY <2>2, SightsSeen
  <2>5. Right(k + 1)
    BY <2>2, <2>3, <2>4
  <2> HIDE DEF Right
  <2> QED
    BY <2>1, <2>5
<1>5. Right(n)
  <2> HIDE DEF D
  <2>1. 0 .. n \subseteq D
    BY <1>1, <1>3, <1>4, SetInduction
  <2>2. n \in D
    BY <1>1, <2>1
  <2> HIDE DEF Right
  <2> QED
    BY <2>2 DEF D
<1> QED
  BY <1>5 DEF n

(* What was seen is of moments there were, with sizes there were.          *)
LEMMA InvSightsTyped ==
  ASSUME HistoryInv
  PROVE  DOMAIN sights \subseteq Moments /\ \A t \in DOMAIN sights : sights[t] \in [Levels -> Resting \cup {Nothing}]
<1> DEFINE h == [last |-> lastSnapshot, runs |-> runs]
<1>1. PICK past : Explains(past)
  BY DEF HistoryInv
<1>2. PICK W : IsSeeing(W, past, lastSnapshot, SortedBuffer) /\ sights = W[Len(SortedBuffer)]
  BY <1>1 DEF Explains
<1>3. /\ Len(SortedBuffer) \in Nat
      /\ \A i \in 1 .. Len(SortedBuffer) : IsSnapshot(SortedBuffer[i]) /\ SortedBuffer[i].time \in Moments
  BY BufferSorted DEF HistoryInv, HistoryNumbers, SortedBuffer
<1>4. /\ IsSights(past)
      /\ h.last = Never => DOMAIN past = {}
      /\ \A t \in DOMAIN past : t <= h.last
  BY <1>1 DEF Explains, Shows
<1>5. DOMAIN past \subseteq Moments
  <2>1. ASSUME NEW t \in DOMAIN past
        PROVE  t \in Moments
    <3>1. t \in Nat /\ t <= lastSnapshot /\ lastSnapshot # Never
      BY <1>4 DEF IsSights
    <3>2. lastSnapshot \in Moments /\ MaxMoment \in Nat
      BY <3>1, DepthHistoryAssumption DEF HistoryInv, HistoryNumbers
    <3> QED
      BY <3>1, <3>2 DEF Moments
  <2> QED
    BY <2>1
<1>6. IsSights(sights) /\ DOMAIN sights \subseteq Moments
  BY <1>2, <1>3, <1>4, <1>5, SightsOfAll
<1> QED
  BY <1>6 DEF IsSights

(* The runs have the types of runs, and end within the bounds.             *)
LEMMA InvRunsTyped ==
  ASSUME HistoryInv
  PROVE  runs \in [Levels -> Seq(Run)]
<1>1. interval \in Intervals /\ lastSnapshot \in Moments \cup {Never}
  BY DEF HistoryInv, HistoryNumbers
<1>2. PICK longest \in Intervals : \A i \in Intervals : i <= longest
  BY DepthHistoryAssumption
<1>3. Intervals \subseteq Nat /\ MaxMoment \in Nat
  BY DepthHistoryAssumption
<1>4. Max(Intervals) \in Intervals /\ \A i \in Intervals : Max(Intervals) >= i
  BY <1>2, <1>3, GreatestOfNat
<1> DEFINE x == Max(Intervals)
<1>5. x \in Nat /\ interval \in Nat /\ interval <= x
  BY <1>1, <1>3, <1>4
<1> HIDE DEF x
<1>6. ASSUME NEW l \in Levels
      PROVE  runs[l] \in Seq(Run)
  <2>1. LevelFits(runs[l], lastSnapshot, interval)
    BY InvLevelFits
  <2>2. runs[l] \in Seq(OrderRun) /\ \A i \in DOMAIN runs[l] : runs[l][i].start <= lastSnapshot
                                                             /\ runs[l][i].until <= lastSnapshot + interval
    BY <2>1 DEF LevelFits
  <2>3. ASSUME NEW i \in DOMAIN runs[l]
        PROVE  runs[l][i] \in Run
    <3> DEFINE r == runs[l][i]
    <3>1. r \in OrderRun /\ r.start <= lastSnapshot /\ r.until <= lastSnapshot + interval
      BY <2>2
    <3> HIDE DEF r
    <3>2. r.start \in Nat /\ r.until \in Nat /\ r.order \in Resting
          /\ r = [start |-> r.start, until |-> r.until, order |-> r.order]
      BY <3>1 DEF OrderRun
    <3>3. lastSnapshot \in Moments
      BY <1>1, <3>1, <3>2 DEF Never
    <3>4. lastSnapshot \in Nat /\ lastSnapshot <= MaxMoment
      BY <1>3, <3>3 DEF Moments
    <3>5. r.start \in Moments /\ r.until \in 0 .. MaxMoment + x
      BY <1>3, <1>5, <3>1, <3>2, <3>4 DEF Moments
    <3>6. r \in Run
      BY <3>2, <3>5 DEF Run, x
    <3> QED
      BY <3>6 DEF r
  <2> QED
    BY <2>2, <2>3
<1>7. runs = [l \in Levels |-> runs[l]]
  <2> DEFINE h == [last |-> lastSnapshot, runs |-> runs]
  <2>1. h.runs = [l \in Levels |-> h.runs[l]]
    BY DEF HistoryInv, Explains, Shows
  <2> QED
    BY <2>1
<1> QED
  BY <1>6, <1>7

(* The heatmap keeps to its types.                                         *)
LEMMA InvHistoryTyped == HistoryInv => TypeOKHistory
<1> SUFFICES ASSUME HistoryInv PROVE TypeOKHistory
  OBVIOUS
<1>1. HistoryNumbers
  BY DEF HistoryInv
<1>2. \A i \in DOMAIN pauseBuffer : pauseBuffer[i].time \in Moments /\ pauseBuffer[i].book \in Books
  <2>1. pauseBuffer \in Seq(BookSnapshot)
    BY <1>1 DEF HistoryNumbers
  <2>2. \A i \in DOMAIN pauseBuffer : pauseBuffer[i] \in BookSnapshot
    BY <2>1
  <2> QED
    BY <2>2 DEF BookSnapshot
<1> QED
  BY <1>1, <1>2, InvRunsTyped, InvSightsTyped DEF HistoryNumbers, TypeOKHistory

(* The types of the heatmap, in every state: no run ends later than the    *)
(* longest basis after the last moment (HeatmapChart).                     *)
THEOREM HistoryTypeCorrect == HistorySpec => []TypeOKHistory
<1> QED
  BY HistoryInvariant, InvHistoryTyped, PTL

-----------------------------------------------------------------------------
(* The box of a level with one run more, as Coalesce takes them in turn.   *)
WithRun(merged, r, kind) ==
  IF merged # <<>> /\ Joins(Last(merged), r, kind)
  THEN [merged EXCEPT ![Len(merged)] = MergeRun(@, r)]
  ELSE Append(merged, NewCoalescing(r))

(* The recursion of Coalesce written out.                                  *)
IsCoalescing(W, rs, kind) ==
  /\ W[0] = <<>>
  /\ \A i \in 1 .. Len(rs) : W[i] = WithRun(W[i - 1], rs[i], kind)

(* The recursion of Coalesce defines a function.                           *)
LEMMA CoalesceDef ==
  ASSUME NEW rs, Len(rs) \in Nat, NEW kind
  PROVE  \E W : IsCoalescing(W, rs, kind) /\ Coalesce(rs, kind) = W[Len(rs)]
<1> DEFINE n == Len(rs)
           Take(w, i) == WithRun(w, rs[i], kind)
           Graph(f, k) == f = [i \in 0 .. k |-> IF i = 0 THEN <<>> ELSE Take(f[i - 1], i)]
           T == {k \in 0 .. n : \E f : Graph(f, k)}
<1>0. n \in Nat
  OBVIOUS
<1>1. Coalesce(rs, kind) = (CHOOSE W : Graph(W, n))[n]
  BY DEF Coalesce, WithRun
<1> HIDE DEF Take, n
<1>2. 0 \in T
  <2>1. Graph([i \in 0 .. 0 |-> <<>>], 0)
    OBVIOUS
  <2> HIDE DEF Graph
  <2>2. \E f : Graph(f, 0)
    BY <2>1
  <2> QED
    BY <1>0, <2>2
<1>3. ASSUME NEW k \in 0 .. n - 1, k \in T
      PROVE  k + 1 \in T
  <2>1. PICK f : Graph(f, k)
    BY <1>3
  <2> DEFINE g == [i \in 0 .. k + 1 |-> IF i = k + 1 THEN Take(f[k], k + 1) ELSE f[i]]
  <2>2. \A i \in 0 .. k : g[i] = f[i]
    BY <1>0
  <2>3. g[k + 1] = Take(f[k], k + 1) /\ k + 1 # 0
    BY <1>0
  <2>4. ASSUME NEW i \in 0 .. k + 1
        PROVE  g[i] = IF i = 0 THEN <<>> ELSE Take(g[i - 1], i)
    <3>1. CASE i = k + 1
      BY <1>0, <2>2, <2>3, <3>1
    <3>2. CASE i # k + 1
      <4>1. i \in 0 .. k /\ (i # 0 => i - 1 \in 0 .. k)
        BY <1>0, <3>2
      <4>2. f[i] = IF i = 0 THEN <<>> ELSE Take(f[i - 1], i)
        BY <2>1, <4>1
      <4> HIDE DEF g
      <4> QED
        BY <2>2, <4>1, <4>2
    <3> QED
      BY <3>1, <3>2
  <2>5. Graph(g, k + 1)
    BY <2>4
  <2> HIDE DEF g, Graph
  <2>6. \E x : Graph(x, k + 1)
    BY <2>5
  <2> QED
    BY <1>0, <2>6
<1>4. n \in T
  <2> HIDE DEF T
  <2>1. 0 .. n \subseteq T
    BY <1>0, <1>2, <1>3, SetInduction
  <2> QED
    BY <1>0, <2>1
<1> DEFINE W == CHOOSE W : Graph(W, n)
<1>5. Graph(W, n)
  BY <1>4
<1> HIDE DEF W
<1>6. W[0] = <<>> /\ \A i \in 1 .. n : W[i] = Take(W[i - 1], i)
  BY <1>0, <1>5
<1>7. IsCoalescing(W, rs, kind)
  BY <1>6 DEF IsCoalescing, n, Take
<1> QED
  BY <1>1, <1>7 DEF W, n

(* Boxes in the making: the sizes they were made of lie between the        *)
(* smallest and the largest, and so does every sum of them.                *)
GrowingBox ==
  [start : Nat, until : Nat, isBid : BOOLEAN, sum : Nat, count : Nat \ {0},
   first : Nat \ {0}, max : Nat \ {0}, least : Nat \ {0}]

(* The sum of a box is between the least and the largest size times the    *)
(* number of runs.                                                         *)
Balanced(c) ==
  /\ c.least <= c.first /\ c.first <= c.max
  /\ c.least * c.count <= c.sum /\ c.sum <= c.max * c.count

(* A multiple of a sum is the sum of the multiples.                        *)
LEMMA OneTimeMore ==
  ASSUME NEW a \in Nat, NEW n \in Nat \ {0}
  PROVE  a * (n + 1) = a * n + a /\ a * 1 = a /\ a * n \in Nat
BY Z3

(* The rounded average of numbers is not below the smallest of them and    *)
(* not above the largest.                                                  *)
LEMMA AverageWithin ==
  ASSUME NEW c \in GrowingBox, Balanced(c)
  PROVE  AverageQty(c) \in c.least .. c.max
<1> DEFINE n == c.count lo == c.least hi == c.max s == c.sum d == n \div 2 q == (s + d) \div n
<1>1. n \in Nat \ {0} /\ lo \in Nat /\ hi \in Nat /\ s \in Nat /\ lo * n <= s /\ s <= hi * n
  BY DEF GrowingBox, Balanced
<1>2. AverageQty(c) = q
  BY DEF AverageQty
<1> HIDE DEF n, lo, hi, s, d, q
<1>3. d \in Nat /\ d < n
  BY <1>1 DEF d
<1>4. q \in Nat /\ q * n <= s + d /\ s + d < (q + 1) * n
  <2>1. ASSUME NEW a \in Nat, NEW b \in Nat \ {0}
        PROVE  a \div b \in Nat /\ (a \div b) * b <= a /\ a < (a \div b + 1) * b
    BY <2>1, Z3
  <2>2. s + d \in Nat
    BY <1>1, <1>3
  <2> QED
    BY <1>1, <2>1, <2>2 DEF q
<1>5. lo <= q
  <2>1. CASE q + 1 <= lo
    <3>1. (q + 1) * n <= lo * n /\ (q + 1) * n \in Nat /\ lo * n \in Nat
      BY <1>1, <1>4, <2>1, Multiples
    <3> DEFINE x == (q + 1) * n y == lo * n
    <3> HIDE DEF x, y
    <3>2. x \in Nat /\ y \in Nat /\ x <= y /\ y <= s /\ s + d < x
      BY <1>1, <1>4, <3>1 DEF x, y
    <3> QED
      BY <1>1, <1>3, <3>2
  <2> QED
    BY <1>1, <1>4, <2>1
<1>6. q <= hi
  <2>1. CASE hi + 1 <= q
    <3>1. /\ (hi + 1) * n <= q * n /\ (hi + 1) * n = hi * n + n /\ hi * n \in Nat /\ q * n \in Nat
      BY <1>1, <1>4, <2>1, Multiples
    <3> DEFINE x == q * n y == hi * n
    <3> HIDE DEF x, y
    <3>2. x \in Nat /\ y \in Nat /\ y + n <= x /\ s <= y /\ x <= s + d
      BY <1>1, <1>4, <3>1 DEF x, y
    <3> QED
      BY <1>1, <1>3, <3>2
  <2> QED
    BY <1>1, <1>4, <2>1
<1>7. q \in lo .. hi
  BY <1>1, <1>4, <1>5, <1>6
<1> QED
  BY <1>2, <1>7 DEF lo, hi

(* The size of a box is one between those it was made of.                  *)
LEMMA FinalWithin ==
  ASSUME NEW c \in GrowingBox, Balanced(c), NEW kind \in CoalesceKinds
  PROVE  FinalQty(c, kind) \in c.least .. c.max /\ FinalQty(c, kind) \in Nat \ {0}
<1>1. /\ c.least \in Nat \ {0} /\ c.first \in Nat /\ c.max \in Nat
      /\ c.least <= c.first /\ c.first <= c.max
  BY DEF GrowingBox, Balanced
<1>2. AverageQty(c) \in c.least .. c.max
  BY AverageWithin
<1>3. FinalQty(c, kind) \in c.least .. c.max
  BY <1>1, <1>2 DEF FinalQty, CoalesceKinds
<1> QED
  BY <1>1, <1>3

(* A run alone is a box.                                                   *)
LEMMA BoxBegun ==
  ASSUME NEW r \in OrderRun
  PROVE  LET c == NewCoalescing(r)
         IN /\ c \in GrowingBox /\ Balanced(c)
            /\ c.start = r.start /\ c.until = r.until /\ c.isBid = r.order.isBid
<1> DEFINE q == r.order.qty c == NewCoalescing(r)
<1>1. r.start \in Nat /\ r.until \in Nat /\ r.order \in Resting
  BY DEF OrderRun
<1>2. q \in Nat \ {0} /\ r.order.isBid \in BOOLEAN
  BY <1>1, RestingIsSomething
<1>3. /\ c = [start |-> r.start, until |-> r.until, isBid |-> r.order.isBid, sum |-> q, count |-> 1,
              first |-> q, max |-> q, least |-> q]
  BY DEF NewCoalescing
<1> HIDE DEF c, q
<1>4. c \in GrowingBox
  BY <1>1, <1>2, <1>3 DEF GrowingBox
<1>5. /\ c.start = r.start /\ c.until = r.until /\ c.isBid = r.order.isBid
      /\ c.sum = q /\ c.count = 1 /\ c.first = q /\ c.max = q /\ c.least = q
  BY <1>3
<1>6. Balanced(c)
  BY <1>2, <1>5 DEF Balanced
<1> QED
  BY <1>4, <1>5, <1>6 DEF c

(* A run that touches a box makes it longer.                               *)
LEMMA BoxGrown ==
  ASSUME NEW c \in GrowingBox, Balanced(c), NEW r \in OrderRun, r.start <= r.until, c.until <= r.until
  PROVE  LET m == MergeRun(c, r)
         IN /\ m \in GrowingBox /\ Balanced(m)
            /\ m.start = c.start /\ m.until = r.until /\ m.isBid = c.isBid
<1> DEFINE q == r.order.qty m == MergeRun(c, r) n == c.count
           hi == IF c.max >= q THEN c.max ELSE q
           lo == IF c.least <= q THEN c.least ELSE q
<1>1. r.start \in Nat /\ r.until \in Nat /\ r.order \in Resting
  BY DEF OrderRun
<1>2. q \in Nat \ {0}
  BY <1>1, RestingIsSomething
<1>3. /\ c.start \in Nat /\ c.until \in Nat /\ c.isBid \in BOOLEAN /\ c.sum \in Nat /\ n \in Nat \ {0}
      /\ c.first \in Nat \ {0} /\ c.max \in Nat \ {0} /\ c.least \in Nat \ {0}
      /\ c = [start |-> c.start, until |-> c.until, isBid |-> c.isBid, sum |-> c.sum, count |-> n,
              first |-> c.first, max |-> c.max, least |-> c.least]
  BY DEF GrowingBox
<1>4. Max({c.until, r.until}) = r.until
  <2>1. Max({c.until, r.until}) = (IF c.until >= r.until THEN c.until ELSE r.until)
    BY <1>1, <1>3, MaxOfTwo
  <2> QED
    BY <1>1, <1>3, <2>1
<1>5. Max({c.max, q}) = hi
  BY <1>2, <1>3, MaxOfTwo
<1>6. Min({c.least, q}) = lo
  BY <1>2, <1>3, MinOfTwo
<1>7. m = [start |-> c.start, until |-> r.until, isBid |-> c.isBid, sum |-> c.sum + q, count |-> n + 1,
           first |-> c.first, max |-> hi, least |-> lo]
  <2>1. m = [c EXCEPT !.until = Max({c.until, r.until}), !.sum = c.sum + q, !.count = n + 1,
                      !.max = Max({c.max, q}), !.least = Min({c.least, q})]
    BY DEF MergeRun
  <2> HIDE DEF m, q, n, hi, lo
  <2> QED
    BY <1>3, <1>4, <1>5, <1>6, <2>1
<1> HIDE DEF m, q, n
<1>8. lo \in Nat \ {0} /\ hi \in Nat \ {0} /\ lo <= c.least /\ lo <= q /\ c.max <= hi /\ q <= hi
  BY <1>2, <1>3
<1> HIDE DEF lo, hi
<1>9. m \in GrowingBox
  BY <1>1, <1>2, <1>3, <1>7, <1>8 DEF GrowingBox
<1>10. /\ m.start = c.start /\ m.until = r.until /\ m.isBid = c.isBid
       /\ m.sum = c.sum + q /\ m.count = n + 1 /\ m.first = c.first /\ m.max = hi /\ m.least = lo
  BY <1>7
<1>11. Balanced(m)
  <2>1. /\ c.least <= c.first /\ c.first <= c.max /\ c.least * n <= c.sum /\ c.sum <= c.max * n
    BY DEF Balanced, n
  <2>2. lo * n <= c.least * n /\ c.max * n <= hi * n
    BY <1>3, <1>8, Multiples
  <2>3. lo * (n + 1) = lo * n + lo /\ hi * (n + 1) = hi * n + hi /\ lo * n \in Nat /\ hi * n \in Nat
    BY <1>3, <1>8, OneTimeMore
  <2>4. c.least * n \in Nat /\ c.max * n \in Nat
    BY <1>3, OneTimeMore
  <2> DEFINE w == lo * n x == c.least * n y == c.max * n z == hi * n
  <2> HIDE DEF w, x, y, z
  <2>5. w \in Nat /\ x \in Nat /\ y \in Nat /\ z \in Nat /\ w <= x /\ y <= z /\ x <= c.sum /\ c.sum <= y
        /\ lo * (n + 1) = w + lo /\ hi * (n + 1) = z + hi
    BY <2>1, <2>2, <2>3, <2>4 DEF w, x, y, z
  <2>6. w + lo <= c.sum + q /\ c.sum + q <= z + hi
    BY <1>2, <1>3, <1>8, <2>5
  <2>7. lo <= c.first /\ c.first <= hi
    BY <1>3, <1>8, <2>1
  <2> QED
    BY <1>10, <2>5, <2>6, <2>7 DEF Balanced
<1> QED
  BY <1>9, <1>10, <1>11 DEF m

(* Where the boxes of a side are.                                          *)
BoxAt(merged, t, b) == \E j \in DOMAIN merged : Covers(merged[j], t) /\ merged[j].isBid = b

(* Where the runs of a side are.                                           *)
RunAt(rs, t, b) == \E i \in DOMAIN rs : Covers(rs[i], t) /\ rs[i].order.isBid = b

(* Boxes in order, each of them balanced.                                  *)
GoodBoxes(merged) ==
  merged \in Seq(GrowingBox) /\ InOrder(merged) /\ \A j \in DOMAIN merged : Balanced(merged[j])

(* A run more, behind the others: it makes the last box longer or begins   *)
(* one, and the boxes are where they were and where it is.                 *)
LEMMA RunTaken ==
  ASSUME NEW merged, GoodBoxes(merged), NEW r \in OrderRun, r.start <= r.until,
         merged # <<>> => Last(merged).until <= r.start, NEW kind
  PROVE  LET e == WithRun(merged, r, kind)
         IN /\ GoodBoxes(e) /\ e # <<>> /\ Last(e).until = r.until
            /\ \A t \in Nat, b \in BOOLEAN :
                 BoxAt(e, t, b) <=> BoxAt(merged, t, b) \/ (Covers(r, t) /\ r.order.isBid = b)
<1> DEFINE n == Len(merged) e == WithRun(merged, r, kind)
<1>1. /\ merged \in Seq(GrowingBox) /\ n \in Nat /\ DOMAIN merged = 1 .. n
      /\ \A j \in 1 .. n : merged[j] \in GrowingBox /\ Balanced(merged[j])
  BY DEF GoodBoxes
<1>2. /\ \A j \in 1 .. n : merged[j].start <= merged[j].until
      /\ \A j \in 1 .. n - 1 : merged[j].until <= merged[j + 1].start
  BY <1>1 DEF GoodBoxes, InOrder
<1>3. \A j \in 1 .. n : merged[j].start \in Nat /\ merged[j].until \in Nat
  BY <1>1 DEF GrowingBox
<1>4. r.start \in Nat /\ r.until \in Nat
  BY DEF OrderRun
<1> DEFINE c == merged[n]
<1>5. merged # <<>> => n > 0 /\ n \in 1 .. n /\ Last(merged) = c /\ c.until <= r.start
  BY <1>1 DEF Last
<1>6. CASE merged # <<>> /\ Joins(Last(merged), r, kind)
  <2> DEFINE m == MergeRun(c, r)
  <2>1. n > 0 /\ n \in 1 .. n /\ c \in GrowingBox /\ Balanced(c) /\ c.until <= r.start /\ c.until <= r.until
    BY <1>1, <1>3, <1>4, <1>5, <1>6
  <2>2. r.start <= c.until /\ r.order.isBid = c.isBid
    BY <1>5, <1>6 DEF Joins
  <2>3. /\ m \in GrowingBox /\ Balanced(m)
        /\ m.start = c.start /\ m.until = r.until /\ m.isBid = c.isBid
    <3> HIDE DEF c
    <3> QED
      BY <2>1, BoxGrown
  <2>4. e = [merged EXCEPT ![n] = m]
    BY <1>6 DEF WithRun
  <2> HIDE DEF e, m, n
  <2>5. /\ e \in Seq(GrowingBox) /\ Len(e) = n /\ DOMAIN e = 1 .. n /\ e[n] = m
        /\ \A j \in 1 .. n : j # n => e[j] = merged[j]
    BY <1>1, <2>1, <2>3, <2>4 DEF n
  <2>6. c.until = r.start /\ c.start <= c.until /\ c.start \in Nat
    BY <1>2, <1>3, <1>4, <2>1, <2>2
  <2> HIDE DEF c
  <2>7. \A j \in 1 .. n : e[j].start = merged[j].start
    BY <2>1, <2>3, <2>5 DEF c
  <2>8. InOrder(e)
    <3>1. \A j \in 1 .. n : e[j].start <= e[j].until
      BY <1>2, <1>4, <2>3, <2>5, <2>6
    <3>2. ASSUME NEW j \in 1 .. n - 1
          PROVE  e[j].until <= e[j + 1].start
      <4>1. j \in 1 .. n /\ j + 1 \in 1 .. n /\ j # n
        BY <1>1
      <4>2. e[j] = merged[j] /\ e[j + 1].start = merged[j + 1].start
        BY <2>5, <2>7, <4>1
      <4> QED
        BY <1>2, <4>2
    <3> QED
      BY <2>5, <3>1, <3>2 DEF InOrder
  <2>9. GoodBoxes(e)
    <3>1. \A j \in 1 .. n : Balanced(e[j])
      BY <1>1, <2>3, <2>5
    <3> QED
      BY <2>5, <2>8, <3>1 DEF GoodBoxes
  <2>10. e # <<>> /\ Last(e).until = r.until
    <3>1. Len(e) # 0 /\ Last(e) = e[n]
      BY <2>1, <2>5 DEF Last
    <3>2. Len(<<>>) = 0
      OBVIOUS
    <3> QED
      BY <2>3, <2>5, <3>1, <3>2
  <2>11. ASSUME NEW t \in Nat
         PROVE  Covers(m, t) <=> Covers(c, t) \/ Covers(r, t)
    BY <1>4, <2>3, <2>6 DEF Covers
  <2>12. ASSUME NEW t \in Nat, NEW b \in BOOLEAN
         PROVE  BoxAt(e, t, b) <=> BoxAt(merged, t, b) \/ (Covers(r, t) /\ r.order.isBid = b)
    <3>1. ASSUME NEW j \in 1 .. n, Covers(e[j], t), e[j].isBid = b
          PROVE  BoxAt(merged, t, b) \/ (Covers(r, t) /\ r.order.isBid = b)
      <4>1. CASE j # n
        BY <1>1, <2>5, <3>1, <4>1 DEF BoxAt
      <4>2. CASE j = n
        <5>1. (Covers(c, t) \/ Covers(r, t)) /\ c.isBid = b
          BY <2>3, <2>5, <2>11, <3>1, <4>2
        <5> QED
          BY <1>1, <2>1, <2>2, <5>1 DEF BoxAt, c
      <4> QED
        BY <4>1, <4>2
    <3>2. ASSUME NEW j \in 1 .. n, Covers(merged[j], t), merged[j].isBid = b
          PROVE  BoxAt(e, t, b)
      <4>1. CASE j # n
        BY <2>5, <3>2, <4>1 DEF BoxAt
      <4>2. CASE j = n
        <5>1. Covers(m, t) /\ m.isBid = b
          BY <2>3, <2>11, <3>2, <4>2 DEF c
        <5> QED
          BY <2>1, <2>5, <5>1 DEF BoxAt
      <4> QED
        BY <4>1, <4>2
    <3>3. ASSUME Covers(r, t), r.order.isBid = b
          PROVE  BoxAt(e, t, b)
      <4>1. Covers(m, t) /\ m.isBid = b
        BY <2>2, <2>3, <2>11, <3>3
      <4> QED
        BY <2>1, <2>5, <4>1 DEF BoxAt
    <3> QED
      BY <1>1, <2>5, <3>1, <3>2, <3>3 DEF BoxAt
  <2> QED
    BY <2>9, <2>10, <2>12 DEF e
<1>7. CASE ~(merged # <<>> /\ Joins(Last(merged), r, kind))
  <2> DEFINE m == NewCoalescing(r)
  <2>1. /\ m \in GrowingBox /\ Balanced(m)
        /\ m.start = r.start /\ m.until = r.until /\ m.isBid = r.order.isBid
    BY BoxBegun
  <2>2. e = Append(merged, m)
    BY <1>7 DEF WithRun
  <2> HIDE DEF e, m, n
  <2>3. /\ e \in Seq(GrowingBox) /\ Len(e) = n + 1 /\ DOMAIN e = 1 .. n + 1 /\ e[n + 1] = m
        /\ \A j \in 1 .. n : e[j] = merged[j]
    BY <1>1, <2>1, <2>2 DEF n
  <2>4. \A j \in 1 .. n + 1 : j \in 1 .. n \/ j = n + 1
    BY <1>1
  <2>5. /\ n + 1 \in 1 .. n + 1 /\ n + 1 # 0 /\ \A j \in 1 .. n : j \in 1 .. n + 1
    BY <1>1
  <2>6. InOrder(e)
    <3>1. \A j \in 1 .. n + 1 : e[j].start <= e[j].until
      BY <1>2, <2>1, <2>3, <2>4
    <3>2. ASSUME NEW j \in 1 .. n
          PROVE  e[j].until <= e[j + 1].start
      <4>1. CASE j = n
        <5>1. n # 0 /\ e[j] = c /\ e[j + 1] = m
          BY <1>1, <2>3, <4>1
        <5>2. merged # <<>>
          BY <5>1 DEF n
        <5> QED
          BY <1>5, <2>1, <5>1, <5>2
      <4>2. CASE j # n
        <5>1. j \in 1 .. n - 1 /\ j + 1 \in 1 .. n
          BY <1>1, <4>2
        <5> QED
          BY <1>2, <2>3, <5>1
      <4> QED
        BY <4>1, <4>2
    <3>3. (n + 1) - 1 = n
      BY <1>1
    <3> QED
      BY <2>3, <3>1, <3>2, <3>3 DEF InOrder
  <2>7. GoodBoxes(e)
    <3>1. \A j \in 1 .. n + 1 : Balanced(e[j])
      BY <1>1, <2>1, <2>3, <2>4
    <3> QED
      BY <2>3, <2>6, <3>1 DEF GoodBoxes
  <2>8. e # <<>> /\ Last(e).until = r.until
    <3>1. Len(e) # 0 /\ Last(e) = e[n + 1]
      BY <2>3, <2>5 DEF Last
    <3>2. Len(<<>>) = 0
      OBVIOUS
    <3> QED
      BY <2>1, <2>3, <3>1, <3>2
  <2>9. ASSUME NEW t \in Nat, NEW b \in BOOLEAN
        PROVE  BoxAt(e, t, b) <=> BoxAt(merged, t, b) \/ (Covers(r, t) /\ r.order.isBid = b)
    <3>1. Covers(m, t) <=> Covers(r, t)
      BY <2>1 DEF Covers
    <3>2. ASSUME NEW j \in 1 .. n + 1, Covers(e[j], t), e[j].isBid = b
          PROVE  BoxAt(merged, t, b) \/ (Covers(r, t) /\ r.order.isBid = b)
      <4>1. CASE j = n + 1
        BY <2>1, <2>3, <3>1, <3>2, <4>1
      <4>2. CASE j \in 1 .. n
        BY <1>1, <2>3, <3>2, <4>2 DEF BoxAt
      <4> QED
        BY <2>4, <4>1, <4>2
    <3>3. ASSUME NEW j \in 1 .. n, Covers(merged[j], t), merged[j].isBid = b
          PROVE  BoxAt(e, t, b)
      BY <2>3, <2>5, <3>3 DEF BoxAt
    <3>4. ASSUME Covers(r, t), r.order.isBid = b
          PROVE  BoxAt(e, t, b)
      BY <2>1, <2>3, <2>5, <3>1, <3>4 DEF BoxAt
    <3> QED
      BY <1>1, <2>3, <3>2, <3>3, <3>4 DEF BoxAt
  <2> QED
    BY <2>7, <2>8, <2>9 DEF e
<1> QED
  BY <1>6, <1>7

(* The boxes of a level are where its runs are, each side where it is.     *)
LEMMA BoxesAreTheRuns ==
  ASSUME NEW rs \in Seq(OrderRun), InOrder(rs), NEW kind
  PROVE  /\ GoodBoxes(Coalesce(rs, kind))
         /\ \A t \in Nat, b \in BOOLEAN : BoxAt(Coalesce(rs, kind), t, b) <=> RunAt(rs, t, b)
<1> DEFINE n == Len(rs)
<1>1. n \in Nat /\ DOMAIN rs = 1 .. n
  OBVIOUS
<1>2. PICK W : IsCoalescing(W, rs, kind) /\ Coalesce(rs, kind) = W[n]
  BY <1>1, CoalesceDef
<1>3. W[0] = <<>> /\ \A i \in 1 .. n : W[i] = WithRun(W[i - 1], rs[i], kind)
  BY <1>2 DEF IsCoalescing
<1>4. /\ \A i \in 1 .. n : rs[i] \in OrderRun /\ rs[i].start <= rs[i].until
      /\ \A i \in 1 .. n - 1 : rs[i].until <= rs[i + 1].start
  BY <1>1 DEF InOrder
<1> HIDE DEF n
<1> DEFINE RunUpTo(k, t, b) == \E i \in 1 .. k : Covers(rs[i], t) /\ rs[i].order.isBid = b
           Right(k) ==
             /\ GoodBoxes(W[k])
             /\ k > 0 => W[k] # <<>> /\ Last(W[k]).until = rs[k].until
             /\ \A t \in Nat, b \in BOOLEAN : BoxAt(W[k], t, b) <=> RunUpTo(k, t, b)
           D == {k \in 0 .. n : Right(k)}
<1>5. 0 \in D
  <2>1. W[0] \in Seq(GrowingBox) /\ Len(W[0]) = 0 /\ DOMAIN W[0] = {}
    BY <1>3
  <2>2. GoodBoxes(W[0])
    BY <2>1 DEF GoodBoxes, InOrder
  <2>3. \A t \in Nat, b \in BOOLEAN : ~BoxAt(W[0], t, b) /\ ~RunUpTo(0, t, b)
    BY <2>1 DEF BoxAt
  <2>4. Right(0)
    BY <2>2, <2>3
  <2> HIDE DEF Right
  <2> QED
    BY <1>1, <2>4
<1>6. ASSUME NEW k \in 0 .. n - 1, k \in D
      PROVE  k + 1 \in D
  <2> DEFINE w == W[k] r == rs[k + 1] e == WithRun(w, r, kind)
  <2>1. k + 1 \in 1 .. n /\ (k + 1) - 1 = k /\ k \in Nat /\ k + 1 \in 0 .. n /\ k + 1 > 0
    BY <1>1
  <2>2. /\ GoodBoxes(w)
        /\ k > 0 => w # <<>> /\ Last(w).until = rs[k].until
        /\ \A t \in Nat, b \in BOOLEAN : BoxAt(w, t, b) <=> RunUpTo(k, t, b)
    BY <1>6
  <2>3. W[k + 1] = e
    BY <1>3, <2>1
  <2>4. r \in OrderRun /\ r.start <= r.until
    BY <1>4, <2>1
  <2>5. w # <<>> => Last(w).until <= r.start
    <3>1. CASE k = 0
      BY <1>3, <3>1
    <3>2. CASE k # 0
      <4>1. k > 0 /\ k \in 1 .. n - 1
        BY <1>1, <2>1, <3>2
      <4> QED
        BY <1>4, <2>2, <4>1
    <3> QED
      BY <3>1, <3>2
  <2> HIDE DEF w, r
  <2>6. /\ GoodBoxes(e) /\ e # <<>> /\ Last(e).until = r.until
        /\ \A t \in Nat, b \in BOOLEAN :
             BoxAt(e, t, b) <=> BoxAt(w, t, b) \/ (Covers(r, t) /\ r.order.isBid = b)
    BY <2>2, <2>4, <2>5, RunTaken
  <2> HIDE DEF e
  <2>7. ASSUME NEW t \in Nat, NEW b \in BOOLEAN
        PROVE  BoxAt(e, t, b) <=> RunUpTo(k + 1, t, b)
    <3>1. RunUpTo(k + 1, t, b) <=> RunUpTo(k, t, b) \/ (Covers(r, t) /\ r.order.isBid = b)
      <4>1. \A i \in 1 .. k + 1 : i \in 1 .. k \/ i = k + 1
        BY <2>1
      <4>2. /\ \A i \in 1 .. k : i \in 1 .. k + 1
            /\ k + 1 \in 1 .. k + 1
        BY <2>1
      <4> QED
        BY <4>1, <4>2 DEF r
    <3> HIDE DEF RunUpTo
    <3> QED
      BY <2>2, <2>6, <3>1
  <2> HIDE DEF RunUpTo
  <2>8. Right(k + 1)
    BY <2>3, <2>6, <2>7 DEF r
  <2> HIDE DEF Right
  <2> QED
    BY <2>1, <2>8
<1>7. Right(n)
  <2> HIDE DEF D
  <2>1. 0 .. n \subseteq D
    BY <1>1, <1>5, <1>6, SetInduction
  <2>2. n \in D
    BY <1>1, <2>1
  <2> HIDE DEF Right
  <2> QED
    BY <2>2 DEF D
<1>8. \A t \in Nat, b \in BOOLEAN : RunUpTo(n, t, b) <=> RunAt(rs, t, b)
  BY <1>1 DEF RunAt
<1> HIDE DEF RunUpTo
<1> QED
  BY <1>2, <1>7, <1>8

(* Joining changes no box's place.                                         *)
LEMMA JoiningKeepsPlaces ==
  ASSUME NEW l, runs[l] \in Seq(OrderRun), InOrder(runs[l]), NEW kind \in CoalesceKinds
  PROVE  /\ InOrder(CoalescedRuns(l, kind)) /\ Between(l, kind)
         /\ \A t \in Nat :
              /\ (ShownIn(CoalescedRuns(l, kind), t) = Nothing) = (Shown(l, t) = Nothing)
              /\ ShownIn(CoalescedRuns(l, kind), t).isBid = Shown(l, t).isBid
<1> DEFINE rs == runs[l] c == Coalesce(rs, kind) n == Len(c) joined == CoalescedRuns(l, kind)
<1>1. GoodBoxes(c) /\ \A t \in Nat, b \in BOOLEAN : BoxAt(c, t, b) <=> RunAt(rs, t, b)
  BY BoxesAreTheRuns
<1>2. joined = [i \in DOMAIN c |-> [start |-> c[i].start, until |-> c[i].until,
                                    order |-> [qty |-> FinalQty(c[i], kind), isBid |-> c[i].isBid]]]
  BY DEF CoalescedRuns
<1>3. rs \in Seq(OrderRun) /\ InOrder(rs)
  OBVIOUS
<1>4. Between(l, kind) <=> \A i \in DOMAIN c : FinalQty(c[i], kind) \in c[i].least .. c[i].max
  BY DEF Between
<1>5. \A t \in Nat : Shown(l, t) = ShownIn(rs, t)
  BY DEF Shown
<1> HIDE DEF rs, c, joined
<1>6. n \in Nat /\ DOMAIN c = 1 .. n /\ \A i \in 1 .. n : c[i] \in GrowingBox /\ Balanced(c[i])
  BY <1>1 DEF GoodBoxes
<1> HIDE DEF n
<1>7. \A i \in 1 .. n : c[i].start \in Nat /\ c[i].until \in Nat /\ c[i].isBid \in BOOLEAN
  BY <1>6 DEF GrowingBox
<1>8. \A i \in 1 .. n : FinalQty(c[i], kind) \in c[i].least .. c[i].max /\ FinalQty(c[i], kind) \in Nat \ {0}
  BY <1>6, FinalWithin
<1>9. /\ DOMAIN joined = 1 .. n /\ Len(joined) = n
      /\ \A i \in 1 .. n : /\ joined[i].start = c[i].start /\ joined[i].until = c[i].until
                          /\ joined[i].order = [qty |-> FinalQty(c[i], kind), isBid |-> c[i].isBid]
  BY <1>2, <1>6
<1>10. \A i \in 1 .. n : joined[i].order.isBid = c[i].isBid /\ joined[i].order # Nothing
  <2>1. ASSUME NEW i \in 1 .. n
        PROVE  joined[i].order.isBid = c[i].isBid /\ joined[i].order # Nothing
    <3> DEFINE q == FinalQty(c[i], kind) b == c[i].isBid
    <3>1. joined[i].order = [qty |-> q, isBid |-> b]
      BY <1>9
    <3> HIDE DEF q, b
    <3>2. joined[i].order.isBid = b /\ joined[i].order.qty = q
      BY <3>1
    <3>3. FinalQty(c[i], kind) # 0 /\ Nothing.qty = 0
      BY <1>8 DEF Nothing
    <3> QED
      BY <3>2, <3>3 DEF q, b
  <2> QED
    BY <2>1
<1>11. Timed(joined) /\ InOrder(joined)
  <2>1. Timed(joined)
    BY <1>6, <1>7, <1>9 DEF Timed
  <2>2. /\ \A i \in 1 .. n : c[i].start <= c[i].until
        /\ \A i \in 1 .. n - 1 : c[i].until <= c[i + 1].start
    BY <1>1, <1>6 DEF GoodBoxes, InOrder, n
  <2>3. \A i \in 1 .. n - 1 : i \in 1 .. n /\ i + 1 \in 1 .. n
    BY <1>6
  <2> QED
    BY <1>9, <2>1, <2>2, <2>3 DEF InOrder
<1>12. Timed(rs) /\ \A i \in DOMAIN rs : rs[i].order \in Resting
  BY <1>3, RunsTimed
<1>13. ASSUME NEW t \in Nat
       PROVE  /\ (ShownIn(joined, t) = Nothing) = (ShownIn(rs, t) = Nothing)
              /\ ShownIn(joined, t).isBid = ShownIn(rs, t).isBid
  <2>1. \A i \in 1 .. n : Covers(joined[i], t) <=> Covers(c[i], t)
    BY <1>9 DEF Covers
  <2>2. CASE \E i \in DOMAIN rs : Covers(rs[i], t)
    <3>1. PICK i \in DOMAIN rs : Covers(rs[i], t)
      BY <2>2
    <3> DEFINE o == rs[i].order
    <3>2. ShownIn(rs, t) = o
      BY <1>3, <1>12, <3>1, ShownOnce
    <3>3. o \in Resting
      BY <1>12
    <3>4. o # Nothing /\ o.isBid \in BOOLEAN
      BY <3>3, RestingIsSomething
    <3>5. RunAt(rs, t, o.isBid)
      BY <3>1 DEF RunAt
    <3> HIDE DEF o
    <3>6. BoxAt(c, t, o.isBid)
      BY <1>1, <3>4, <3>5
    <3>7. PICK j \in 1 .. n : Covers(c[j], t) /\ c[j].isBid = o.isBid
      BY <1>6, <3>6 DEF BoxAt
    <3>8. Covers(joined[j], t) /\ j \in DOMAIN joined
      BY <1>9, <2>1, <3>7
    <3>9. ShownIn(joined, t) = joined[j].order
      BY <1>11, <3>8, ShownOnce
    <3>10. joined[j].order # Nothing /\ joined[j].order.isBid = o.isBid
      BY <1>10, <3>7
    <3> QED
      BY <3>2, <3>4, <3>9, <3>10
  <2>3. CASE \A i \in DOMAIN rs : ~Covers(rs[i], t)
    <3>1. ShownIn(rs, t) = Nothing
      BY <2>3, ShownNot
    <3>2. \A j \in DOMAIN joined : ~Covers(joined[j], t)
      <4>1. ASSUME NEW j \in 1 .. n, Covers(c[j], t)
            PROVE  FALSE
        <5>1. BoxAt(c, t, c[j].isBid) /\ c[j].isBid \in BOOLEAN
          BY <1>6, <1>7, <4>1 DEF BoxAt
        <5>2. RunAt(rs, t, c[j].isBid)
          BY <1>1, <5>1
        <5> QED
          BY <2>3, <5>2 DEF RunAt
      <4> QED
        BY <1>9, <2>1, <4>1
    <3>3. ShownIn(joined, t) = Nothing
      BY <3>2, ShownNot
    <3> QED
      BY <3>1, <3>3
  <2> QED
    BY <2>2, <2>3
<1>14. Between(l, kind)
  BY <1>4, <1>6, <1>8
<1> QED
  BY <1>5, <1>11, <1>13, <1>14 DEF joined

(* Joining runs by size keeps their places.                                *)
LEMMA InvCoalescing == HistoryInv => CoalescingKeepsThePlaces
<1> SUFFICES ASSUME HistoryInv, NEW l \in Levels, NEW kind \in CoalesceKinds
             PROVE  LET joined == CoalescedRuns(l, kind)
                    IN /\ InOrder(joined) /\ Between(l, kind)
                       /\ \A t \in Moments :
                            /\ (ShownIn(joined, t) = Nothing) = (Shown(l, t) = Nothing)
                            /\ ShownIn(joined, t).isBid = Shown(l, t).isBid
  BY DEF CoalescingKeepsThePlaces
<1>1. runs[l] \in Seq(OrderRun) /\ InOrder(runs[l])
  BY InvLevelFits DEF LevelFits
<1>2. Moments \subseteq Nat
  BY SnapshotsAreSnapshots
<1> QED
  BY <1>1, <1>2, JoiningKeepsPlaces

(* A heatmap is the history of the book: its runs are in order, show what  *)
(* was seen and nothing else, through gaps, pauses and clean-ups, and the  *)
(* joined boxes are where the runs are (HistoricalDepth, HeatmapChart).    *)
THEOREM HistoryStaysTrue == HistorySpec => []HistoryIsTrue
<1>1. HistoryInv => HistoryIsTrue
  BY InvRunsInOrder, InvSightsAreShown, InvNothingIsInvented, InvCoalescing DEF HistoryIsTrue
<1> QED
  BY <1>1, HistoryInvariant, PTL
=============================================================================
