--------------------------- MODULE LayoutsProofs ---------------------------
(***************************************************************************)
(* No pane is lost or doubled, whatever is popped out, merged, switched,   *)
(* cloned, ordered, saved and started again, for every number of panes,    *)
(* layouts and windows; and the layout that was active when the state was  *)
(* saved is active after the start.  Last, that no number leaves its       *)
(* bounds, and with what is proved of the charts, that everything on the   *)
(* screen is what it was made as.                                          *)
(***************************************************************************)
EXTENDS MCScreen, ChartProofs, FiniteSetTheorems, SequenceTheorems, TLAPS

-----------------------------------------------------------------------------
(* Sets laid out as sequences.                                             *)

(* SetToSeq lists each element of a finite set once.                       *)
LEMMA Listed ==
  ASSUME NEW S, IsFiniteSet(S)
  PROVE  /\ Cardinality(S) \in Nat
         /\ SetToSeq(S) \in [1 .. Cardinality(S) -> S]
         /\ SetToSeq(S) \in Seq(S) /\ Len(SetToSeq(S)) = Cardinality(S)
         /\ IsInjective(SetToSeq(S)) /\ Range(SetToSeq(S)) = S
<1> DEFINE n == Cardinality(S) q == SetToSeq(S)
<1>1. n \in Nat /\ ExistsBijection(1 .. n, S)
  BY FS_CardinalityType
<1>2. \E f \in [1 .. n -> S] : IsInjective(f)
  BY <1>1 DEF ExistsBijection, Bijection, Injection
<1>3. q \in [1 .. n -> S] /\ IsInjective(q)
  BY <1>2 DEF SetToSeq
<1>4. IsFiniteSet(1 .. n) /\ Cardinality(1 .. n) = n
  BY <1>1, FS_Interval
<1>5. q \in Injection(1 .. n, S)
  BY <1>3 DEF Injection
<1>6. q \in Surjection(1 .. n, S)
  BY <1>4, <1>5, FS_Injection
<1> HIDE DEF q, n
<1>7. q \in Seq(S) /\ Len(q) = n
  BY <1>1, <1>3
<1>8. Range(q) = S
  BY <1>3, <1>6 DEF Surjection, Range
<1> QED
  BY <1>1, <1>3, <1>7, <1>8 DEF q, n

(* Some takes as many different elements as it is asked for.               *)
LEMMA SomeOf ==
  ASSUME NEW S, IsFiniteSet(S), NEW n \in Nat, n <= Cardinality(S)
  PROVE  /\ Some(S, n) \in [1 .. n -> S] /\ Some(S, n) \in Seq(S) /\ Len(Some(S, n)) = n
         /\ IsInjective(Some(S, n))
<1> DEFINE q == SetToSeq(S)
<1>1. q \in Seq(S) /\ Len(q) = Cardinality(S) /\ IsInjective(q) /\ Cardinality(S) \in Nat
  BY Listed
<1> HIDE DEF q
<1>2. Some(S, n) = SubSeq(q, 1, n)
  BY DEF Some, q
<1>3. /\ SubSeq(q, 1, n) \in Seq(S) /\ Len(SubSeq(q, 1, n)) = n
      /\ \A i \in 1 .. n : SubSeq(q, 1, n)[i] = q[i]
  BY <1>1
<1>4. IsInjective(SubSeq(q, 1, n))
  BY <1>1, <1>3 DEF IsInjective
<1>5. SubSeq(q, 1, n) \in [1 .. n -> S]
  <2> DEFINE r == SubSeq(q, 1, n)
  <2>1. r \in Seq(S) /\ Len(r) = n
    BY <1>3
  <2> HIDE DEF r
  <2>2. r \in [1 .. n -> S]
    BY <2>1
  <2> QED
    BY <2>2 DEF r
<1> QED
  BY <1>2, <1>3, <1>4, <1>5

-----------------------------------------------------------------------------
(* Dashboards.                                                             *)
NameSet == Seq(Typed \cup Nat) \ {<<>>}

(* What every layout is: a record with a grid that is not empty, popped    *)
(* out panes in windows other than the main one, and each of its panes in  *)
(* one place.                                                              *)
SoundDashboard(d) ==
  /\ d = [id |-> d.id, name |-> d.name, main |-> d.main, popouts |-> d.popouts, focus |-> d.focus]
  /\ d.name \in NameSet /\ DOMAIN d.main # {} /\ MainWindow \notin DOMAIN d.popouts
  /\ PanesOf(d) \subseteq Panes /\ OnceIn(d)

(* The bounds are numbers.                                                 *)
LEMMA Bounds ==
  /\ MaxPanes \in Nat /\ MaxWindows \in Nat /\ MaxLayouts \in Nat
  /\ DefaultPanes \in Nat /\ 1 <= DefaultPanes /\ DefaultPanes <= MaxPanes
  BY LayoutsAssumption

(* The panes are finitely many, and so are the places of a dashboard.      *)
LEMMA FinitePlaces ==
  ASSUME NEW f, NEW S, IsFiniteSet(S), Range(f) \subseteq S, IsInjective(f)
  PROVE  /\ IsFiniteSet(DOMAIN f) /\ Cardinality(DOMAIN f) \in Nat
         /\ Cardinality(DOMAIN f) <= Cardinality(S)
<1> DEFINE g == [x \in DOMAIN f |-> f[x]]
<1>1. g \in Injection(DOMAIN f, S)
  BY DEF Injection, IsInjective, Range
<1> HIDE DEF g
<1> QED
  BY <1>1, FS_Injection, FS_CardinalityType

(* The panes are finitely many.                                            *)
LEMMA FinitePanes == IsFiniteSet(Panes) /\ Cardinality(Panes) = MaxPanes
  BY FS_Interval, Bounds DEF Panes

(* Where a pane may still come, the grid has a number for it.              *)
LEMMA GridIsFree ==
  ASSUME NEW d, SoundDashboard(d), NEW p \in Panes, p \notin Range(d.main)
  PROVE  FreeGrid(d) \in 1 .. MaxPanes + 1 /\ FreeGrid(d) \notin DOMAIN d.main
<1> DEFINE taken == DOMAIN d.main \cup {d.focus.grid} numbers == 1 .. MaxPanes + 1
<1>1. IsFiniteSet(Panes \ {p}) /\ Cardinality(Panes \ {p}) = MaxPanes - 1
  BY FinitePanes, FS_RemoveElement
<1>2. Range(d.main) \subseteq Panes \ {p} /\ IsInjective(d.main)
  BY DEF SoundDashboard, PanesOf, OnceIn
<1>3. IsFiniteSet(DOMAIN d.main) /\ Cardinality(DOMAIN d.main) <= MaxPanes - 1
      /\ Cardinality(DOMAIN d.main) \in Nat
  BY <1>1, <1>2, FinitePlaces
<1>4. IsFiniteSet(taken) /\ Cardinality(taken) <= MaxPanes /\ Cardinality(taken) \in Nat
  <2>1. IsFiniteSet(taken) /\ (Cardinality(taken) = Cardinality(DOMAIN d.main)
                               \/ Cardinality(taken) = Cardinality(DOMAIN d.main) + 1)
    BY <1>3, FS_AddElement
  <2> QED
    BY <1>3, <2>1, Bounds
<1>5. IsFiniteSet(numbers) /\ Cardinality(numbers) = MaxPanes + 1
  <2>1. MaxPanes + 1 \in Int /\ ~(1 > MaxPanes + 1) /\ MaxPanes + 1 - 1 + 1 = MaxPanes + 1
    BY Bounds
  <2> QED
    BY <2>1, FS_Interval
<1> HIDE DEF taken, numbers
<1>6. numbers \ taken # {}
  <2>1. CASE numbers \subseteq taken
    BY <1>4, <1>5, <2>1, FS_Subset, Bounds
  <2> QED
    BY <2>1
<1>7. numbers \ taken \subseteq Nat
  BY Bounds DEF numbers
<1>8. FreeGrid(d) \in numbers \ taken
  BY <1>6, <1>7, LeastOfNat DEF FreeGrid, numbers, taken
<1> QED
  BY <1>8 DEF taken, numbers

(* Of more than one place, one is left.                                    *)
LEMMA MoreThanOne ==
  ASSUME NEW S, Cardinality(S) > 1, NEW g \in S
  PROVE  \E x \in S : x # g
<1>1. CASE S = {g}
  <2>1. Cardinality({g}) = 1
    BY FS_Singleton
  <2> QED
    BY <1>1, <2>1
<1> QED
  BY <1>1

(* A pane that comes into a place not taken, and one that leaves.          *)
LEMMA PlaceAdded ==
  ASSUME NEW f, IsInjective(f), NEW k, k \notin DOMAIN f, NEW v, v \notin Range(f)
  PROVE  /\ \A x : x \in DOMAIN With(f, k, v) <=> x \in DOMAIN f \/ x = k
         /\ IsInjective(With(f, k, v))
         /\ \A x : x \in Range(With(f, k, v)) <=> x \in Range(f) \/ x = v
<1> DEFINE g == With(f, k, v)
<1>1. /\ DOMAIN g = DOMAIN f \cup {k} /\ g[k] = v
      /\ \A x \in DOMAIN f : g[x] = f[x] /\ f[x] # v
  BY DEF With, Range
<1> HIDE DEF g
<1>2. IsInjective(g)
  BY <1>1 DEF IsInjective
<1>3. Range(g) = Range(f) \cup {v}
  BY <1>1 DEF Range
<1> QED
  BY <1>1, <1>2, <1>3 DEF g

(* A place that goes takes its pane along.                                 *)
LEMMA PlaceLeft ==
  ASSUME NEW f, IsInjective(f), NEW k
  PROVE  /\ \A x : x \in DOMAIN Without(f, k) <=> x \in DOMAIN f /\ x # k
         /\ IsInjective(Without(f, k))
         /\ k \in DOMAIN f => f[k] \in Range(f)
         /\ \A x : x \in Range(Without(f, k)) <=> x \in Range(f) /\ ~(k \in DOMAIN f /\ x = f[k])
<1> DEFINE g == Without(f, k)
<1>1. DOMAIN g = DOMAIN f \ {k} /\ \A x \in DOMAIN f \ {k} : g[x] = f[x]
  BY DEF Without
<1> HIDE DEF g
<1>2. IsInjective(g)
  BY <1>1 DEF IsInjective
<1>3. ASSUME NEW x
      PROVE  x \in Range(g) <=> x \in Range(f) /\ ~(k \in DOMAIN f /\ x = f[k])
  BY <1>1 DEF IsInjective, Range
<1>4. k \in DOMAIN f => f[k] \in Range(f)
  BY DEF Range
<1> QED
  BY <1>1, <1>2, <1>3, <1>4 DEF g

(* Splitting adds one pane, in the main window.                            *)
LEMMA SplitAdds ==
  ASSUME NEW d, SoundDashboard(d), NEW w, NEW p \in Panes, p \notin PanesOf(d)
  PROVE  LET e == SplitOff(d, w, p)
         IN /\ SoundDashboard(e) /\ PanesOf(e) = PanesOf(d) \cup {p}
            /\ e.id = d.id /\ e.name = d.name /\ e.popouts = d.popouts /\ e.focus.window = w
<1> DEFINE e == SplitOff(d, w, p) g == FreeGrid(d)
<1>1. p \notin Range(d.main) /\ p \notin Range(d.popouts) /\ IsInjective(d.main)
  BY DEF SoundDashboard, PanesOf, OnceIn
<1>2. g \notin DOMAIN d.main
  BY <1>1, GridIsFree
<1> HIDE DEF g
<1>3. e = [id |-> d.id, name |-> d.name, main |-> With(d.main, g, p), popouts |-> d.popouts,
           focus |-> Focus(w, g)]
  <2>1. e = [d EXCEPT !.main = With(d.main, g, p), !.focus = Focus(w, g)]
    BY DEF SplitOff, g
  <2>2. d = [id |-> d.id, name |-> d.name, main |-> d.main, popouts |-> d.popouts, focus |-> d.focus]
    BY DEF SoundDashboard
  <2> HIDE DEF e
  <2> QED
    BY <2>1, <2>2
<1>4. e.main = With(d.main, g, p) /\ e.id = d.id /\ e.name = d.name /\ e.popouts = d.popouts
      /\ e.focus.window = w
  BY <1>3 DEF Focus
<1> HIDE DEF e
<1>5. DOMAIN e.main # {} /\ IsInjective(e.main) /\ Range(e.main) = Range(d.main) \cup {p}
  <2> DEFINE f == d.main
  <2>1. IsInjective(f) /\ g \notin DOMAIN f /\ p \notin Range(f) /\ e.main = With(f, g, p)
    BY <1>1, <1>2, <1>4
  <2> HIDE DEF f
  <2>2. /\ \A x : x \in DOMAIN e.main <=> x \in DOMAIN f \/ x = g
        /\ IsInjective(e.main)
        /\ \A x : x \in Range(e.main) <=> x \in Range(f) \/ x = p
    BY <2>1, PlaceAdded
  <2> QED
    BY <2>2 DEF f
<1>6. PanesOf(e) = PanesOf(d) \cup {p}
  BY <1>4, <1>5 DEF PanesOf
<1>7. SoundDashboard(e)
  BY <1>1, <1>3, <1>4, <1>5, <1>6 DEF SoundDashboard, OnceIn, PanesOf
<1> QED
  BY <1>4, <1>6, <1>7 DEF e

(* A dashboard that differs in its focus only.                             *)
LEMMA FocusMoves ==
  ASSUME NEW d, SoundDashboard(d), NEW f
  PROVE  LET e == [d EXCEPT !.focus = f]
         IN /\ SoundDashboard(e) /\ PanesOf(e) = PanesOf(d) /\ e.focus = f
            /\ e.id = d.id /\ e.name = d.name /\ e.main = d.main /\ e.popouts = d.popouts
<1> DEFINE e == [d EXCEPT !.focus = f]
<1>1. e = [id |-> d.id, name |-> d.name, main |-> d.main, popouts |-> d.popouts, focus |-> f]
  BY DEF SoundDashboard
<1>2. /\ e.id = d.id /\ e.name = d.name /\ e.main = d.main /\ e.popouts = d.popouts /\ e.focus = f
  BY <1>1
<1> HIDE DEF e
<1> QED
  BY <1>1, <1>2 DEF SoundDashboard, PanesOf, OnceIn, e

(* The same of a dashboard that focuses its only pane by itself.          *)
LEMMA AutoFocusKeeps ==
  ASSUME NEW d, SoundDashboard(d)
  PROVE  LET e == AutoFocus(d)
         IN /\ SoundDashboard(e) /\ PanesOf(e) = PanesOf(d)
            /\ e.id = d.id /\ e.name = d.name /\ e.main = d.main /\ e.popouts = d.popouts
  BY FocusMoves DEF AutoFocus

(* A grid numbered anew.                                                   *)
LEMMA Numbered ==
  ASSUME NEW S, IsFiniteSet(S), NEW zero \in S
  PROVE  LET f == NumberedFrom(zero, S)
         IN IsInjective(f) /\ Range(f) = S /\ DOMAIN f # {}
<1> DEFINE rest == SetToSeq(S \ {zero})
<1>1. IsFiniteSet(S \ {zero})
  BY FS_RemoveElement
<1>2. /\ rest \in Seq(S \ {zero}) /\ Len(rest) \in Nat /\ DOMAIN rest = 1 .. Len(rest)
      /\ IsInjective(rest) /\ Range(rest) = S \ {zero}
  BY <1>1, Listed
<1> HIDE DEF rest
<1>3. 0 \notin DOMAIN rest
  BY <1>2
<1>4. NumberedFrom(zero, S) = With(rest, 0, zero)
  BY DEF NumberedFrom, rest
<1>5. zero \notin Range(rest)
  BY <1>2
<1>6. /\ DOMAIN With(rest, 0, zero) = DOMAIN rest \cup {0} /\ IsInjective(With(rest, 0, zero))
      /\ Range(With(rest, 0, zero)) = Range(rest) \cup {zero}
  BY <1>2, <1>3, <1>5, PlaceAdded
<1> QED
  BY <1>2, <1>4, <1>6

(* Panes in windows of their own.                                          *)
LEMMA FiniteFreeWindows == IsFiniteSet(FreeWindows) /\ FreeWindows \subseteq Windows
<1>1. IsFiniteSet(Windows)
  BY Bounds, FS_Interval DEF Windows
<1>2. FreeWindows \subseteq Windows
  BY DEF FreeWindows
<1> QED
  BY <1>1, <1>2, FS_Subset

(* As many free windows as panes take all of them, one each.               *)
LEMMA PoppedOutKeeps ==
  ASSUME NEW S, IsFiniteSet(S), Cardinality(FreeWindows) >= Cardinality(S)
  PROVE  LET f == PoppedOut(S)
         IN IsInjective(f) /\ Range(f) = S /\ DOMAIN f \subseteq FreeWindows
<1> DEFINE n == Cardinality(S) ps == SetToSeq(S) ws == Some(FreeWindows, n)
           at(w) == CHOOSE k \in DOMAIN ws : ws[k] = w
           f == [w \in ToSet(ws) |-> ps[at(w)]]
<1>1. /\ n \in Nat /\ ps \in [1 .. n -> S] /\ Len(ps) = n
      /\ IsInjective(ps) /\ Range(ps) = S
  BY Listed
<1>2. Cardinality(FreeWindows) \in Nat
  BY FiniteFreeWindows, FS_CardinalityType
<1>3. ws \in [1 .. n -> FreeWindows] /\ IsInjective(ws)
  BY <1>1, <1>2, FiniteFreeWindows, SomeOf
<1>4. PoppedOut(S) = f
  BY <1>1 DEF PoppedOut
<1> HIDE DEF n, ps, ws
<1>5. \A k \in 1 .. n : at(ws[k]) = k
  BY <1>3 DEF IsInjective
<1>6. DOMAIN f = {ws[k] : k \in 1 .. n} /\ \A k \in 1 .. n : f[ws[k]] = ps[k]
  BY <1>3, <1>5 DEF ToSet
<1> HIDE DEF f
<1>7. IsInjective(f)
  BY <1>1, <1>3, <1>6 DEF IsInjective
<1>8. Range(f) = S
  BY <1>1, <1>6 DEF Range
<1>9. DOMAIN f \subseteq FreeWindows
  BY <1>3, <1>6
<1> QED
  BY <1>4, <1>7, <1>8, <1>9

-----------------------------------------------------------------------------
(* The list of layouts.  Different layouts have different ids and panes,   *)
(* and the same name only if it was cut.                                   *)
Apart(d, e) ==
  /\ d.id # e.id /\ (d.name = e.name => IsCut(d.name))
  /\ \A p \in PanesOf(d) : p \notin PanesOf(e)

(* The layouts of the list are sound and apart, and have these panes.      *)
AllKept(ls, panes) ==
  /\ ls \in Seq(Range(ls))
  /\ \A i \in DOMAIN ls : SoundDashboard(ls[i])
  /\ \A i, j \in DOMAIN ls : i # j => Apart(ls[i], ls[j])
  /\ \A p : p \in panes <=> \E i \in DOMAIN ls : p \in PanesOf(ls[i])

(* A sequence is one of its own elements.                                  *)
LEMMA OwnElements ==
  ASSUME NEW S, NEW n \in Nat, NEW f \in [1 .. n -> S]
  PROVE  f \in Seq(Range(f)) /\ Len(f) = n /\ DOMAIN f = 1 .. n
<1> DEFINE R == Range(f)
<1>1. f \in [1 .. n -> R]
  BY DEF Range
<1> HIDE DEF R
<1>2. f \in Seq(R) /\ Len(f) = n
  BY <1>1
<1> QED
  BY <1>2 DEF R

(* The same of a sequence over any set.                                    *)
LEMMA OwnRange ==
  ASSUME NEW S, NEW s \in Seq(S)
  PROVE  s \in Seq(Range(s))
<1>1. Len(s) \in Nat /\ s \in [1 .. Len(s) -> S]
  OBVIOUS
<1> QED
  BY <1>1, OwnElements

(* What is used of a list that is kept, in so many words.                  *)
LEMMA KeptFacts ==
  ASSUME NEW ls, NEW panes, AllKept(ls, panes)
  PROVE  /\ Len(ls) \in Nat /\ DOMAIN ls = 1 .. Len(ls) /\ ls \in [1 .. Len(ls) -> Range(ls)]
         /\ panes \subseteq Panes
         /\ \A i \in DOMAIN ls : PanesOf(ls[i]) \subseteq panes
  BY DEF AllKept, SoundDashboard

(* A layout is found by its id.                                            *)
LEMMA Found ==
  ASSUME NEW ls, NEW panes, AllKept(ls, panes), NEW i \in DOMAIN ls
  PROVE  (CHOOSE j \in DOMAIN ls : ls[j].id = ls[i].id) = i
  BY DEF AllKept, Apart

(* Some panes go and others come.                                          *)
Change(before, gone, new, after) ==
  /\ \A p \in gone : p \in before
  /\ \A p \in new : p \notin before
  /\ \A p : p \in after <=> (p \in before /\ p \notin gone) \/ p \in new

(* One layout becomes another one with the same id.                        *)
Put(ms, ls, i, d) == ms = [ls EXCEPT ![i] = d]

(* No other layout has the name of what becomes of the i-th.               *)
NameIsOwn(ls, i, d) == \A j \in DOMAIN ls : j # i /\ ls[j].name = d.name => IsCut(d.name)

(* A list is kept when one layout changes its panes as the user's change.  *)
LEMMA Replaced ==
  ASSUME NEW ls, NEW panes, AllKept(ls, panes), NEW i \in DOMAIN ls,
         NEW d, SoundDashboard(d), d.id = ls[i].id, NameIsOwn(ls, i, d),
         NEW gone, NEW new, Change(PanesOf(ls[i]), gone, new, PanesOf(d)),
         NEW ms, Put(ms, ls, i, d), NEW after, Change(panes, gone, new, after)
  PROVE  AllKept(ms, after) /\ i \in DOMAIN ms /\ ms[i] = d
         /\ \A j \in DOMAIN ls : j # i => j \in DOMAIN ms /\ ms[j] = ls[j]
<1>1. /\ Len(ls) \in Nat /\ DOMAIN ls = 1 .. Len(ls) /\ ls \in [1 .. Len(ls) -> Range(ls)]
      /\ \A j \in DOMAIN ls : PanesOf(ls[j]) \subseteq panes
  BY KeptFacts
<1>2. /\ DOMAIN ms = DOMAIN ls /\ ms[i] = d /\ \A j \in DOMAIN ls : j # i => ms[j] = ls[j]
  BY <1>1 DEF Put
<1>3. ms \in Seq(Range(ms))
  <2> DEFINE S == Range(ls) \cup {d}
  <2>1. ls \in [1 .. Len(ls) -> S] /\ d \in S /\ i \in 1 .. Len(ls)
    BY <1>1
  <2> HIDE DEF S
  <2>2. ms \in [1 .. Len(ls) -> S]
    BY <2>1 DEF Put
  <2> QED
    BY <1>1, <2>2, OwnElements
<1>4. \A j \in DOMAIN ms : SoundDashboard(ms[j])
  BY <1>2 DEF AllKept
<1>5. \A j \in DOMAIN ls : j # i => Apart(ls[j], d) /\ Apart(d, ls[j])
  <2> SUFFICES ASSUME NEW j \in DOMAIN ls, j # i
               PROVE  Apart(ls[j], d) /\ Apart(d, ls[j])
    OBVIOUS
  <2>1. Apart(ls[i], ls[j]) /\ Apart(ls[j], ls[i])
    BY DEF AllKept
  <2>2. \A p \in PanesOf(ls[j]) : p \notin PanesOf(d)
    BY <1>1, <2>1 DEF Apart, Change
  <2> QED
    BY <2>1, <2>2 DEF Apart, NameIsOwn
<1>6. \A j, k \in DOMAIN ms : j # k => Apart(ms[j], ms[k])
  BY <1>2, <1>5 DEF AllKept
<1>7. ASSUME NEW p
      PROVE  p \in after <=> \E j \in DOMAIN ms : p \in PanesOf(ms[j])
  <2>1. CASE p \in PanesOf(d)
    BY <1>1, <1>2, <2>1 DEF Change
  <2>2. CASE p \notin PanesOf(d)
    <3>1. p \in after <=> p \in panes /\ p \notin gone
      BY <2>2 DEF Change
    <3>2. p \in gone => p \in PanesOf(ls[i]) /\ \A j \in DOMAIN ls : j # i => p \notin PanesOf(ls[j])
      BY DEF AllKept, Apart, Change
    <3>3. p \in panes <=> \E j \in DOMAIN ls : p \in PanesOf(ls[j])
      BY DEF AllKept
    <3> QED
      BY <1>2, <2>2, <3>1, <3>2, <3>3 DEF Change
  <2> QED
    BY <2>1, <2>2
<1> QED
  BY <1>2, <1>3, <1>4, <1>6, <1>7 DEF AllKept

(* A layout is added.                                                      *)
IsLast(ms, ls, d) == ms = Append(ls, d)

(* A layout with an id, and a name unless it was cut, that no other has.   *)
Another(ls, d) == \A i \in DOMAIN ls : ls[i].id # d.id /\ (ls[i].name = d.name => IsCut(d.name))

(* Some panes come.                                                        *)
More(before, new, after) ==
  /\ \A p \in new : p \notin before
  /\ \A p : p \in after <=> p \in before \/ p \in new

(* A list is kept when a layout with new panes comes last.                 *)
LEMMA Appended ==
  ASSUME NEW ls, NEW panes, AllKept(ls, panes), NEW d, SoundDashboard(d), Another(ls, d),
         NEW ms, IsLast(ms, ls, d), NEW after, More(panes, PanesOf(d), after)
  PROVE  /\ AllKept(ms, after)
         /\ Len(ls) + 1 \in DOMAIN ms /\ ms[Len(ls) + 1] = d
         /\ \A i \in DOMAIN ls : i \in DOMAIN ms /\ ms[i] = ls[i]
<1> DEFINE n == Len(ls) S == Range(ls) \cup {d}
<1>1. /\ n \in Nat /\ DOMAIN ls = 1 .. n /\ ls \in [1 .. n -> Range(ls)]
      /\ \A j \in DOMAIN ls : PanesOf(ls[j]) \subseteq panes
  BY KeptFacts
<1>2. ls \in [1 .. n -> S]
  BY <1>1
<1> HIDE DEF n, S
<1>3. ls \in Seq(S) /\ Len(ls) = n /\ d \in S
  BY <1>1, <1>2 DEF S, n
<1>4. /\ ms \in Seq(S) /\ Len(ms) = n + 1 /\ ms[n + 1] = d
      /\ \A i \in 1 .. n : ms[i] = ls[i]
  BY <1>3 DEF IsLast
<1>5. DOMAIN ms = 1 .. n + 1 /\ \A i \in 1 .. n + 1 : i \in 1 .. n \/ i = n + 1
  BY <1>1, <1>4
<1>6. ms \in Seq(Range(ms))
  <2>1. ms \in Seq(S)
    BY <1>4
  <2> QED
    BY <2>1, OwnRange
<1>7. \A j \in DOMAIN ms : SoundDashboard(ms[j])
  BY <1>1, <1>4, <1>5 DEF AllKept
<1>8. \A i \in DOMAIN ls : Apart(ls[i], d) /\ Apart(d, ls[i])
  BY <1>1 DEF Apart, Another, More
<1>9. \A i, j \in DOMAIN ms : i # j => Apart(ms[i], ms[j])
  <2>1. \A i, j \in DOMAIN ls : i # j => Apart(ls[i], ls[j])
    BY DEF AllKept
  <2> QED
    BY <1>1, <1>4, <1>5, <1>8, <2>1
<1>10. ASSUME NEW p
       PROVE  p \in after <=> \E j \in DOMAIN ms : p \in PanesOf(ms[j])
  <2>1. p \in panes <=> \E j \in DOMAIN ls : p \in PanesOf(ls[j])
    BY DEF AllKept
  <2>2. \A j \in DOMAIN ls : j \in DOMAIN ms /\ ms[j] = ls[j]
    BY <1>1, <1>4, <1>5
  <2>3. n + 1 \in DOMAIN ms
    BY <1>1, <1>5
  <2> QED
    BY <1>1, <1>4, <1>5, <2>1, <2>2, <2>3 DEF More
<1>11. AllKept(ms, after)
  BY <1>6, <1>7, <1>9, <1>10 DEF AllKept
<1>12. /\ n + 1 \in DOMAIN ms /\ ms[n + 1] = d
       /\ \A i \in DOMAIN ls : i \in DOMAIN ms /\ ms[i] = ls[i]
  BY <1>1, <1>4, <1>5
<1> QED
  BY <1>11, <1>12 DEF n

(* Some layouts, or all of them, in another order.                         *)
LEMMA Reindexed ==
  ASSUME NEW ls, NEW panes, AllKept(ls, panes),
         NEW ms, ms \in Seq(Range(ls)), NEW at, \A k \in DOMAIN ms : at[k] \in DOMAIN ls /\ ms[k] = ls[at[k]],
         \A j, k \in DOMAIN ms : j # k => at[j] # at[k],
         NEW after, \A p : p \in after <=> \E k \in DOMAIN ms : p \in PanesOf(ms[k])
  PROVE  AllKept(ms, after)
<1>1. ms \in Seq(Range(ms))
  <2> DEFINE S == Range(ls)
  <2> HIDE DEF S
  <2>1. ms \in Seq(S)
    BY DEF S
  <2> QED
    BY <2>1, OwnRange
<1> QED
  BY <1>1 DEF AllKept

(* The first elements of a sequence, and those from one of them on.        *)
LEMMA Cuts ==
  ASSUME NEW S, NEW s \in Seq(S), NEW k \in 1 .. Len(s) + 1
  PROVE  /\ SubSeq(s, 1, k - 1) \in Seq(S) /\ Len(SubSeq(s, 1, k - 1)) = k - 1
         /\ \A i \in 1 .. k - 1 : SubSeq(s, 1, k - 1)[i] = s[i]
         /\ SubSeq(s, k, Len(s)) \in Seq(S) /\ Len(SubSeq(s, k, Len(s))) = Len(s) + 1 - k
         /\ \A i \in 1 .. Len(s) + 1 - k : SubSeq(s, k, Len(s))[i] = s[k - 1 + i]
<1> DEFINE n == Len(s)
<1>1. n \in Nat /\ k \in Int /\ 1 <= k /\ k <= n + 1 /\ \A i \in 1 .. n : s[i] \in S
  OBVIOUS
<1> HIDE DEF n
<1>2. /\ SubSeq(s, 1, k - 1) \in Seq(S) /\ Len(SubSeq(s, 1, k - 1)) = k - 1
      /\ \A i \in 1 .. k - 1 : SubSeq(s, 1, k - 1)[i] = s[i]
  <2>1. k - 1 \in Int /\ \A i \in 1 .. k - 1 : s[i] \in S
    BY <1>1
  <2>2. /\ SubSeq(s, 1, k - 1) \in Seq(S)
        /\ Len(SubSeq(s, 1, k - 1)) = IF 1 <= k - 1 THEN k - 1 - 1 + 1 ELSE 0
        /\ \A i \in 1 .. k - 1 - 1 + 1 : SubSeq(s, 1, k - 1)[i] = s[1 + i - 1]
    BY <2>1, SubSeqProperties
  <2> QED
    BY <1>1, <2>2
<1>3. /\ SubSeq(s, k, n) \in Seq(S) /\ Len(SubSeq(s, k, n)) = n + 1 - k
      /\ \A i \in 1 .. n + 1 - k : SubSeq(s, k, n)[i] = s[k - 1 + i]
  <2>1. \A i \in k .. n : s[i] \in S
    BY <1>1
  <2>2. /\ SubSeq(s, k, n) \in Seq(S)
        /\ Len(SubSeq(s, k, n)) = IF k <= n THEN n - k + 1 ELSE 0
        /\ \A i \in 1 .. n - k + 1 : SubSeq(s, k, n)[i] = s[k + i - 1]
    BY <1>1, <2>1, SubSeqProperties
  <2> QED
    BY <1>1, <2>2
<1> QED
  BY <1>2, <1>3 DEF n

(* What is left when an element is taken out, and what there is when one   *)
(* is put in.                                                              *)
LEMMA RemovedAt ==
  ASSUME NEW S, NEW s \in Seq(S), NEW k \in 1 .. Len(s)
  PROVE  /\ RemoveAt(s, k) \in Seq(S) /\ Len(RemoveAt(s, k)) = Len(s) - 1
         /\ \A i \in 1 .. Len(s) - 1 : RemoveAt(s, k)[i] = s[IF i < k THEN i ELSE i + 1]
<1> DEFINE n == Len(s) before == SubSeq(s, 1, k - 1) after == SubSeq(s, k + 1, n)
<1>1. n \in Nat /\ k \in 1 .. n
  OBVIOUS
<1>2. /\ before \in Seq(S) /\ Len(before) = k - 1
      /\ \A i \in 1 .. k - 1 : before[i] = s[i]
  BY <1>1, Cuts
<1>3. /\ after \in Seq(S) /\ Len(after) = n - k
      /\ \A i \in 1 .. n - k : after[i] = s[k + i]
  <2>1. k + 1 \in 1 .. n + 1
    BY <1>1
  <2>2. /\ after \in Seq(S) /\ Len(after) = n + 1 - (k + 1)
        /\ \A i \in 1 .. n + 1 - (k + 1) : after[i] = s[k + 1 - 1 + i]
    BY <2>1, Cuts
  <2> HIDE DEF n, after
  <2> QED
    BY <1>1, <2>2
<1>4. RemoveAt(s, k) = before \o after
  BY DEF RemoveAt
<1> HIDE DEF n, before, after
<1>5. /\ before \o after \in Seq(S) /\ Len(before \o after) = Len(before) + Len(after)
      /\ \A i \in 1 .. Len(before) + Len(after) : (before \o after)[i] =
            IF i <= Len(before) THEN before[i] ELSE after[i - Len(before)]
  BY <1>2, <1>3, ConcatProperties
<1>6. Len(before) + Len(after) = n - 1
  BY <1>1, <1>2, <1>3
<1>7. ASSUME NEW i \in 1 .. n - 1
      PROVE  (before \o after)[i] = s[IF i < k THEN i ELSE i + 1]
  <2>1. CASE i < k
    <3>1. i \in 1 .. k - 1 /\ i <= k - 1
      BY <1>1, <2>1
    <3> QED
      BY <1>2, <1>5, <1>6, <2>1, <3>1
  <2>2. CASE ~(i < k)
    <3> DEFINE m == i - (k - 1)
    <3>1. m \in 1 .. n - k /\ k + m = i + 1 /\ ~(i <= k - 1)
      BY <1>1, <2>2
    <3>2. (before \o after)[i] = after[m]
      BY <1>2, <1>5, <1>6, <3>1
    <3> HIDE DEF m
    <3> QED
      BY <1>3, <2>2, <3>1, <3>2
  <2> QED
    BY <2>1, <2>2
<1> QED
  BY <1>4, <1>5, <1>6, <1>7 DEF n

(* One more element, at the place asked for.                               *)
LEMMA InsertedAt ==
  ASSUME NEW S, NEW s \in Seq(S), NEW k \in 1 .. Len(s) + 1, NEW e \in S
  PROVE  /\ InsertAt(s, k, e) \in Seq(S) /\ Len(InsertAt(s, k, e)) = Len(s) + 1
         /\ \A i \in 1 .. Len(s) + 1 :
              InsertAt(s, k, e)[i] = IF i < k THEN s[i] ELSE IF i = k THEN e ELSE s[i - 1]
<1> DEFINE n == Len(s) before == SubSeq(s, 1, k - 1) after == SubSeq(s, k, n)
           first == before \o <<e>>
<1>1. n \in Nat /\ k \in 1 .. n + 1
  OBVIOUS
<1>2. /\ before \in Seq(S) /\ Len(before) = k - 1
      /\ \A i \in 1 .. k - 1 : before[i] = s[i]
      /\ after \in Seq(S) /\ Len(after) = n + 1 - k
      /\ \A i \in 1 .. n + 1 - k : after[i] = s[k - 1 + i]
  BY Cuts
<1>3. InsertAt(s, k, e) = first \o after
  BY DEF InsertAt
<1>4. <<e>> \in Seq(S) /\ Len(<<e>>) = 1 /\ <<e>>[1] = e
  OBVIOUS
<1> HIDE DEF n, before, after
<1>5. /\ first \in Seq(S) /\ Len(first) = k
      /\ \A i \in 1 .. k : first[i] = IF i <= k - 1 THEN before[i] ELSE <<e>>[i - (k - 1)]
  <2>1. /\ first \in Seq(S) /\ Len(first) = Len(before) + Len(<<e>>)
        /\ \A i \in 1 .. Len(before) + Len(<<e>>) : first[i] =
              IF i <= Len(before) THEN before[i] ELSE <<e>>[i - Len(before)]
    BY <1>2, <1>4, ConcatProperties
  <2>2. Len(before) + Len(<<e>>) = k
    BY <1>1, <1>2, <1>4
  <2> HIDE DEF first
  <2> QED
    BY <1>2, <2>1, <2>2
<1>6. first[k] = e /\ \A i \in 1 .. k - 1 : first[i] = s[i]
  <2> HIDE DEF first
  <2>1. k \in 1 .. k /\ ~(k <= k - 1) /\ k - (k - 1) = 1
    BY <1>1
  <2>2. \A i \in 1 .. k - 1 : i \in 1 .. k /\ i <= k - 1
    BY <1>1
  <2> QED
    BY <1>2, <1>4, <1>5, <2>1, <2>2
<1> HIDE DEF first
<1>7. /\ first \o after \in Seq(S) /\ Len(first \o after) = n + 1
      /\ \A i \in 1 .. n + 1 : (first \o after)[i] = IF i <= k THEN first[i] ELSE after[i - k]
  <2>1. /\ first \o after \in Seq(S) /\ Len(first \o after) = Len(first) + Len(after)
        /\ \A i \in 1 .. Len(first) + Len(after) : (first \o after)[i] =
              IF i <= Len(first) THEN first[i] ELSE after[i - Len(first)]
    <3>1. first \in Seq(S) /\ after \in Seq(S)
      BY <1>2, <1>5
    <3> QED
      BY <3>1, ConcatProperties
  <2>2. Len(first) + Len(after) = n + 1
    BY <1>1, <1>2, <1>5
  <2> QED
    BY <1>5, <2>1, <2>2
<1>8. ASSUME NEW i \in 1 .. n + 1
      PROVE  (first \o after)[i] = IF i < k THEN s[i] ELSE IF i = k THEN e ELSE s[i - 1]
  <2>1. CASE i < k
    <3>1. i \in 1 .. k - 1 /\ i <= k
      BY <1>1, <2>1
    <3> QED
      BY <1>6, <1>7, <2>1, <3>1
  <2>2. CASE i = k
    <3>1. i <= k /\ ~(i < k)
      BY <1>1, <2>2
    <3> QED
      BY <1>6, <1>7, <2>2, <3>1
  <2>3. CASE i > k
    <3> DEFINE m == i - k
    <3>1. m \in 1 .. n + 1 - k /\ k - 1 + m = i - 1 /\ ~(i <= k) /\ ~(i < k) /\ i # k
      BY <1>1, <2>3
    <3>2. (first \o after)[i] = after[m]
      BY <1>7, <3>1
    <3> HIDE DEF m
    <3> QED
      BY <1>2, <3>1, <3>2
  <2>4. i < k \/ i = k \/ i > k
    BY <1>1
  <2> QED
    BY <2>1, <2>2, <2>3, <2>4
<1> QED
  BY <1>3, <1>7, <1>8 DEF n

(* A layout goes with its panes.                                           *)
LEMMA Taken ==
  ASSUME NEW ls, NEW panes, AllKept(ls, panes), NEW i \in DOMAIN ls,
         NEW ms, ms = RemoveAt(ls, i),
         NEW after, \A p : p \in after <=> p \in panes /\ p \notin PanesOf(ls[i])
  PROVE  /\ AllKept(ms, after)
         /\ \A j \in DOMAIN ls : j # i => \E k \in DOMAIN ms : ms[k] = ls[j]
<1> DEFINE n == Len(ls) R == Range(ls) at == [k \in 1 .. n - 1 |-> IF k < i THEN k ELSE k + 1]
<1>1. n \in Nat /\ DOMAIN ls = 1 .. n /\ i \in 1 .. n /\ ls \in Seq(R)
  BY KeptFacts DEF AllKept
<1> HIDE DEF R
<1>2. /\ ms \in Seq(R) /\ Len(ms) = n - 1
      /\ \A k \in 1 .. n - 1 : ms[k] = ls[IF k < i THEN k ELSE k + 1]
  BY <1>1, RemovedAt
<1> HIDE DEF n
<1>3. DOMAIN ms = 1 .. n - 1
  BY <1>2
<1>4. \A k \in DOMAIN ms : at[k] \in DOMAIN ls /\ ms[k] = ls[at[k]]
  BY <1>1, <1>2, <1>3
<1>5. \A j, k \in DOMAIN ms : j # k => at[j] # at[k]
  BY <1>1, <1>3
<1>6. \A j \in DOMAIN ls : j # i => \E k \in DOMAIN ms : ms[k] = ls[j]
  <2> SUFFICES ASSUME NEW j \in 1 .. n, j # i
               PROVE  \E k \in 1 .. n - 1 : ms[k] = ls[j]
    BY <1>1, <1>3
  <2> DEFINE k == IF j < i THEN j ELSE j - 1
  <2>1. k \in 1 .. n - 1 /\ (IF k < i THEN k ELSE k + 1) = j
    BY <1>1
  <2> QED
    BY <1>2, <2>1
<1>7. \A k \in DOMAIN ms : at[k] # i
  BY <1>1, <1>3
<1>8. ASSUME NEW p
      PROVE  p \in after <=> \E k \in DOMAIN ms : p \in PanesOf(ms[k])
  <2>1. p \in panes <=> \E j \in DOMAIN ls : p \in PanesOf(ls[j])
    BY DEF AllKept
  <2>2. \A j \in DOMAIN ls : j # i /\ p \in PanesOf(ls[j]) => p \notin PanesOf(ls[i])
    BY DEF AllKept, Apart
  <2> HIDE DEF at
  <2> QED
    BY <1>4, <1>6, <1>7, <2>1, <2>2
<1> HIDE DEF at
<1>9. AllKept(ms, after)
  BY <1>2, <1>4, <1>5, <1>8, Reindexed DEF R
<1> QED
  BY <1>6, <1>9

(* The layouts in another order.                                           *)
LEMMA Ordered ==
  ASSUME NEW ls, NEW panes, AllKept(ls, panes), NEW i \in DOMAIN ls, NEW t \in 1 .. Len(ls),
         NEW ms, ms = InsertAt(RemoveAt(ls, i), t, ls[i])
  PROVE  AllKept(ms, panes) /\ \A j \in DOMAIN ls : \E k \in DOMAIN ms : ms[k] = ls[j]
<1> DEFINE n == Len(ls) R == Range(ls) rest == RemoveAt(ls, i)
           from(k) == IF k < i THEN k ELSE k + 1
           at == [k \in 1 .. n |-> IF k < t THEN from(k) ELSE IF k = t THEN i ELSE from(k - 1)]
<1>1. /\ n \in Nat /\ DOMAIN ls = 1 .. n /\ i \in 1 .. n /\ t \in 1 .. n
      /\ ls \in Seq(R) /\ ls[i] \in R
  BY KeptFacts DEF AllKept, Range
<1> HIDE DEF R
<1>2. /\ rest \in Seq(R) /\ Len(rest) = n - 1
      /\ \A k \in 1 .. n - 1 : rest[k] = ls[from(k)]
  BY <1>1, RemovedAt
<1> HIDE DEF n, rest
<1>3. /\ ms \in Seq(R) /\ Len(ms) = n
      /\ \A k \in 1 .. n : ms[k] = IF k < t THEN rest[k] ELSE IF k = t THEN ls[i] ELSE rest[k - 1]
  <2>1. t \in 1 .. Len(rest) + 1 /\ Len(rest) + 1 = n
    BY <1>1, <1>2
  <2>2. ms = InsertAt(rest, t, ls[i])
    BY DEF rest
  <2>3. /\ InsertAt(rest, t, ls[i]) \in Seq(R) /\ Len(InsertAt(rest, t, ls[i])) = Len(rest) + 1
        /\ \A k \in 1 .. Len(rest) + 1 : InsertAt(rest, t, ls[i])[k] =
              IF k < t THEN rest[k] ELSE IF k = t THEN ls[i] ELSE rest[k - 1]
    BY <1>1, <1>2, <2>1, InsertedAt
  <2> QED
    BY <2>1, <2>2, <2>3
<1>4. DOMAIN ms = 1 .. n
  BY <1>3
<1>5. \A k \in 1 .. n : at[k] \in 1 .. n /\ ms[k] = ls[at[k]]
  <2> SUFFICES ASSUME NEW k \in 1 .. n
               PROVE  at[k] \in 1 .. n /\ ms[k] = ls[at[k]]
    OBVIOUS
  <2>1. CASE k < t
    <3>1. k \in 1 .. n - 1
      BY <1>1, <2>1
    <3> QED
      BY <1>1, <1>2, <1>3, <2>1, <3>1
  <2>2. CASE k = t
    BY <1>1, <1>3, <2>2
  <2>3. CASE k > t
    <3>1. k - 1 \in 1 .. n - 1 /\ ~(k < t) /\ k # t
      BY <1>1, <2>3
    <3>2. ms[k] = rest[k - 1] /\ rest[k - 1] = ls[from(k - 1)] /\ at[k] = from(k - 1)
      BY <1>2, <1>3, <3>1
    <3> QED
      BY <1>1, <3>1, <3>2
  <2>4. k < t \/ k = t \/ k > t
    BY <1>1
  <2> QED
    BY <2>1, <2>2, <2>3, <2>4
<1>6. \A j, k \in 1 .. n : j # k => at[j] # at[k]
  BY <1>1
<1>7. \A j \in 1 .. n : \E k \in 1 .. n : at[k] = j
  <2> SUFFICES ASSUME NEW j \in 1 .. n
               PROVE  \E k \in 1 .. n : at[k] = j
    OBVIOUS
  <2> DEFINE m == IF j < i THEN j ELSE j - 1
             k == IF j = i THEN t ELSE IF m < t THEN m ELSE m + 1
  <2>1. k \in 1 .. n /\ at[k] = j
    BY <1>1
  <2> QED
    BY <2>1
<1> HIDE DEF at
<1>8. ASSUME NEW j \in DOMAIN ls
       PROVE  \E k \in DOMAIN ms : ms[k] = ls[j]
  <2>1. PICK k \in 1 .. n : at[k] = j
    BY <1>1, <1>7
  <2> QED
    BY <1>4, <1>5, <2>1
<1>9. \A k \in DOMAIN ms : at[k] \in DOMAIN ls /\ ms[k] = ls[at[k]]
  BY <1>1, <1>4, <1>5
<1>10. ASSUME NEW p
      PROVE  p \in panes <=> \E k \in DOMAIN ms : p \in PanesOf(ms[k])
  <2>1. p \in panes <=> \E j \in DOMAIN ls : p \in PanesOf(ls[j])
    BY DEF AllKept
  <2> QED
    BY <1>8, <1>9, <2>1
<1>11. AllKept(ms, panes)
  <2>1. ms \in Seq(Range(ms))
    BY <1>3, OwnRange
  <2>2. \A j, k \in DOMAIN ms : j # k => at[j] # at[k]
    BY <1>4, <1>6
  <2>3. \A k \in DOMAIN ms : SoundDashboard(ms[k])
    BY <1>9 DEF AllKept
  <2>4. \A j, k \in DOMAIN ms : j # k => Apart(ms[j], ms[k])
    BY <1>9, <2>2 DEF AllKept
  <2> QED
    BY <1>10, <2>1, <2>3, <2>4 DEF AllKept
<1> QED
  BY <1>8, <1>11

-----------------------------------------------------------------------------
(* Names.                                                                  *)

(* What is cut off keeps the beginning, and a name that was cut shows it.  *)
LEMMA CutNames ==
  ASSUME NEW name \in NameSet
  PROVE  Cut(name) \in NameSet /\ (Cut(name) = name \/ IsCut(Cut(name)))
<1> DEFINE S == Typed \cup Nat room == RoomOf(name)
<1>1. name \in Seq(S) /\ Len(name) \in Nat /\ Len(name) >= 1 /\ \A i \in 1 .. Len(name) : name[i] \in S
  BY DEF NameSet
<1>2. room \in Nat
  BY LayoutsAssumption DEF RoomOf
<1> HIDE DEF S, room
<1>3. Cut(name) = SubSeq(name, 1, Min({Len(name), 1 + room}))
  BY DEF Cut, room
<1>4. CASE Len(name) <= 1 + room
  <2>1. Min({Len(name), 1 + room}) = Len(name)
    <3>1. {Len(name), 1 + room} \subseteq Nat /\ {Len(name), 1 + room} # {}
      BY <1>1, <1>2
    <3>2. /\ Min({Len(name), 1 + room}) \in {Len(name), 1 + room}
          /\ \A y \in {Len(name), 1 + room} : Min({Len(name), 1 + room}) <= y
      BY <3>1, LeastOfNat
    <3> QED
      BY <1>1, <1>2, <1>4, <3>2
  <2>2. SubSeq(name, 1, Len(name)) = name
    BY <1>1
  <2> QED
    BY <1>3, <2>1, <2>2
<1>5. CASE Len(name) > 1 + room
  <2> DEFINE last == 1 + room c == SubSeq(name, 1, last)
  <2>1. Min({Len(name), 1 + room}) = 1 + room
    <3>1. {Len(name), 1 + room} \subseteq Nat /\ {Len(name), 1 + room} # {}
      BY <1>1, <1>2
    <3>2. /\ Min({Len(name), 1 + room}) \in {Len(name), 1 + room}
          /\ \A y \in {Len(name), 1 + room} : Min({Len(name), 1 + room}) <= y
      BY <3>1, LeastOfNat
    <3> QED
      BY <1>1, <1>2, <1>5, <3>2
  <2>2. c \in Seq(S) /\ Len(c) = 1 + room /\ c[1] = name[1]
    <3>1. last \in Int /\ 1 <= last /\ last <= Len(name) /\ last = 1 + room
      BY <1>1, <1>2, <1>5
    <3> HIDE DEF last
    <3>2. /\ c \in Seq(S) /\ Len(c) = IF 1 <= last THEN last - 1 + 1 ELSE 0
          /\ \A i \in 1 .. last - 1 + 1 : c[i] = name[1 + i - 1]
      <4>1. \A i \in 1 .. last : name[i] \in S
        BY <1>1, <3>1
      <4> QED
        BY <3>1, <4>1, SubSeqProperties
    <3>3. 1 \in 1 .. last - 1 + 1 /\ 1 + 1 - 1 = 1 /\ 1 <= last /\ last - 1 + 1 = 1 + room
      BY <3>1
    <3> HIDE DEF c
    <3>4. c[1] = name[1 + 1 - 1]
      BY <3>2, <3>3
    <3> QED
      BY <3>2, <3>3, <3>4
  <2>5. Cut(name) = c
    BY <1>3, <2>1
  <2> HIDE DEF c, last
  <2>3. RoomOf(c) = room
    BY <2>2 DEF RoomOf, room
  <2>4. IsCut(c) /\ c # <<>>
    BY <1>2, <2>2, <2>3 DEF IsCut
  <2> QED
    BY <2>2, <2>4, <2>5 DEF NameSet, S
<1> QED
  BY <1>1, <1>2, <1>4, <1>5

(* Of n + 1 different things, one is not among n.                          *)
Different(g, n) == \A j, k \in 1 .. n + 1 : j # k => g[j] # g[k]

(* One of the n + 1 in g is not among the n in f.                          *)
OneIsNew(f, g, n) == \E k \in 1 .. n + 1 : \A i \in 1 .. n : f[i] # g[k]

(* The pigeonhole principle, for the numbers in names.                     *)
LEMMA OneIsLeft ==
  ASSUME NEW n \in Nat, NEW f, NEW g, Different(g, n)
  PROVE  OneIsNew(f, g, n)
<1> SUFFICES ASSUME \A k \in 1 .. n + 1 : \E i \in 1 .. n : f[i] = g[k]
             PROVE  FALSE
  BY DEF OneIsNew
<1> DEFINE at == [k \in 1 .. n + 1 |-> CHOOSE i \in 1 .. n : f[i] = g[k]]
<1>1. at \in [1 .. n + 1 -> 1 .. n] /\ \A k \in 1 .. n + 1 : f[at[k]] = g[k]
  OBVIOUS
<1> HIDE DEF at
<1>2. \A j, k \in 1 .. n + 1 : at[j] = at[k] => j = k
  <2> SUFFICES ASSUME NEW j \in 1 .. n + 1, NEW k \in 1 .. n + 1, at[j] = at[k], j # k
               PROVE  FALSE
    OBVIOUS
  <2>1. g[j] = f[at[j]] /\ g[k] = f[at[k]]
    BY <1>1
  <2>2. g[j] = g[k]
    BY <2>1
  <2>3. g[j] # g[k]
    BY DEF Different
  <2> QED
    BY <2>2, <2>3
<1>3. at \in Injection(1 .. n + 1, 1 .. n)
  BY <1>1, <1>2 DEF Injection, IsInjective
<1>4. IsFiniteSet(1 .. n) /\ Cardinality(1 .. n) = n /\ Cardinality(1 .. n + 1) = n + 1
  <2>1. n + 1 \in Int /\ ~(1 > n + 1) /\ n + 1 - 1 + 1 = n + 1 /\ (1 > n => n = 0) /\ n - 1 + 1 = n
    OBVIOUS
  <2> QED
    BY <2>1, FS_Interval
<1> QED
  BY <1>3, <1>4, FS_Injection

(* A name given to a new layout, or to one with the given id, is of no     *)
(* other layout, unless it is cut off.                                     *)
LEMMA FreshName ==
  ASSUME NEW panes, AllKept(layouts, panes)
  PROVE  /\ GenerateUniqueLayoutName \in NameSet
         /\ \A i \in DOMAIN layouts : layouts[i].name # GenerateUniqueLayoutName
<1> DEFINE n == Len(layouts) f == [i \in 1 .. n |-> layouts[i].name] g == [k \in 1 .. n + 1 |-> <<k>>]
           free == {k \in 1 .. n + 1 : <<k>> \notin Names}
<1>1. n \in Nat /\ DOMAIN layouts = 1 .. n
  BY KeptFacts
<1> HIDE DEF n
<1>2. Different(g, n)
  BY DEF Different
<1>3. OneIsNew(f, g, n)
  <2> HIDE DEF f, g
  <2> QED
    BY <1>1, <1>2, OneIsLeft
<1>4. free \subseteq Nat /\ free # {}
  <2>1. PICK k \in 1 .. n + 1 : \A i \in 1 .. n : f[i] # g[k]
    BY <1>3 DEF OneIsNew
  <2>2. <<k>> \notin Names
    BY <1>1, <2>1 DEF Names
  <2> QED
    BY <1>1, <2>2
<1>5. Min(free) \in free
  <2> HIDE DEF free
  <2> QED
    BY <1>4, LeastOfNat
<1>6. GenerateUniqueLayoutName = <<Min(free)>>
  BY DEF GenerateUniqueLayoutName, n
<1>7. <<Min(free)>> \in NameSet /\ <<Min(free)>> \notin Names
  <2>1. Min(free) \in Nat /\ <<Min(free)>> \notin Names
    <3> DEFINE m == Min(free)
    <3>1. m \in free
      BY <1>5
    <3> HIDE DEF m
    <3> QED
      BY <1>1, <3>1 DEF m
  <2> QED
    BY <2>1 DEF NameSet
<1> QED
  BY <1>6, <1>7 DEF Names

(* The name that ensure_unique_name gives is no other layout's, unless it  *)
(* was cut: then it may be.                                                *)
LEMMA OwnName ==
  ASSUME NEW panes, AllKept(layouts, panes), NEW proposed \in NameSet, NEW id
  PROVE  LET name == EnsureUniqueName(proposed, id)
         IN /\ name \in NameSet
            /\ \A i \in DOMAIN layouts : layouts[i].id # id /\ layouts[i].name = name => IsCut(name)
<1> DEFINE n == Len(layouts)
           D == {j \in DOMAIN layouts : layouts[j].id # id}
           others == {layouts[i].name : i \in D}
           f == [i \in 1 .. n |-> IF i \in D THEN layouts[i].name ELSE <<>>]
           candidate(k) == IF k = 1 THEN proposed ELSE Append(proposed, k)
           g == [k \in 1 .. n + 1 |-> candidate(k)]
           free == {k \in 1 .. n + 1 : candidate(k) \notin others}
           S == Typed \cup Nat
<1>1. n \in Nat /\ DOMAIN layouts = 1 .. n /\ D \subseteq 1 .. n
  BY KeptFacts
<1>2. proposed \in Seq(S) /\ proposed # <<>>
  BY DEF NameSet
<1> HIDE DEF n
<1>3. \A k \in 1 .. n + 1 : candidate(k) \in Seq(S) /\ Len(candidate(k)) >= 1 /\ (k # 1 =>
         Len(candidate(k)) = Len(proposed) + 1 /\ candidate(k)[Len(proposed) + 1] = k)
  <2> SUFFICES ASSUME NEW k \in 1 .. n + 1
               PROVE  candidate(k) \in Seq(S) /\ Len(candidate(k)) >= 1 /\ (k # 1 =>
                        Len(candidate(k)) = Len(proposed) + 1 /\ candidate(k)[Len(proposed) + 1] = k)
    OBVIOUS
  <2>1. k \in S
    BY <1>1
  <2> HIDE DEF S
  <2> QED
    BY <1>2, <2>1
<1>4. Different(g, n)
  <2> SUFFICES ASSUME NEW j \in 1 .. n + 1, NEW k \in 1 .. n + 1, j # k, candidate(j) = candidate(k)
               PROVE  FALSE
    BY DEF Different
  <2>1. Len(proposed) \in Nat
    BY <1>2
  <2> HIDE DEF S
  <2>2. CASE j = 1
    <3>1. candidate(j) = proposed /\ Len(candidate(k)) = Len(proposed) + 1
      BY <1>3, <2>2
    <3> HIDE DEF candidate
    <3> QED
      BY <2>1, <3>1
  <2>3. CASE k = 1
    <3>1. candidate(k) = proposed /\ Len(candidate(j)) = Len(proposed) + 1
      BY <1>3, <2>3
    <3> HIDE DEF candidate
    <3> QED
      BY <2>1, <3>1
  <2>4. CASE j # 1 /\ k # 1
    <3> HIDE DEF candidate
    <3> QED
      BY <1>3, <2>4
  <2> QED
    BY <2>2, <2>3, <2>4
<1>5. OneIsNew(f, g, n)
  <2> HIDE DEF f, g, D
  <2> QED
    BY <1>1, <1>4, OneIsLeft
<1>6. free \subseteq Nat /\ free # {}
  <2>1. PICK k \in 1 .. n + 1 : \A i \in 1 .. n : f[i] # g[k]
    BY <1>5 DEF OneIsNew
  <2>2. candidate(k) \notin others
    <3> HIDE DEF candidate, D
    <3>1. \A i \in D : layouts[i].name # candidate(k)
      BY <1>1, <2>1
    <3> QED
      BY <3>1
  <2> HIDE DEF candidate, others
  <2> QED
    BY <1>1, <2>2
<1>7. Min(free) \in free
  <2> HIDE DEF free
  <2> QED
    BY <1>6, LeastOfNat
<1> DEFINE chosen == candidate(Min(free))
<1>8. EnsureUniqueName(proposed, id) = Cut(chosen)
  BY DEF EnsureUniqueName, n
<1>9. chosen \in NameSet /\ chosen \notin others
  <2>1. Min(free) \in 1 .. n + 1 /\ candidate(Min(free)) \notin others
    <3> HIDE DEF candidate, others
    <3> QED
      BY <1>7
  <2>2. candidate(Min(free)) \in Seq(S) /\ Len(candidate(Min(free))) >= 1
    <3> HIDE DEF candidate, S, free
    <3> QED
      BY <1>3, <2>1
  <2> HIDE DEF candidate, others, free
  <2> QED
    BY <2>1, <2>2 DEF NameSet
<1> HIDE DEF chosen
<1>10. Cut(chosen) \in NameSet /\ (Cut(chosen) = chosen \/ IsCut(Cut(chosen)))
  BY <1>9, CutNames
<1>11. \A i \in DOMAIN layouts : layouts[i].id # id => layouts[i].name # chosen
  BY <1>9
<1> QED
  BY <1>8, <1>10, <1>11

-----------------------------------------------------------------------------
(* The inductive invariant.  While the program runs, every pane the user   *)
(* has is in one place, the active layout is there, its windows are on the *)
(* screen, and the button that merges a popped out pane has the pane in    *)
(* focus.  What is saved was once kept so, and what the user has of a      *)
(* program that does not run is what is saved.                             *)
IsActive(d) ==
  /\ d.id = active /\ \A w \in DOMAIN d.popouts : w \in open
  /\ pressed.button = "merge" /\ d.focus.window \in DOMAIN d.popouts => d.focus.grid = 0

(* The active layout is in the list.                                       *)
ActiveKept == \E i \in DOMAIN layouts : IsActive(layouts[i])

(* The file is what a list of layouts was when all was kept.               *)
SavedKept ==
  \E ls : /\ AllKept(ls, saved.owed) /\ saved.layouts = [i \in DOMAIN ls |-> Serialized(ls[i])]
          /\ saved.position \in DOMAIN ls /\ saved.active = ls[saved.position].name

(* What is kept while the program runs.                                    *)
RunningKept == AllKept(layouts, owed) /\ ActiveKept

(* What the user has while it does not: what is in the file.               *)
StoppedKept == pressed = NoButton /\ owed = IF saved = NoFile THEN 1 .. DefaultPanes ELSE saved.owed

(* The inductive invariant.                                                *)
LayoutInv ==
  /\ running => RunningKept
  /\ ~running => StoppedKept
  /\ saved # NoFile => SavedKept

(* The active layout is one of the list, and what is kept of it.           *)
LEMMA ActiveIs ==
  ASSUME RunningKept
  PROVE  /\ Position(active) \in DOMAIN layouts /\ Active = layouts[Position(active)]
         /\ IsActive(Active) /\ SoundDashboard(Active)
         /\ PanesOf(Active) \subseteq owed
<1>1. PICK i \in DOMAIN layouts : IsActive(layouts[i])
  BY DEF RunningKept, ActiveKept
<1>2. AllKept(layouts, owed) /\ layouts[i].id = active
  BY <1>1 DEF RunningKept, IsActive
<1>3. Position(active) = i
  BY <1>2, Found DEF Position
<1> QED
  BY <1>1, <1>2, <1>3, KeptFacts DEF Active, AllKept

(* What is kept while the program runs is what PanesAreKept asks for.      *)
LEMMA KeptPanes == RunningKept => OncePlaced /\ PopoutsAreOnScreen
<1> SUFFICES ASSUME RunningKept PROVE OncePlaced /\ PopoutsAreOnScreen
  OBVIOUS
<1>1. AllKept(layouts, owed)
  BY DEF RunningKept
<1>2. Placed = owed
  BY <1>1 DEF AllKept, Placed
<1>3. \A i \in DOMAIN layouts : OnceIn(layouts[i])
  BY <1>1 DEF AllKept, SoundDashboard
<1>4. \A i, j \in DOMAIN layouts : i # j => PanesOf(layouts[i]) \cap PanesOf(layouts[j]) = {}
  BY <1>1 DEF AllKept, Apart
<1>5. PopoutsAreOnScreen
  BY ActiveIs DEF PopoutsAreOnScreen, IsActive
<1> QED
  BY <1>2, <1>3, <1>4, <1>5 DEF OncePlaced

(* The active layout becomes another dashboard, which keeps its panes,     *)
(* or has one more, or one less.                                           *)
Follows(d) ==
  /\ Becomes(d) /\ active' = active
  /\ SoundDashboard(d) /\ d.id = active /\ d.name = Active.name
  /\ \A w \in DOMAIN d.popouts : w \in open'
  /\ pressed'.button = "merge" /\ d.focus.window \in DOMAIN d.popouts => d.focus.grid = 0

(* The active layout changes its panes as the user's change.               *)
LEMMA ActiveBecomes ==
  ASSUME RunningKept, NEW d, Follows(d), NEW gone, NEW new,
         Change(PanesOf(Active), gone, new, PanesOf(d)), Change(owed, gone, new, owed')
  PROVE  RunningKept'
<1> DEFINE i == Position(active)
<1>1. /\ i \in DOMAIN layouts /\ Active = layouts[i] /\ IsActive(layouts[i])
      /\ AllKept(layouts, owed)
  BY ActiveIs DEF RunningKept
<1>2. Put(layouts', layouts, i, d) /\ active' = active
  BY DEF Follows, Becomes, Put
<1>3. SoundDashboard(d) /\ d.id = layouts[i].id /\ d.name = layouts[i].name
  BY <1>1 DEF Follows, IsActive
<1> HIDE DEF i
<1>4. NameIsOwn(layouts, i, d)
  BY <1>1, <1>3 DEF AllKept, Apart, NameIsOwn
<1>5. Change(PanesOf(layouts[i]), gone, new, PanesOf(d))
  BY <1>1
<1>6. AllKept(layouts', owed') /\ i \in DOMAIN layouts' /\ layouts'[i] = d
  BY <1>1, <1>2, <1>3, <1>4, <1>5, Replaced
<1>7. ActiveKept'
  BY <1>6 DEF ActiveKept, IsActive, Follows
<1> QED
  BY <1>6, <1>7 DEF RunningKept

(* It keeps its panes.                                                     *)
LEMMA ActiveStays ==
  ASSUME RunningKept, NEW d, Follows(d), PanesOf(d) = PanesOf(Active), owed' = owed
  PROVE  RunningKept'
<1> DEFINE none == {}
<1>1. Change(PanesOf(Active), none, none, PanesOf(d)) /\ Change(owed, none, none, owed')
  BY DEF Change
<1> HIDE DEF none
<1> QED
  BY <1>1, ActiveBecomes

(* It gains one.                                                           *)
LEMMA ActiveGains ==
  ASSUME RunningKept, NEW d, Follows(d), NEW q, q \notin owed,
         PanesOf(d) = PanesOf(Active) \cup {q}, owed' = owed \cup {q}
  PROVE  RunningKept'
<1> DEFINE gone == {} new == {q}
<1>1. Change(PanesOf(Active), gone, new, PanesOf(d)) /\ Change(owed, gone, new, owed')
  BY ActiveIs DEF Change
<1> HIDE DEF gone, new
<1> QED
  BY <1>1, ActiveBecomes

(* It loses one, which the user closed.                                    *)
LEMMA ActiveLoses ==
  ASSUME RunningKept, NEW d, Follows(d), NEW q, q \in PanesOf(Active),
         PanesOf(d) = PanesOf(Active) \ {q}, owed' = owed \ {q}
  PROVE  RunningKept'
<1> DEFINE gone == {q} new == {}
<1>1. Change(PanesOf(Active), gone, new, PanesOf(d)) /\ Change(owed, gone, new, owed')
  BY ActiveIs DEF Change
<1> HIDE DEF gone, new
<1> QED
  BY <1>1, ActiveBecomes

-----------------------------------------------------------------------------
(* What each action keeps.                                                 *)

(* The HTTP client names panes of the main window only.                    *)
ApiInMain == "popout" \notin ApiOn

(* Pressing the mouse moves the focus.                                     *)
LEMMA PressKeeps ==
  ASSUME RunningKept, NEW w, NEW g, NEW b, Press(w, g, b)
  PROVE  RunningKept'
<1> DEFINE d == [Active EXCEPT !.focus = Focus(w, g)]
<1>1. /\ SoundDashboard(d) /\ PanesOf(d) = PanesOf(Active) /\ d.focus = Focus(w, g)
      /\ d.id = Active.id /\ d.name = Active.name /\ d.popouts = Active.popouts
  BY ActiveIs, FocusMoves
<1>2. Becomes(d) /\ active' = active /\ open' = open /\ owed' = owed
      /\ pressed' = IF b = "none" THEN NoButton ELSE [button |-> b, window |-> w]
  BY DEF Press
<1>3. pressed'.button = "merge" => g = 0
  <2>1. b = "merge" => w # MainWindow
    BY DEF Press
  <2>2. w # MainWindow => g = 0
    BY DEF Press
  <2>3. pressed'.button = "merge" => b = "merge"
    BY <1>2 DEF NoButton
  <2> QED
    BY <2>1, <2>2, <2>3
<1> HIDE DEF d
<1>4. Follows(d)
  BY <1>1, <1>2, <1>3, ActiveIs DEF Follows, IsActive, Focus
<1> QED
  BY <1>1, <1>2, <1>4, ActiveStays

(* Popping a pane out moves it from the grid into a window of its own.     *)
LEMMA PopoutKeeps ==
  ASSUME RunningKept, Popout
  PROVE  RunningKept'
<1> DEFINE f == Active.focus taken == [Active EXCEPT !.focus = NoFocus] w == Min(FreeWindows)
<1>1. /\ SoundDashboard(taken) /\ PanesOf(taken) = PanesOf(Active)
      /\ taken.id = Active.id /\ taken.name = Active.name
      /\ taken.main = Active.main /\ taken.popouts = Active.popouts
  BY ActiveIs, FocusMoves
<1>2. pressed' = NoButton /\ active' = active /\ owed' = owed /\ pressed'.button # "merge"
  BY DEF Popout, NoButton
<1>3. CASE CanClose(Active, f.grid)
  <2> DEFINE g == f.grid
             d == [taken EXCEPT !.main = Without(@, g), !.popouts = With(@, w, Active.main[g])]
  <2>1. Becomes(d) /\ FreeWindows # {} /\ open' = open \cup {w}
    BY <1>3 DEF Popout
  <2>2. w \in FreeWindows
    <3>1. FreeWindows \subseteq Nat
      BY FiniteFreeWindows DEF Windows
    <3> QED
      BY <2>1, <3>1, LeastOfNat
  <2>3. w \notin DOMAIN Active.popouts /\ w # MainWindow
    <3>1. w \in Windows
      BY <2>2, FiniteFreeWindows
    <3>2. w \notin DOMAIN Active.popouts
      BY <2>2, ActiveIs DEF FreeWindows
    <3> QED
      BY <3>1, <3>2 DEF Windows, MainWindow
  <2>4. d = [id |-> Active.id, name |-> Active.name, main |-> Without(Active.main, g),
             popouts |-> With(Active.popouts, w, Active.main[g]), focus |-> NoFocus]
    <3>1. d = [taken EXCEPT !.main = Without(taken.main, g),
                            !.popouts = With(taken.popouts, w, Active.main[g])]
      OBVIOUS
    <3>2. taken = [id |-> taken.id, name |-> taken.name, main |-> taken.main,
                   popouts |-> taken.popouts, focus |-> taken.focus] /\ taken.focus = NoFocus
      BY <1>1, ActiveIs, FocusMoves DEF SoundDashboard
    <3> HIDE DEF d, taken, w, g
    <3> QED
      BY <1>1, <3>1, <3>2
  <2> HIDE DEF d, taken, w
  <2>5. /\ d.id = Active.id /\ d.name = Active.name /\ d.main = Without(Active.main, g)
        /\ d.popouts = With(Active.popouts, w, Active.main[g])
    BY <2>4
  <2>6. /\ IsInjective(Active.main) /\ IsInjective(Active.popouts)
        /\ \A p \in Range(Active.main) : p \notin Range(Active.popouts)
        /\ PanesOf(Active) = Range(Active.main) \cup Range(Active.popouts)
        /\ Active.name \in NameSet /\ PanesOf(Active) \subseteq Panes
        /\ MainWindow \notin DOMAIN Active.popouts
    BY ActiveIs DEF SoundDashboard, OnceIn, PanesOf
  <2>7. g \in DOMAIN Active.main /\ Cardinality(DOMAIN Active.main) > 1
    BY <1>3 DEF CanClose
  <2> DEFINE q == Active.main[g]
  <2>8. q \in Range(Active.main) /\ q \notin Range(Active.popouts)
    BY <2>6, <2>7 DEF Range
  <2> HIDE DEF g
  <2>9. /\ \A x : x \in DOMAIN d.main <=> x \in DOMAIN Active.main /\ x # g
        /\ IsInjective(d.main)
        /\ \A x : x \in Range(d.main) <=> x \in Range(Active.main) /\ x # q
    BY <2>5, <2>6, <2>7, PlaceLeft
  <2> HIDE DEF q
  <2>10. /\ \A x : x \in DOMAIN d.popouts <=> x \in DOMAIN Active.popouts \/ x = w
         /\ IsInjective(d.popouts)
         /\ \A x : x \in Range(d.popouts) <=> x \in Range(Active.popouts) \/ x = q
    BY <2>3, <2>5, <2>6, <2>8, PlaceAdded DEF q
  <2>11. PanesOf(d) = PanesOf(Active)
    BY <2>6, <2>8, <2>9, <2>10 DEF PanesOf
  <2>12. DOMAIN d.main # {}
    BY <2>7, <2>9, MoreThanOne
  <2>13. SoundDashboard(d)
    BY <2>3, <2>4, <2>5, <2>6, <2>8, <2>9, <2>10, <2>11, <2>12 DEF SoundDashboard, OnceIn
  <2>14. Follows(d)
    BY <1>2, <2>1, <2>5, <2>10, <2>13, ActiveIs DEF Follows, IsActive
  <2> QED
    BY <1>2, <2>11, <2>14, ActiveStays
<1>4. CASE ~CanClose(Active, f.grid)
  <2>1. Becomes(taken) /\ open' = open
    BY <1>4 DEF Popout
  <2> HIDE DEF taken
  <2>2. Follows(taken)
    BY <1>1, <1>2, <2>1, ActiveIs DEF Follows, IsActive
  <2> QED
    BY <1>1, <1>2, <2>2, ActiveStays
<1> QED
  BY <1>3, <1>4

(* A window that has opened takes the focus in its layout.                 *)
LEMMA WindowOpenedKeeps ==
  ASSUME RunningKept, NEW c, WindowOpened(c)
  PROVE  RunningKept'
<1> DEFINE n == Len(layouts)
           focused(d) == [d EXCEPT !.focus = Focus(c.window, 0)]
<1>1. /\ n \in Nat /\ DOMAIN layouts = 1 .. n /\ AllKept(layouts, owed)
      /\ \A i \in DOMAIN layouts : SoundDashboard(layouts[i])
  BY KeptFacts DEF RunningKept, AllKept
<1>2. /\ layouts' = [i \in DOMAIN layouts |->
                       IF layouts[i].id # c.layout THEN layouts[i] ELSE focused(layouts[i])]
      /\ active' = active /\ open' = open /\ pressed' = pressed /\ owed' = owed
  BY DEF WindowOpened
<1> HIDE DEF n
<1>3. DOMAIN layouts' = DOMAIN layouts
  BY <1>2
<1>4. ASSUME NEW i \in DOMAIN layouts
      PROVE  /\ SoundDashboard(layouts'[i]) /\ PanesOf(layouts'[i]) = PanesOf(layouts[i])
             /\ layouts'[i].id = layouts[i].id /\ layouts'[i].name = layouts[i].name
             /\ layouts'[i].popouts = layouts[i].popouts
             /\ layouts'[i].focus = layouts[i].focus \/ layouts'[i].focus = Focus(c.window, 0)
  <2>1. CASE layouts[i].id # c.layout
    <3>1. layouts'[i] = layouts[i]
      BY <1>2, <2>1
    <3> QED
      BY <1>1, <3>1
  <2>2. CASE layouts[i].id = c.layout
    <3>1. layouts'[i] = focused(layouts[i])
      BY <1>2, <2>2
    <3>2. SoundDashboard(layouts[i])
      BY <1>1
    <3> QED
      BY <3>1, <3>2, FocusMoves
  <2> QED
    BY <2>1, <2>2
<1>5. layouts' \in Seq(Range(layouts'))
  <2> DEFINE S == {layouts'[i] : i \in 1 .. n}
  <2>1. layouts' \in [1 .. n -> S]
    BY <1>1, <1>2
  <2> HIDE DEF S
  <2> QED
    BY <1>1, <2>1, OwnElements
<1>6. AllKept(layouts', owed')
  <2>1. \A i, j \in DOMAIN layouts' : i # j => Apart(layouts'[i], layouts'[j])
    <3> SUFFICES ASSUME NEW i \in DOMAIN layouts, NEW j \in DOMAIN layouts, i # j
                 PROVE  Apart(layouts'[i], layouts'[j])
      BY <1>3
    <3>1. Apart(layouts[i], layouts[j])
      BY <1>1 DEF AllKept
    <3> QED
      BY <1>4, <3>1 DEF Apart
  <2>2. \A p : p \in owed' <=> \E i \in DOMAIN layouts' : p \in PanesOf(layouts'[i])
    BY <1>1, <1>2, <1>3, <1>4 DEF AllKept
  <2>3. \A i \in DOMAIN layouts' : SoundDashboard(layouts'[i])
    BY <1>3, <1>4
  <2> QED
    BY <1>5, <2>1, <2>2, <2>3 DEF AllKept
<1>7. ActiveKept'
  <2>1. PICK i \in DOMAIN layouts : IsActive(layouts[i])
    BY DEF RunningKept, ActiveKept
  <2>2. /\ layouts'[i].id = layouts[i].id /\ layouts'[i].popouts = layouts[i].popouts
        /\ layouts'[i].focus = layouts[i].focus \/ layouts'[i].focus = Focus(c.window, 0)
    BY <1>4
  <2>3. /\ layouts'[i].id = active' /\ \A w \in DOMAIN layouts'[i].popouts : w \in open'
        /\ pressed'.button = "merge" /\ layouts'[i].focus.window \in DOMAIN layouts'[i].popouts =>
             layouts'[i].focus.grid = 0
    BY <1>2, <2>1, <2>2 DEF IsActive, Focus
  <2> QED
    BY <1>3, <2>3 DEF ActiveKept, IsActive
<1> QED
  BY <1>6, <1>7 DEF RunningKept

(* Merging moves the pane of a window into the grid of the main window,    *)
(* whatever has the focus by then.                                         *)
LEMMA MergeKeeps ==
  ASSUME RunningKept, Merge
  PROVE  RunningKept'
<1> DEFINE f == Active.focus w == f.window
           taken == [Active EXCEPT !.focus = NoFocus, !.popouts = Without(@, w)]
<1>1. /\ pressed.button = "merge" /\ pressed' = NoButton /\ pressed'.button # "merge"
      /\ active' = active /\ owed' = owed
  BY DEF Merge, NoButton
<1>2. taken = [id |-> Active.id, name |-> Active.name, main |-> Active.main,
               popouts |-> Without(Active.popouts, w), focus |-> NoFocus]
  <2>1. taken = [Active EXCEPT !.focus = NoFocus, !.popouts = Without(Active.popouts, w)]
    OBVIOUS
  <2>2. Active = [id |-> Active.id, name |-> Active.name, main |-> Active.main,
                  popouts |-> Active.popouts, focus |-> Active.focus]
    BY ActiveIs DEF SoundDashboard
  <2> HIDE DEF taken, w
  <2> QED
    BY <2>1, <2>2
<1> HIDE DEF taken
<1>3. /\ taken.id = Active.id /\ taken.name = Active.name /\ taken.main = Active.main
      /\ taken.popouts = Without(Active.popouts, w)
  BY <1>2
<1>4. /\ IsInjective(Active.main) /\ IsInjective(Active.popouts) /\ DOMAIN Active.main # {}
      /\ \A p \in Range(Active.main) : p \notin Range(Active.popouts)
      /\ PanesOf(Active) = Range(Active.main) \cup Range(Active.popouts)
      /\ Active.name \in NameSet /\ PanesOf(Active) \subseteq Panes
      /\ MainWindow \notin DOMAIN Active.popouts
  BY ActiveIs DEF SoundDashboard, OnceIn, PanesOf
<1> HIDE DEF w
<1>5. /\ \A x : x \in DOMAIN taken.popouts <=> x \in DOMAIN Active.popouts /\ x # w
      /\ IsInjective(taken.popouts)
      /\ w \in DOMAIN Active.popouts => Active.popouts[w] \in Range(Active.popouts)
      /\ \A x : x \in Range(taken.popouts) <=>
                x \in Range(Active.popouts) /\ ~(w \in DOMAIN Active.popouts /\ x = Active.popouts[w])
  BY <1>3, <1>4, PlaceLeft
<1>6. SoundDashboard(taken)
  BY <1>2, <1>3, <1>4, <1>5 DEF SoundDashboard, OnceIn, PanesOf
<1>7. CASE w \in DOMAIN Active.popouts
  <2> DEFINE q == Active.popouts[w] d == SplitOff(taken, MainWindow, q)
  <2>1. f.grid = 0
    BY <1>1, <1>7, ActiveIs DEF IsActive, w
  <2>2. Becomes(d) /\ open' = open \ {w}
    BY <1>7, <2>1 DEF Merge, taken, w
  <2>3. q \in Panes /\ q \notin PanesOf(taken) /\ q \in PanesOf(Active)
    BY <1>3, <1>4, <1>5, <1>7 DEF PanesOf
  <2> HIDE DEF q
  <2>4. /\ SoundDashboard(d) /\ PanesOf(d) = PanesOf(taken) \cup {q}
        /\ d.id = taken.id /\ d.name = taken.name /\ d.popouts = taken.popouts
    BY <1>6, <2>3, SplitAdds
  <2> HIDE DEF d
  <2>5. PanesOf(d) = PanesOf(Active)
    BY <1>3, <1>4, <1>5, <1>7, <2>3, <2>4 DEF PanesOf, q
  <2>6. Follows(d)
    BY <1>1, <1>3, <1>5, <2>2, <2>4, ActiveIs DEF Follows, IsActive
  <2> QED
    BY <1>1, <2>5, <2>6, ActiveStays
<1>8. CASE w \notin DOMAIN Active.popouts
  <2>1. Becomes(taken) /\ open' = open
    BY <1>8 DEF Merge, taken, w
  <2>2. PanesOf(taken) = PanesOf(Active)
    BY <1>3, <1>4, <1>5, <1>8 DEF PanesOf
  <2>3. Follows(taken)
    BY <1>1, <1>3, <1>5, <1>6, <2>1, ActiveIs DEF Follows, IsActive
  <2> QED
    BY <1>1, <2>2, <2>3, ActiveStays
<1> QED
  BY <1>7, <1>8

(* A window that is closed takes its pane along, if it is of the active    *)
(* layout.                                                                 *)
LEMMA CloseWindowKeeps ==
  ASSUME RunningKept, NEW w, CloseWindow(w)
  PROVE  RunningKept'
<1> DEFINE d == [Active EXCEPT !.popouts = Without(@, w)]
<1>1. /\ Becomes(d) /\ active' = active /\ open' = open \ {w}
      /\ pressed' = NoButton /\ pressed'.button # "merge"
      /\ owed' = owed \ (IF w \in DOMAIN Active.popouts THEN {Active.popouts[w]} ELSE {})
  BY DEF CloseWindow, Mouse, NoButton
<1>2. d = [id |-> Active.id, name |-> Active.name, main |-> Active.main,
           popouts |-> Without(Active.popouts, w), focus |-> Active.focus]
  <2>1. Active = [id |-> Active.id, name |-> Active.name, main |-> Active.main,
                  popouts |-> Active.popouts, focus |-> Active.focus]
    BY ActiveIs DEF SoundDashboard
  <2>2. d = [Active EXCEPT !.popouts = Without(Active.popouts, w)]
    OBVIOUS
  <2> HIDE DEF d
  <2> QED
    BY <2>1, <2>2
<1> HIDE DEF d
<1>3. /\ d.id = Active.id /\ d.name = Active.name /\ d.main = Active.main
      /\ d.popouts = Without(Active.popouts, w)
  BY <1>2
<1>4. /\ IsInjective(Active.main) /\ IsInjective(Active.popouts) /\ DOMAIN Active.main # {}
      /\ \A p \in Range(Active.main) : p \notin Range(Active.popouts)
      /\ PanesOf(Active) = Range(Active.main) \cup Range(Active.popouts)
      /\ Active.name \in NameSet /\ PanesOf(Active) \subseteq Panes
      /\ MainWindow \notin DOMAIN Active.popouts
  BY ActiveIs DEF SoundDashboard, OnceIn, PanesOf
<1>5. /\ \A x : x \in DOMAIN d.popouts <=> x \in DOMAIN Active.popouts /\ x # w
      /\ IsInjective(d.popouts)
      /\ w \in DOMAIN Active.popouts => Active.popouts[w] \in Range(Active.popouts)
      /\ \A x : x \in Range(d.popouts) <=>
                x \in Range(Active.popouts) /\ ~(w \in DOMAIN Active.popouts /\ x = Active.popouts[w])
  BY <1>3, <1>4, PlaceLeft
<1>6. SoundDashboard(d)
  BY <1>2, <1>3, <1>4, <1>5 DEF SoundDashboard, OnceIn, PanesOf
<1>7. Follows(d)
  BY <1>1, <1>3, <1>5, <1>6, ActiveIs DEF Follows, IsActive
<1>8. CASE w \in DOMAIN Active.popouts
  <2> DEFINE q == Active.popouts[w]
  <2>1. /\ q \in PanesOf(Active) /\ PanesOf(d) = PanesOf(Active) \ {q} /\ owed' = owed \ {q}
    BY <1>1, <1>3, <1>4, <1>5, <1>8 DEF PanesOf
  <2> HIDE DEF q
  <2> QED
    BY <1>7, <2>1, ActiveLoses
<1>9. CASE w \notin DOMAIN Active.popouts
  <2>1. PanesOf(d) = PanesOf(Active) /\ owed' = owed
    BY <1>1, <1>3, <1>4, <1>5, <1>9 DEF PanesOf
  <2> QED
    BY <1>7, <2>1, ActiveStays
<1> QED
  BY <1>8, <1>9

(* A pane that is added to the active layout is new to the user.           *)
LEMMA NewPane ==
  ASSUME RunningKept, FreePanes # {}
  PROVE  /\ Min(FreePanes) \in Panes /\ Min(FreePanes) \notin owed
         /\ Min(FreePanes) \notin PanesOf(Active)
<1>1. FreePanes \subseteq Nat
  BY DEF FreePanes, Panes
<1>2. Min(FreePanes) \in FreePanes
  BY <1>1, LeastOfNat
<1> QED
  BY <1>2, ActiveIs DEF FreePanes

(* A pane of the main window that is split gives a new one.                *)
LEMMA SplitPaneKeeps ==
  ASSUME ApiInMain, RunningKept, NEW w, NEW g, SplitPane(w, g)
  PROVE  RunningKept'
<1> DEFINE q == Min(FreePanes) d == SplitOff(Active, w, q)
<1>1. /\ Becomes(d) /\ owed' = owed \cup {q} /\ w = MainWindow /\ FreePanes # {}
      /\ active' = active /\ open' = open /\ pressed' = pressed
  BY DEF SplitPane, Addressed, ApiInMain
<1>2. q \in Panes /\ q \notin owed /\ q \notin PanesOf(Active)
  BY <1>1, NewPane
<1> HIDE DEF q
<1>3. /\ SoundDashboard(d) /\ PanesOf(d) = PanesOf(Active) \cup {q}
      /\ d.id = Active.id /\ d.name = Active.name /\ d.popouts = Active.popouts
      /\ d.focus.window = w
  BY <1>2, ActiveIs, SplitAdds
<1> HIDE DEF d
<1>4. Follows(d)
  <2>1. d.focus.window \notin DOMAIN d.popouts
    BY <1>1, <1>3, ActiveIs DEF SoundDashboard
  <2> QED
    BY <1>1, <1>3, <2>1, ActiveIs DEF Follows, IsActive
<1> QED
  BY <1>1, <1>2, <1>3, <1>4, ActiveGains

(* A pane of the main window goes when it is closed.                       *)
LEMMA ClosePaneKeeps ==
  ASSUME ApiInMain, RunningKept, NEW w, NEW g, ClosePane(w, g)
  PROVE  RunningKept'
<1>1. PICK sibling \in DOMAIN Active.main \ {g} :
        Becomes([Active EXCEPT !.main = Without(@, g), !.focus = Focus(w, sibling)])
  BY DEF ClosePane
<1> DEFINE d == [Active EXCEPT !.main = Without(@, g), !.focus = Focus(w, sibling)]
           q == Active.main[g]
<1>2. /\ w = MainWindow /\ g \in DOMAIN Active.main /\ Becomes(d) /\ owed' = owed \ {q}
      /\ active' = active /\ open' = open /\ pressed' = pressed
  BY <1>1 DEF ClosePane, Addressed, CanClose, ApiInMain
<1>3. d = [id |-> Active.id, name |-> Active.name, main |-> Without(Active.main, g),
           popouts |-> Active.popouts, focus |-> Focus(w, sibling)]
  <2>1. Active = [id |-> Active.id, name |-> Active.name, main |-> Active.main,
                  popouts |-> Active.popouts, focus |-> Active.focus]
    BY ActiveIs DEF SoundDashboard
  <2>2. d = [Active EXCEPT !.main = Without(Active.main, g), !.focus = Focus(w, sibling)]
    OBVIOUS
  <2> HIDE DEF d
  <2> QED
    BY <2>1, <2>2
<1> HIDE DEF d
<1>4. /\ d.id = Active.id /\ d.name = Active.name /\ d.main = Without(Active.main, g)
      /\ d.popouts = Active.popouts /\ d.focus.window = w
  BY <1>3 DEF Focus
<1>5. /\ IsInjective(Active.main) /\ IsInjective(Active.popouts)
      /\ \A p \in Range(Active.main) : p \notin Range(Active.popouts)
      /\ PanesOf(Active) = Range(Active.main) \cup Range(Active.popouts)
      /\ Active.name \in NameSet /\ PanesOf(Active) \subseteq Panes
      /\ MainWindow \notin DOMAIN Active.popouts
  BY ActiveIs DEF SoundDashboard, OnceIn, PanesOf
<1>6. q \in Range(Active.main)
  BY <1>2 DEF Range
<1>7. /\ \A x : x \in DOMAIN d.main <=> x \in DOMAIN Active.main /\ x # g
      /\ IsInjective(d.main)
      /\ \A x : x \in Range(d.main) <=> x \in Range(Active.main) /\ x # q
  <2>1. IsInjective(Active.main) /\ g \in DOMAIN Active.main
    BY <1>2, <1>5
  <2>2. /\ \A x : x \in DOMAIN Without(Active.main, g) <=> x \in DOMAIN Active.main /\ x # g
        /\ IsInjective(Without(Active.main, g))
        /\ \A x : x \in Range(Without(Active.main, g)) <=> x \in Range(Active.main) /\ x # q
    BY <2>1, PlaceLeft
  <2> HIDE DEF q
  <2> QED
    BY <1>4, <2>2
<1> HIDE DEF q
<1>8. q \in PanesOf(Active) /\ PanesOf(d) = PanesOf(Active) \ {q}
  BY <1>4, <1>5, <1>6, <1>7 DEF PanesOf
<1>9. DOMAIN d.main # {}
  BY <1>1, <1>7
<1>10. SoundDashboard(d)
  BY <1>3, <1>4, <1>5, <1>7, <1>8, <1>9 DEF SoundDashboard, OnceIn
<1>11. Follows(d)
  BY <1>2, <1>4, <1>5, <1>10, ActiveIs DEF Follows, IsActive
<1> QED
  BY <1>2, <1>8, <1>11, ActiveLoses

(* An order pane comes into the grid of the main window, whatever window   *)
(* the focus is in; no button is held down then.                           *)
LEMMA OpenOrderPaneKeeps ==
  ASSUME ApiInMain, RunningKept, OpenOrderPane
  PROVE  RunningKept'
<1> DEFINE q == Min(FreePanes) a == AutoFocus(Active) w == a.focus.window d == SplitOff(a, w, q)
<1>1. /\ Becomes(d) /\ owed' = owed \cup {q} /\ FreePanes # {}
      /\ active' = active /\ open' = open /\ pressed' = NoButton /\ pressed'.button # "merge"
  BY DEF OpenOrderPane, OpensOrderPane, NoButton, ApiInMain
<1>2. q \in Panes /\ q \notin owed /\ q \notin PanesOf(Active)
  BY <1>1, NewPane
<1>3. /\ SoundDashboard(a) /\ PanesOf(a) = PanesOf(Active)
      /\ a.id = Active.id /\ a.name = Active.name /\ a.popouts = Active.popouts
  BY ActiveIs, AutoFocusKeeps
<1> HIDE DEF q, a, w
<1>4. /\ SoundDashboard(d) /\ PanesOf(d) = PanesOf(a) \cup {q}
      /\ d.id = a.id /\ d.name = a.name /\ d.popouts = a.popouts
  BY <1>2, <1>3, SplitAdds
<1> HIDE DEF d
<1>5. Follows(d)
  BY <1>1, <1>3, <1>4, ActiveIs DEF Follows, IsActive
<1>6. PanesOf(d) = PanesOf(Active) \cup {q}
  BY <1>3, <1>4
<1> QED
  BY <1>1, <1>2, <1>5, <1>6, ActiveGains

-----------------------------------------------------------------------------
(* The layout manager.                                                     *)

(* A known layout is in the list.                                          *)
LEMMA KnownIs ==
  ASSUME RunningKept, NEW id, Known(id)
  PROVE  /\ Position(id) \in DOMAIN layouts /\ layouts[Position(id)].id = id
         /\ SoundDashboard(layouts[Position(id)])
         /\ \A j \in DOMAIN layouts : j # Position(id) => layouts[j].id # id
<1>1. PICK i \in DOMAIN layouts : layouts[i].id = id
  BY DEF Known
<1>2. AllKept(layouts, owed)
  BY DEF RunningKept
<1>3. Position(id) = i
  BY <1>1, <1>2, Found DEF Position
<1> QED
  BY <1>1, <1>2, <1>3 DEF AllKept, Apart

(* The layout that is switched to gets windows for what it has popped out. *)
LEMMA SelectActiveKeeps ==
  ASSUME RunningKept, NEW id, SelectActive(id)
  PROVE  RunningKept'
<1> DEFINE i == Position(id) d == layouts[i] e == LoadLayout(d) S == Range(d.popouts)
<1>1. /\ Known(id) /\ active' = id /\ Cardinality(FreeWindows) >= Cardinality(DOMAIN d.popouts)
      /\ layouts' = [layouts EXCEPT ![i] = e] /\ owed' = owed
      /\ open' = (open \ DOMAIN d.popouts) \cup (DOMAIN e.popouts \ DOMAIN d.popouts)
      /\ pressed' = NoButton /\ pressed'.button # "merge"
  BY DEF SelectActive, Mouse, Fits, NoButton
<1>2. i \in DOMAIN layouts /\ d.id = id /\ SoundDashboard(d) /\ AllKept(layouts, owed)
  BY <1>1, KnownIs DEF RunningKept
<1>3. \A w \in DOMAIN d.popouts : w \notin FreeWindows
  BY <1>2 DEF FreeWindows
<1> HIDE DEF i
<1>4. IsInjective(d.main) /\ IsInjective(d.popouts) /\ DOMAIN d.main # {}
      /\ Range(d.main) \cap S = {} /\ PanesOf(d) = Range(d.main) \cup S /\ PanesOf(d) \subseteq Panes
      /\ d.name \in NameSet
  BY <1>2 DEF SoundDashboard, OnceIn, PanesOf
<1>5. IsFiniteSet(S) /\ Cardinality(FreeWindows) >= Cardinality(S)
  <2>1. S \subseteq Panes
    BY <1>4
  <2>2. IsFiniteSet(S) /\ IsFiniteSet(DOMAIN d.popouts)
    BY <1>4, <2>1, FinitePanes, FS_Subset, FinitePlaces
  <2>3. [x \in DOMAIN d.popouts |-> d.popouts[x]] \in Surjection(DOMAIN d.popouts, S)
    BY DEF Surjection, Range
  <2>4. Cardinality(S) <= Cardinality(DOMAIN d.popouts)
    BY <2>2, <2>3, FS_Surjection
  <2>5. Cardinality(S) \in Nat /\ Cardinality(DOMAIN d.popouts) \in Nat /\ Cardinality(FreeWindows) \in Nat
    BY <2>2, FiniteFreeWindows, FS_CardinalityType
  <2> HIDE DEF S, d
  <2> QED
    BY <1>1, <2>2, <2>4, <2>5
<1>6. /\ IsInjective(PoppedOut(S)) /\ Range(PoppedOut(S)) = S
      /\ \A w \in DOMAIN PoppedOut(S) : w \in FreeWindows /\ w # MainWindow
  <2>1. /\ IsInjective(PoppedOut(S)) /\ Range(PoppedOut(S)) = S
        /\ DOMAIN PoppedOut(S) \subseteq FreeWindows
    BY <1>5, PoppedOutKeeps
  <2>2. \A w \in FreeWindows : w # MainWindow
    BY FiniteFreeWindows DEF Windows, MainWindow
  <2> QED
    BY <2>1, <2>2
<1>7. e = [id |-> d.id, name |-> d.name, main |-> d.main, popouts |-> PoppedOut(S), focus |-> d.focus]
  <2>1. e = [d EXCEPT !.popouts = PoppedOut(S)]
    BY DEF LoadLayout
  <2>2. d = [id |-> d.id, name |-> d.name, main |-> d.main, popouts |-> d.popouts, focus |-> d.focus]
    BY <1>2 DEF SoundDashboard
  <2> HIDE DEF e, d, S
  <2> QED
    BY <2>1, <2>2
<1> HIDE DEF e
<1>8. /\ e.id = id /\ e.name = d.name /\ e.main = d.main /\ e.popouts = PoppedOut(S)
  BY <1>2, <1>7
<1>9. PanesOf(e) = PanesOf(d)
  BY <1>6, <1>8 DEF PanesOf
<1>10. SoundDashboard(e)
  BY <1>4, <1>6, <1>7, <1>8, <1>9 DEF SoundDashboard, OnceIn
<1>11. NameIsOwn(layouts, i, e)
  BY <1>2, <1>8 DEF NameIsOwn, AllKept, Apart
<1>12. AllKept(layouts', owed') /\ i \in DOMAIN layouts' /\ layouts'[i] = e
  <2> DEFINE none == {}
  <2>1. Change(PanesOf(layouts[i]), none, none, PanesOf(e)) /\ Change(owed, none, none, owed')
    BY <1>1, <1>9 DEF Change
  <2> HIDE DEF none
  <2>2. Put(layouts', layouts, i, e) /\ e.id = layouts[i].id
    BY <1>1, <1>2, <1>8 DEF Put
  <2> QED
    BY <1>2, <1>10, <1>11, <2>1, <2>2, Replaced
<1>13. \A w \in DOMAIN e.popouts : w \in open'
  BY <1>1, <1>3, <1>6, <1>8
<1>14. ActiveKept'
  BY <1>1, <1>8, <1>12, <1>13 DEF ActiveKept, IsActive
<1> QED
  BY <1>12, <1>14 DEF RunningKept

(* A new layout comes last.                                                *)
IsNew(d, panes) ==
  /\ SoundDashboard(d) /\ d.id \in FreeLayouts
  /\ \A i \in DOMAIN layouts : layouts[i].id # d.id /\ layouts[i].name = d.name => IsCut(d.name)
  /\ PanesOf(d) = panes /\ panes \subseteq FreePanes

(* Such a layout may be added, and the others stay as they are.            *)
LEMMA LayoutAdded ==
  ASSUME RunningKept, NEW d, NEW panes, IsNew(d, panes),
         layouts' = Append(layouts, d), owed' = owed \cup panes
  PROVE  /\ AllKept(layouts', owed') /\ Len(layouts) + 1 \in DOMAIN layouts'
         /\ layouts'[Len(layouts) + 1] = d
         /\ \A i \in DOMAIN layouts : i \in DOMAIN layouts' /\ layouts'[i] = layouts[i]
<1>1. AllKept(layouts, owed) /\ SoundDashboard(d)
  BY DEF RunningKept, IsNew
<1>2. Another(layouts, d) /\ IsLast(layouts', layouts, d)
  BY DEF IsNew, FreeLayouts, Another, IsLast
<1>3. More(owed, PanesOf(d), owed')
  BY DEF IsNew, FreePanes, More
<1> QED
  BY <1>1, <1>2, <1>3, Appended

(* Free panes are finitely many, and a free id is found if there is one.   *)
LEMMA FreeThings ==
  /\ IsFiniteSet(FreePanes) /\ FreePanes \subseteq Panes
  /\ FreeLayouts # {} => Min(FreeLayouts) \in FreeLayouts
<1>1. FreePanes \subseteq Panes
  BY DEF FreePanes
<1>2. FreeLayouts \subseteq Nat
  BY DEF FreeLayouts
<1> QED
  BY <1>1, <1>2, FinitePanes, FS_Subset, LeastOfNat

(* The new layout has new panes.                                           *)
LEMMA AddLayoutKeeps ==
  ASSUME RunningKept, AddLayout
  PROVE  RunningKept'
<1> DEFINE id == Min(FreeLayouts) name == GenerateUniqueLayoutName
           fresh == Some(FreePanes, DefaultPanes)
           d == DefaultDashboard(id, name)
<1>1. /\ layouts' = Append(layouts, d) /\ active' = d.id /\ owed' = owed \cup PanesOf(d)
      /\ FreeLayouts # {} /\ Cardinality(FreePanes) >= DefaultPanes
      /\ pressed' = NoButton /\ pressed'.button # "merge"
  BY DEF AddLayout, Mouse, Fits, NoButton
<1>2. id \in FreeLayouts
  BY <1>1, FreeThings
<1>3. name \in NameSet /\ \A i \in DOMAIN layouts : layouts[i].name # name
  BY FreshName DEF RunningKept
<1>4. fresh \in [1 .. DefaultPanes -> FreePanes]
  <2>1. Cardinality(FreePanes) \in Nat
    BY FreeThings, FS_CardinalityType
  <2> QED
    BY <1>1, <2>1, Bounds, FreeThings, SomeOf
<1> DEFINE S == ToSet(fresh)
<1>5. fresh[1] \in S /\ S \subseteq FreePanes /\ IsFiniteSet(S)
  <2>1. fresh[1] \in S /\ S \subseteq FreePanes
    BY <1>4, Bounds DEF ToSet
  <2> QED
    BY <2>1, FreeThings, FS_Subset
<1> DEFINE main == NumberedFrom(fresh[1], S)
<1>6. d = Dashboard(id, name, main, <<>>)
  BY DEF DefaultDashboard
<1> HIDE DEF S, fresh
<1>7. IsInjective(main) /\ Range(main) = S /\ DOMAIN main # {}
  BY <1>5, Numbered
<1> HIDE DEF main, d, id, name
<1>8. d = [id |-> id, name |-> name, main |-> main, popouts |-> <<>>, focus |-> NoFocus]
  BY <1>6 DEF Dashboard
<1>9. d.id = id /\ d.name = name /\ d.main = main /\ d.popouts = <<>>
  BY <1>8
<1>10. DOMAIN d.popouts = {} /\ Range(d.popouts) = {} /\ IsInjective(d.popouts)
  BY <1>9 DEF Range, IsInjective
<1>11. PanesOf(d) = S
  BY <1>7, <1>9, <1>10 DEF PanesOf
<1>12. SoundDashboard(d)
  BY <1>3, <1>5, <1>7, <1>8, <1>9, <1>10, <1>11, FreeThings DEF SoundDashboard, OnceIn
<1>13. IsNew(d, S)
  BY <1>2, <1>3, <1>5, <1>9, <1>11, <1>12 DEF IsNew
<1>14. /\ AllKept(layouts', owed') /\ Len(layouts) + 1 \in DOMAIN layouts'
       /\ layouts'[Len(layouts) + 1] = d
  BY <1>1, <1>11, <1>13, LayoutAdded
<1>15. ActiveKept'
  BY <1>1, <1>10, <1>14 DEF ActiveKept, IsActive
<1> QED
  BY <1>14, <1>15 DEF RunningKept

(* What another layout is or has does not concern the active one.          *)
LEMMA ActiveUntouched ==
  ASSUME RunningKept, active' = active, open' = open, pressed' = pressed,
         AllKept(layouts', owed'),
         \A j \in DOMAIN layouts : layouts[j].id = active => \E k \in DOMAIN layouts' :
            /\ layouts'[k].id = active /\ layouts'[k].popouts = layouts[j].popouts
            /\ layouts'[k].focus = layouts[j].focus
  PROVE  RunningKept'
<1>1. PICK j \in DOMAIN layouts : IsActive(layouts[j])
  BY DEF RunningKept, ActiveKept
<1>2. PICK k \in DOMAIN layouts' :
            /\ layouts'[k].id = active /\ layouts'[k].popouts = layouts[j].popouts
            /\ layouts'[k].focus = layouts[j].focus
  BY <1>1 DEF IsActive
<1>3. ActiveKept'
  BY <1>1, <1>2 DEF ActiveKept, IsActive
<1> QED
  BY <1>3 DEF RunningKept

(* A layout that is removed takes its panes along, and is not the active   *)
(* one.                                                                    *)
LEMMA RemoveLayoutKeeps ==
  ASSUME RunningKept, NEW id, RemoveLayout(id)
  PROVE  RunningKept'
<1> DEFINE i == Position(id)
<1>1. /\ Known(id) /\ id # active /\ layouts' = RemoveAt(layouts, i)
      /\ owed' = owed \ PanesOf(layouts[i])
      /\ active' = active /\ open' = open /\ pressed' = pressed
  BY DEF RemoveLayout, CanRemove
<1>2. i \in DOMAIN layouts /\ layouts[i].id = id /\ AllKept(layouts, owed)
  BY <1>1, KnownIs DEF RunningKept
<1> HIDE DEF i
<1>3. /\ AllKept(layouts', owed')
      /\ \A j \in DOMAIN layouts : j # i => \E k \in DOMAIN layouts' : layouts'[k] = layouts[j]
  <2>1. \A p : p \in owed' <=> p \in owed /\ p \notin PanesOf(layouts[i])
    BY <1>1
  <2> QED
    BY <1>1, <1>2, <2>1, Taken
<1>4. \A j \in DOMAIN layouts : layouts[j].id = active => \E k \in DOMAIN layouts' :
            /\ layouts'[k].id = active /\ layouts'[k].popouts = layouts[j].popouts
            /\ layouts'[k].focus = layouts[j].focus
  BY <1>1, <1>2, <1>3
<1> QED
  BY <1>1, <1>3, <1>4, ActiveUntouched

(* Ordering the list moves no pane.                                        *)
LEMMA ReorderKeeps ==
  ASSUME RunningKept, NEW i \in DOMAIN layouts, NEW target \in 1 .. Len(layouts) + 1, Reorder(i, target)
  PROVE  RunningKept'
<1> DEFINE t == IF i < target THEN target - 1 ELSE target
<1>1. /\ i # target /\ layouts' = InsertAt(RemoveAt(layouts, i), t, layouts[i]) /\ owed' = owed
      /\ active' = active /\ open' = open /\ pressed' = pressed
  BY DEF Reorder
<1>2. AllKept(layouts, owed) /\ Len(layouts) \in Nat /\ DOMAIN layouts = 1 .. Len(layouts)
  BY KeptFacts DEF RunningKept
<1>3. t \in 1 .. Len(layouts)
  BY <1>1, <1>2
<1> HIDE DEF t
<1>4. /\ AllKept(layouts', owed')
      /\ \A j \in DOMAIN layouts : \E k \in DOMAIN layouts' : layouts'[k] = layouts[j]
  BY <1>1, <1>2, <1>3, Ordered
<1> QED
  BY <1>1, <1>4, ActiveUntouched

(* A layout is given another name.                                         *)
LEMMA SetLayoutNameKeeps ==
  ASSUME RunningKept, NEW id, NEW proposed \in NameSet, SetLayoutName(id, proposed)
  PROVE  RunningKept'
<1> DEFINE i == Position(id) name == EnsureUniqueName(proposed, id)
           e == [layouts[i] EXCEPT !.name = name]
<1>1. /\ Known(id) /\ layouts' = [layouts EXCEPT ![i].name = name] /\ owed' = owed
      /\ active' = active /\ open' = open /\ pressed' = pressed
  BY DEF SetLayoutName
<1>2. /\ i \in DOMAIN layouts /\ layouts[i].id = id /\ SoundDashboard(layouts[i])
      /\ AllKept(layouts, owed) /\ \A j \in DOMAIN layouts : j # i => layouts[j].id # id
  BY <1>1, KnownIs DEF RunningKept
<1>3. /\ name \in NameSet
      /\ \A j \in DOMAIN layouts : layouts[j].id # id /\ layouts[j].name = name => IsCut(name)
  BY <1>2, OwnName
<1>4. layouts' = [layouts EXCEPT ![i] = e]
  BY <1>1
<1> HIDE DEF i, name
<1>5. e = [id |-> layouts[i].id, name |-> name, main |-> layouts[i].main,
           popouts |-> layouts[i].popouts, focus |-> layouts[i].focus]
  BY <1>2 DEF SoundDashboard
<1> HIDE DEF e
<1>6. /\ e.id = id /\ e.name = name /\ e.main = layouts[i].main
      /\ e.popouts = layouts[i].popouts /\ e.focus = layouts[i].focus
  BY <1>2, <1>5
<1>7. PanesOf(e) = PanesOf(layouts[i])
  BY <1>6 DEF PanesOf
<1>8. SoundDashboard(e)
  BY <1>2, <1>3, <1>5, <1>6, <1>7 DEF SoundDashboard, OnceIn
<1>9. NameIsOwn(layouts, i, e)
  BY <1>2, <1>3, <1>6 DEF NameIsOwn
<1>10. /\ AllKept(layouts', owed') /\ i \in DOMAIN layouts' /\ layouts'[i] = e
       /\ \A j \in DOMAIN layouts : j # i => j \in DOMAIN layouts' /\ layouts'[j] = layouts[j]
  <2> DEFINE none == {}
  <2>1. Change(PanesOf(layouts[i]), none, none, PanesOf(e)) /\ Change(owed, none, none, owed')
    BY <1>1, <1>7 DEF Change
  <2> HIDE DEF none
  <2>2. Put(layouts', layouts, i, e) /\ e.id = layouts[i].id
    BY <1>2, <1>4, <1>6 DEF Put
  <2> QED
    BY <1>2, <1>8, <1>9, <2>1, <2>2, Replaced
<1>11. ASSUME NEW j \in DOMAIN layouts, layouts[j].id = active
       PROVE  \E k \in DOMAIN layouts' :
                 /\ layouts'[k].id = active /\ layouts'[k].popouts = layouts[j].popouts
                 /\ layouts'[k].focus = layouts[j].focus
  <2>1. CASE j = i
    BY <1>2, <1>6, <1>10, <1>11, <2>1
  <2>2. CASE j # i
    BY <1>10, <1>11, <2>2
  <2> QED
    BY <2>1, <2>2
<1> QED
  BY <1>1, <1>10, <1>11, ActiveUntouched

(* A copy of a layout has as many panes, and none of its own is there yet. *)
LEMMA Parted ==
  ASSUME NEW S, IsFiniteSet(S), NEW n \in Nat, NEW k \in Nat, n >= 1,
         NEW f \in Seq(S), Len(f) = n + k, IsInjective(f)
  PROVE  LET A == ToSet(SubSeq(f, 1, n)) B == ToSet(SubSeq(f, n + 1, n + k))
         IN /\ f[1] \in A /\ A \cap B = {} /\ A \cup B = ToSet(f) /\ ToSet(f) \subseteq S
            /\ IsFiniteSet(A) /\ IsFiniteSet(B) /\ Cardinality(B) <= k
<1> DEFINE a == SubSeq(f, 1, n) b == SubSeq(f, n + 1, n + k)
           A == ToSet(a) B == ToSet(b)
<1>1. /\ a \in Seq(S) /\ Len(a) = n /\ \A i \in 1 .. n : a[i] = f[i]
      /\ b \in Seq(S) /\ Len(b) = k /\ \A i \in 1 .. k : b[i] = f[n + i]
  <2>1. n + 1 \in 1 .. Len(f) + 1 /\ n + 1 - 1 = n /\ Len(f) + 1 - (n + 1) = k
    OBVIOUS
  <2>2. /\ SubSeq(f, 1, n + 1 - 1) \in Seq(S) /\ Len(SubSeq(f, 1, n + 1 - 1)) = n + 1 - 1
        /\ \A i \in 1 .. n + 1 - 1 : SubSeq(f, 1, n + 1 - 1)[i] = f[i]
        /\ SubSeq(f, n + 1, Len(f)) \in Seq(S)
        /\ Len(SubSeq(f, n + 1, Len(f))) = Len(f) + 1 - (n + 1)
        /\ \A i \in 1 .. Len(f) + 1 - (n + 1) : SubSeq(f, n + 1, Len(f))[i] = f[n + 1 - 1 + i]
    BY <2>1, Cuts
  <2> QED
    BY <2>1, <2>2
<1> HIDE DEF a, b
<1>2. DOMAIN a = 1 .. n /\ DOMAIN b = 1 .. k /\ DOMAIN f = 1 .. n + k
  BY <1>1
<1>3. f[1] \in A
  <2>1. 1 \in DOMAIN a /\ a[1] = f[1]
    BY <1>1, <1>2
  <2> QED
    BY <2>1 DEF ToSet
<1>4. A \cap B = {}
  <2> SUFFICES ASSUME NEW i \in 1 .. n, NEW j \in 1 .. k, a[i] = b[j]
               PROVE  FALSE
    BY <1>2 DEF ToSet
  <2>1. f[i] = f[n + j] /\ i \in DOMAIN f /\ n + j \in DOMAIN f /\ i # n + j
    BY <1>1, <1>2
  <2> QED
    BY <2>1 DEF IsInjective
<1>5. A \cup B = ToSet(f)
  <2>1. \A i \in 1 .. n : i \in 1 .. n + k
    OBVIOUS
  <2>2. \A i \in 1 .. k : n + i \in 1 .. n + k
    OBVIOUS
  <2>3. ASSUME NEW i \in 1 .. n + k
        PROVE  f[i] \in A \cup B
    <3>1. CASE i <= n
      <4>1. i \in 1 .. n
        BY <3>1
      <4> QED
        BY <1>1, <1>2, <4>1 DEF ToSet
    <3>2. CASE ~(i <= n)
      <4> DEFINE m == i - n
      <4>1. m \in 1 .. k /\ n + m = i
        BY <3>2
      <4> HIDE DEF m
      <4>2. f[i] = b[m]
        BY <1>1, <4>1
      <4> QED
        BY <1>2, <4>1, <4>2 DEF ToSet
    <3> QED
      BY <3>1, <3>2
  <2>4. A \cup B \subseteq ToSet(f)
    <3>1. \A i \in 1 .. n : a[i] \in ToSet(f)
      BY <1>1, <1>2, <2>1 DEF ToSet
    <3>2. \A i \in 1 .. k : b[i] \in ToSet(f)
      <4> SUFFICES ASSUME NEW i \in 1 .. k PROVE b[i] \in ToSet(f)
        OBVIOUS
      <4>1. n + i \in DOMAIN f /\ b[i] = f[n + i]
        BY <1>1, <1>2, <2>2
      <4> QED
        BY <4>1 DEF ToSet
    <3> QED
      BY <1>2, <3>1, <3>2 DEF ToSet
  <2>5. ToSet(f) \subseteq A \cup B
    BY <1>2, <2>3 DEF ToSet
  <2> QED
    BY <2>4, <2>5
<1>6. ToSet(f) \subseteq S
  BY <1>2 DEF ToSet
<1>7. IsFiniteSet(A) /\ IsFiniteSet(B)
  BY <1>5, <1>6, FS_Subset
<1>8. Cardinality(B) <= k
  <2>1. b \in Surjection(1 .. k, B)
    <3>1. b \in [1 .. k -> B]
      BY <1>1, <1>2 DEF ToSet
    <3>2. \A x \in B : \E i \in 1 .. k : b[i] = x
      BY <1>2 DEF ToSet
    <3> QED
      BY <3>1, <3>2 DEF Surjection
  <2>2. IsFiniteSet(1 .. k) /\ Cardinality(1 .. k) = k
    <3>1. k \in Int /\ 1 \in Int /\ (1 > k => k = 0) /\ k - 1 + 1 = k
      OBVIOUS
    <3>2. IsFiniteSet(1 .. k) /\ Cardinality(1 .. k) = IF 1 > k THEN 0 ELSE k - 1 + 1
      BY <3>1, FS_Interval
    <3> QED
      BY <3>1, <3>2
  <2> QED
    BY <2>1, <2>2, FS_Surjection
<1> QED
  BY <1>3, <1>4, <1>5, <1>6, <1>7, <1>8 DEF a, b

(* A layout has a number of panes in its grid, and one at least.           *)
LEMMA FinitelyMany ==
  ASSUME NEW d, SoundDashboard(d)
  PROVE  /\ Cardinality(DOMAIN d.main) \in Nat /\ Cardinality(DOMAIN d.main) >= 1
         /\ Cardinality(DOMAIN d.popouts) \in Nat
<1>1. /\ Range(d.main) \subseteq Panes /\ Range(d.popouts) \subseteq Panes
      /\ IsInjective(d.main) /\ IsInjective(d.popouts) /\ DOMAIN d.main # {}
  BY DEF SoundDashboard, OnceIn, PanesOf
<1>2. /\ IsFiniteSet(DOMAIN d.main) /\ Cardinality(DOMAIN d.main) \in Nat
      /\ Cardinality(DOMAIN d.popouts) \in Nat
  BY <1>1, FinitePanes, FinitePlaces
<1>3. Cardinality(DOMAIN d.main) # 0
  BY <1>1, <1>2, FS_EmptySet
<1> QED
  BY <1>2, <1>3

(* The copy of a layout has panes and windows of its own, and the layout   *)
(* itself stays as it is.                                                  *)
LEMMA CloneLayoutKeeps ==
  ASSUME RunningKept, NEW id, CloneLayout(id)
  PROVE  RunningKept'
<1> DEFINE d == layouts[Position(id)]
           n == Cardinality(DOMAIN d.main) k == Cardinality(DOMAIN d.popouts)
           fresh == Some(FreePanes, n + k)
           A == ToSet(SubSeq(fresh, 1, n)) B == ToSet(SubSeq(fresh, n + 1, n + k))
           new == Min(FreeLayouts) name == EnsureUniqueName(d.name, new)
           main == NumberedFrom(fresh[1], A) popouts == PoppedOut(B)
           e == Dashboard(new, name, main, popouts) panes == ToSet(fresh)
<1>1. /\ Known(id) /\ FreeLayouts # {}
      /\ Cardinality(FreePanes) >= n + k /\ Cardinality(FreeWindows) >= k
      /\ layouts' = Append(layouts, e) /\ owed' = owed \cup panes
      /\ active' = active /\ open' = open /\ pressed' = pressed
  BY DEF CloneLayout, Fits
<1>2. SoundDashboard(d) /\ d.name \in NameSet
  BY <1>1, KnownIs DEF SoundDashboard
<1> HIDE DEF d
<1>3. n \in Nat /\ n >= 1 /\ k \in Nat
  BY <1>2, FinitelyMany
<1> HIDE DEF n, k
<1>4. fresh \in Seq(FreePanes) /\ Len(fresh) = n + k /\ IsInjective(fresh)
  <2>1. Cardinality(FreePanes) \in Nat /\ n + k \in Nat /\ n + k <= Cardinality(FreePanes)
    BY <1>1, <1>3, FreeThings, FS_CardinalityType
  <2> QED
    BY <2>1, FreeThings, SomeOf
<1> HIDE DEF fresh
<1>5. /\ fresh[1] \in A /\ A \cap B = {} /\ A \cup B = panes /\ panes \subseteq FreePanes
      /\ IsFiniteSet(A) /\ IsFiniteSet(B) /\ Cardinality(B) <= k
  BY <1>3, <1>4, FreeThings, Parted
<1> HIDE DEF A, B, panes
<1>6. IsInjective(main) /\ Range(main) = A /\ DOMAIN main # {}
  BY <1>5, Numbered
<1>7. /\ IsInjective(popouts) /\ Range(popouts) = B
      /\ \A w \in DOMAIN popouts : w # MainWindow
  <2>1. Cardinality(FreeWindows) >= Cardinality(B)
    <3>1. Cardinality(FreeWindows) \in Nat /\ Cardinality(B) \in Nat
      BY <1>5, FiniteFreeWindows, FS_CardinalityType
    <3> QED
      BY <1>1, <1>3, <1>5, <3>1
  <2>2. IsInjective(popouts) /\ Range(popouts) = B /\ DOMAIN popouts \subseteq FreeWindows
    BY <1>5, <2>1, PoppedOutKeeps
  <2>3. \A w \in FreeWindows : w # MainWindow
    BY FiniteFreeWindows DEF Windows, MainWindow
  <2> QED
    BY <2>2, <2>3
<1>8. /\ name \in NameSet
      /\ \A i \in DOMAIN layouts : layouts[i].id # new /\ layouts[i].name = name => IsCut(name)
  BY <1>2, OwnName DEF RunningKept
<1>9. new \in FreeLayouts
  BY <1>1, FreeThings
<1> HIDE DEF main, popouts, name, new
<1>10. e = [id |-> new, name |-> name, main |-> main, popouts |-> popouts, focus |-> NoFocus]
  BY DEF Dashboard
<1> HIDE DEF e
<1>11. e.id = new /\ e.name = name /\ e.main = main /\ e.popouts = popouts
  BY <1>10
<1>12. PanesOf(e) = panes
  BY <1>5, <1>6, <1>7, <1>11 DEF PanesOf
<1>13. SoundDashboard(e)
  <2>1. panes \subseteq Panes
    BY <1>5, FreeThings
  <2> QED
    BY <1>5, <1>6, <1>7, <1>8, <1>10, <1>11, <1>12, <2>1 DEF SoundDashboard, OnceIn
<1>14. IsNew(e, panes)
  BY <1>5, <1>8, <1>9, <1>11, <1>12, <1>13 DEF IsNew
<1>15. /\ AllKept(layouts', owed')
       /\ \A i \in DOMAIN layouts : i \in DOMAIN layouts' /\ layouts'[i] = layouts[i]
  BY <1>1, <1>14, LayoutAdded
<1> QED
  BY <1>1, <1>15, ActiveUntouched

-----------------------------------------------------------------------------
(* Saving, stopping and starting again.                                    *)

(* What is saved is what was kept.                                         *)
LEMMA SaveKeeps ==
  ASSUME RunningKept, SaveState
  PROVE  SavedKept' /\ saved' # NoFile /\ saved'.owed = owed
<1> DEFINE file == [i \in DOMAIN layouts |-> Serialized(layouts[i])]
<1>1. saved' = [layouts |-> file, active |-> ActiveName, owed |-> owed, position |-> Position(active)]
  BY DEF SaveState
<1> HIDE DEF file
<1>2. /\ saved'.layouts = file /\ saved'.active = ActiveName /\ saved'.owed = owed
      /\ saved'.position = Position(active) /\ "owed" \in DOMAIN saved'
  BY <1>1
<1>3. saved' # NoFile
  <2>1. "owed" \notin DOMAIN NoFile
    BY DEF NoFile
  <2> QED
    BY <1>2, <2>1
<1>4. SavedKept'
  <2>1. AllKept(layouts, saved'.owed) /\ saved'.layouts = [i \in DOMAIN layouts |-> Serialized(layouts[i])]
    BY <1>2 DEF RunningKept, file
  <2>2. saved'.position \in DOMAIN layouts /\ saved'.active = layouts[saved'.position].name
    BY <1>2, ActiveIs DEF ActiveName
  <2> QED
    BY <2>1, <2>2 DEF SavedKept
<1> QED
  BY <1>2, <1>3, <1>4

(* The layout there is without a file.                                     *)
IsDefault(ls) == ls = <<Dashboard(1, <<1>>, NumberedFrom(1, 1 .. DefaultPanes), <<>>)>>

(* It has its panes, once each, and no window.                             *)
LEMMA FirstLayout ==
  ASSUME NEW ls, IsDefault(ls)
  PROVE  /\ AllKept(ls, 1 .. DefaultPanes) /\ 1 \in DOMAIN ls /\ ls[1].id = 1
         /\ DOMAIN ls[1].popouts = {}
<1> DEFINE S == 1 .. DefaultPanes main == NumberedFrom(1, S)
           d == Dashboard(1, <<1>>, main, <<>>)
<1>1. IsFiniteSet(S) /\ 1 \in S /\ S \subseteq Panes
  <2>1. S \subseteq Panes /\ 1 \in S
    BY Bounds DEF Panes
  <2> QED
    BY <2>1, FinitePanes, FS_Subset
<1> HIDE DEF S
<1>2. IsInjective(main) /\ Range(main) = S /\ DOMAIN main # {}
  BY <1>1, Numbered
<1> HIDE DEF main
<1>3. d = [id |-> 1, name |-> <<1>>, main |-> main, popouts |-> <<>>, focus |-> NoFocus]
  BY DEF Dashboard
<1>4. ls = <<d>>
  BY DEF main, S, IsDefault
<1> HIDE DEF d
<1>5. d.id = 1 /\ d.name = <<1>> /\ d.main = main /\ d.popouts = <<>>
  BY <1>3
<1>6. DOMAIN d.popouts = {} /\ Range(d.popouts) = {} /\ IsInjective(d.popouts)
  BY <1>5 DEF Range, IsInjective
<1>7. PanesOf(d) = S
  BY <1>2, <1>5, <1>6 DEF PanesOf
<1>8. SoundDashboard(d)
  <2>1. d.name \in NameSet
    BY <1>5 DEF NameSet
  <2> QED
    BY <1>1, <1>2, <1>3, <1>5, <1>6, <1>7, <2>1 DEF SoundDashboard, OnceIn
<1>9. DOMAIN ls = {1} /\ ls[1] = d
  BY <1>4
<1>10. ls \in Seq(Range(ls))
  <2>1. ls \in Seq({d})
    BY <1>4
  <2> QED
    BY <2>1, OwnRange
<1>11. AllKept(ls, S)
  BY <1>7, <1>8, <1>9, <1>10 DEF AllKept
<1> QED
  BY <1>5, <1>6, <1>9, <1>11 DEF S

(* A start without a file gives that layout.                               *)
LEMMA FirstStartKeeps ==
  ASSUME StoppedKept, saved = NoFile, Start
  PROVE  RunningKept'
<1>1. /\ layouts' = <<Dashboard(1, <<1>>, NumberedFrom(1, 1 .. DefaultPanes), <<>>)>>
      /\ active' = 1 /\ pressed' = NoButton /\ pressed'.button # "merge"
      /\ owed' = 1 .. DefaultPanes
  BY DEF Start, StoppedKept, NoButton
<1>2. /\ AllKept(layouts', owed') /\ 1 \in DOMAIN layouts' /\ layouts'[1].id = active'
      /\ DOMAIN layouts'[1].popouts = {}
  BY <1>1, FirstLayout DEF IsDefault
<1>3. ActiveKept'
  BY <1>1, <1>2 DEF ActiveKept, IsActive
<1> QED
  BY <1>2, <1>3 DEF RunningKept

(* The file gives every layout its name and panes back, new numbers to the *)
(* panes, and windows of their own to those that were popped out; of the   *)
(* layouts with the name of the active one, the first is active.           *)
LEMMA StartKeeps ==
  ASSUME StoppedKept, SavedKept, saved # NoFile, Start
  PROVE  RunningKept' /\ (~IsCut(saved.active) => layouts'[saved.position].id = active')
<1>1. PICK ls : /\ AllKept(ls, saved.owed) /\ saved.layouts = [i \in DOMAIN ls |-> Serialized(ls[i])]
                /\ saved.position \in DOMAIN ls /\ saved.active = ls[saved.position].name
  BY DEF SavedKept
<1> DEFINE all == UNION {saved.layouts[i].popouts : i \in DOMAIN saved.layouts}
           pane == SetToSeq(all)
           in(i) == {w \in DOMAIN pane : pane[w] \in saved.layouts[i].popouts}
           windows(i) == [w \in in(i) |-> pane[w]]
           called == {i \in DOMAIN saved.layouts : saved.layouts[i].name = saved.active}
           first == Min(called)
           n == Len(ls)
<1>2. PICK zero \in [DOMAIN saved.layouts -> Panes] :
         /\ \A i \in DOMAIN zero : zero[i] \in saved.layouts[i].main
         /\ layouts' = [i \in DOMAIN zero |-> Restored(i, zero[i], windows(i))]
  BY DEF Start
<1>3. /\ active' = first /\ open' = in(first) /\ pressed' = NoButton /\ pressed'.button # "merge"
      /\ owed' = saved.owed
  BY DEF Start, StoppedKept, NoButton
<1>4. n \in Nat /\ DOMAIN ls = 1 .. n
  BY <1>1, KeptFacts
<1> HIDE DEF n
<1>5. /\ DOMAIN saved.layouts = 1 .. n
      /\ \A i \in 1 .. n : /\ saved.layouts[i].name = ls[i].name
                           /\ saved.layouts[i].main = Range(ls[i].main)
                           /\ saved.layouts[i].popouts = Range(ls[i].popouts)
  BY <1>1, <1>4 DEF Serialized
<1>6. ASSUME NEW i \in 1 .. n
      PROVE  /\ SoundDashboard(ls[i]) /\ ls[i].name \in NameSet /\ OnceIn(ls[i])
             /\ PanesOf(ls[i]) = Range(ls[i].main) \cup Range(ls[i].popouts)
             /\ PanesOf(ls[i]) \subseteq Panes
  BY <1>1, <1>4 DEF AllKept, SoundDashboard, PanesOf
<1>7. /\ pane \in Seq(all) /\ IsInjective(pane) /\ Range(pane) = all
      /\ \A w \in DOMAIN pane : w # MainWindow
  <2>1. all \subseteq Panes
    BY <1>5, <1>6
  <2>2. IsFiniteSet(all)
    BY <2>1, FinitePanes, FS_Subset
  <2> HIDE DEF all
  <2>3. pane \in Seq(all) /\ IsInjective(pane) /\ Range(pane) = all
    BY <2>2, Listed
  <2> HIDE DEF pane
  <2>4. \A w \in DOMAIN pane : w # MainWindow
    BY <2>3 DEF MainWindow
  <2> QED
    BY <2>3, <2>4
<1> HIDE DEF pane
<1>8. ASSUME NEW i \in 1 .. n
      PROVE  /\ IsInjective(windows(i)) /\ Range(windows(i)) = Range(ls[i].popouts)
             /\ DOMAIN windows(i) = in(i) /\ \A w \in in(i) : w # MainWindow
  <2> DEFINE f == windows(i)
  <2>1. DOMAIN f = in(i) /\ \A w \in in(i) : f[w] = pane[w] /\ w \in DOMAIN pane
    OBVIOUS
  <2>2. \A w : w \in in(i) <=> w \in DOMAIN pane /\ pane[w] \in Range(ls[i].popouts)
    BY <1>5
  <2>3. Range(ls[i].popouts) \subseteq all
    BY <1>5
  <2> HIDE DEF f, in, all
  <2>4. IsInjective(f)
    BY <1>7, <2>1 DEF IsInjective
  <2>5. Range(f) = Range(ls[i].popouts)
    <3>1. ASSUME NEW p \in Range(ls[i].popouts) PROVE p \in Range(f)
      <4>1. PICK w \in DOMAIN pane : pane[w] = p
        BY <1>7, <2>3 DEF Range
      <4>2. w \in in(i)
        BY <2>2, <4>1
      <4> QED
        BY <2>1, <4>1, <4>2 DEF Range
    <3>2. ASSUME NEW p \in Range(f) PROVE p \in Range(ls[i].popouts)
      <4>1. PICK w \in DOMAIN f : f[w] = p
        BY <3>2 DEF Range
      <4> QED
        BY <2>1, <2>2, <4>1
    <3> QED
      BY <3>1, <3>2
  <2>6. \A w \in in(i) : w # MainWindow
    BY <1>7, <2>1
  <2> QED
    BY <2>1, <2>4, <2>5, <2>6 DEF f
<1> DEFINE main(i) == NumberedFrom(zero[i], Range(ls[i].main))
<1>9. ASSUME NEW i \in 1 .. n
      PROVE  IsInjective(main(i)) /\ Range(main(i)) = Range(ls[i].main) /\ DOMAIN main(i) # {}
  <2>1. zero[i] \in Range(ls[i].main)
    BY <1>2, <1>5
  <2>2. IsFiniteSet(Range(ls[i].main))
    BY <1>6, FinitePanes, FS_Subset
  <2> QED
    BY <2>1, <2>2, Numbered
<1>10. DOMAIN layouts' = 1 .. n
  BY <1>2, <1>5
<1>11. ASSUME NEW i \in 1 .. n
       PROVE  layouts'[i] = [id |-> i, name |-> ls[i].name, main |-> main(i),
                             popouts |-> windows(i), focus |-> NoFocus]
  <2>1. layouts'[i] = Restored(i, zero[i], windows(i))
    BY <1>2, <1>5
  <2> HIDE DEF windows
  <2> QED
    BY <1>5, <2>1 DEF Restored, Dashboard
<1>12. ASSUME NEW i \in 1 .. n
       PROVE  /\ SoundDashboard(layouts'[i]) /\ PanesOf(layouts'[i]) = PanesOf(ls[i])
              /\ layouts'[i].id = i /\ layouts'[i].name = ls[i].name
              /\ DOMAIN layouts'[i].popouts = in(i)
  <2> DEFINE d == layouts'[i] m == main(i) ws == windows(i)
  <2>1. d = [id |-> i, name |-> ls[i].name, main |-> m, popouts |-> ws, focus |-> NoFocus]
    BY <1>11
  <2>2. /\ IsInjective(m) /\ Range(m) = Range(ls[i].main) /\ DOMAIN m # {}
        /\ IsInjective(ws) /\ Range(ws) = Range(ls[i].popouts)
        /\ DOMAIN ws = in(i) /\ \A w \in in(i) : w # MainWindow
    BY <1>8, <1>9
  <2>3. /\ ls[i].name \in NameSet /\ Range(ls[i].main) \cap Range(ls[i].popouts) = {}
        /\ PanesOf(ls[i]) = Range(ls[i].main) \cup Range(ls[i].popouts)
        /\ PanesOf(ls[i]) \subseteq Panes
    BY <1>6 DEF OnceIn
  <2> HIDE DEF d, m, ws, in
  <2>4. d.id = i /\ d.name = ls[i].name /\ d.main = m /\ d.popouts = ws
    BY <2>1
  <2>5. PanesOf(d) = PanesOf(ls[i])
    BY <2>2, <2>3, <2>4 DEF PanesOf
  <2>6. SoundDashboard(d)
    BY <2>1, <2>2, <2>3, <2>4, <2>5 DEF SoundDashboard, OnceIn
  <2> QED
    BY <2>2, <2>4, <2>5, <2>6 DEF d
<1> HIDE DEF in, windows, main
<1>13. AllKept(layouts', owed')
  <2>1. layouts' \in Seq(Range(layouts'))
    <3> DEFINE S == {layouts'[i] : i \in 1 .. n}
    <3>1. layouts' \in [1 .. n -> S]
      BY <1>2, <1>5
    <3> HIDE DEF S
    <3> QED
      BY <1>4, <3>1, OwnElements
  <2>2. \A i, j \in DOMAIN layouts' : i # j => Apart(layouts'[i], layouts'[j])
    <3> SUFFICES ASSUME NEW i \in 1 .. n, NEW j \in 1 .. n, i # j
                 PROVE  Apart(layouts'[i], layouts'[j])
      BY <1>10
    <3>1. Apart(ls[i], ls[j])
      BY <1>1, <1>4 DEF AllKept
    <3> QED
      BY <1>12, <3>1 DEF Apart
  <2>3. \A p : p \in owed' <=> \E i \in DOMAIN layouts' : p \in PanesOf(layouts'[i])
    BY <1>1, <1>3, <1>4, <1>10, <1>12 DEF AllKept
  <2>4. \A i \in DOMAIN layouts' : SoundDashboard(layouts'[i])
    BY <1>10, <1>12
  <2> QED
    BY <2>1, <2>2, <2>3, <2>4 DEF AllKept
<1>14. first \in 1 .. n /\ ls[first].name = saved.active
  <2>1. saved.position \in called /\ called \subseteq Nat
    BY <1>1, <1>4, <1>5
  <2>2. first \in called
    <3> HIDE DEF called
    <3> QED
      BY <2>1, LeastOfNat
  <2> HIDE DEF first
  <2> QED
    BY <1>5, <2>2
<1> HIDE DEF first, called
<1>15. ActiveKept'
  <2>1. /\ first \in DOMAIN layouts' /\ layouts'[first].id = active'
        /\ \A w \in DOMAIN layouts'[first].popouts : w \in open'
    BY <1>3, <1>10, <1>12, <1>14
  <2> QED
    BY <1>3, <2>1 DEF ActiveKept, IsActive
<1>16. ~IsCut(saved.active) => layouts'[saved.position].id = active'
  <2> SUFFICES ASSUME ~IsCut(saved.active)
               PROVE  first = saved.position
    BY <1>1, <1>3, <1>4, <1>12
  <2> SUFFICES ASSUME first # saved.position
               PROVE  FALSE
    OBVIOUS
  <2>1. Apart(ls[first], ls[saved.position])
    BY <1>1, <1>4, <1>14 DEF AllKept
  <2> QED
    BY <1>1, <1>14, <2>1 DEF Apart
<1> QED
  BY <1>13, <1>15, <1>16 DEF RunningKept

-----------------------------------------------------------------------------
(* The invariant, step by step.                                            *)

(* What is done with the layouts neither saves nor stops.                  *)
LEMMA Goes ==
  ASSUME LayoutInv, running, running' = running, saved' = saved, RunningKept => RunningKept'
  PROVE  LayoutInv' /\ ~Starts
  BY DEF LayoutInv, SavedKept, Starts

(* What the mouse does keeps the invariant.                                *)
LEMMA MouseGoes ==
  ASSUME LayoutInv, NEW w, NEW g, NEW b,
         Press(w, g, b) \/ Popout \/ Merge \/ CloseWindow(w) \/ \E c \in clicks : WindowOpened(c)
  PROVE  LayoutInv' /\ ~Starts
<1>1. CASE Press(w, g, b)
  BY <1>1, PressKeeps, Goes DEF Press, Mouse
<1>2. CASE Popout
  BY <1>2, PopoutKeeps, Goes DEF Popout
<1>3. CASE Merge
  BY <1>3, MergeKeeps, Goes DEF Merge
<1>4. CASE CloseWindow(w)
  BY <1>4, CloseWindowKeeps, Goes DEF CloseWindow, Mouse
<1>5. CASE \E c \in clicks : WindowOpened(c)
  BY <1>5, WindowOpenedKeeps, Goes DEF WindowOpened
<1> QED
  BY <1>1, <1>2, <1>3, <1>4, <1>5

(* So does splitting and closing panes.                                    *)
LEMMA PanesGo ==
  ASSUME ApiInMain, LayoutInv, NEW w, NEW g,
         SplitPane(w, g) \/ ClosePane(w, g) \/ OpenOrderPane
  PROVE  LayoutInv' /\ ~Starts
<1>1. CASE SplitPane(w, g)
  BY <1>1, SplitPaneKeeps, Goes DEF SplitPane
<1>2. CASE ClosePane(w, g)
  BY <1>2, ClosePaneKeeps, Goes DEF ClosePane
<1>3. CASE OpenOrderPane
  BY <1>3, OpenOrderPaneKeeps, Goes DEF OpenOrderPane
<1> QED
  BY <1>1, <1>2, <1>3

(* So does everything done in the layout manager.                          *)
LEMMA ListGoes ==
  ASSUME LayoutInv, NEW id,
         \/ SelectActive(id) \/ RemoveLayout(id) \/ CloneLayout(id) \/ AddLayout
         \/ \E name \in {<<b>> : b \in Typed} \cup Names : SetLayoutName(id, name)
         \/ \E i \in DOMAIN layouts, t \in 1 .. Len(layouts) + 1 : Reorder(i, t)
  PROVE  LayoutInv' /\ ~Starts
<1>1. CASE SelectActive(id)
  BY <1>1, SelectActiveKeeps, Goes DEF SelectActive, Mouse
<1>2. CASE RemoveLayout(id)
  BY <1>2, RemoveLayoutKeeps, Goes DEF RemoveLayout, Mouse
<1>3. CASE CloneLayout(id)
  BY <1>3, CloneLayoutKeeps, Goes DEF CloneLayout, Mouse
<1>4. CASE AddLayout
  BY <1>4, AddLayoutKeeps, Goes DEF AddLayout, Mouse
<1>5. ASSUME NEW name \in {<<b>> : b \in Typed} \cup Names, SetLayoutName(id, name)
      PROVE  LayoutInv' /\ ~Starts
  <2>1. running /\ running' = running /\ saved' = saved
    BY <1>5 DEF SetLayoutName, Mouse
  <2>2. RunningKept
    BY <2>1 DEF LayoutInv
  <2>3. \A b \in Typed : <<b>> \in NameSet
    BY DEF NameSet
  <2>4. \A i \in DOMAIN layouts : layouts[i].name \in NameSet
    BY <2>2 DEF RunningKept, AllKept, SoundDashboard
  <2>5. name \in NameSet
    BY <2>3, <2>4 DEF Names
  <2> QED
    BY <1>5, <2>1, <2>2, <2>5, SetLayoutNameKeeps, Goes
<1>6. CASE \E i \in DOMAIN layouts, t \in 1 .. Len(layouts) + 1 : Reorder(i, t)
  BY <1>6, ReorderKeeps, Goes DEF Reorder, Mouse
<1> QED
  BY <1>1, <1>2, <1>3, <1>4, <1>5, <1>6

(* So do saving, exiting and crashing.                                     *)
LEMMA ProgramGoes ==
  ASSUME LayoutInv, ApiSaveState \/ ExitRequested \/ Crash
  PROVE  LayoutInv' /\ ~Starts
<1>1. CASE ApiSaveState
  <2>1. /\ running /\ running' = running /\ SaveState /\ RunningKept
        /\ UNCHANGED <<layouts, active, open, pressed, owed>>
    BY <1>1 DEF ApiSaveState, LayoutInv
  <2>2. RunningKept'
    BY <2>1 DEF RunningKept, ActiveKept, IsActive
  <2>3. SavedKept'
    BY <2>1, SaveKeeps
  <2> QED
    BY <2>1, <2>2, <2>3 DEF LayoutInv, Starts
<1>2. CASE ExitRequested
  <2>1. running /\ ~running' /\ SaveState /\ RunningKept /\ pressed' = NoButton /\ owed' = owed
    BY <1>2 DEF ExitRequested, Gone, LayoutInv
  <2>2. SavedKept' /\ saved' # NoFile /\ saved'.owed = owed
    BY <2>1, SaveKeeps
  <2>3. StoppedKept'
    BY <2>1, <2>2 DEF StoppedKept
  <2> QED
    BY <2>1, <2>2, <2>3 DEF LayoutInv, Starts
<1>3. CASE Crash
  <2>1. /\ ~running' /\ pressed' = NoButton /\ saved' = saved
        /\ owed' = IF saved = NoFile THEN 1 .. DefaultPanes ELSE saved.owed
    BY <1>3 DEF Crash, Gone
  <2>2. StoppedKept'
    BY <2>1 DEF StoppedKept
  <2>3. saved' # NoFile => SavedKept'
    BY <2>1 DEF LayoutInv, SavedKept
  <2> QED
    BY <2>1, <2>2, <2>3 DEF LayoutInv, Starts
<1> QED
  BY <1>1, <1>2, <1>3

(* What TheActiveLayoutReturns asks of a start.                            *)
Returns == ~IsCut(saved.active) => layouts'[saved.position].id = active'

(* A start keeps the invariant, and the active layout returns.             *)
LEMMA StartGoes ==
  ASSUME LayoutInv, Start
  PROVE  LayoutInv' /\ (Starts => Returns)
<1>1. ~running /\ running' /\ saved' = saved /\ StoppedKept /\ (saved # NoFile => SavedKept)
  BY DEF Start, LayoutInv
<1>2. saved' # NoFile => SavedKept'
  BY <1>1 DEF SavedKept
<1>3. CASE saved = NoFile
  <2>1. RunningKept'
    BY <1>1, <1>3, FirstStartKeeps
  <2> QED
    BY <1>1, <1>2, <1>3, <2>1 DEF LayoutInv, Starts
<1>4. CASE saved # NoFile
  <2>1. RunningKept' /\ Returns
    BY <1>1, <1>4, StartKeeps DEF Returns
  <2> QED
    BY <1>1, <1>2, <2>1 DEF LayoutInv
<1> QED
  BY <1>3, <1>4

(* Every step does; only a start makes the program run again.              *)
LEMMA LayoutStep ==
  ASSUME ApiInMain, LayoutInv, [LayoutNext]_layoutVars
  PROVE  LayoutInv' /\ (Starts => Returns)
<1>1. CASE UNCHANGED layoutVars
  <2>1. /\ layouts' = layouts /\ active' = active /\ open' = open /\ pressed' = pressed
        /\ running' = running /\ saved' = saved /\ owed' = owed
    BY <1>1 DEF layoutVars
  <2>2. RunningKept => RunningKept'
    BY <2>1 DEF RunningKept, ActiveKept, IsActive
  <2>3. (SavedKept => SavedKept') /\ (StoppedKept => StoppedKept')
    BY <2>1 DEF SavedKept, StoppedKept
  <2> QED
    BY <2>1, <2>2, <2>3 DEF LayoutInv, Starts
<1>2. CASE LayoutNext
  <2>1. ASSUME NEW w, NEW g, NEW b, Press(w, g, b)
        PROVE  LayoutInv' /\ (Starts => Returns)
    BY <2>1, MouseGoes
  <2>2. CASE Popout \/ Merge \/ (\E c \in clicks : WindowOpened(c)) \/ \E w \in open : CloseWindow(w)
    BY <2>2, MouseGoes
  <2>3. ASSUME NEW w, NEW g, SplitPane(w, g) \/ ClosePane(w, g)
        PROVE  LayoutInv' /\ (Starts => Returns)
    BY <2>3, PanesGo
  <2>4. CASE OpenOrderPane
    BY <2>4, PanesGo
  <2>5. ASSUME NEW id,
               \/ SelectActive(id) \/ RemoveLayout(id) \/ CloneLayout(id)
               \/ \E name \in {<<b>> : b \in Typed} \cup Names : SetLayoutName(id, name)
        PROVE  LayoutInv' /\ (Starts => Returns)
    BY <2>5, ListGoes
  <2>6. CASE AddLayout \/ \E i \in DOMAIN layouts, t \in 1 .. Len(layouts) + 1 : Reorder(i, t)
    BY <2>6, ListGoes
  <2>7. CASE ApiSaveState \/ ExitRequested \/ Crash
    BY <2>7, ProgramGoes
  <2>8. CASE Start
    BY <2>8, StartGoes
  <2> QED
    BY <1>2, <2>1, <2>2, <2>3, <2>4, <2>5, <2>6, <2>7, <2>8 DEF LayoutNext
<1> QED
  BY <1>1, <1>2

(* The invariant holds at first.                                           *)
LEMMA LayoutStarts ==
  LayoutInit => LayoutInv
<1> SUFFICES ASSUME LayoutInit PROVE LayoutInv
  OBVIOUS
<1>1. /\ layouts = <<Dashboard(1, <<1>>, NumberedFrom(1, 1 .. DefaultPanes), <<>>)>>
      /\ active = 1 /\ pressed = NoButton /\ pressed.button # "merge" /\ running /\ saved = NoFile
      /\ owed = 1 .. DefaultPanes
  BY DEF LayoutInit, NoButton
<1>2. /\ AllKept(layouts, owed) /\ 1 \in DOMAIN layouts /\ layouts[1].id = active
      /\ DOMAIN layouts[1].popouts = {}
  BY <1>1, FirstLayout DEF IsDefault
<1>3. ActiveKept
  BY <1>1, <1>2 DEF ActiveKept, IsActive
<1> QED
  BY <1>1, <1>2, <1>3 DEF LayoutInv, RunningKept

(* The invariant holds as long as the HTTP client names panes of the main  *)
(* window only.                                                            *)
THEOREM LayoutsAreInv ==
  ASSUME ApiInMain
  PROVE  LayoutSpec => []LayoutInv
<1>1. LayoutInit => LayoutInv
  BY LayoutStarts
<1>2. LayoutInv /\ [LayoutNext]_layoutVars => LayoutInv'
  BY LayoutStep
<1> QED
  BY <1>1, <1>2, PTL DEF LayoutSpec

(* Popping out, merging with the focus elsewhere by now, switching,        *)
(* cloning, ordering, saving and starting again neither lose nor double a  *)
(* pane: PanesAreKept.                                                     *)
THEOREM PanesStayKept ==
  ASSUME ApiInMain
  PROVE  LayoutSpec => []PanesAreKept
<1>1. LayoutInv => PanesAreKept
  BY KeptPanes DEF LayoutInv, PanesAreKept
<1> QED
  BY <1>1, LayoutsAreInv, PTL

(* The layout that was active when the state was saved is active again     *)
(* after the start, unless its name was cut off: TheActiveLayoutReturns.   *)
THEOREM ActiveLayoutReturns ==
  ASSUME ApiInMain
  PROVE  LayoutSpec => TheActiveLayoutReturns
<1>1. LayoutInv /\ [LayoutNext]_layoutVars =>
        [Starts /\ ~IsCut(saved.active) => layouts'[saved.position].id = active']_layoutVars
  BY LayoutStep DEF Returns
<1> QED
  BY <1>1, LayoutsAreInv, PTL DEF LayoutSpec, TheActiveLayoutReturns

-----------------------------------------------------------------------------
(* Types.                                                                  *)

(* The numbers of a layout are within the bounds.                          *)
InBounds(d) ==
  /\ d.id \in 1 .. MaxLayouts /\ DOMAIN d.popouts \subseteq Windows
  /\ DOMAIN d.main \subseteq 0 .. MaxPanes + 1
  /\ d.focus.window \in {-1, MainWindow} \cup Windows

(* The layouts are in bounds, and their panes are panes, also of a program *)
(* that has stopped.                                                       *)
LayoutsInBounds ==
  \A i \in DOMAIN layouts :
    InBounds(layouts[i]) /\ DOMAIN layouts[i].main # {} /\ PanesOf(layouts[i]) \subseteq Panes

(* So is what goes with them.                                              *)
DesktopInBounds ==
  /\ open \subseteq Windows /\ pressed.button \in {"none", "popout", "merge"}
  /\ clicks \subseteq [layout : 1 .. MaxLayouts, window : Windows]
  /\ running \in BOOLEAN /\ left \in [edits : Nat, popouts : Nat, saves : Nat]

(* The file has no more layouts than there may be.                         *)
FileInBounds == saved # NoFile => Len(saved.layouts) <= MaxLayouts

(* What the types need besides the invariant.                              *)
LayoutTypes == LayoutsInBounds /\ DesktopInBounds /\ FileInBounds

(* Of the bounds on the layouts, what a step of the running program has to *)
(* keep: the rest follows from what is kept.                               *)
LEMMA KeptInBounds ==
  ASSUME RunningKept', \A i \in DOMAIN layouts' : InBounds(layouts'[i])
  PROVE  LayoutsInBounds'
  BY DEF RunningKept, AllKept, SoundDashboard, LayoutsInBounds

(* A layout that is split stays in bounds.                                 *)
LEMMA SplitInBounds ==
  ASSUME NEW d, SoundDashboard(d), InBounds(d), NEW p \in Panes, p \notin PanesOf(d),
         NEW w \in {-1, MainWindow} \cup Windows
  PROVE  InBounds(SplitOff(d, w, p))
<1> DEFINE e == SplitOff(d, w, p) g == FreeGrid(d)
<1>1. g \in 1 .. MaxPanes + 1
  BY GridIsFree DEF PanesOf
<1> HIDE DEF g
<1>2. e = [id |-> d.id, name |-> d.name, main |-> With(d.main, g, p), popouts |-> d.popouts,
           focus |-> Focus(w, g)]
  <2>1. e = [d EXCEPT !.main = With(d.main, g, p), !.focus = Focus(w, g)]
    BY DEF SplitOff, g
  <2>2. d = [id |-> d.id, name |-> d.name, main |-> d.main, popouts |-> d.popouts, focus |-> d.focus]
    BY DEF SoundDashboard
  <2> HIDE DEF e
  <2> QED
    BY <2>1, <2>2
<1>3. e.id = d.id /\ e.popouts = d.popouts /\ e.main = With(d.main, g, p) /\ e.focus.window = w
  BY <1>2 DEF Focus
<1> HIDE DEF e
<1>4. DOMAIN e.main = DOMAIN d.main \cup {g}
  BY <1>3 DEF With
<1>5. g \in 0 .. MaxPanes + 1
  BY <1>1, Bounds
<1> QED
  BY <1>3, <1>4, <1>5 DEF InBounds, e

(* A grid that is numbered anew is in bounds.                              *)
LEMMA NumberedInBounds ==
  ASSUME NEW S, S \subseteq Panes, NEW zero \in S
  PROVE  DOMAIN NumberedFrom(zero, S) \subseteq 0 .. MaxPanes + 1
<1> DEFINE rest == SetToSeq(S \ {zero})
<1>1. IsFiniteSet(S \ {zero}) /\ Cardinality(S \ {zero}) <= MaxPanes
  BY FinitePanes, FS_Subset
<1>2. /\ Cardinality(S \ {zero}) \in Nat /\ DOMAIN rest = 1 .. Cardinality(S \ {zero})
  BY <1>1, Listed
<1> HIDE DEF rest
<1>3. DOMAIN NumberedFrom(zero, S) = DOMAIN rest \cup {0}
  BY DEF NumberedFrom, With, rest
<1> QED
  BY <1>1, <1>2, <1>3, Bounds

(* The active layout becomes another one that is in bounds.                *)
LEMMA BecomesInBounds ==
  ASSUME RunningKept, LayoutsInBounds, NEW d, InBounds(d), Becomes(d)
  PROVE  \A i \in DOMAIN layouts' : InBounds(layouts'[i])
<1>1. Position(active) \in DOMAIN layouts /\ layouts' = [layouts EXCEPT ![Position(active)] = d]
  BY ActiveIs DEF Becomes
<1> QED
  BY <1>1 DEF LayoutsInBounds

(* The active layout is in bounds.                                         *)
LEMMA ActiveInBounds ==
  ASSUME RunningKept, LayoutsInBounds
  PROVE  /\ InBounds(Active) /\ SoundDashboard(Active) /\ active \in 1 .. MaxLayouts
         /\ DOMAIN Active.popouts \subseteq Windows
<1>1. InBounds(Active) /\ SoundDashboard(Active) /\ Active.id = active
  BY ActiveIs DEF LayoutsInBounds, IsActive
<1> QED
  BY <1>1 DEF InBounds

(* What is left of the budget, once some of it is used.                    *)
LEMMA Spent ==
  ASSUME left \in [edits : Nat, popouts : Nat, saves : Nat]
  PROVE  /\ left.edits > 0 => [left EXCEPT !.edits = @ - 1] \in [edits : Nat, popouts : Nat, saves : Nat]
         /\ left.popouts > 0 => [left EXCEPT !.popouts = @ - 1] \in [edits : Nat, popouts : Nat, saves : Nat]
         /\ left.saves > 0 => [left EXCEPT !.saves = @ - 1] \in [edits : Nat, popouts : Nat, saves : Nat]
  OBVIOUS
-----------------------------------------------------------------------------
(* What each action keeps within its bounds.                               *)

(* A record of a layout with some of its fields exchanged.                 *)
LEMMA Exchanged ==
  ASSUME NEW d, SoundDashboard(d), NEW main, NEW popouts, NEW focus
  PROVE  LET e == [d EXCEPT !.main = main, !.popouts = popouts, !.focus = focus]
             m == [d EXCEPT !.main = main, !.focus = focus]
             q == [d EXCEPT !.popouts = popouts, !.focus = focus]
             o == [d EXCEPT !.popouts = popouts]
             f == [d EXCEPT !.focus = focus]
         IN /\ e.id = d.id /\ e.main = main /\ e.popouts = popouts /\ e.focus = focus
            /\ m.id = d.id /\ m.main = main /\ m.popouts = d.popouts /\ m.focus = focus
            /\ q.id = d.id /\ q.main = d.main /\ q.popouts = popouts /\ q.focus = focus
            /\ o.id = d.id /\ o.main = d.main /\ o.popouts = popouts /\ o.focus = d.focus
            /\ f.id = d.id /\ f.main = d.main /\ f.popouts = d.popouts /\ f.focus = focus
<1>1. d = [id |-> d.id, name |-> d.name, main |-> d.main, popouts |-> d.popouts, focus |-> d.focus]
  BY DEF SoundDashboard
<1> QED
  BY <1>1

(* Pressing the mouse.                                                     *)
LEMMA PressInBounds ==
  ASSUME LayoutInv, LayoutTypes, NEW w, NEW g, NEW b \in {"none", "popout", "merge"}, Press(w, g, b)
  PROVE  (\A i \in DOMAIN layouts' : InBounds(layouts'[i])) /\ DesktopInBounds'
<1> DEFINE d == [Active EXCEPT !.focus = Focus(w, g)]
<1>1. RunningKept /\ LayoutsInBounds /\ running
  BY DEF LayoutInv, LayoutTypes, Press, Mouse
<1>2. InBounds(Active) /\ SoundDashboard(Active) /\ DOMAIN Active.popouts \subseteq Windows
  BY <1>1, ActiveInBounds
<1>3. w \in {-1, MainWindow} \cup Windows /\ Becomes(d)
  BY <1>2 DEF Press
<1>4. d.id = Active.id /\ d.main = Active.main /\ d.popouts = Active.popouts /\ d.focus.window = w
  BY <1>2, Exchanged DEF Focus
<1> HIDE DEF d
<1>5. InBounds(d)
  BY <1>2, <1>3, <1>4 DEF InBounds
<1>6. \A i \in DOMAIN layouts' : InBounds(layouts'[i])
  BY <1>1, <1>3, <1>5, BecomesInBounds
<1>7. pressed'.button \in {"none", "popout", "merge"}
  <2>1. pressed' = IF b = "none" THEN NoButton ELSE [button |-> b, window |-> w]
    BY DEF Press
  <2> QED
    BY <2>1 DEF NoButton
<1>8. open' = open /\ clicks' = clicks /\ running' = running /\ left' = left
  BY DEF Press
<1> QED
  BY <1>6, <1>7, <1>8 DEF DesktopInBounds, LayoutTypes

(* Popping out.                                                            *)
LEMMA PopoutInBounds ==
  ASSUME LayoutInv, LayoutTypes, Popout
  PROVE  (\A i \in DOMAIN layouts' : InBounds(layouts'[i])) /\ DesktopInBounds'
<1> DEFINE g == Active.focus.grid w == Min(FreeWindows)
           taken == [Active EXCEPT !.focus = NoFocus]
           d == [taken EXCEPT !.main = Without(Active.main, g),
                              !.popouts = With(Active.popouts, w, Active.main[g])]
<1>1. RunningKept /\ LayoutsInBounds /\ running
  BY DEF LayoutInv, LayoutTypes, Popout
<1>2. /\ InBounds(Active) /\ SoundDashboard(Active) /\ DOMAIN Active.popouts \subseteq Windows
      /\ active \in 1 .. MaxLayouts
  BY <1>1, ActiveInBounds
<1>3. pressed' = NoButton /\ pressed'.button \in {"none", "popout", "merge"} /\ running' = running
  BY DEF Popout, NoButton
<1>4. /\ taken.id = Active.id /\ taken.main = Active.main /\ taken.popouts = Active.popouts
      /\ taken.focus = NoFocus /\ SoundDashboard(taken)
  BY <1>2, Exchanged, FocusMoves
<1>5. NoFocus.window = -1
  BY DEF NoFocus
<1>6. CASE CanClose(Active, g)
  <2>1. /\ FreeWindows # {} /\ left.popouts > 0 /\ left' = [left EXCEPT !.popouts = @ - 1]
        /\ open' = open \cup {w} /\ clicks' = clicks \cup {[layout |-> active, window |-> w]}
    BY <1>6 DEF Popout
  <2>2. Becomes(d)
    <3>1. Becomes([taken EXCEPT !.main = Without(@, g), !.popouts = With(@, w, Active.main[g])])
      BY <1>6 DEF Popout
    <3> HIDE DEF taken, w, g
    <3>2. d = [taken EXCEPT !.main = Without(@, g), !.popouts = With(@, w, Active.main[g])]
      BY <1>4
    <3> QED
      BY <3>1, <3>2
  <2>3. w \in Windows
    <3>1. FreeWindows \subseteq Nat
      BY FiniteFreeWindows DEF Windows
    <3> QED
      BY <2>1, <3>1, FiniteFreeWindows, LeastOfNat
  <2> DEFINE main == Without(Active.main, g) popouts == With(Active.popouts, w, Active.main[g])
  <2>4. DOMAIN main \subseteq DOMAIN Active.main /\ DOMAIN popouts \subseteq Windows
    BY <1>2, <2>3 DEF With, Without
  <2> HIDE DEF taken, w, g
  <2>5. d.id = Active.id /\ d.main = main /\ d.popouts = popouts /\ d.focus = NoFocus
    <3> HIDE DEF main, popouts
    <3>1. d = [taken EXCEPT !.main = main, !.popouts = popouts]
      BY DEF main, popouts
    <3>2. taken = [id |-> taken.id, name |-> taken.name, main |-> taken.main,
                   popouts |-> taken.popouts, focus |-> taken.focus]
      BY <1>4 DEF SoundDashboard
    <3> HIDE DEF d
    <3> QED
      BY <1>4, <3>1, <3>2
  <2> HIDE DEF d, main, popouts
  <2>6. InBounds(d)
    BY <1>2, <1>5, <2>4, <2>5 DEF InBounds
  <2>7. \A i \in DOMAIN layouts' : InBounds(layouts'[i])
    BY <1>1, <2>2, <2>6, BecomesInBounds
  <2>8. open' \subseteq Windows /\ clicks' \subseteq [layout : 1 .. MaxLayouts, window : Windows]
    BY <1>2, <2>1, <2>3 DEF LayoutTypes, DesktopInBounds
  <2>9. left' \in [edits : Nat, popouts : Nat, saves : Nat]
    BY <2>1, Spent DEF LayoutTypes, DesktopInBounds
  <2> QED
    BY <1>3, <2>7, <2>8, <2>9 DEF LayoutTypes, DesktopInBounds
<1>7. CASE ~CanClose(Active, g)
  <2>1. Becomes(taken) /\ open' = open /\ clicks' = clicks /\ left' = left
    BY <1>7 DEF Popout
  <2> HIDE DEF taken
  <2>2. InBounds(taken)
    BY <1>2, <1>4, <1>5 DEF InBounds
  <2>3. \A i \in DOMAIN layouts' : InBounds(layouts'[i])
    BY <1>1, <2>1, <2>2, BecomesInBounds
  <2> QED
    BY <1>3, <2>1, <2>3 DEF LayoutTypes, DesktopInBounds
<1> QED
  BY <1>6, <1>7

(* A window that has opened.                                               *)
LEMMA WindowOpenedInBounds ==
  ASSUME LayoutInv, LayoutTypes, NEW c, WindowOpened(c)
  PROVE  (\A i \in DOMAIN layouts' : InBounds(layouts'[i])) /\ DesktopInBounds'
<1>1. RunningKept /\ LayoutsInBounds /\ c \in clicks
  BY DEF LayoutInv, LayoutTypes, WindowOpened
<1>2. c.window \in Windows
  BY <1>1 DEF LayoutTypes, DesktopInBounds
<1>3. ASSUME NEW i \in DOMAIN layouts'
      PROVE  InBounds(layouts'[i])
  <2> DEFINE d == layouts[i] f == Focus(c.window, 0) e == [d EXCEPT !.focus = f]
  <2>1. i \in DOMAIN layouts /\ (layouts'[i] = d \/ layouts'[i] = e)
    BY <1>3 DEF WindowOpened
  <2>2. InBounds(d) /\ SoundDashboard(d)
    BY <1>1, <2>1 DEF LayoutsInBounds, RunningKept, AllKept
  <2>3. f.window = c.window
    BY DEF Focus
  <2> HIDE DEF f
  <2>4. e.id = d.id /\ e.main = d.main /\ e.popouts = d.popouts /\ e.focus = f
    BY <2>2, Exchanged
  <2> HIDE DEF d, e
  <2>5. InBounds(e)
    BY <1>2, <2>2, <2>3, <2>4 DEF InBounds
  <2> QED
    BY <2>1, <2>2, <2>5
<1>4. /\ open' = open /\ clicks' \subseteq clicks /\ running' = running /\ left' = left
      /\ pressed' = pressed
  BY DEF WindowOpened
<1> QED
  BY <1>3, <1>4 DEF DesktopInBounds, LayoutTypes
(* Merging a window's pane into the grid.                                  *)
LEMMA MergeInBounds ==
  ASSUME LayoutInv, LayoutTypes, Merge
  PROVE  (\A i \in DOMAIN layouts' : InBounds(layouts'[i])) /\ DesktopInBounds'
<1> DEFINE f == Active.focus w == f.window popouts == Without(Active.popouts, w)
           taken == [Active EXCEPT !.focus = NoFocus, !.popouts = popouts]
           p == Active.popouts[w]
<1>1. RunningKept /\ LayoutsInBounds /\ running
  BY DEF LayoutInv, LayoutTypes, Merge
<1>2. /\ InBounds(Active) /\ SoundDashboard(Active) /\ DOMAIN Active.popouts \subseteq Windows
  BY <1>1, ActiveInBounds
<1>3. /\ pressed' = NoButton /\ pressed'.button \in {"none", "popout", "merge"}
      /\ running' = running /\ clicks' = clicks /\ left' = left
  BY DEF Merge, NoButton
<1>4. NoFocus.window = -1
  BY DEF NoFocus
<1>5. DOMAIN popouts = DOMAIN Active.popouts \ {w} /\ \A x \in DOMAIN popouts : popouts[x] = Active.popouts[x]
  BY DEF Without
<1>6. taken = [id |-> Active.id, name |-> Active.name, main |-> Active.main,
               popouts |-> popouts, focus |-> NoFocus]
  <2>1. Active = [id |-> Active.id, name |-> Active.name, main |-> Active.main,
                  popouts |-> Active.popouts, focus |-> Active.focus]
    BY <1>2 DEF SoundDashboard
  <2>2. taken = [Active EXCEPT !.focus = NoFocus, !.popouts = popouts]
    OBVIOUS
  <2> HIDE DEF taken, popouts
  <2> QED
    BY <2>1, <2>2
<1>7. /\ taken.id = Active.id /\ taken.main = Active.main /\ taken.popouts = popouts
      /\ taken.focus = NoFocus /\ taken.name = Active.name
  BY <1>6
<1>8. Becomes(taken) \/ (w \in DOMAIN Active.popouts /\ Becomes(SplitOff(taken, MainWindow, p)))
  BY DEF Merge
<1>9. open' = open \/ open' = open \ {w}
  BY DEF Merge
<1> HIDE DEF taken, w, popouts
<1>10. InBounds(taken)
  BY <1>2, <1>4, <1>5, <1>7 DEF InBounds
<1>11. SoundDashboard(taken)
  <2>1. /\ IsInjective(Active.main) /\ IsInjective(Active.popouts) /\ DOMAIN Active.main # {}
        /\ Range(Active.main) \cap Range(Active.popouts) = {} /\ Active.name \in NameSet
        /\ Range(Active.main) \subseteq Panes /\ Range(Active.popouts) \subseteq Panes
        /\ MainWindow \notin DOMAIN Active.popouts
    BY <1>2 DEF SoundDashboard, OnceIn, PanesOf
  <2>2. IsInjective(popouts) /\ Range(popouts) \subseteq Range(Active.popouts)
    BY <1>5, <2>1 DEF IsInjective, Range
  <2>3. OnceIn(taken) /\ PanesOf(taken) \subseteq Panes
    BY <1>7, <2>1, <2>2 DEF OnceIn, PanesOf
  <2> QED
    BY <1>5, <1>6, <1>7, <2>1, <2>3 DEF SoundDashboard
<1>12. ASSUME w \in DOMAIN Active.popouts
       PROVE  InBounds(SplitOff(taken, MainWindow, p))
  <2>1. p \in Range(Active.popouts) /\ IsInjective(Active.popouts)
        /\ Range(Active.main) \cap Range(Active.popouts) = {} /\ PanesOf(Active) \subseteq Panes
    BY <1>2, <1>12 DEF SoundDashboard, OnceIn, Range
  <2>2. p \in Panes
    BY <2>1 DEF PanesOf
  <2>3. p \notin Range(popouts)
    BY <1>5, <1>12, <2>1 DEF Range, IsInjective
  <2>4. p \notin PanesOf(taken)
    BY <1>7, <2>1, <2>3 DEF PanesOf
  <2> HIDE DEF p
  <2> QED
    BY <1>10, <1>11, <2>2, <2>4, SplitInBounds
<1>13. \A i \in DOMAIN layouts' : InBounds(layouts'[i])
  BY <1>1, <1>8, <1>10, <1>12, BecomesInBounds
<1> QED
  BY <1>3, <1>9, <1>13 DEF LayoutTypes, DesktopInBounds

(* Closing a window.                                                       *)
LEMMA CloseWindowInBounds ==
  ASSUME LayoutInv, LayoutTypes, NEW w, CloseWindow(w)
  PROVE  (\A i \in DOMAIN layouts' : InBounds(layouts'[i])) /\ DesktopInBounds'
<1> DEFINE popouts == Without(Active.popouts, w) d == [Active EXCEPT !.popouts = popouts]
<1>1. RunningKept /\ LayoutsInBounds /\ Becomes(d)
  BY DEF LayoutInv, LayoutTypes, CloseWindow, Mouse
<1>2. InBounds(Active) /\ SoundDashboard(Active)
  BY <1>1, ActiveInBounds
<1>3. DOMAIN popouts \subseteq DOMAIN Active.popouts
  BY DEF Without
<1> HIDE DEF popouts
<1>4. d.id = Active.id /\ d.main = Active.main /\ d.popouts = popouts /\ d.focus = Active.focus
  BY <1>2, Exchanged
<1> HIDE DEF d
<1>5. InBounds(d)
  BY <1>2, <1>3, <1>4 DEF InBounds
<1>6. \A i \in DOMAIN layouts' : InBounds(layouts'[i])
  BY <1>1, <1>5, BecomesInBounds
<1>7. /\ open' \subseteq open /\ clicks' = clicks /\ running' = running /\ left' = left
      /\ pressed' = pressed
  BY DEF CloseWindow
<1> QED
  BY <1>6, <1>7 DEF DesktopInBounds, LayoutTypes

(* A place the buttons and the HTTP client can name.                       *)
LEMMA AddressedInBounds ==
  ASSUME RunningKept, LayoutsInBounds, NEW w, NEW g, Addressed(w, g)
  PROVE  w \in {-1, MainWindow} \cup Windows
<1>1. DOMAIN Active.popouts \subseteq Windows
  BY ActiveInBounds
<1> QED
  BY <1>1 DEF Addressed

(* Splitting a pane.                                                       *)
LEMMA SplitPaneInBounds ==
  ASSUME LayoutInv, LayoutTypes, NEW w, NEW g, SplitPane(w, g)
  PROVE  (\A i \in DOMAIN layouts' : InBounds(layouts'[i])) /\ DesktopInBounds'
<1> DEFINE p == Min(FreePanes) d == SplitOff(Active, w, p)
<1>1. RunningKept /\ LayoutsInBounds /\ Becomes(d) /\ FreePanes # {} /\ Addressed(w, g)
  BY DEF LayoutInv, LayoutTypes, SplitPane
<1>2. InBounds(Active) /\ SoundDashboard(Active)
  BY <1>1, ActiveInBounds
<1>3. p \in Panes /\ p \notin PanesOf(Active)
  BY <1>1, NewPane
<1>4. w \in {-1, MainWindow} \cup Windows
  BY <1>1, AddressedInBounds
<1> HIDE DEF p
<1>5. InBounds(d)
  BY <1>2, <1>3, <1>4, SplitInBounds
<1> HIDE DEF d
<1>6. \A i \in DOMAIN layouts' : InBounds(layouts'[i])
  BY <1>1, <1>5, BecomesInBounds
<1>7. /\ open' = open /\ clicks' = clicks /\ running' = running /\ left' = left
      /\ pressed' = pressed
  BY DEF SplitPane
<1> QED
  BY <1>6, <1>7 DEF DesktopInBounds, LayoutTypes

(* Closing a pane.                                                         *)
LEMMA ClosePaneInBounds ==
  ASSUME LayoutInv, LayoutTypes, NEW w, NEW g, ClosePane(w, g)
  PROVE  (\A i \in DOMAIN layouts' : InBounds(layouts'[i])) /\ DesktopInBounds'
<1>1. RunningKept /\ LayoutsInBounds /\ Addressed(w, g)
  BY DEF LayoutInv, LayoutTypes, ClosePane
<1>2. InBounds(Active) /\ SoundDashboard(Active)
  BY <1>1, ActiveInBounds
<1>3. w \in {-1, MainWindow} \cup Windows
  BY <1>1, AddressedInBounds
<1> DEFINE main == Without(Active.main, g) d(s) == [Active EXCEPT !.main = main, !.focus = Focus(w, s)]
<1>4. PICK s \in DOMAIN Active.main \ {g} : Becomes(d(s))
  BY DEF ClosePane
<1>5. DOMAIN main \subseteq DOMAIN Active.main
  BY DEF Without
<1> HIDE DEF main
<1>6. /\ d(s).id = Active.id /\ d(s).main = main /\ d(s).popouts = Active.popouts
      /\ d(s).focus.window = w
  BY <1>2, Exchanged DEF Focus
<1> DEFINE e == d(s)
<1>7. InBounds(e)
  <2> HIDE DEF e
  <2> QED
    BY <1>2, <1>3, <1>5, <1>6 DEF InBounds, e
<1> HIDE DEF d
<1>8. Becomes(e)
  BY <1>4
<1> HIDE DEF e
<1>9. \A i \in DOMAIN layouts' : InBounds(layouts'[i])
  BY <1>1, <1>7, <1>8, BecomesInBounds
<1>10. /\ open' = open /\ clicks' = clicks /\ running' = running /\ left' = left
       /\ pressed' = pressed
  BY DEF ClosePane
<1> QED
  BY <1>9, <1>10 DEF DesktopInBounds, LayoutTypes

(* Opening an order pane.                                                  *)
LEMMA OpenOrderPaneInBounds ==
  ASSUME LayoutInv, LayoutTypes, OpenOrderPane
  PROVE  (\A i \in DOMAIN layouts' : InBounds(layouts'[i])) /\ DesktopInBounds'
<1> DEFINE p == Min(FreePanes) a == AutoFocus(Active) w == a.focus.window d == SplitOff(a, w, p)
<1>1. RunningKept /\ LayoutsInBounds /\ Becomes(d) /\ FreePanes # {}
  BY DEF LayoutInv, LayoutTypes, OpenOrderPane, OpensOrderPane
<1>2. InBounds(Active) /\ SoundDashboard(Active)
  BY <1>1, ActiveInBounds
<1>3. p \in Panes /\ p \notin PanesOf(Active)
  BY <1>1, NewPane
<1>4. /\ SoundDashboard(a) /\ PanesOf(a) = PanesOf(Active)
      /\ a.id = Active.id /\ a.main = Active.main /\ a.popouts = Active.popouts
  BY <1>2, AutoFocusKeeps
<1>5. w = Active.focus.window \/ w = MainWindow
  <2>1. a = Active \/ \E g : a = [Active EXCEPT !.focus = Focus(MainWindow, g)]
    BY DEF AutoFocus
  <2>2. \A g : [Active EXCEPT !.focus = Focus(MainWindow, g)].focus.window = MainWindow
    BY <1>2, Exchanged DEF Focus
  <2> QED
    BY <2>1, <2>2
<1> HIDE DEF p, a
<1>6. w \in {-1, MainWindow} \cup Windows
  BY <1>2, <1>5 DEF InBounds
<1>7. InBounds(a)
  BY <1>2, <1>4, <1>6 DEF InBounds
<1> HIDE DEF w
<1>8. InBounds(d)
  BY <1>3, <1>4, <1>6, <1>7, SplitInBounds
<1> HIDE DEF d
<1>9. \A i \in DOMAIN layouts' : InBounds(layouts'[i])
  BY <1>1, <1>8, BecomesInBounds
<1>10. /\ open' = open /\ clicks' = clicks /\ running' = running /\ left' = left
       /\ pressed' = pressed
  BY DEF OpenOrderPane
<1> QED
  BY <1>9, <1>10 DEF DesktopInBounds, LayoutTypes
(* One layout is exchanged, one is added, and some are left or in another  *)
(* order.                                                                  *)
LEMMA PutInBounds ==
  ASSUME LayoutsInBounds, NEW i \in DOMAIN layouts, NEW e, InBounds(e), Put(layouts', layouts, i, e)
  PROVE  \A j \in DOMAIN layouts' : InBounds(layouts'[j])
  BY DEF LayoutsInBounds, Put

(* One more.                                                               *)
LEMMA AppendInBounds ==
  ASSUME RunningKept, LayoutsInBounds, NEW e, InBounds(e), IsLast(layouts', layouts, e)
  PROVE  \A j \in DOMAIN layouts' : InBounds(layouts'[j])
<1> DEFINE S == Range(layouts) \cup {e} n == Len(layouts)
<1>1. n \in Nat /\ DOMAIN layouts = 1 .. n /\ layouts \in [1 .. n -> S]
  BY KeptFacts DEF RunningKept
<1>2. e \in S
  OBVIOUS
<1> HIDE DEF S
<1>3. layouts \in Seq(S)
  BY <1>1
<1>4. DOMAIN layouts' = 1 .. n + 1 /\ layouts'[n + 1] = e /\ \A j \in 1 .. n : layouts'[j] = layouts[j]
  BY <1>2, <1>3 DEF IsLast
<1> HIDE DEF n
<1> QED
  BY <1>1, <1>4 DEF LayoutsInBounds

(* The same ones, or some of them.                                         *)
LEMMA SomeInBounds ==
  ASSUME LayoutsInBounds, layouts' \in Seq(Range(layouts))
  PROVE  \A j \in DOMAIN layouts' : InBounds(layouts'[j])
<1> DEFINE S == Range(layouts)
<1>1. \A d \in S : InBounds(d)
  BY DEF LayoutsInBounds, Range
<1>2. layouts' \in Seq(S)
  OBVIOUS
<1> HIDE DEF S
<1> QED
  BY <1>1, <1>2

(* Switching to another layout.                                            *)
LEMMA SelectActiveInBounds ==
  ASSUME LayoutInv, LayoutTypes, NEW id, SelectActive(id)
  PROVE  (\A i \in DOMAIN layouts' : InBounds(layouts'[i])) /\ DesktopInBounds'
<1> DEFINE i == Position(id) d == layouts[i] e == LoadLayout(d) S == Range(d.popouts)
<1>1. /\ Known(id) /\ Cardinality(FreeWindows) >= Cardinality(DOMAIN d.popouts)
      /\ layouts' = [layouts EXCEPT ![i] = e]
      /\ open' = (open \ DOMAIN d.popouts) \cup (DOMAIN e.popouts \ DOMAIN d.popouts)
      /\ pressed' = pressed /\ clicks' = clicks /\ running' = running /\ left' = left
  BY DEF SelectActive, Mouse, Fits
<1>2. RunningKept /\ LayoutsInBounds
  BY DEF LayoutInv, LayoutTypes, SelectActive, Mouse
<1>3. i \in DOMAIN layouts /\ SoundDashboard(d) /\ InBounds(d)
  BY <1>1, <1>2, KnownIs DEF LayoutsInBounds
<1> HIDE DEF i
<1>4. IsFiniteSet(S) /\ Cardinality(FreeWindows) >= Cardinality(S)
  <2>1. S \subseteq Panes /\ IsInjective(d.popouts)
    BY <1>3 DEF SoundDashboard, OnceIn, PanesOf
  <2>2. IsFiniteSet(S) /\ IsFiniteSet(DOMAIN d.popouts)
    BY <2>1, FinitePanes, FS_Subset, FinitePlaces
  <2>3. [x \in DOMAIN d.popouts |-> d.popouts[x]] \in Surjection(DOMAIN d.popouts, S)
    BY DEF Surjection, Range
  <2>4. Cardinality(S) <= Cardinality(DOMAIN d.popouts)
    BY <2>2, <2>3, FS_Surjection
  <2>5. Cardinality(S) \in Nat /\ Cardinality(DOMAIN d.popouts) \in Nat /\ Cardinality(FreeWindows) \in Nat
    BY <2>2, FiniteFreeWindows, FS_CardinalityType
  <2> HIDE DEF S, d
  <2> QED
    BY <1>1, <2>2, <2>4, <2>5
<1>5. DOMAIN PoppedOut(S) \subseteq Windows
  BY <1>4, PoppedOutKeeps, FiniteFreeWindows
<1>6. e = [d EXCEPT !.popouts = PoppedOut(S)]
  BY DEF LoadLayout
<1> HIDE DEF S, e, d
<1>7. e.id = d.id /\ e.main = d.main /\ e.popouts = PoppedOut(S) /\ e.focus = d.focus
  BY <1>3, <1>6, Exchanged
<1>8. InBounds(e)
  BY <1>3, <1>5, <1>7 DEF InBounds
<1>9. \A j \in DOMAIN layouts' : InBounds(layouts'[j])
  BY <1>1, <1>2, <1>3, <1>8, PutInBounds DEF Put
<1>10. open' \subseteq Windows
  BY <1>1, <1>5, <1>7 DEF LayoutTypes, DesktopInBounds
<1> QED
  BY <1>1, <1>9, <1>10 DEF LayoutTypes, DesktopInBounds

(* A number for a layout that is free.                                     *)
LEMMA FreeIdInBounds == FreeLayouts # {} => Min(FreeLayouts) \in 1 .. MaxLayouts
  BY FreeThings DEF FreeLayouts

(* A new layout.                                                           *)
LEMMA AddLayoutInBounds ==
  ASSUME LayoutInv, LayoutTypes, AddLayout
  PROVE  (\A i \in DOMAIN layouts' : InBounds(layouts'[i])) /\ DesktopInBounds'
<1> DEFINE id == Min(FreeLayouts) name == GenerateUniqueLayoutName
           fresh == Some(FreePanes, DefaultPanes) S == ToSet(fresh)
           main == NumberedFrom(fresh[1], S)
           d == DefaultDashboard(id, name)
<1>1. /\ layouts' = Append(layouts, d) /\ FreeLayouts # {} /\ Cardinality(FreePanes) >= DefaultPanes
      /\ open' \subseteq open /\ pressed' = pressed /\ clicks' = clicks /\ running' = running
      /\ left.edits > 0 /\ left' = [left EXCEPT !.edits = @ - 1]
  BY DEF AddLayout, Mouse, Fits, Edit
<1>2. RunningKept /\ LayoutsInBounds
  BY DEF LayoutInv, LayoutTypes, AddLayout, Mouse
<1>3. id \in 1 .. MaxLayouts
  BY <1>1, FreeIdInBounds
<1>4. fresh \in [1 .. DefaultPanes -> FreePanes]
  <2>1. Cardinality(FreePanes) \in Nat
    BY FreeThings, FS_CardinalityType
  <2> QED
    BY <1>1, <2>1, Bounds, FreeThings, SomeOf
<1>5. fresh[1] \in S /\ S \subseteq Panes
  BY <1>4, Bounds, FreeThings DEF ToSet
<1>6. d = Dashboard(id, name, main, <<>>)
  BY DEF DefaultDashboard
<1> HIDE DEF S, fresh, id, name, d
<1>7. DOMAIN main \subseteq 0 .. MaxPanes + 1
  BY <1>5, NumberedInBounds
<1> HIDE DEF main
<1>8. d.id = id /\ d.main = main /\ d.popouts = <<>> /\ d.focus = NoFocus
  BY <1>6 DEF Dashboard
<1>9. NoFocus.window = -1 /\ DOMAIN <<>> = {}
  BY DEF NoFocus
<1>10. InBounds(d)
  BY <1>3, <1>7, <1>8, <1>9 DEF InBounds
<1>11. \A j \in DOMAIN layouts' : InBounds(layouts'[j])
  BY <1>1, <1>2, <1>10, AppendInBounds DEF IsLast
<1>12. left' \in [edits : Nat, popouts : Nat, saves : Nat]
  BY <1>1, Spent DEF LayoutTypes, DesktopInBounds
<1> QED
  BY <1>1, <1>11, <1>12 DEF LayoutTypes, DesktopInBounds

(* Removing one, and ordering them.                                        *)
LEMMA RemoveLayoutInBounds ==
  ASSUME LayoutInv, LayoutTypes, NEW id, RemoveLayout(id)
  PROVE  (\A i \in DOMAIN layouts' : InBounds(layouts'[i])) /\ DesktopInBounds'
<1> DEFINE i == Position(id)
<1>1. /\ Known(id) /\ layouts' = RemoveAt(layouts, i)
      /\ open' = open /\ pressed' = pressed /\ clicks' = clicks /\ running' = running
      /\ left.edits > 0 /\ left' = [left EXCEPT !.edits = @ - 1]
  BY DEF RemoveLayout, CanRemove, Edit
<1>2. RunningKept /\ LayoutsInBounds
  BY DEF LayoutInv, LayoutTypes, RemoveLayout, Mouse
<1>3. i \in DOMAIN layouts /\ layouts \in Seq(Range(layouts))
  BY <1>1, <1>2, KnownIs DEF RunningKept, AllKept
<1> DEFINE R == Range(layouts)
<1>4. layouts' \in Seq(R)
  <2>1. layouts \in Seq(R) /\ i \in 1 .. Len(layouts)
    BY <1>3
  <2> HIDE DEF R, i
  <2> QED
    BY <1>1, <2>1, RemovedAt
<1>5. \A j \in DOMAIN layouts' : InBounds(layouts'[j])
  BY <1>2, <1>4, SomeInBounds
<1>6. left' \in [edits : Nat, popouts : Nat, saves : Nat]
  BY <1>1, Spent DEF LayoutTypes, DesktopInBounds
<1> QED
  BY <1>1, <1>5, <1>6 DEF LayoutTypes, DesktopInBounds

(* Ordering.                                                               *)
LEMMA ReorderInBounds ==
  ASSUME LayoutInv, LayoutTypes, NEW i \in DOMAIN layouts, NEW target \in 1 .. Len(layouts) + 1,
         Reorder(i, target)
  PROVE  (\A j \in DOMAIN layouts' : InBounds(layouts'[j])) /\ DesktopInBounds'
<1> DEFINE t == IF i < target THEN target - 1 ELSE target R == Range(layouts)
           rest == RemoveAt(layouts, i) n == Len(layouts)
<1>1. /\ i # target /\ layouts' = InsertAt(rest, t, layouts[i])
      /\ open' = open /\ pressed' = pressed /\ clicks' = clicks /\ running' = running
      /\ left.edits > 0 /\ left' = [left EXCEPT !.edits = @ - 1]
  BY DEF Reorder, Edit
<1>2. RunningKept /\ LayoutsInBounds
  BY DEF LayoutInv, LayoutTypes, Reorder, Mouse
<1>3. n \in Nat /\ i \in 1 .. n /\ layouts \in Seq(R) /\ layouts[i] \in R
  <2>1. AllKept(layouts, owed)
    BY <1>2 DEF RunningKept
  <2>2. n \in Nat /\ DOMAIN layouts = 1 .. n
    BY <2>1, KeptFacts
  <2> QED
    BY <2>1, <2>2 DEF AllKept, Range
<1> HIDE DEF R
<1>4. rest \in Seq(R) /\ Len(rest) = n - 1
  BY <1>3, RemovedAt
<1>5. t \in 1 .. n
  BY <1>1, <1>3
<1> HIDE DEF t, rest, n
<1>6. t \in 1 .. Len(rest) + 1
  BY <1>3, <1>4, <1>5
<1>7. layouts' \in Seq(R)
  BY <1>1, <1>3, <1>4, <1>6, InsertedAt
<1>8. \A j \in DOMAIN layouts' : InBounds(layouts'[j])
  BY <1>2, <1>7, SomeInBounds DEF R
<1>9. left' \in [edits : Nat, popouts : Nat, saves : Nat]
  BY <1>1, Spent DEF LayoutTypes, DesktopInBounds
<1> QED
  BY <1>1, <1>8, <1>9 DEF LayoutTypes, DesktopInBounds

(* A copy of a layout.                                                     *)
LEMMA CloneLayoutInBounds ==
  ASSUME LayoutInv, LayoutTypes, NEW id, CloneLayout(id)
  PROVE  (\A i \in DOMAIN layouts' : InBounds(layouts'[i])) /\ DesktopInBounds'
<1> DEFINE d == layouts[Position(id)]
           n == Cardinality(DOMAIN d.main) k == Cardinality(DOMAIN d.popouts)
           fresh == Some(FreePanes, n + k)
           A == ToSet(SubSeq(fresh, 1, n)) B == ToSet(SubSeq(fresh, n + 1, n + k))
           new == Min(FreeLayouts) name == EnsureUniqueName(d.name, new)
           main == NumberedFrom(fresh[1], A) popouts == PoppedOut(B)
           e == Dashboard(new, name, main, popouts) panes == ToSet(fresh)
<1>1. /\ Known(id) /\ FreeLayouts # {}
      /\ Cardinality(FreePanes) >= n + k /\ Cardinality(FreeWindows) >= k
      /\ layouts' = Append(layouts, e)
      /\ open' = open /\ pressed' = pressed /\ clicks' = clicks /\ running' = running
      /\ left.edits > 0 /\ left' = [left EXCEPT !.edits = @ - 1]
  BY DEF CloneLayout, Fits, Edit
<1>2. RunningKept /\ LayoutsInBounds
  BY DEF LayoutInv, LayoutTypes, CloneLayout, Mouse
<1>3. SoundDashboard(d)
  BY <1>1, <1>2, KnownIs
<1> HIDE DEF d
<1>4. n \in Nat /\ n >= 1 /\ k \in Nat
  BY <1>3, FinitelyMany
<1> HIDE DEF n, k
<1>5. fresh \in Seq(FreePanes) /\ Len(fresh) = n + k /\ IsInjective(fresh)
  <2>1. Cardinality(FreePanes) \in Nat /\ n + k \in Nat /\ n + k <= Cardinality(FreePanes)
    BY <1>1, <1>4, FreeThings, FS_CardinalityType
  <2> QED
    BY <2>1, FreeThings, SomeOf
<1> HIDE DEF fresh
<1>6. /\ fresh[1] \in A /\ A \cap B = {} /\ A \cup B = panes /\ panes \subseteq FreePanes
      /\ IsFiniteSet(A) /\ IsFiniteSet(B) /\ Cardinality(B) <= k
  BY <1>4, <1>5, FreeThings, Parted
<1> HIDE DEF A, B, panes
<1>7. DOMAIN main \subseteq 0 .. MaxPanes + 1
  BY <1>6, FreeThings, NumberedInBounds
<1>8. DOMAIN popouts \subseteq Windows
  <2>1. Cardinality(FreeWindows) \in Nat /\ Cardinality(B) \in Nat
    BY <1>6, FiniteFreeWindows, FS_CardinalityType
  <2>2. Cardinality(FreeWindows) >= Cardinality(B)
    BY <1>1, <1>4, <1>6, <2>1
  <2> QED
    BY <1>6, <2>2, PoppedOutKeeps, FiniteFreeWindows
<1>9. new \in 1 .. MaxLayouts
  BY <1>1, FreeIdInBounds
<1> HIDE DEF main, popouts, name, new
<1>10. e.id = new /\ e.main = main /\ e.popouts = popouts /\ e.focus = NoFocus
  BY DEF Dashboard
<1>11. NoFocus.window = -1
  BY DEF NoFocus
<1> HIDE DEF e
<1>12. InBounds(e)
  BY <1>7, <1>8, <1>9, <1>10, <1>11 DEF InBounds
<1>13. \A j \in DOMAIN layouts' : InBounds(layouts'[j])
  BY <1>1, <1>2, <1>12, AppendInBounds DEF IsLast
<1>14. left' \in [edits : Nat, popouts : Nat, saves : Nat]
  BY <1>1, Spent DEF LayoutTypes, DesktopInBounds
<1> QED
  BY <1>1, <1>13, <1>14 DEF LayoutTypes, DesktopInBounds

(* A new name.                                                             *)
LEMMA SetLayoutNameInBounds ==
  ASSUME LayoutInv, LayoutTypes, NEW id, NEW proposed, SetLayoutName(id, proposed)
  PROVE  (\A i \in DOMAIN layouts' : InBounds(layouts'[i])) /\ DesktopInBounds'
<1> DEFINE i == Position(id) name == EnsureUniqueName(proposed, id)
           d == layouts[i] e == [d EXCEPT !.name = name]
<1>1. /\ Known(id) /\ layouts' = [layouts EXCEPT ![i].name = name]
      /\ open' = open /\ pressed' = pressed /\ clicks' = clicks /\ running' = running
      /\ left.edits > 0 /\ left' = [left EXCEPT !.edits = @ - 1]
  BY DEF SetLayoutName, Edit
<1>2. RunningKept /\ LayoutsInBounds
  BY DEF LayoutInv, LayoutTypes, SetLayoutName, Mouse
<1>3. i \in DOMAIN layouts /\ SoundDashboard(d) /\ InBounds(d)
  BY <1>1, <1>2, KnownIs DEF LayoutsInBounds
<1>4. layouts' = [layouts EXCEPT ![i] = e]
  BY <1>1
<1> HIDE DEF i, name, d
<1>5. e.id = d.id /\ e.main = d.main /\ e.popouts = d.popouts /\ e.focus = d.focus
  <2>1. d = [id |-> d.id, name |-> d.name, main |-> d.main, popouts |-> d.popouts, focus |-> d.focus]
    BY <1>3 DEF SoundDashboard
  <2> QED
    BY <2>1
<1> HIDE DEF e
<1>6. InBounds(e)
  BY <1>3, <1>5 DEF InBounds
<1>7. \A j \in DOMAIN layouts' : InBounds(layouts'[j])
  BY <1>2, <1>3, <1>4, <1>6, PutInBounds DEF Put
<1>8. left' \in [edits : Nat, popouts : Nat, saves : Nat]
  BY <1>1, Spent DEF LayoutTypes, DesktopInBounds
<1> QED
  BY <1>1, <1>7, <1>8 DEF LayoutTypes, DesktopInBounds

-----------------------------------------------------------------------------
(* Types: saving, stopping and starting again.                             *)

(* There are no more layouts than ids.                                     *)
LEMMA NotTooMany ==
  ASSUME RunningKept, LayoutsInBounds
  PROVE  Len(layouts) <= MaxLayouts
<1> DEFINE n == Len(layouts) ids == [i \in 1 .. n |-> layouts[i].id]
<1>1. /\ n \in Nat /\ DOMAIN layouts = 1 .. n
      /\ \A i, j \in 1 .. n : i # j => layouts[i].id # layouts[j].id
  BY KeptFacts DEF RunningKept, AllKept, Apart
<1>2. \A i \in 1 .. n : layouts[i].id \in 1 .. MaxLayouts
  BY <1>1 DEF LayoutsInBounds, InBounds
<1>3. ids \in Injection(1 .. n, 1 .. MaxLayouts)
  BY <1>1, <1>2 DEF Injection, IsInjective
<1> HIDE DEF ids, n
<1>4. /\ IsFiniteSet(1 .. n) /\ Cardinality(1 .. n) = n
      /\ IsFiniteSet(1 .. MaxLayouts) /\ Cardinality(1 .. MaxLayouts) = MaxLayouts
  <2>1. /\ IsFiniteSet(1 .. n) /\ Cardinality(1 .. n) = IF 1 > n THEN 0 ELSE n - 1 + 1
        /\ IsFiniteSet(1 .. MaxLayouts)
        /\ Cardinality(1 .. MaxLayouts) = IF 1 > MaxLayouts THEN 0 ELSE MaxLayouts - 1 + 1
    BY <1>1, Bounds, FS_Interval
  <2> QED
    BY <1>1, <2>1, Bounds
<1>5. n <= MaxLayouts
  BY <1>3, <1>4, FS_Injection
<1> QED
  BY <1>5 DEF n

(* A file has as many layouts as there are.                                *)
LEMMA SaveInBounds ==
  ASSUME RunningKept, LayoutTypes, SaveState
  PROVE  FileInBounds' /\ left' \in [edits : Nat, popouts : Nat, saves : Nat]
<1> DEFINE file == [i \in DOMAIN layouts |-> Serialized(layouts[i])]
<1>1. saved' = [layouts |-> file, active |-> ActiveName, owed |-> owed, position |-> Position(active)]
  BY DEF SaveState
<1>2. Len(layouts) \in Nat /\ DOMAIN layouts = 1 .. Len(layouts)
  BY KeptFacts DEF RunningKept
<1>3. Len(file) = Len(layouts)
  BY <1>2
<1> HIDE DEF file
<1>4. saved'.layouts = file
  BY <1>1
<1>5. left' \in [edits : Nat, popouts : Nat, saves : Nat]
  BY Spent DEF SaveState, LayoutTypes, DesktopInBounds
<1> QED
  BY <1>3, <1>4, <1>5, NotTooMany DEF LayoutTypes, FileInBounds

(* The layout there is without a file is in bounds.                        *)
LEMMA FirstInBounds ==
  ASSUME NEW ls, IsDefault(ls)
  PROVE  \A i \in DOMAIN ls : InBounds(ls[i])
<1> DEFINE S == 1 .. DefaultPanes main == NumberedFrom(1, S)
           d == Dashboard(1, <<1>>, main, <<>>)
<1>1. S \subseteq Panes /\ 1 \in S
  BY Bounds DEF Panes
<1> HIDE DEF S
<1>2. DOMAIN main \subseteq 0 .. MaxPanes + 1
  BY <1>1, NumberedInBounds
<1>3. ls = <<d>>
  BY DEF main, S, IsDefault
<1> HIDE DEF main
<1>4. /\ d.id = 1 /\ d.main = main /\ d.popouts = <<>> /\ d.focus = NoFocus
      /\ DOMAIN d.popouts = {}
  BY DEF Dashboard
<1> HIDE DEF d
<1>5. NoFocus.window = -1 /\ 1 \in 1 .. MaxLayouts
  BY LayoutsAssumption DEF NoFocus
<1>6. InBounds(d)
  BY <1>2, <1>4, <1>5 DEF InBounds
<1> QED
  BY <1>3, <1>6

(* So are the layouts of a file: their ids are their places in it, and the *)
(* windows are as many as popped out panes.                                *)
LEMMA RestoredInBounds ==
  ASSUME SavedKept, saved # NoFile, FileInBounds, Start
  PROVE  (\A i \in DOMAIN layouts' : InBounds(layouts'[i])) /\ open' \subseteq Windows
<1>1. PICK ls : /\ AllKept(ls, saved.owed) /\ saved.layouts = [i \in DOMAIN ls |-> Serialized(ls[i])]
  BY DEF SavedKept
<1> DEFINE all == UNION {saved.layouts[i].popouts : i \in DOMAIN saved.layouts}
           pane == SetToSeq(all)
           in(i) == {w \in DOMAIN pane : pane[w] \in saved.layouts[i].popouts}
           windows(i) == [w \in in(i) |-> pane[w]]
           first == Min({i \in DOMAIN saved.layouts : saved.layouts[i].name = saved.active})
           n == Len(ls)
<1>2. PICK zero \in [DOMAIN saved.layouts -> Panes] :
         /\ \A i \in DOMAIN zero : zero[i] \in saved.layouts[i].main
         /\ layouts' = [i \in DOMAIN zero |-> Restored(i, zero[i], windows(i))]
  BY DEF Start
<1>3. open' = in(first) /\ Cardinality(all) <= MaxWindows
  BY DEF Start
<1>4. n \in Nat /\ DOMAIN ls = 1 .. n
  BY <1>1, KeptFacts
<1>5. DOMAIN saved.layouts = 1 .. n /\ n <= MaxLayouts
  <2>1. DOMAIN saved.layouts = 1 .. n /\ Len(saved.layouts) = n
    BY <1>1, <1>4
  <2> QED
    BY <2>1 DEF FileInBounds
<1> HIDE DEF n
<1>6. ASSUME NEW i \in 1 .. n
      PROVE  /\ saved.layouts[i].main \subseteq Panes /\ saved.layouts[i].popouts \subseteq Panes
  <2>1. saved.layouts[i].main = Range(ls[i].main) /\ saved.layouts[i].popouts = Range(ls[i].popouts)
    BY <1>1, <1>4 DEF Serialized
  <2>2. PanesOf(ls[i]) \subseteq Panes
    BY <1>1, <1>4 DEF AllKept, SoundDashboard
  <2> QED
    BY <2>1, <2>2 DEF PanesOf
<1>7. DOMAIN pane \subseteq Windows
  <2>1. all \subseteq Panes
    BY <1>5, <1>6
  <2>2. IsFiniteSet(all)
    BY <2>1, FinitePanes, FS_Subset
  <2> HIDE DEF all
  <2>3. Cardinality(all) \in Nat /\ DOMAIN pane = 1 .. Cardinality(all)
    BY <2>2, Listed
  <2> HIDE DEF pane
  <2> QED
    BY <1>3, <2>3, Bounds DEF Windows
<1> HIDE DEF pane
<1>8. \A i : in(i) \subseteq Windows
  BY <1>7
<1>9. ASSUME NEW i \in DOMAIN layouts' PROVE InBounds(layouts'[i])
  <2> DEFINE d == saved.layouts[i] main == NumberedFrom(zero[i], d.main)
             e == Dashboard(i, d.name, main, windows(i))
  <2>1. i \in 1 .. n /\ layouts'[i] = e /\ zero[i] \in d.main
    BY <1>2, <1>5 DEF Restored
  <2>2. d.main \subseteq Panes
    BY <1>6, <2>1
  <2> HIDE DEF d
  <2>3. DOMAIN main \subseteq 0 .. MaxPanes + 1
    BY <2>1, <2>2, NumberedInBounds
  <2>4. DOMAIN windows(i) \subseteq Windows
    BY <1>8
  <2> HIDE DEF main, windows
  <2>5. e.id = i /\ e.main = main /\ e.popouts = windows(i) /\ e.focus = NoFocus
    BY DEF Dashboard
  <2>6. NoFocus.window = -1 /\ i \in 1 .. MaxLayouts
    BY <1>4, <1>5, <2>1, Bounds DEF NoFocus
  <2> HIDE DEF e
  <2>7. InBounds(e)
    BY <2>3, <2>4, <2>5, <2>6 DEF InBounds
  <2> QED
    BY <2>1, <2>7
<1> QED
  BY <1>3, <1>8, <1>9

(* A start is in bounds.                                                   *)
LEMMA StartInBounds ==
  ASSUME LayoutInv, LayoutTypes, Start
  PROVE  (\A i \in DOMAIN layouts' : InBounds(layouts'[i])) /\ DesktopInBounds' /\ FileInBounds'
<1>1. /\ saved' = saved /\ clicks' = clicks /\ pressed' = pressed /\ running' = TRUE /\ left' = left
  BY DEF Start
<1>2. FileInBounds /\ FileInBounds'
  BY <1>1 DEF LayoutTypes, FileInBounds
<1>3. (\A i \in DOMAIN layouts' : InBounds(layouts'[i])) /\ open' \subseteq Windows
  <2>1. CASE saved = NoFile
    <3>1. IsDefault(layouts') /\ open' = {}
      BY <2>1 DEF Start, IsDefault
    <3> QED
      BY <3>1, FirstInBounds
  <2>2. CASE saved # NoFile
    BY <1>2, <2>2, RestoredInBounds DEF LayoutInv
  <2> QED
    BY <2>1, <2>2
<1> QED
  BY <1>1, <1>2, <1>3 DEF LayoutTypes, DesktopInBounds

-----------------------------------------------------------------------------
(* Types: every step.                                                      *)

(* What the mouse does keeps the bounds, and so do the panes.              *)
LEMMA MouseInBounds ==
  ASSUME LayoutInv, LayoutTypes, NEW w, NEW g, NEW b \in {"none", "popout", "merge"},
         \/ Press(w, g, b) \/ Popout \/ Merge \/ CloseWindow(w) \/ \E c \in clicks : WindowOpened(c)
         \/ SplitPane(w, g) \/ ClosePane(w, g) \/ OpenOrderPane
  PROVE  (\A i \in DOMAIN layouts' : InBounds(layouts'[i])) /\ DesktopInBounds'
         /\ saved' = saved /\ running'
<1>1. CASE Press(w, g, b)
  <2>1. saved' = saved /\ running /\ running' = running
    BY <1>1 DEF Press, Mouse
  <2> QED
    BY <1>1, <2>1, PressInBounds
<1>2. CASE Popout
  <2>1. saved' = saved /\ running /\ running' = running
    BY <1>2 DEF Popout
  <2> QED
    BY <1>2, <2>1, PopoutInBounds
<1>3. CASE Merge
  <2>1. saved' = saved /\ running /\ running' = running
    BY <1>3 DEF Merge
  <2> QED
    BY <1>3, <2>1, MergeInBounds
<1>4. CASE CloseWindow(w)
  <2>1. saved' = saved /\ running /\ running' = running
    BY <1>4 DEF CloseWindow, Mouse
  <2> QED
    BY <1>4, <2>1, CloseWindowInBounds
<1>5. CASE \E c \in clicks : WindowOpened(c)
  <2>1. saved' = saved /\ running /\ running' = running
    BY <1>5 DEF WindowOpened
  <2> QED
    BY <1>5, <2>1, WindowOpenedInBounds
<1>6. CASE SplitPane(w, g)
  <2>1. saved' = saved /\ running /\ running' = running
    BY <1>6 DEF SplitPane
  <2> QED
    BY <1>6, <2>1, SplitPaneInBounds
<1>7. CASE ClosePane(w, g)
  <2>1. saved' = saved /\ running /\ running' = running
    BY <1>7 DEF ClosePane
  <2> QED
    BY <1>7, <2>1, ClosePaneInBounds
<1>8. CASE OpenOrderPane
  <2>1. saved' = saved /\ running /\ running' = running
    BY <1>8 DEF OpenOrderPane
  <2> QED
    BY <1>8, <2>1, OpenOrderPaneInBounds
<1> QED
  BY <1>1, <1>2, <1>3, <1>4, <1>5, <1>6, <1>7, <1>8

(* So does everything done in the layout manager.                          *)
LEMMA ListInBounds ==
  ASSUME LayoutInv, LayoutTypes, NEW id,
         \/ SelectActive(id) \/ RemoveLayout(id) \/ CloneLayout(id) \/ AddLayout
         \/ \E name \in {<<b>> : b \in Typed} \cup Names : SetLayoutName(id, name)
         \/ \E i \in DOMAIN layouts, t \in 1 .. Len(layouts) + 1 : Reorder(i, t)
  PROVE  (\A i \in DOMAIN layouts' : InBounds(layouts'[i])) /\ DesktopInBounds'
         /\ saved' = saved /\ running'
<1>1. CASE SelectActive(id)
  <2>1. saved' = saved /\ running /\ running' = running
    BY <1>1 DEF SelectActive, Mouse
  <2> QED
    BY <1>1, <2>1, SelectActiveInBounds
<1>2. CASE RemoveLayout(id)
  <2>1. saved' = saved /\ running /\ running' = running
    BY <1>2 DEF RemoveLayout, Mouse
  <2> QED
    BY <1>2, <2>1, RemoveLayoutInBounds
<1>3. CASE CloneLayout(id)
  <2>1. saved' = saved /\ running /\ running' = running
    BY <1>3 DEF CloneLayout, Mouse
  <2> QED
    BY <1>3, <2>1, CloneLayoutInBounds
<1>4. CASE AddLayout
  <2>1. saved' = saved /\ running /\ running' = running
    BY <1>4 DEF AddLayout, Mouse
  <2> QED
    BY <1>4, <2>1, AddLayoutInBounds
<1>5. CASE \E name \in {<<b>> : b \in Typed} \cup Names : SetLayoutName(id, name)
  <2>1. saved' = saved /\ running /\ running' = running
    BY <1>5 DEF SetLayoutName, Mouse
  <2> QED
    BY <1>5, <2>1, SetLayoutNameInBounds
<1>6. CASE \E i \in DOMAIN layouts, t \in 1 .. Len(layouts) + 1 : Reorder(i, t)
  <2>1. saved' = saved /\ running /\ running' = running
    BY <1>6 DEF Reorder, Mouse
  <2> QED
    BY <1>6, <2>1, ReorderInBounds
<1> QED
  BY <1>1, <1>2, <1>3, <1>4, <1>5, <1>6

(* Saving, exiting and crashing leave the layouts as they are.             *)
LEMMA ProgramInBounds ==
  ASSUME LayoutInv, LayoutTypes, ApiSaveState \/ ExitRequested \/ Crash
  PROVE  LayoutTypes'
<1>1. running /\ layouts' = layouts /\ running' \in BOOLEAN
  BY DEF ApiSaveState, ExitRequested, Crash, Gone, LayoutTypes, DesktopInBounds
<1>2. RunningKept /\ LayoutsInBounds'
  BY <1>1 DEF LayoutInv, LayoutTypes, LayoutsInBounds
<1>3. /\ open' \subseteq Windows /\ pressed'.button \in {"none", "popout", "merge"}
      /\ clicks' \subseteq [layout : 1 .. MaxLayouts, window : Windows]
  BY DEF ApiSaveState, ExitRequested, Crash, Gone, NoButton, LayoutTypes, DesktopInBounds
<1>4. FileInBounds' /\ left' \in [edits : Nat, popouts : Nat, saves : Nat]
  <2>1. CASE SaveState
    BY <1>2, <2>1, SaveInBounds
  <2>2. CASE saved' = saved /\ left' = left
    BY <2>2 DEF LayoutTypes, FileInBounds, DesktopInBounds
  <2> QED
    BY <2>1, <2>2 DEF ApiSaveState, ExitRequested, Crash
<1> QED
  BY <1>1, <1>2, <1>3, <1>4 DEF LayoutTypes, DesktopInBounds

(* Every step keeps the bounds.                                            *)
LEMMA LayoutTypesStep ==
  ASSUME LayoutInv, LayoutInv', LayoutTypes, [LayoutNext]_layoutVars
  PROVE  LayoutTypes'
<1> DEFINE Stays == (\A i \in DOMAIN layouts' : InBounds(layouts'[i])) /\ DesktopInBounds'
<1>1. ASSUME Stays, saved' = saved, running' PROVE LayoutTypes'
  <2>1. LayoutsInBounds'
    BY <1>1, KeptInBounds DEF LayoutInv
  <2>2. FileInBounds'
    BY <1>1 DEF LayoutTypes, FileInBounds
  <2> QED
    BY <1>1, <2>1, <2>2 DEF LayoutTypes
<1>2. CASE UNCHANGED layoutVars
  BY <1>2 DEF layoutVars, LayoutTypes, LayoutsInBounds, DesktopInBounds, FileInBounds
<1>3. CASE LayoutNext
  <2>1. ASSUME NEW w, NEW g, NEW b \in {"none", "popout", "merge"}, Press(w, g, b)
        PROVE  LayoutTypes'
    BY <1>1, <2>1, MouseInBounds
  <2>2. CASE Popout \/ Merge \/ (\E c \in clicks : WindowOpened(c)) \/ \E w \in open : CloseWindow(w)
    BY <1>1, <2>2, MouseInBounds
  <2>3. ASSUME NEW w, NEW g, SplitPane(w, g) \/ ClosePane(w, g) PROVE LayoutTypes'
    BY <1>1, <2>3, MouseInBounds
  <2>4. CASE OpenOrderPane
    BY <1>1, <2>4, MouseInBounds
  <2>5. ASSUME NEW id,
               \/ SelectActive(id) \/ RemoveLayout(id) \/ CloneLayout(id)
               \/ \E name \in {<<b>> : b \in Typed} \cup Names : SetLayoutName(id, name)
        PROVE  LayoutTypes'
    BY <1>1, <2>5, ListInBounds
  <2>6. CASE AddLayout \/ \E i \in DOMAIN layouts, t \in 1 .. Len(layouts) + 1 : Reorder(i, t)
    BY <1>1, <2>6, ListInBounds
  <2>7. CASE ApiSaveState \/ ExitRequested \/ Crash
    BY <2>7, ProgramInBounds
  <2>8. CASE Start
    <3>1. (\A i \in DOMAIN layouts' : InBounds(layouts'[i])) /\ DesktopInBounds' /\ FileInBounds'
      BY <2>8, StartInBounds
    <3>2. running' = TRUE
      BY <2>8 DEF Start
    <3>3. LayoutsInBounds'
      BY <3>1, <3>2, KeptInBounds DEF LayoutInv
    <3> QED
      BY <3>1, <3>3 DEF LayoutTypes
  <2> QED
    BY <1>3, <2>1, <2>2, <2>3, <2>4, <2>5, <2>6, <2>7, <2>8 DEF LayoutNext
<1> QED
  BY <1>2, <1>3

(* The bounds hold at first.                                               *)
LEMMA LayoutTypesStart ==
  ASSUME LayoutInit
  PROVE  LayoutTypes
<1>1. /\ IsDefault(layouts) /\ open = {} /\ clicks = {} /\ pressed = NoButton /\ running = TRUE
      /\ saved = NoFile /\ left \in Budgets /\ RunningKept
  BY LayoutStarts DEF LayoutInit, IsDefault, LayoutInv
<1>2. \A i \in DOMAIN layouts : InBounds(layouts[i])
  BY <1>1, FirstInBounds
<1>3. LayoutsInBounds
  BY <1>1, <1>2 DEF RunningKept, AllKept, SoundDashboard, LayoutsInBounds
<1>4. DesktopInBounds /\ FileInBounds
  BY <1>1, LayoutsAssumption DEF DesktopInBounds, FileInBounds, NoButton
<1> QED
  BY <1>3, <1>4 DEF LayoutTypes

(* With what is kept they give the types.                                  *)
LEMMA TypesOfLayouts ==
  ASSUME LayoutInv, LayoutTypes
  PROVE  TypeOKLayouts
<1>1. running => \E i \in DOMAIN layouts : layouts[i].id = active
  BY DEF LayoutInv, RunningKept, ActiveKept, IsActive
<1>2. owed \subseteq Panes
  <2>1. CASE running
    BY <2>1, KeptFacts DEF LayoutInv, RunningKept
  <2>2. CASE ~running /\ saved = NoFile
    BY <2>2, Bounds DEF LayoutInv, StoppedKept, Panes
  <2>3. CASE ~running /\ saved # NoFile
    BY <2>3, KeptFacts DEF LayoutInv, StoppedKept, SavedKept
  <2> QED
    BY <2>1, <2>2, <2>3
<1>3. ASSUME NEW i \in DOMAIN layouts
      PROVE  /\ InBounds(layouts[i]) /\ layouts[i].main # <<>> /\ PanesOf(layouts[i]) \subseteq Panes
  <2>1. DOMAIN layouts[i].main # {} /\ DOMAIN <<>> = {}
    BY DEF LayoutTypes, LayoutsInBounds
  <2>2. layouts[i].main # <<>>
    BY <2>1
  <2> QED
    BY <2>2 DEF LayoutTypes, LayoutsInBounds
<1> QED
  BY <1>1, <1>2, <1>3 DEF TypeOKLayouts, InBounds, LayoutTypes, DesktopInBounds

(* The layouts, the windows and the budget are what they were made as, and *)
(* no number of a pane, a window or a layout leaves its bounds.            *)
THEOREM LayoutTypeCorrect ==
  ASSUME ApiInMain
  PROVE  LayoutSpec => []TypeOKLayouts
<1>1. LayoutInit => LayoutInv /\ LayoutTypes
  BY LayoutStarts, LayoutTypesStart
<1>2. LayoutInv /\ LayoutTypes /\ [LayoutNext]_layoutVars => (LayoutInv /\ LayoutTypes)'
  <2> SUFFICES ASSUME LayoutInv, LayoutTypes, [LayoutNext]_layoutVars
               PROVE  LayoutInv' /\ LayoutTypes'
    OBVIOUS
  <2>1. LayoutInv'
    BY LayoutStep
  <2> QED
    BY <2>1, LayoutTypesStep
<1>3. LayoutInv /\ LayoutTypes => TypeOKLayouts
  BY TypesOfLayouts
<1> QED
  BY <1>1, <1>2, <1>3, PTL DEF LayoutSpec

-----------------------------------------------------------------------------
(* What is on the screen is what it was made as, whichever part moves.     *)
THEOREM ScreenTypes ==
  ASSUME ApiInMain
  PROVE  Spec => []TypeOKScreen
<1> DEFINE Inv == HistoryInv /\ FootprintInv /\ LayoutInv /\ LayoutTypes
<1>1. Init => Inv
  BY HistoryInitInv, FootprintInitInv, LayoutStarts, LayoutTypesStart DEF Init
<1>2. Inv /\ [Next]_<<part, historyVars, footprintVars, layoutVars>> => Inv'
  <2> SUFFICES ASSUME Inv, [Next]_<<part, historyVars, footprintVars, layoutVars>> PROVE Inv'
    OBVIOUS
  <2>1. /\ [HistoryNext]_historyVars /\ [FootprintNext]_footprintVars
        /\ [LayoutNext]_layoutVars
    BY DEF Next
  <2>2. HistoryInv'
    BY <2>1, HistoryStep
  <2>3. FootprintInv'
    BY <2>1, FootprintStep
  <2>4. LayoutInv'
    BY <2>1, LayoutStep
  <2>5. LayoutTypes'
    BY <2>1, <2>4, LayoutTypesStep
  <2> QED
    BY <2>2, <2>3, <2>4, <2>5
<1>3. Inv => TypeOKScreen
  BY InvHistoryTyped, InvIsTyped, TypesOfLayouts DEF TypeOKScreen
<1> QED
  BY <1>1, <1>2, <1>3, PTL DEF Spec
=============================================================================
