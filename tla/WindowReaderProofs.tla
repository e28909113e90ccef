------------------------- MODULE WindowReaderProofs -------------------------
(* What the steps of WindowReader keep, for every layout of a tree, every   *)
(* schema and every window: lemmas for the theorems of EventStreamProofs.   *)
EXTENDS WindowReader, WellFoundedInduction, TLAPS

\* Induction over data takes this form: the least counterexample.
LEMMA LeastElement ==
  ASSUME NEW T, T \subseteq Nat, T # {}
  PROVE  \E x \in T : \A y \in T : x <= y
<1> DEFINE R == {ss \in Nat \X Nat : ss[1] < ss[2]}
<1>1. IsWellFoundedOn(R, Nat)
  BY NatLessThanWellFounded DEF OpToRel
<1>2. PICK x \in T : \A y \in T : ~ (<<y, x>> \in R)
  BY <1>1, WFMin
<1>3. \A y \in T : x <= y
  <2> SUFFICES ASSUME NEW y \in T, y < x PROVE FALSE
    OBVIOUS
  <2>1. <<y, x>> \in Nat \X Nat
    OBVIOUS
  <2>2. <<y, x>>[1] = y /\ <<y, x>>[2] = x
    OBVIOUS
  <2>3. <<y, x>> \in R
    BY <2>1, <2>2
  <2> QED BY <1>2, <2>3
<1> QED BY <1>3
-----------------------------------------------------------------------------
(* The sums of the counts.                                                 *)

SumEquation(sum, c, n) ==
  sum = [k \in 0 .. n |-> IF k = 0 THEN 0 ELSE sum[k - 1] + c[k]]

LEMMA SumsExist ==
  ASSUME NEW c, NEW n \in Nat
  PROVE  \E sum : SumEquation(sum, c, n)
<1> DEFINE Bad == {m \in Nat : ~ \E sum : SumEquation(sum, c, m)}
<1> SUFFICES ASSUME Bad # {} PROVE FALSE
  OBVIOUS
<1>1. PICK m \in Bad : \A k \in Bad : m <= k
  BY LeastElement
<1>2. CASE m = 0
  <2>1. SumEquation([k \in 0 .. 0 |-> 0], c, 0)
    BY DEF SumEquation
  <2> QED BY <1>2, <2>1
<1>3. CASE m # 0
  <2>1. m - 1 \in Nat /\ m - 1 \notin Bad
    BY <1>1, <1>3
  <2>2. PICK g : SumEquation(g, c, m - 1)
    BY <2>1
  <2> DEFINE h == [k \in 0 .. m |-> IF k = m THEN g[m - 1] + c[m] ELSE g[k]]
  <2>3. \A k \in 0 .. m : h[k] = IF k = 0 THEN 0 ELSE h[k - 1] + c[k]
    <3> SUFFICES ASSUME NEW k \in 0 .. m
                 PROVE  h[k] = IF k = 0 THEN 0 ELSE h[k - 1] + c[k]
      OBVIOUS
    <3>1. CASE k = m
      BY <1>3, <3>1
    <3>2. CASE k # m
      <4>1. k \in 0 .. m - 1 /\ (k # 0 => k - 1 \in 0 .. m - 1 /\ k - 1 # m)
        BY <3>2
      <4>2. g[k] = IF k = 0 THEN 0 ELSE g[k - 1] + c[k]
        BY <2>2, <4>1 DEF SumEquation
      <4> QED BY <3>2, <4>1, <4>2
    <3> QED BY <3>1, <3>2
  <2>4. SumEquation(h, c, m)
    BY <2>3 DEF SumEquation
  <2> QED BY <2>4
<1> QED BY <1>2, <1>3

LEMMA SumOf ==
  ASSUME NEW c, Len(c) \in Nat
  PROVE  \E sum : SumEquation(sum, c, Len(c)) /\ SumCounts(c) = sum[Len(c)]
<1> DEFINE sum == CHOOSE g : g = [k \in 0 .. Len(c) |-> IF k = 0 THEN 0 ELSE g[k - 1] + c[k]]
<1>1. \E g : g = [k \in 0 .. Len(c) |-> IF k = 0 THEN 0 ELSE g[k - 1] + c[k]]
  BY SumsExist DEF SumEquation
<1>2. sum = [k \in 0 .. Len(c) |-> IF k = 0 THEN 0 ELSE sum[k - 1] + c[k]]
  BY <1>1
<1>3. SumCounts(c) = sum[Len(c)]
  BY DEF SumCounts
<1> QED BY <1>2, <1>3 DEF SumEquation

LEMMA SameSums ==
  ASSUME NEW c, NEW d, NEW n \in Nat, NEW m \in Nat, n <= m,
         \A k \in 1 .. n : c[k] = d[k],
         NEW f, NEW g, SumEquation(f, c, n), SumEquation(g, d, m)
  PROVE  \A k \in 0 .. n : f[k] = g[k]
<1> DEFINE Bad == {k \in 0 .. n : f[k] # g[k]}
<1> SUFFICES ASSUME Bad # {} PROVE FALSE
  OBVIOUS
<1>0. Bad \subseteq Nat
  OBVIOUS
<1>1. PICK k \in Bad : \A j \in Bad : k <= j
  <2> HIDE DEF Bad
  <2> QED BY <1>0, LeastElement
<1>2. /\ f[k] = IF k = 0 THEN 0 ELSE f[k - 1] + c[k]
      /\ g[k] = IF k = 0 THEN 0 ELSE g[k - 1] + d[k]
  BY DEF SumEquation
<1>3. k # 0
  BY <1>2
<1>4. k - 1 \in 0 .. n /\ f[k - 1] = g[k - 1]
  BY <1>1, <1>3
<1> QED BY <1>2, <1>3, <1>4

LEMMA SumEmpty == SumCounts(<< >>) = 0
BY SumOf DEF SumEquation

\* One count more.
LEMMA SumAppend ==
  ASSUME NEW c, NEW d, NEW n \in Nat, Len(c) = n, Len(d) = n + 1,
         \A k \in 1 .. n : c[k] = d[k]
  PROVE  SumCounts(d) = SumCounts(c) + d[n + 1]
<1>1. PICK f : SumEquation(f, c, n) /\ SumCounts(c) = f[n]
  BY SumOf
<1>2. PICK g : SumEquation(g, d, n + 1) /\ SumCounts(d) = g[n + 1]
  BY SumOf
<1>3. f[n] = g[n]
  BY <1>1, <1>2, SameSums
<1>4. g[n + 1] = g[n] + d[n + 1]
  BY <1>2 DEF SumEquation
<1> QED BY <1>1, <1>2, <1>3, <1>4

LEMMA SumNat ==
  ASSUME NEW c \in Seq(Nat)
  PROVE  SumCounts(c) \in Nat
<1>1. PICK f : SumEquation(f, c, Len(c)) /\ SumCounts(c) = f[Len(c)]
  BY SumOf
<1> DEFINE Bad == {k \in 0 .. Len(c) : f[k] \notin Nat}
<1>2. Bad = {}
  <2> SUFFICES ASSUME Bad # {} PROVE FALSE
    OBVIOUS
  <2>0. Bad \subseteq Nat
    OBVIOUS
  <2>1. PICK k \in Bad : \A j \in Bad : k <= j
    <3> HIDE DEF Bad
    <3> QED BY <2>0, LeastElement
  <2>2. f[k] = IF k = 0 THEN 0 ELSE f[k - 1] + c[k]
    BY <1>1 DEF SumEquation
  <2>3. k # 0
    BY <2>2
  <2>4. k - 1 \in 0 .. Len(c) /\ f[k - 1] \in Nat /\ c[k] \in Nat
    BY <2>1, <2>3
  <2> QED BY <2>2, <2>3, <2>4
<1> QED BY <1>1, <1>2

\* The counts of entries [from, to) of the tree.
Within(from, to) == from \in Nat /\ to \in Nat /\ from <= to /\ to <= layout.entries

LEMMA CountsAre ==
  ASSUME layout \in Layouts, NEW from, NEW to, Within(from, to)
  PROVE  /\ Counts(from, to) \in Seq(Nat)
         /\ Len(Counts(from, to)) = to - from
         /\ \A k \in 1 .. to - from : Counts(from, to)[k] = layout.counts[from + k - 1]
<1>1. to - from \in Nat
  BY DEF Within
<1>2. \A k \in 1 .. to - from : layout.counts[from + k - 1] \in Nat
  BY ReaderAssumption DEF IsLayout, Within
<1> QED BY <1>1, <1>2 DEF Counts

LEMMA CountsSplit ==
  ASSUME layout \in Layouts, NEW from, NEW mid, NEW to, Within(from, mid), Within(mid, to)
  PROVE  /\ SubSeq(Counts(from, to), 1, mid - from) = Counts(from, mid)
         /\ SubSeq(Counts(from, to), mid - from + 1, Len(Counts(from, to))) = Counts(mid, to)
<1>0. Within(from, to)
  BY DEF Within
<1>1. Within(from, to) /\ Len(Counts(from, to)) = to - from
  BY <1>0, CountsAre
<1>2. SubSeq(Counts(from, to), 1, mid - from) = Counts(from, mid)
  BY <1>1, CountsAre DEF Within, Counts
<1>3. SubSeq(Counts(from, to), mid - from + 1, to - from) = Counts(mid, to)
  BY <1>1, CountsAre DEF Within, Counts
<1> QED BY <1>1, <1>2, <1>3

LEMMA SumSplit ==
  ASSUME layout \in Layouts, NEW from, NEW mid, NEW to, Within(from, mid), Within(mid, to)
  PROVE  SumCounts(Counts(from, mid)) + SumCounts(Counts(mid, to)) = SumCounts(Counts(from, to))
<1> DEFINE S(a, b) == SumCounts(Counts(a, b))
<1> DEFINE Bad == {t \in mid .. to : S(from, mid) + S(mid, t) # S(from, t)}
<1>0. layout.entries \in Nat
  BY ReaderAssumption DEF IsLayout
<1>1. \A a, b : Within(a, b) => S(a, b) \in Nat
  BY CountsAre, SumNat
<1>2. ASSUME NEW a, NEW b, Within(a, b), Within(a, b + 1)
      PROVE  S(a, b + 1) = S(a, b) + layout.counts[b]
  <2> DEFINE c == Counts(a, b)
             d == Counts(a, b + 1)
  <2>0. /\ Len(c) = b - a /\ Len(d) = (b + 1) - a
        /\ \A k \in 1 .. b - a : c[k] = layout.counts[a + k - 1]
        /\ \A k \in 1 .. (b + 1) - a : d[k] = layout.counts[a + k - 1]
    <3>1. /\ Len(c) = b - a
          /\ \A k \in 1 .. b - a : c[k] = layout.counts[a + k - 1]
      BY <1>2, CountsAre
    <3>2. /\ Len(d) = (b + 1) - a
          /\ \A k \in 1 .. (b + 1) - a : d[k] = layout.counts[a + k - 1]
      BY <1>2, CountsAre
    <3> QED BY <3>1, <3>2
  <2> HIDE DEF c, d
  <2>1. /\ b - a \in Nat /\ Len(c) = b - a /\ Len(d) = (b - a) + 1
        /\ \A k \in 1 .. b - a : c[k] = d[k]
        /\ d[(b - a) + 1] = layout.counts[b]
    BY <1>2, <2>0 DEF Within
  <2>2. SumCounts(d) = SumCounts(c) + d[(b - a) + 1]
    BY <2>1, SumAppend
  <2> QED BY <2>1, <2>2 DEF c, d
<1>3. S(mid, mid) = 0
  <2>1. Counts(mid, mid) = << >>
    BY DEF Counts, Within
  <2> QED BY <2>1, SumEmpty
<1>4. Bad = {}
  <2> SUFFICES ASSUME Bad # {} PROVE FALSE
    OBVIOUS
  <2>0. Bad \subseteq Nat
    BY DEF Within
  <2>1. PICK t \in Bad : \A u \in Bad : t <= u
    <3> HIDE DEF Bad
    <3> QED BY <2>0, LeastElement
  <2>2. t # mid /\ t \in mid .. to
    BY <1>1, <1>3
  <2>3. /\ t - 1 \in mid .. to /\ Within(mid, t - 1) /\ Within(mid, t)
        /\ Within(from, t - 1) /\ Within(from, t) /\ (t - 1) + 1 = t
    <3> HIDE DEF Bad, S
    <3> QED BY <1>0, <2>2 DEF Within
  <2>4. S(from, mid) + S(mid, t - 1) = S(from, t - 1)
    BY <2>1, <2>3
  <2>5. /\ S(mid, t) = S(mid, t - 1) + layout.counts[t - 1]
        /\ S(from, t) = S(from, t - 1) + layout.counts[t - 1]
    BY <1>2, <2>3
  <2>6. layout.counts[t - 1] \in Nat
    <3>1. layout.counts \in [0 .. layout.entries - 1 -> Nat] /\ layout.entries \in Nat
      BY ReaderAssumption DEF IsLayout
    <3> QED BY <2>3, <3>1 DEF Within
  <2> HIDE DEF S
  <2> QED BY <1>1, <2>3, <2>4, <2>5, <2>6
<1> QED BY <1>4 DEF Within

-----------------------------------------------------------------------------
(* The rows of one basket.                                                 *)

\* The rows of n entries of a column, from the entry `from` on.
RowsFrom(spec, from, n) == [k \in 1 .. n |-> RowOf(spec, from + k - 1)]

Window == lo \in Nat /\ hi \in Nat /\ lo < hi /\ hi <= layout.entries

LEMMA BasketBounds ==
  ASSUME layout \in Layouts, NEW b \in layout.has, NEW i \in DOMAIN layout.starts[b]
  PROVE  /\ i \in Nat
         /\ BasketStart(b, i) \in Nat /\ BasketEnd(b, i) \in Nat
         /\ BasketStart(b, i) <= BasketEnd(b, i) /\ BasketEnd(b, i) <= layout.entries
<1> USE DEF BasketStart, BasketEnd
<1>1. /\ layout.entries \in Nat
      /\ layout.starts[b] \in Seq(0 .. layout.entries)
      /\ \A j, k \in DOMAIN layout.starts[b] :
           j < k => layout.starts[b][j] <= layout.starts[b][k]
  BY ReaderAssumption DEF IsLayout
<1>2. i \in 1 .. Len(layout.starts[b]) /\ Len(layout.starts[b]) \in Nat
  BY <1>1
<1>3. layout.starts[b][i] \in 0 .. layout.entries
  BY <1>1, <1>2
<1>4. CASE i < Len(layout.starts[b])
  <2>1. i + 1 \in DOMAIN layout.starts[b] /\ i < i + 1
    BY <1>1, <1>2, <1>4
  <2>2. layout.starts[b][i + 1] \in 0 .. layout.entries
    BY <1>1, <2>1
  <2> QED BY <1>1, <1>2, <1>3, <1>4, <2>1, <2>2
<1>5. CASE ~ i < Len(layout.starts[b])
  BY <1>1, <1>2, <1>3, <1>5
<1> QED BY <1>4, <1>5

\* The part of a basket that lies in the window.
PartFrom(b, i) == Larger(lo, BasketStart(b, i))
PartTo(b, i) == Smaller(hi, BasketEnd(b, i))

LEMMA PartBounds ==
  ASSUME layout \in Layouts, Window, NEW b \in layout.has, NEW i \in Overlapping(b, lo, hi)
  PROVE  /\ i \in DOMAIN layout.starts[b]
         /\ Within(BasketStart(b, i), PartFrom(b, i))
         /\ Within(PartFrom(b, i), PartTo(b, i))
         /\ PartFrom(b, i) >= lo /\ PartTo(b, i) <= hi
<1>1. /\ i \in DOMAIN layout.starts[b] /\ BasketStart(b, i) < hi /\ BasketEnd(b, i) > lo
  BY DEF Overlapping
<1>2. layout.entries \in Nat
  BY ReaderAssumption DEF IsLayout
<1> QED BY <1>1, <1>2, BasketBounds DEF PartFrom, PartTo, Larger, Smaller, Within, Window

LEMMA ScalarRowsAre ==
  ASSUME layout \in Layouts, Window, NEW spec, spec.counter = NoCounter,
         spec.name \in layout.has, NEW i \in Overlapping(spec.name, lo, hi)
  PROVE  ScalarRows(spec.name, i)
           = RowsFrom(spec, PartFrom(spec.name, i), PartTo(spec.name, i) - PartFrom(spec.name, i))
<1> DEFINE start == BasketStart(spec.name, i)
           from == PartFrom(spec.name, i)
           to == PartTo(spec.name, i)
<1>1. start \in Nat /\ from \in Nat /\ to \in Nat
  BY PartBounds DEF Within
<1>2. ScalarRows(spec.name, i)
        = [k \in 1 .. to - from |-> [first |-> start + (from - start) + k - 1, size |-> 1]]
  BY DEF ScalarRows, PartFrom, PartTo
<1>3. RowsFrom(spec, from, to - from) = [k \in 1 .. to - from |-> [first |-> from + k - 1, size |-> 1]]
  BY DEF RowsFrom, RowOf
<1> HIDE DEF start, from, to
<1>4. \A k \in 1 .. to - from : start + (from - start) + k - 1 = from + k - 1
  BY <1>1
<1> QED BY <1>2, <1>3, <1>4 DEF from, to

LEMMA CountsNone ==
  ASSUME NEW e \in Nat
  PROVE  Counts(e, e) = << >>
BY DEF Counts

LEMMA CountsJoin ==
  ASSUME layout \in Layouts, NEW from, NEW mid, NEW to, Within(from, mid), Within(mid, to)
  PROVE  Counts(from, mid) \o Counts(mid, to) = Counts(from, to)
<1>1. PICK n \in Nat, m \in Nat : n = mid - from /\ m = to - mid
  BY DEF Within
<1>2. from \in Nat /\ mid = from + n /\ to - from = n + m
  BY <1>1 DEF Within
<1> DEFINE r(e) == layout.counts[e]
           a == [k \in 1 .. n |-> r(from + k - 1)]
           b == [k \in 1 .. m |-> r((from + n) + k - 1)]
           ab == [k \in 1 .. n + m |-> r(from + k - 1)]
<1>3. Counts(from, mid) = a /\ Counts(mid, to) = b /\ Counts(from, to) = ab
  BY <1>1, <1>2 DEF Counts
<1> HIDE DEF r
<1>4. /\ a \in Seq({r(e) : e \in Nat}) /\ Len(a) = n
      /\ b \in Seq({r(e) : e \in Nat}) /\ Len(b) = m
  BY <1>2
<1>5. a \o b = [k \in 1 .. n + m |-> IF k <= n THEN a[k] ELSE b[k - n]]
  BY <1>4
<1>6. ASSUME NEW k \in 1 .. n + m
      PROVE  (IF k <= n THEN a[k] ELSE b[k - n]) = r(from + k - 1)
  <2>1. CASE k <= n
    BY <2>1
  <2>2. CASE ~ k <= n
    <3>1. k - n \in 1 .. m /\ (from + n) + (k - n) - 1 = from + k - 1
      BY <1>2, <2>2
    <3> QED BY <2>2, <3>1
  <2> QED BY <2>1, <2>2
<1>7. a \o b = ab
  BY <1>5, <1>6
<1> QED BY <1>3, <1>7

ReadEquation(f, p, n) ==
  f = [i \in 0 .. n |-> IF i = 0 THEN << >> ELSE f[i - 1] \o p[i]]

LEMMA ReadsExist ==
  ASSUME NEW p, NEW n \in Nat
  PROVE  \E f : ReadEquation(f, p, n)
<1> DEFINE Bad == {m \in Nat : ~ \E f : ReadEquation(f, p, m)}
<1> SUFFICES ASSUME Bad # {} PROVE FALSE
  OBVIOUS
<1>1. PICK m \in Bad : \A k \in Bad : m <= k
  BY LeastElement
<1>2. CASE m = 0
  <2>1. ReadEquation([i \in 0 .. 0 |-> << >>], p, 0)
    BY DEF ReadEquation
  <2> QED BY <1>2, <2>1
<1>3. CASE m # 0
  <2>1. m - 1 \in Nat /\ m - 1 \notin Bad
    BY <1>1, <1>3
  <2>2. PICK g : ReadEquation(g, p, m - 1)
    BY <2>1
  <2> DEFINE h == [i \in 0 .. m |-> IF i = m THEN g[m - 1] \o p[m] ELSE g[i]]
  <2>3. \A i \in 0 .. m : h[i] = IF i = 0 THEN << >> ELSE h[i - 1] \o p[i]
    <3> SUFFICES ASSUME NEW i \in 0 .. m
                 PROVE  h[i] = IF i = 0 THEN << >> ELSE h[i - 1] \o p[i]
      OBVIOUS
    <3>1. CASE i = m
      <4>1. m \in 0 .. m /\ m - 1 \in 0 .. m /\ m - 1 # m /\ m # 0
        BY <1>3
      <4>2. h[m] = g[m - 1] \o p[m] /\ h[m - 1] = g[m - 1]
        BY <4>1
      <4> HIDE DEF h
      <4> QED BY <3>1, <4>1, <4>2
    <3>2. CASE i # m
      <4>1. i \in 0 .. m - 1 /\ (i # 0 => i - 1 \in 0 .. m - 1 /\ i - 1 # m)
        BY <3>2
      <4>2. g[i] = IF i = 0 THEN << >> ELSE g[i - 1] \o p[i]
        BY <2>2, <4>1 DEF ReadEquation
      <4> QED BY <3>2, <4>1, <4>2
    <3> QED BY <3>1, <3>2
  <2>4. ReadEquation(h, p, m)
    BY <2>3 DEF ReadEquation
  <2> QED BY <2>4
<1> QED BY <1>2, <1>3

\* The baskets of a counter, each cut to the entries asked for, give the counts of
\* just these entries.
LEMMA CountsReadAre ==
  ASSUME layout \in Layouts, NEW c \in layout.has, c \in Counters,
         NEW from, NEW to, Within(from, to)
  PROVE  CountsRead(c, from, to) = Counts(from, to)
<1> DEFINE n == Len(layout.starts[c])
           Cut(e) == Larger(from, Smaller(to, e))
           Done(i) == IF i = 0 THEN from ELSE Cut(BasketEnd(c, i))
<1>1. /\ layout.entries \in Nat /\ n \in Nat
      /\ DOMAIN layout.starts[c] = 1 .. n
      /\ n = 0 => layout.entries = 0
      /\ n # 0 => BasketStart(c, 1) = 0 /\ BasketEnd(c, n) = layout.entries
  <2>1. /\ layout.entries \in Nat /\ layout.starts[c] \in Seq(0 .. layout.entries)
        /\ layout.entries # 0 => layout.starts[c] # << >> /\ layout.starts[c][1] = 0
    BY ReaderAssumption DEF IsLayout
  <2> QED BY <2>1 DEF BasketStart, BasketEnd
<1> DEFINE p == [i \in 0 .. n |-> CountsPart(c, i, from, to)]
<1>2. PICK f : ReadEquation(f, p, n) /\ CountsRead(c, from, to) = f[n]
  <2> DEFINE R(g) == [i \in 0 .. n |->
                        IF i = 0 THEN << >> ELSE g[i - 1] \o CountsPart(c, i, from, to)]
             g == CHOOSE g : g = R(g)
  <2>1. PICK h : ReadEquation(h, p, n)
    <3> HIDE DEF p, n
    <3> QED BY <1>1, ReadsExist
  <2>2. \A x : ReadEquation(x, p, n) <=> x = R(x)
    BY DEF ReadEquation
  <2>3. CountsRead(c, from, to) = g[n]
    BY DEF CountsRead
  <2> HIDE DEF R, p
  <2>4. g = R(g)
    BY <2>1, <2>2
  <2> QED BY <2>2, <2>3, <2>4
<1> HIDE DEF n
<1>3. from \in Nat /\ to \in Nat /\ from <= to /\ to <= layout.entries
  BY DEF Within
<1>4. ASSUME NEW i \in 1 .. n
      PROVE  /\ Done(i - 1) = Cut(BasketStart(c, i))
             /\ Within(from, Done(i - 1)) /\ Within(Done(i - 1), Done(i))
             /\ CountsPart(c, i, from, to) = Counts(Done(i - 1), Done(i))
  <2>1. /\ BasketStart(c, i) \in Nat /\ BasketEnd(c, i) \in Nat
        /\ BasketStart(c, i) <= BasketEnd(c, i)
    BY <1>1, BasketBounds
  <2>2. Done(i - 1) = Cut(BasketStart(c, i))
    <3>1. CASE i = 1
      BY <1>1, <1>3, <3>1 DEF Larger, Smaller
    <3>2. CASE i # 1
      <4>1. i - 1 # 0 /\ i - 1 < n /\ (i - 1) + 1 = i
        BY <1>1, <3>2
      <4>2. BasketEnd(c, i - 1) = BasketStart(c, i)
        BY <4>1 DEF BasketEnd, BasketStart, n
      <4> QED BY <4>1, <4>2
    <3> QED BY <3>1, <3>2
  <2>3. Done(i) = Cut(BasketEnd(c, i))
    OBVIOUS
  <2> DEFINE s == BasketStart(c, i)
             e == BasketEnd(c, i)
  <2> HIDE DEF s, e, Done
  <2>4. /\ Cut(s) \in Nat /\ Cut(e) \in Nat /\ from <= Cut(s) /\ Cut(s) <= Cut(e) /\ Cut(e) <= to
    BY <1>3, <2>1 DEF Larger, Smaller, s, e
  <2>5. Within(from, Done(i - 1)) /\ Within(Done(i - 1), Done(i))
    BY <1>1, <1>3, <2>2, <2>3, <2>4 DEF Within, s, e
  <2>6. CASE i \in Overlapping(c, from, to)
    <3>1. s < to /\ e > from
      BY <2>6 DEF Overlapping, s, e
    <3>2. Larger(from, s) = Cut(s) /\ Smaller(to, e) = Cut(e)
      BY <1>3, <2>1, <3>1 DEF Larger, Smaller, s, e
    <3> QED BY <2>2, <2>3, <2>5, <2>6, <3>2 DEF CountsPart, s, e
  <2>7. CASE i \notin Overlapping(c, from, to)
    <3>1. from = to \/ ~ s < to \/ ~ e > from
      BY <1>1, <2>7 DEF Overlapping, s, e
    <3>2. Cut(s) = Cut(e)
      BY <1>3, <2>1, <3>1 DEF Larger, Smaller, s, e
    <3>3. CountsPart(c, i, from, to) = << >>
      BY <2>7 DEF CountsPart
    <3> QED BY <2>2, <2>3, <2>4, <2>5, <3>2, <3>3, CountsNone DEF s, e
  <2> QED BY <2>2, <2>5, <2>6, <2>7
<1> DEFINE Bad == {i \in 0 .. n : f[i] # Counts(from, Done(i))}
<1>5. Bad = {}
  <2> SUFFICES ASSUME Bad # {} PROVE FALSE
    OBVIOUS
  <2>0. Bad \subseteq Nat
    BY <1>1
  <2>1. PICK i \in Bad : \A j \in Bad : i <= j
    <3> HIDE DEF Bad
    <3> QED BY <2>0, LeastElement
  <2>2. f[i] = IF i = 0 THEN << >> ELSE f[i - 1] \o p[i]
    <3>1. i \in 0 .. n
      OBVIOUS
    <3> QED BY <1>2, <3>1 DEF ReadEquation
  <2>3. i # 0
    BY <1>3, <2>1, <2>2, CountsNone
  <2>4. i \in 1 .. n /\ i - 1 \in 0 .. n /\ ~ i <= i - 1
    BY <1>1, <2>1, <2>3
  <2>5. f[i - 1] = Counts(from, Done(i - 1))
    BY <2>1, <2>4
  <2>6. /\ Within(from, Done(i - 1)) /\ Within(Done(i - 1), Done(i))
        /\ p[i] = Counts(Done(i - 1), Done(i))
    BY <1>4, <2>4
  <2>7. Counts(from, Done(i - 1)) \o Counts(Done(i - 1), Done(i)) = Counts(from, Done(i))
    <3> HIDE DEF Done, Bad
    <3> QED BY <2>6, CountsJoin
  <2>8. f[i] = Counts(from, Done(i))
    <3> HIDE DEF Done, Bad, p
    <3> QED BY <2>2, <2>3, <2>5, <2>6, <2>7
  <2> QED BY <2>1, <2>8
<1>6. Done(n) = to
  <2>1. CASE n = 0
    BY <1>1, <1>3, <2>1
  <2>2. CASE n # 0
    BY <1>1, <1>3, <2>2 DEF Larger, Smaller
  <2> QED BY <2>1, <2>2
<1>7. n \in 0 .. n
  BY <1>1
<1> QED BY <1>2, <1>5, <1>6, <1>7

LEMMA JaggedRowsAre ==
  ASSUME layout \in Layouts, Window, NEW spec, spec.counter # NoCounter,
         spec.name \in layout.has, spec.counter \in layout.has, spec.counter \in Counters,
         NEW i \in Overlapping(spec.name, lo, hi)
  PROVE  JaggedRows(spec, i)
           = RowsFrom(spec, PartFrom(spec.name, i), PartTo(spec.name, i) - PartFrom(spec.name, i))
<1> DEFINE start == BasketStart(spec.name, i)
           from == PartFrom(spec.name, i)
           to == PartTo(spec.name, i)
           counts == Counts(start, to)
           wanted == SubSeq(counts, (from - start) + 1, Len(counts))
           prefix == SumCounts(SubSeq(counts, 1, from - start))
<1>1. /\ start \in Nat /\ from \in Nat /\ to \in Nat
      /\ start <= from /\ from <= to /\ to <= layout.entries
      /\ Within(start, from) /\ Within(from, to) /\ Within(0, start)
      /\ layout.entries \in Nat
  <2>1. layout.entries \in Nat
    BY ReaderAssumption DEF IsLayout
  <2> QED BY <2>1, PartBounds DEF Within
<1>2. JaggedRows(spec, i)
        = [k \in 1 .. to - from |->
             [first |-> Offset(start) + prefix + SumCounts(SubSeq(wanted, 1, k - 1)),
              size |-> wanted[k]]]
  <2>1. Within(start, to)
    BY <1>1 DEF Within
  <2>2. CountsRead(spec.counter, start, to) = counts
    BY <2>1, CountsReadAre
  <2> QED BY <2>2 DEF JaggedRows, PartFrom, PartTo
<1>3. RowsFrom(spec, from, to - from)
        = [k \in 1 .. to - from |->
             [first |-> Offset(from + k - 1), size |-> layout.counts[from + k - 1]]]
  BY DEF RowsFrom, RowOf
<1> HIDE DEF start, from, to
<1>4. /\ SubSeq(counts, 1, from - start) = Counts(start, from)
      /\ wanted = Counts(from, to)
  BY <1>1, CountsSplit
<1> HIDE DEF wanted
<1>5. ASSUME NEW k \in 1 .. to - from
      PROVE  /\ Offset(start) + prefix + SumCounts(SubSeq(wanted, 1, k - 1)) = Offset(from + k - 1)
             /\ wanted[k] = layout.counts[from + k - 1]
  <2> DEFINE here == from + k - 1
  <2>1. /\ Within(from, here) /\ Within(here, to) /\ Within(0, from) /\ Within(0, start)
        /\ here - from = k - 1
    BY <1>1 DEF Within
  <2> HIDE DEF here
  <2>2. SubSeq(wanted, 1, k - 1) = Counts(from, here)
    <3>1. SubSeq(Counts(from, to), 1, here - from) = Counts(from, here)
      BY <2>1, CountsSplit
    <3> QED BY <1>4, <2>1, <3>1
  <2>3. SumCounts(Counts(0, start)) + SumCounts(Counts(start, from)) = SumCounts(Counts(0, from))
    BY <1>1, SumSplit
  <2>4. SumCounts(Counts(0, from)) + SumCounts(Counts(from, here)) = SumCounts(Counts(0, here))
    BY <2>1, SumSplit
  <2>5. /\ SumCounts(Counts(0, start)) \in Nat /\ SumCounts(Counts(start, from)) \in Nat
        /\ SumCounts(Counts(from, here)) \in Nat
    BY <1>1, <2>1, CountsAre, SumNat
  <2>6. Offset(start) + prefix + SumCounts(SubSeq(wanted, 1, k - 1)) = Offset(here)
    BY <1>4, <2>2, <2>3, <2>4, <2>5 DEF Offset
  <2>7. wanted[k] = layout.counts[from + k - 1]
    BY <1>1, <1>4, CountsAre
  <2> QED BY <2>6, <2>7 DEF here
<1> QED BY <1>2, <1>3, <1>5 DEF from, to

LEMMA RowsConcat ==
  ASSUME NEW spec, NEW from \in Nat, NEW n \in Nat, NEW m \in Nat
  PROVE  RowsFrom(spec, from, n) \o RowsFrom(spec, from + n, m) = RowsFrom(spec, from, n + m)
<1> DEFINE r(e) == RowOf(spec, e)
           a == [k \in 1 .. n |-> r(from + k - 1)]
           b == [k \in 1 .. m |-> r((from + n) + k - 1)]
           ab == [k \in 1 .. n + m |-> r(from + k - 1)]
<1> HIDE DEF r
<1>1. /\ a \in Seq({r(e) : e \in Nat}) /\ Len(a) = n
      /\ b \in Seq({r(e) : e \in Nat}) /\ Len(b) = m
  OBVIOUS
<1>2. a \o b = [k \in 1 .. n + m |-> IF k <= n THEN a[k] ELSE b[k - n]]
  BY <1>1
<1>3. ASSUME NEW k \in 1 .. n + m
      PROVE  (IF k <= n THEN a[k] ELSE b[k - n]) = r(from + k - 1)
  <2>1. CASE k <= n
    BY <2>1
  <2>2. CASE ~ k <= n
    <3>1. k - n \in 1 .. m /\ (from + n) + (k - n) - 1 = from + k - 1
      BY <2>2
    <3> QED BY <2>2, <3>1
  <2> QED BY <2>1, <2>2
<1>4. a \o b = ab
  BY <1>2, <1>3
<1> QED BY <1>4 DEF RowsFrom, r

\* Types of the rows of a column inside the tree.
RowType == [first : Nat, size : Nat]

LEMMA RowsType ==
  ASSUME layout \in Layouts, NEW spec, NEW from \in Nat, NEW n \in Nat,
         from + n <= layout.entries
  PROVE  RowsFrom(spec, from, n) \in Seq(RowType) /\ Len(RowsFrom(spec, from, n)) = n
<1>1. ASSUME NEW k \in 1 .. n PROVE RowOf(spec, from + k - 1) \in RowType
  <2> DEFINE e == from + k - 1
  <2>1. layout.entries \in Nat /\ layout.counts \in [0 .. layout.entries - 1 -> Nat]
    BY ReaderAssumption DEF IsLayout
  <2>2. e \in 0 .. layout.entries - 1
    BY <2>1
  <2>3. layout.counts[e] \in Nat
    BY <2>1, <2>2
  <2>4. Offset(e) \in Nat
    BY <2>1, <2>2, CountsAre, SumNat DEF Offset, Within
  <2> HIDE DEF e
  <2>5. RowOf(spec, e) \in RowType
    BY <2>2, <2>3, <2>4 DEF RowOf, RowType
  <2> QED BY <2>5 DEF e
<1> QED BY <1>1 DEF RowsFrom
-----------------------------------------------------------------------------
(* The baskets of a window.                                                *)

\* Some basket of branch b holds entry e.
Covered(b, e) == layout.starts[b] # << >> /\ BasketStart(b, 1) <= e

LEMMA BasketIsLeast ==
  ASSUME todo \subseteq Nat, todo # {}
  PROVE  Basket \in todo /\ \A k \in todo : Basket <= k
<1>1. \E i \in todo : \A k \in todo : i <= k
  BY LeastElement
<1> QED BY <1>1 DEF Basket

LEMMA BasketOrder ==
  ASSUME layout \in Layouts, NEW b \in layout.has,
         NEW i \in DOMAIN layout.starts[b], NEW j \in DOMAIN layout.starts[b], i < j
  PROVE  /\ i + 1 \in DOMAIN layout.starts[b] /\ i + 1 <= j
         /\ BasketEnd(b, i) = BasketStart(b, i + 1)
         /\ BasketEnd(b, i) <= BasketStart(b, j)
<1>1. /\ layout.starts[b] \in Seq(0 .. layout.entries) /\ layout.entries \in Nat
      /\ \A m, k \in DOMAIN layout.starts[b] :
           m < k => layout.starts[b][m] <= layout.starts[b][k]
  BY ReaderAssumption DEF IsLayout
<1>2. /\ i + 1 \in DOMAIN layout.starts[b] /\ i + 1 <= j /\ i < Len(layout.starts[b])
  BY <1>1
<1>3. layout.starts[b][i + 1] <= layout.starts[b][j]
  <2>1. CASE i + 1 = j
    BY <1>1, <2>1
  <2>2. CASE i + 1 # j
    <3>1. i + 1 < j
      BY <1>1, <1>2, <2>2
    <3> QED BY <1>1, <1>2, <3>1
  <2> QED BY <2>1, <2>2
<1> QED BY <1>2, <1>3 DEF BasketStart, BasketEnd

\* Reading begins at the window's first entry if any basket holds it.
LEMMA FirstBasket ==
  ASSUME layout \in Layouts, Window, NEW b \in layout.has
  PROVE  /\ Overlapping(b, lo, hi) = {} => ~ Covered(b, lo)
         /\ \A i \in Overlapping(b, lo, hi) :
              (\A k \in Overlapping(b, lo, hi) : i <= k)
                => (PartFrom(b, i) = lo <=> Covered(b, lo))
<1> DEFINE n == Len(layout.starts[b])
           T == {i \in 1 .. n : BasketEnd(b, i) > lo}
<1>1. /\ layout.starts[b] \in Seq(0 .. layout.entries) /\ layout.entries \in Nat
      /\ DOMAIN layout.starts[b] = 1 .. n /\ n \in Nat
  BY ReaderAssumption DEF IsLayout
<1>2. ASSUME Covered(b, lo)
      PROVE  \E t \in Overlapping(b, lo, hi) : BasketStart(b, t) <= lo
  <2>1. n # 0 /\ 1 \in DOMAIN layout.starts[b] /\ n \in DOMAIN layout.starts[b]
    BY <1>1, <1>2 DEF Covered
  <2>2. n \in T
    BY <1>1, <2>1 DEF BasketEnd, Window
  <2>3. T \subseteq Nat
    OBVIOUS
  <2> HIDE DEF T
  <2>4. PICK t \in T : \A u \in T : t <= u
    BY <2>2, <2>3, LeastElement
  <2> USE DEF T
  <2>5. BasketStart(b, t) <= lo
    <3>1. CASE t = 1
      BY <1>2, <3>1 DEF Covered
    <3>2. CASE t # 1
      <4>1. t - 1 \in 1 .. n /\ t - 1 < t /\ t \in 1 .. n
        BY <1>1, <3>2
      <4>2. ~ BasketEnd(b, t - 1) > lo
        BY <2>4, <4>1
      <4>3. BasketEnd(b, t - 1) = BasketStart(b, t)
        BY <1>1, <4>1 DEF BasketEnd, BasketStart
      <4>4. BasketStart(b, t) \in Nat
        BY <1>1, <4>1, BasketBounds
      <4> QED BY <4>2, <4>3, <4>4 DEF Window
    <3> QED BY <3>1, <3>2
  <2>6. t \in Overlapping(b, lo, hi)
    <3>1. BasketStart(b, t) \in Nat
      BY <1>1, BasketBounds
    <3> QED BY <1>1, <2>5, <3>1 DEF Overlapping, Window
  <2> QED BY <2>5, <2>6
<1>3. ASSUME NEW i \in Overlapping(b, lo, hi), \A k \in Overlapping(b, lo, hi) : i <= k
      PROVE  PartFrom(b, i) = lo <=> Covered(b, lo)
  <2>1. /\ i \in 1 .. n /\ 1 \in 1 .. n /\ layout.starts[b] # << >>
        /\ BasketStart(b, i) \in Nat /\ BasketStart(b, 1) \in Nat
    BY <1>1, <1>3, BasketBounds DEF Overlapping
  <2>2. ASSUME PartFrom(b, i) = lo PROVE Covered(b, lo)
    <3>1. BasketStart(b, i) <= lo
      BY <2>1, <2>2 DEF PartFrom, Larger, Window
    <3>2. BasketStart(b, 1) <= BasketStart(b, i)
      <4>1. CASE i = 1
        BY <2>1, <4>1
      <4>2. CASE i # 1
        BY <2>1, <4>2, ReaderAssumption DEF IsLayout, BasketStart
      <4> QED BY <4>1, <4>2
    <3> QED BY <2>1, <3>1, <3>2 DEF Covered, Window
  <2>3. ASSUME Covered(b, lo) PROVE PartFrom(b, i) = lo
    <3>1. PICK t \in Overlapping(b, lo, hi) : BasketStart(b, t) <= lo
      BY <1>2, <2>3
    <3>2. i <= t /\ t \in 1 .. n
      BY <1>1, <1>3, <3>1 DEF Overlapping
    <3>3. BasketStart(b, i) <= BasketStart(b, t) /\ BasketStart(b, t) \in Nat
      <4>1. BasketStart(b, t) \in Nat
        BY <1>1, <3>2, BasketBounds
      <4>2. CASE i = t
        BY <2>1, <4>1, <4>2
      <4>3. CASE i # t
        <5>1. i < t /\ i \in DOMAIN layout.starts[b] /\ t \in DOMAIN layout.starts[b]
          BY <1>1, <2>1, <3>2, <4>3
        <5>2. BasketStart(b, i) <= BasketStart(b, t)
          BY <5>1, ReaderAssumption DEF IsLayout, BasketStart
        <5> QED BY <4>1, <5>2
      <4> QED BY <4>1, <4>2, <4>3
    <3> QED BY <2>1, <3>1, <3>3 DEF PartFrom, Larger, Window
  <2> QED BY <2>2, <2>3
<1> QED BY <1>2, <1>3

\* Reading goes on where the basket before it ended, and ends with the window.
LEMMA NextBasket ==
  ASSUME layout \in Layouts, Window, NEW b \in layout.has,
         NEW S, S \subseteq Overlapping(b, lo, hi),
         \A i \in S, j \in Overlapping(b, lo, hi) : i < j => j \in S,
         NEW i \in S, \A k \in S : i <= k
  PROVE  /\ S \ {i} = {} => PartTo(b, i) = hi
         /\ \A j \in S \ {i} : (\A k \in S \ {i} : j <= k) => PartFrom(b, j) = PartTo(b, i)
<1>1. /\ DOMAIN layout.starts[b] = 1 .. Len(layout.starts[b]) /\ Len(layout.starts[b]) \in Nat
      /\ layout.entries \in Nat
  BY ReaderAssumption DEF IsLayout
<1>2. /\ i \in DOMAIN layout.starts[b] /\ BasketStart(b, i) < hi /\ BasketEnd(b, i) > lo
      /\ i \in Nat /\ BasketStart(b, i) \in Nat /\ BasketEnd(b, i) \in Nat
  BY BasketBounds DEF Overlapping
<1>3. ASSUME i + 1 \in DOMAIN layout.starts[b], BasketStart(b, i + 1) < hi
      PROVE  i + 1 \in S \ {i}
  <2>1. /\ BasketEnd(b, i) = BasketStart(b, i + 1)
        /\ BasketStart(b, i + 1) \in Nat /\ BasketEnd(b, i + 1) \in Nat
        /\ BasketStart(b, i + 1) <= BasketEnd(b, i + 1)
    BY <1>1, <1>2, <1>3, BasketBounds DEF BasketEnd, BasketStart
  <2>2. i + 1 \in Overlapping(b, lo, hi)
    BY <1>2, <1>3, <2>1 DEF Overlapping, Window
  <2> QED BY <1>2, <2>2
<1>4. ASSUME S \ {i} = {} PROVE PartTo(b, i) = hi
  <2>1. CASE i = Len(layout.starts[b])
    BY <1>1, <2>1 DEF PartTo, Smaller, BasketEnd, Window
  <2>2. CASE i # Len(layout.starts[b])
    <3>1. i + 1 \in DOMAIN layout.starts[b] /\ BasketEnd(b, i) = BasketStart(b, i + 1)
      BY <1>1, <1>2, <2>2 DEF BasketEnd, BasketStart
    <3>2. ~ BasketStart(b, i + 1) < hi
      BY <1>3, <1>4, <3>1
    <3> QED BY <1>2, <3>1, <3>2 DEF PartTo, Smaller, Window
  <2> QED BY <2>1, <2>2
<1>5. ASSUME NEW j \in S \ {i}, \A k \in S \ {i} : j <= k
      PROVE  PartFrom(b, j) = PartTo(b, i)
  <2>1. /\ j \in DOMAIN layout.starts[b] /\ BasketStart(b, j) < hi /\ BasketStart(b, j) \in Nat
    BY BasketBounds DEF Overlapping
  <2>2. i < j
    BY <1>1, <1>2, <2>1
  <2>3. /\ i + 1 \in DOMAIN layout.starts[b] /\ i + 1 <= j
        /\ BasketEnd(b, i) = BasketStart(b, i + 1)
        /\ BasketEnd(b, i) <= BasketStart(b, j)
    BY <1>2, <2>1, <2>2, BasketOrder
  <2>4. i + 1 \in S \ {i}
    BY <1>2, <1>3, <2>1, <2>3 DEF Window
  <2>5. j = i + 1
    BY <1>1, <1>2, <1>5, <2>1, <2>3, <2>4
  <2> QED BY <1>2, <2>1, <2>3, <2>5 DEF PartFrom, PartTo, Larger, Smaller, Window
<1> QED BY <1>4, <1>5
-----------------------------------------------------------------------------
(* What the steps of the reader keep.                                      *)

\* Some column of the schema makes every window that starts at entry e fail.
Broken(e) ==
  \E c \in DOMAIN Specs :
    IF Required(Specs[c]) \subseteq layout.has
    THEN ~ Covered(Specs[c].name, e)
    ELSE ~ Specs[c].optional

ReaderType ==
  /\ layout \in Layouts
  /\ lo \in Nat /\ hi \in Nat /\ lo <= hi /\ hi <= layout.entries
  /\ state \in {"idle", "column", "baskets", "ready", "failed"}
  /\ state # "idle" => lo < hi
  /\ col \in 1 .. Len(Specs) + 1
  /\ todo \subseteq Nat
  /\ out \in Seq(RowType)
  /\ faults \in 0 .. MaxFaults

\* The rows read so far are those of consecutive entries, up to the next basket.
PartRead(spec) ==
  /\ todo \subseteq Overlapping(spec.name, lo, hi)
  /\ \A i \in todo, j \in Overlapping(spec.name, lo, hi) : i < j => j \in todo
  /\ \E from \in lo .. hi :
       /\ from = lo <=> Covered(spec.name, lo)
       /\ out = RowsFrom(spec, from, Len(out))
       /\ from + Len(out) = IF todo = {} THEN hi ELSE PartFrom(spec.name, Basket)

Reading ==
  state = "baskets" =>
    /\ col \in DOMAIN Specs
    /\ Required(Specs[col]) \subseteq layout.has
    /\ PartRead(Specs[col])

\* Rows of a column that was read to its end.
WholeColumn(spec) ==
  \E from \in lo .. hi :
    /\ from = lo <=> Covered(spec.name, lo)
    /\ columns[spec.name] = RowsFrom(spec, from, hi - from)

ColumnsRead ==
  /\ \A b \in DOMAIN columns : \E c \in DOMAIN Specs : c < col /\ Specs[c].name = b
  /\ \A c \in DOMAIN Specs : Specs[c].name \in DOMAIN columns =>
       Required(Specs[c]) \subseteq layout.has /\ WholeColumn(Specs[c])

\* Where no fetch fails, only what the tree lacks is left out.
NothingDropped ==
  faults = 0 /\ state # "idle" =>
    \A c \in DOMAIN Specs : c < col =>
      IF Required(Specs[c]) \subseteq layout.has
      THEN Specs[c].name \in DOMAIN columns
      ELSE Specs[c].optional

\* Where no fetch fails, the tree alone decides how a window ends.
Decided ==
  faults = 0 =>
    /\ state = "ready" => ~ Broken(lo)
    /\ state = "failed" => Broken(lo)

PayloadsHeld ==
  /\ cache = DOMAIN fetched
  /\ cache \subseteq layout.has \X Nat
  /\ FetchedOnce

ReaderInv ==
  /\ ReaderType /\ Reading /\ ColumnsRead /\ NothingDropped
  /\ ColumnsAreSlices /\ Decided /\ PayloadsHeld

\* The steps of the reader leave the tree and the window alone.
LEMMA SameTree ==
  ASSUME UNCHANGED <<layout, lo, hi>>
  PROVE  /\ \A b, from, to : Overlapping(b, from, to)' = Overlapping(b, from, to)
         /\ \A spec, e : RowOf(spec, e)' = RowOf(spec, e)
         /\ \A spec, from, n : RowsFrom(spec, from, n)' = RowsFrom(spec, from, n)
         /\ \A b, e : Covered(b, e)' = Covered(b, e)
         /\ \A b, i : PartFrom(b, i)' = PartFrom(b, i) /\ PartTo(b, i)' = PartTo(b, i)
         /\ \A e : Broken(e)' = Broken(e)
         /\ \A b : Covered(b, lo)' = Covered(b, lo) /\ Overlapping(b, lo, hi)' = Overlapping(b, lo, hi)
         /\ \A b : PartFrom(b, Basket)' = PartFrom(b, Basket')
         /\ \A spec, from : RowsFrom(spec, from, Len(out))' = RowsFrom(spec, from, Len(out'))
         /\ \A spec, from : RowsFrom(spec, from, hi - from)' = RowsFrom(spec, from, hi - from)
         /\ Broken(lo)' = Broken(lo)
<1>1. \A b, i : BasketStart(b, i)' = BasketStart(b, i) /\ BasketEnd(b, i)' = BasketEnd(b, i)
  BY DEF BasketStart, BasketEnd
<1>2. \A from, to : Counts(from, to)' = Counts(from, to)
  BY DEF Counts
<1>3. \A e : Offset(e)' = Offset(e)
  BY <1>2 DEF Offset
<1>4. \A spec, e : RowOf(spec, e)' = RowOf(spec, e)
  BY <1>3 DEF RowOf
<1>5. \A spec, from, n : RowsFrom(spec, from, n)' = RowsFrom(spec, from, n)
  BY <1>4 DEF RowsFrom
<1>6. \A b, from, to : Overlapping(b, from, to)' = Overlapping(b, from, to)
  BY <1>1 DEF Overlapping
<1>7. \A b, e : Covered(b, e)' = Covered(b, e)
  BY <1>1 DEF Covered
<1>8. \A b, i : PartFrom(b, i)' = PartFrom(b, i) /\ PartTo(b, i)' = PartTo(b, i)
  BY <1>1 DEF PartFrom, PartTo
<1>9. \A e : Broken(e)' = Broken(e)
  BY <1>7 DEF Broken
<1>10. \A b : Covered(b, lo)' = Covered(b, lo) /\ Overlapping(b, lo, hi)' = Overlapping(b, lo, hi)
  BY DEF Covered, Overlapping, BasketStart, BasketEnd
<1>11. \A b : PartFrom(b, Basket)' = PartFrom(b, Basket')
  BY DEF PartFrom, BasketStart
<1>12. \A spec, from : /\ RowsFrom(spec, from, Len(out))' = RowsFrom(spec, from, Len(out'))
                       /\ RowsFrom(spec, from, hi - from)' = RowsFrom(spec, from, hi - from)
  BY <1>4 DEF RowsFrom
<1>13. Broken(lo)' = Broken(lo)
  BY <1>10 DEF Broken
<1> QED BY <1>4, <1>5, <1>6, <1>7, <1>8, <1>9, <1>10, <1>11, <1>12, <1>13

LEMMA PartReadNext ==
  ASSUME UNCHANGED <<layout, lo, hi>>, NEW spec,
         todo' \subseteq Overlapping(spec.name, lo, hi),
         \A i \in todo', j \in Overlapping(spec.name, lo, hi) : i < j => j \in todo',
         NEW from \in lo .. hi,
         from = lo <=> Covered(spec.name, lo),
         out' = RowsFrom(spec, from, Len(out')),
         from + Len(out') = IF todo' = {} THEN hi ELSE PartFrom(spec.name, Basket')
  PROVE  PartRead(spec)'
<1>1. Overlapping(spec.name, lo, hi)' = Overlapping(spec.name, lo, hi)
  BY SameTree
<1>2. (from = lo <=> Covered(spec.name, lo))'
  BY SameTree
<1>3. (out = RowsFrom(spec, from, Len(out)))'
  <2>1. \A e : RowOf(spec, e)' = RowOf(spec, e)
    BY SameTree
  <2>2. RowsFrom(spec, from, Len(out))' = [k \in 1 .. Len(out') |-> RowOf(spec, from + k - 1)']
    BY DEF RowsFrom
  <2>3. RowsFrom(spec, from, Len(out')) = [k \in 1 .. Len(out') |-> RowOf(spec, from + k - 1)]
    BY DEF RowsFrom
  <2> QED BY <2>1, <2>2, <2>3
<1>4. (from + Len(out) = IF todo = {} THEN hi ELSE PartFrom(spec.name, Basket))'
  BY SameTree
<1>5. (\E f \in lo .. hi :
         /\ f = lo <=> Covered(spec.name, lo)
         /\ out = RowsFrom(spec, f, Len(out))
         /\ f + Len(out) = IF todo = {} THEN hi ELSE PartFrom(spec.name, Basket))'
  <2> WITNESS from \in (lo .. hi)'
  <2> QED BY <1>2, <1>3, <1>4
<1> QED BY <1>1, <1>5 DEF PartRead

LEMMA ColumnsReadNext ==
  ASSUME UNCHANGED <<layout, lo, hi>>,
         \A b \in DOMAIN columns' : \E c \in DOMAIN Specs : c < col' /\ Specs[c].name = b,
         \A c \in DOMAIN Specs : Specs[c].name \in DOMAIN columns' =>
           /\ Required(Specs[c]) \subseteq layout.has
           /\ \E from \in lo .. hi :
                /\ from = lo <=> Covered(Specs[c].name, lo)
                /\ columns'[Specs[c].name] = RowsFrom(Specs[c], from, hi - from)
  PROVE  ColumnsRead'
<1>1. ASSUME NEW c \in DOMAIN Specs, Specs[c].name \in DOMAIN columns'
      PROVE  WholeColumn(Specs[c])'
  <2>1. PICK from \in lo .. hi :
          /\ from = lo <=> Covered(Specs[c].name, lo)
          /\ columns'[Specs[c].name] = RowsFrom(Specs[c], from, hi - from)
    BY <1>1
  <2>2. (from = lo <=> Covered(Specs[c].name, lo))'
    BY <2>1, SameTree
  <2>3. (columns[Specs[c].name] = RowsFrom(Specs[c], from, hi - from))'
    BY <2>1, SameTree
  <2>4. (\E f \in lo .. hi :
           /\ f = lo <=> Covered(Specs[c].name, lo)
           /\ columns[Specs[c].name] = RowsFrom(Specs[c], f, hi - f))'
    <3> WITNESS from \in (lo .. hi)'
    <3> QED BY <2>2, <2>3
  <2> QED BY <2>4 DEF WholeColumn
<1> QED BY <1>1 DEF ColumnsRead, Required

LEMMA SchemaNumbers ==
  /\ DOMAIN Specs = 1 .. Len(Specs) /\ Len(Specs) \in Nat
BY ReaderAssumption

LEMMA BeginColumnInv == ReaderInv /\ BeginColumn => ReaderInv'
<1> SUFFICES ASSUME ReaderInv, BeginColumn PROVE ReaderInv'
  OBVIOUS
<1> USE SchemaNumbers
<1>0. PICK spec : spec = Specs[col]
  OBVIOUS
<1> DEFINE O == Overlapping(spec.name, lo, hi)
<1>1. /\ layout \in Layouts /\ Window /\ lo <= hi /\ lo \in Nat /\ hi \in Nat
      /\ col \in DOMAIN Specs /\ Required(spec) \subseteq layout.has
      /\ spec.name \in layout.has
  BY <1>0 DEF ReaderInv, ReaderType, BeginColumn, Window, Required
<1>2. UNCHANGED <<layout, lo, hi>>
  BY DEF BeginColumn
<1>3. O \subseteq Nat
  BY <1>1, BasketBounds DEF Overlapping
<1>4. ReaderType'
  BY <1>0, <1>1, <1>2, <1>3 DEF ReaderInv, ReaderType, BeginColumn
<1>5. PartRead(spec)'
  <2> DEFINE i == CHOOSE m \in O : \A k \in O : m <= k
             from == IF O = {} THEN hi ELSE PartFrom(spec.name, i)
  <2>1. /\ todo' = O /\ out' = << >> /\ Overlapping(spec.name, lo, hi)' = O
        /\ Basket' = i
    BY <1>0, <1>2, SameTree DEF BeginColumn, Basket
  <2>2. from \in lo .. hi /\ (from = lo <=> Covered(spec.name, lo))
    <3>1. CASE O = {}
      BY <1>1, <3>1, FirstBasket DEF Window
    <3>2. CASE O # {}
      <4>1. i \in O /\ \A k \in O : i <= k
        <5> HIDE DEF O
        <5>1. \E m \in O : \A k \in O : m <= k
          BY <1>3, <3>2, LeastElement
        <5> QED BY <5>1
      <4> HIDE DEF i
      <4>2. PartFrom(spec.name, i) = lo <=> Covered(spec.name, lo)
        BY <1>1, <4>1, FirstBasket
      <4>3. PartFrom(spec.name, i) \in lo .. hi
        BY <1>1, <4>1, PartBounds DEF Within, Window
      <4> QED BY <3>2, <4>2, <4>3
    <3> QED BY <3>1, <3>2
  <2>3. << >> = RowsFrom(spec, from, 0)
    BY DEF RowsFrom
  <2>4. from = IF todo' = {} THEN hi ELSE PartFrom(spec.name, Basket)'
    BY <1>2, <2>1, SameTree
  <2> HIDE DEF O, from, i
  <2>5. Len(out') = 0
    BY <2>1
  <2> QED BY <1>2, <2>1, <2>2, <2>3, <2>4, <2>5, SameTree, PartReadNext
<1>6. Reading'
  BY <1>0, <1>1, <1>2, <1>5 DEF Reading, BeginColumn
<1>7. ColumnsRead' /\ NothingDropped'
  BY <1>2, SameTree DEF ReaderInv, ColumnsRead, WholeColumn, NothingDropped, BeginColumn
<1>8. ColumnsAreSlices' /\ Decided' /\ PayloadsHeld'
  BY DEF ReaderInv, ColumnsAreSlices, Decided, PayloadsHeld, FetchedOnce, BeginColumn
<1> QED BY <1>4, <1>6, <1>7, <1>8 DEF ReaderInv

LEMMA ReadBasketInv == ReaderInv /\ ReadBasket => ReaderInv'
<1> SUFFICES ASSUME ReaderInv, ReadBasket PROVE ReaderInv'
  OBVIOUS
<1> USE SchemaNumbers
<1>0. PICK spec : spec = Specs[col]
  OBVIOUS
<1>1. /\ layout \in Layouts /\ Window /\ lo <= hi /\ lo \in Nat /\ hi \in Nat
      /\ hi <= layout.entries /\ layout.entries \in Nat
      /\ state = "baskets" /\ todo # {} /\ todo \subseteq Nat
      /\ Required(spec) \subseteq layout.has /\ PartRead(spec)
      /\ spec.name \in layout.has
  BY <1>0, ReaderAssumption
    DEF ReaderInv, ReaderType, Reading, ReadBasket, Window, Required, IsLayout
<1>2. UNCHANGED <<layout, lo, hi, state, col, columns, faults>>
  BY DEF ReadBasket
<1>3. PICK i : i = Basket
  OBVIOUS
<1>4. i \in todo /\ \A k \in todo : i <= k
  BY <1>1, <1>3, BasketIsLeast
<1>5. PICK rows : rows = RowsFrom(spec, PartFrom(spec.name, i),
                                  PartTo(spec.name, i) - PartFrom(spec.name, i))
  OBVIOUS
<1>6. todo' = todo \ {i} /\ out' = out \o rows
  <2>1. i \in Overlapping(spec.name, lo, hi)
    BY <1>1, <1>4 DEF PartRead
  <2>2. spec.counter = NoCounter => ScalarRows(spec.name, i) = rows
    BY <1>1, <1>5, <2>1, ScalarRowsAre
  <2>3. ASSUME spec.counter # NoCounter PROVE JaggedRows(spec, i) = rows
    <3>1. spec.counter \in layout.has
      BY <1>1, <2>3 DEF Required
    <3>2. spec.counter \in Counters
      BY <1>0 DEF Counters, ReaderInv, Reading, ReadBasket
    <3> QED BY <1>1, <1>5, <2>1, <2>3, <3>1, <3>2, JaggedRowsAre
  <2> QED BY <1>0, <1>3, <2>2, <2>3 DEF ReadBasket
<1>7. PICK from \in lo .. hi :
        /\ from = lo <=> Covered(spec.name, lo)
        /\ out = RowsFrom(spec, from, Len(out))
        /\ from + Len(out) = PartFrom(spec.name, i)
  BY <1>1, <1>3 DEF PartRead
<1>8. /\ PartFrom(spec.name, i) \in Nat /\ PartTo(spec.name, i) \in Nat
      /\ PartFrom(spec.name, i) <= PartTo(spec.name, i)
      /\ PartTo(spec.name, i) <= hi
  BY <1>1, <1>4, PartBounds DEF PartRead, Within
<1>9. PICK n \in Nat : n = Len(out) /\ out \in Seq(RowType)
  BY DEF ReaderInv, ReaderType
<1>10. PICK m \in Nat : m = PartTo(spec.name, i) - PartFrom(spec.name, i)
  BY <1>8
<1>11. /\ out' = RowsFrom(spec, from, n + m)
       /\ out' \in Seq(RowType) /\ Len(out') = n + m
       /\ from + (n + m) = PartTo(spec.name, i)
  <2>1. rows = RowsFrom(spec, from + n, m)
    BY <1>5, <1>7, <1>9, <1>10
  <2>2. out' = RowsFrom(spec, from, n + m)
    <3>1. from \in Nat
      BY <1>1
    <3>2. RowsFrom(spec, from, n) \o RowsFrom(spec, from + n, m) = RowsFrom(spec, from, n + m)
      BY <3>1, RowsConcat
    <3> QED BY <1>6, <1>7, <1>9, <2>1, <3>2
  <2>3. from + (n + m) = PartTo(spec.name, i)
    BY <1>1, <1>7, <1>8, <1>9, <1>10
  <2>4. from \in Nat /\ from + (n + m) <= layout.entries
    BY <1>1, <1>8, <2>3
  <2> QED BY <1>1, <2>2, <2>3, <2>4, RowsType
<1>12. ReaderType'
  BY <1>1, <1>2, <1>6, <1>11 DEF ReaderInv, ReaderType
<1>13. PartRead(spec)'
  <2>1. /\ todo \subseteq Overlapping(spec.name, lo, hi)
        /\ \A k \in todo, j \in Overlapping(spec.name, lo, hi) : k < j => j \in todo
    BY <1>1 DEF PartRead
  <2>2. Overlapping(spec.name, lo, hi) \subseteq Nat
    BY <1>1, BasketBounds DEF Overlapping
  <2>3. \A k \in todo', j \in Overlapping(spec.name, lo, hi) : k < j => j \in todo'
    BY <1>4, <1>6, <2>1, <2>2
  <2>4. from + Len(out') = IF todo' = {} THEN hi ELSE PartFrom(spec.name, Basket')
    <3>1. CASE todo' = {}
      <4>1. PartTo(spec.name, i) = hi
        BY <1>1, <1>4, <1>6, <2>1, <3>1, NextBasket
      <4> QED BY <1>11, <3>1, <4>1
    <3>2. CASE todo' # {}
      <4>1. Basket' \in todo' /\ \A k \in todo' : Basket' <= k
        <5>1. \E j \in todo' : \A k \in todo' : j <= k
          BY <1>1, <1>6, <3>2, LeastElement
        <5> QED BY <5>1 DEF Basket
      <4>2. PICK j : j = Basket'
        OBVIOUS
      <4>3. j \in todo \ {i} /\ \A k \in todo \ {i} : j <= k
        BY <1>6, <4>1, <4>2
      <4>4. PartFrom(spec.name, j) = PartTo(spec.name, i)
        BY <1>1, <1>4, <2>1, <4>3, NextBasket
      <4> QED BY <1>11, <3>2, <4>2, <4>4
    <3> QED BY <3>1, <3>2
  <2>5. todo' \subseteq Overlapping(spec.name, lo, hi)
    BY <1>6, <2>1
  <2> QED BY <1>2, <1>7, <1>11, <2>3, <2>4, <2>5, PartReadNext
<1>14. Reading'
  <2>1. spec = Specs[col'] /\ col' \in DOMAIN Specs /\ Required(spec) \subseteq layout'.has
    BY <1>0, <1>1, <1>2 DEF ReaderInv, Reading
  <2> QED BY <1>13, <2>1 DEF Reading, Required
<1>15. ColumnsRead' /\ NothingDropped'
  BY <1>2, SameTree DEF ReaderInv, ColumnsRead, WholeColumn, NothingDropped
<1>16. ColumnsAreSlices' /\ Decided'
  BY <1>1, <1>2 DEF ColumnsAreSlices, Decided
<1>17. PayloadsHeld'
  <2> DEFINE missing == Payloads(spec, i) \ cache
  <2>1. /\ cache' = cache \cup missing
        /\ fetched' = [p \in DOMAIN fetched \cup missing |->
                         Fetched(p) + (IF p \in missing THEN 1 ELSE 0)]
    BY <1>0, <1>3 DEF ReadBasket
  <2>2. Payloads(spec, i) \subseteq layout.has \X Nat
    <3>1. i \in Nat
      BY <1>1, <1>4
    <3>2. spec.counter # NoCounter => spec.counter \in layout.has
      BY <1>1 DEF Required
    <3>3. spec.counter # NoCounter =>
            \A from1, to1 : Overlapping(spec.counter, from1, to1) \subseteq Nat
      BY <1>1, <3>2, BasketBounds DEF Overlapping
    <3> QED BY <1>1, <3>1, <3>2, <3>3 DEF Payloads, CounterBaskets
  <2> HIDE DEF missing
  <2>3. missing \cap cache = {} /\ missing \subseteq layout.has \X Nat
    BY <2>2 DEF missing
  <2>4. /\ cache = DOMAIN fetched /\ cache \subseteq layout.has \X Nat
        /\ \A p \in DOMAIN fetched : fetched[p] = 1
    BY DEF ReaderInv, PayloadsHeld, FetchedOnce
  <2> QED BY <1>2, <2>1, <2>3, <2>4 DEF PayloadsHeld, FetchedOnce, Fetched
<1> QED BY <1>12, <1>14, <1>15, <1>16, <1>17 DEF ReaderInv

LEMMA BranchMissingInv == ReaderInv /\ BranchMissing => ReaderInv'
<1> SUFFICES ASSUME ReaderInv, BranchMissing PROVE ReaderInv'
  OBVIOUS
<1> USE SchemaNumbers
<1>1. /\ UNCHANGED <<layout, lo, hi, todo, out, columns, cache, fetched, faults>>
      /\ state = "column" /\ col \in DOMAIN Specs
      /\ ~ Required(Specs[col]) \subseteq layout.has
      /\ IF Specs[col].optional THEN state' = "column" /\ col' = col + 1
                                ELSE state' = "failed" /\ col' = col
  BY DEF BranchMissing, DropOrFail, ReaderInv, ReaderType
<1>2. ReaderType' /\ Reading'
  BY <1>1 DEF ReaderInv, ReaderType, Reading
<1>3. ColumnsRead'
  BY <1>1, SameTree DEF ReaderInv, ReaderType, ColumnsRead, WholeColumn
<1>4. NothingDropped'
  BY <1>1 DEF ReaderInv, ReaderType, NothingDropped, Required
<1>5. ColumnsAreSlices' /\ PayloadsHeld'
  BY <1>1 DEF ReaderInv, ColumnsAreSlices, PayloadsHeld, FetchedOnce
<1>6. Decided'
  <2>1. state' = "failed" => Broken(lo)
    BY <1>1 DEF Broken
  <2> QED BY <1>1, <2>1, SameTree DEF Decided
<1> QED BY <1>2, <1>3, <1>4, <1>5, <1>6 DEF ReaderInv

LEMMA FetchFailsInv == ReaderInv /\ FetchFails => ReaderInv'
<1> SUFFICES ASSUME ReaderInv, FetchFails PROVE ReaderInv'
  OBVIOUS
<1> USE SchemaNumbers, ReaderAssumption
<1>1. /\ UNCHANGED <<layout, lo, hi, todo, out, columns>>
      /\ state = "baskets" /\ col \in DOMAIN Specs /\ todo # {}
      /\ faults' = faults + 1 /\ faults < MaxFaults
      /\ IF Specs[col].optional THEN state' = "column" /\ col' = col + 1
                                ELSE state' = "failed" /\ col' = col
  BY DEF FetchFails, DropOrFail, ReaderInv, ReaderType, Reading
<1>2. ReaderType' /\ Reading'
  BY <1>1 DEF ReaderInv, ReaderType, Reading
<1>3. ColumnsRead'
  <2>1. \A b \in DOMAIN columns : \E c \in DOMAIN Specs : c < col' /\ Specs[c].name = b
    BY <1>1 DEF ReaderInv, ReaderType, ColumnsRead
  <2>2. \A c \in DOMAIN Specs : Specs[c].name \in DOMAIN columns =>
          /\ Required(Specs[c]) \subseteq layout.has
          /\ \E from \in lo .. hi :
               /\ from = lo <=> Covered(Specs[c].name, lo)
               /\ columns[Specs[c].name] = RowsFrom(Specs[c], from, hi - from)
    BY DEF ReaderInv, ColumnsRead, WholeColumn
  <2>3. UNCHANGED <<layout, lo, hi>> /\ columns' = columns
    BY <1>1
  <2> QED BY <2>1, <2>2, <2>3, ColumnsReadNext
<1>4. faults' # 0
  BY <1>1 DEF ReaderInv, ReaderType
<1>5. NothingDropped' /\ Decided' /\ ColumnsAreSlices'
  BY <1>1, <1>4 DEF NothingDropped, Decided, ColumnsAreSlices
<1>6. PayloadsHeld'
  <2>0. PICK spec : spec = Specs[col]
    OBVIOUS
  <2>1. PICK arrived \in SUBSET (Payloads(spec, Basket) \ cache) :
          /\ cache' = cache \cup arrived
          /\ fetched' = [q \in DOMAIN fetched \cup arrived |->
                           Fetched(q) + (IF q \in arrived THEN 1 ELSE 0)]
    <3> DEFINE missing == Payloads(spec, Basket) \ cache
    <3>1. PICK p \in missing :
            LET arrived == {q \in missing : Before(spec, q, p)}
            IN /\ cache' = cache \cup arrived
               /\ fetched' = [q \in DOMAIN fetched \cup arrived |->
                                Fetched(q) + (IF q \in arrived THEN 1 ELSE 0)]
      BY <2>0 DEF FetchFails
    <3> QED BY <3>1
  <2>2. Payloads(spec, Basket) \subseteq layout.has \X Nat
    <3>1. Basket \in Nat /\ layout \in Layouts /\ Required(spec) \subseteq layout.has
      BY <1>1, <2>0, BasketIsLeast DEF ReaderInv, ReaderType, Reading
    <3>2. spec.name \in layout.has /\ (spec.counter # NoCounter => spec.counter \in layout.has)
      BY <3>1 DEF Required
    <3>3. spec.counter # NoCounter =>
            \A from1, to1 : Overlapping(spec.counter, from1, to1) \subseteq Nat
      BY <3>1, <3>2, BasketBounds DEF Overlapping
    <3> QED BY <3>1, <3>2, <3>3 DEF Payloads, CounterBaskets
  <2>3. arrived \cap cache = {} /\ arrived \subseteq layout.has \X Nat
    BY <2>1, <2>2
  <2>4. /\ cache = DOMAIN fetched /\ cache \subseteq layout.has \X Nat
        /\ \A p \in DOMAIN fetched : fetched[p] = 1
    BY DEF ReaderInv, PayloadsHeld, FetchedOnce
  <2> QED BY <1>1, <2>1, <2>3, <2>4 DEF PayloadsHeld, FetchedOnce, Fetched
<1> QED BY <1>2, <1>3, <1>5, <1>6 DEF ReaderInv

LEMMA EndColumnInv == ReaderInv /\ EndColumn => ReaderInv'
<1> SUFFICES ASSUME ReaderInv, EndColumn PROVE ReaderInv'
  OBVIOUS
<1> USE SchemaNumbers, ReaderAssumption
<1>0. PICK spec : spec = Specs[col]
  OBVIOUS
<1>1. /\ UNCHANGED <<layout, lo, hi, todo, out, cache, fetched, faults>>
      /\ state = "baskets" /\ state' = "column" /\ todo = {} /\ col' = col + 1
      /\ columns' = [b \in DOMAIN columns \cup {spec.name} |->
                       IF b = spec.name THEN out ELSE columns[b]]
  BY <1>0 DEF EndColumn
<1>2. col \in DOMAIN Specs /\ Required(spec) \subseteq layout.has /\ PartRead(spec)
  BY <1>0, <1>1 DEF ReaderInv, Reading
<1>3. ReaderType' /\ Reading'
  BY <1>1, <1>2 DEF ReaderInv, ReaderType, Reading
<1>4. ColumnsRead'
  <2>1. \A b \in DOMAIN columns' : \E c \in DOMAIN Specs : c < col' /\ Specs[c].name = b
    BY <1>0, <1>1, <1>2 DEF ReaderInv, ReaderType, ColumnsRead
  <2>2. ASSUME NEW c \in DOMAIN Specs, Specs[c].name \in DOMAIN columns'
        PROVE  /\ Required(Specs[c]) \subseteq layout.has
               /\ \E from \in lo .. hi :
                    /\ from = lo <=> Covered(Specs[c].name, lo)
                    /\ columns'[Specs[c].name] = RowsFrom(Specs[c], from, hi - from)
    <3>1. CASE c = col
      <4>1. PICK from \in lo .. hi :
              /\ from = lo <=> Covered(spec.name, lo)
              /\ out = RowsFrom(spec, from, Len(out))
              /\ from + Len(out) = hi
        BY <1>1, <1>2 DEF PartRead
      <4>2. Len(out) = hi - from
        BY <4>1 DEF ReaderInv, ReaderType
      <4> QED BY <1>0, <1>1, <1>2, <3>1, <4>1, <4>2
    <3>2. CASE c # col
      <4>1. Specs[c].name # spec.name
        BY <1>0, <1>2, <3>2
      <4>2. Specs[c].name \in DOMAIN columns /\ columns'[Specs[c].name] = columns[Specs[c].name]
        BY <1>1, <2>2, <4>1
      <4> QED BY <4>2 DEF ReaderInv, ColumnsRead, WholeColumn
    <3> QED BY <3>1, <3>2
  <2> QED BY <1>1, <2>1, <2>2, ColumnsReadNext
<1>5. NothingDropped'
  <2>1. ASSUME faults = 0, NEW c \in DOMAIN Specs, c < col + 1
        PROVE  IF Required(Specs[c]) \subseteq layout.has
               THEN Specs[c].name \in DOMAIN columns' ELSE Specs[c].optional
    <3>1. CASE c = col
      BY <1>0, <1>1, <1>2, <3>1
    <3>2. CASE c # col
      <4>1. c < col
        BY <1>2, <2>1, <3>2
      <4> QED BY <1>1, <2>1, <4>1 DEF ReaderInv, NothingDropped
    <3> QED BY <3>1, <3>2
  <2> QED BY <1>1, <2>1 DEF NothingDropped, Required
<1>6. ColumnsAreSlices' /\ Decided' /\ PayloadsHeld'
  BY <1>1 DEF ReaderInv, ColumnsAreSlices, Decided, PayloadsHeld, FetchedOnce
<1> QED BY <1>3, <1>4, <1>5, <1>6 DEF ReaderInv

LEMMA EndWindowInv == ReaderInv /\ EndWindow => ReaderInv'
<1> SUFFICES ASSUME ReaderInv, EndWindow PROVE ReaderInv'
  OBVIOUS
<1> USE SchemaNumbers
<1>1. /\ UNCHANGED <<layout, lo, hi, col, todo, out, columns, cache, fetched, faults>>
      /\ state = "column" /\ col > Len(Specs)
      /\ state' = IF Valid THEN "ready" ELSE "failed"
      /\ layout \in Layouts /\ lo \in Nat /\ hi \in Nat /\ lo < hi /\ hi <= layout.entries
  BY DEF EndWindow, ReaderInv, ReaderType
<1>2. ReaderType' /\ Reading'
  BY <1>1 DEF ReaderInv, ReaderType, Reading
<1>3. ColumnsRead'
  BY <1>1, SameTree DEF ReaderInv, ColumnsRead, WholeColumn
<1>4. NothingDropped' /\ PayloadsHeld'
  BY <1>1 DEF ReaderInv, NothingDropped, PayloadsHeld, FetchedOnce, Required
<1>5. ASSUME NEW c \in DOMAIN Specs, Specs[c].name \in DOMAIN columns
      PROVE  /\ Required(Specs[c]) \subseteq layout.has
             /\ Len(columns[Specs[c].name]) >= hi - lo =>
                  /\ columns[Specs[c].name] = RowsFrom(Specs[c], lo, hi - lo)
                  /\ Covered(Specs[c].name, lo)
             /\ ~ Len(columns[Specs[c].name]) >= hi - lo => ~ Covered(Specs[c].name, lo)
  <2>1. Required(Specs[c]) \subseteq layout.has /\ WholeColumn(Specs[c])
    BY <1>5 DEF ReaderInv, ColumnsRead
  <2>2. PICK from \in lo .. hi :
          /\ from = lo <=> Covered(Specs[c].name, lo)
          /\ columns[Specs[c].name] = RowsFrom(Specs[c], from, hi - from)
    BY <2>1 DEF WholeColumn
  <2>3. PICK n \in Nat : n = hi - from
    BY <1>1
  <2>4. Len(columns[Specs[c].name]) = n
    <3>1. from \in Nat /\ from + n <= layout.entries
      BY <1>1, <2>3
    <3> QED BY <1>1, <2>2, <2>3, <3>1, RowsType
  <2> QED BY <1>1, <2>1, <2>2, <2>3, <2>4
<1>6. \A b \in DOMAIN columns : \E c \in DOMAIN Specs : Specs[c].name = b
  BY DEF ReaderInv, ColumnsRead
<1>7. \A c \in DOMAIN Specs : c < col
  BY <1>1 DEF ReaderInv, ReaderType
<1>8. ColumnsAreSlices'
  <2>1. ASSUME Valid, NEW c \in DOMAIN Specs, Specs[c].name \in DOMAIN columns
        PROVE  columns[Specs[c].name] = RowsFrom(Specs[c], lo, hi - lo)
    BY <1>5, <2>1 DEF Valid
  <2>2. \A spec, e : RowOf(spec, e)' = RowOf(spec, e)
    BY <1>1, SameTree
  <2> QED BY <1>1, <2>1, <2>2 DEF ColumnsAreSlices, RowsFrom
<1>9. Decided'
  <2>1. ASSUME faults = 0, Valid PROVE ~ Broken(lo)
    <3> SUFFICES ASSUME NEW c \in DOMAIN Specs
                 PROVE  IF Required(Specs[c]) \subseteq layout.has
                        THEN Covered(Specs[c].name, lo) ELSE Specs[c].optional
      BY DEF Broken
    <3>1. CASE Required(Specs[c]) \subseteq layout.has
      <4>1. Specs[c].name \in DOMAIN columns
        BY <1>1, <1>7, <2>1, <3>1 DEF ReaderInv, NothingDropped
      <4> QED BY <1>5, <2>1, <3>1, <4>1 DEF Valid
    <3>2. CASE ~ Required(Specs[c]) \subseteq layout.has
      BY <1>1, <1>7, <2>1, <3>2 DEF ReaderInv, NothingDropped
    <3> QED BY <3>1, <3>2
  <2>2. ASSUME faults = 0, ~ Valid PROVE Broken(lo)
    <3>1. CASE \E b \in DOMAIN columns : ~ Len(columns[b]) >= hi - lo
      <4>1. PICK c \in DOMAIN Specs :
              /\ Specs[c].name \in DOMAIN columns
              /\ ~ Len(columns[Specs[c].name]) >= hi - lo
        BY <1>6, <3>1
      <4> QED BY <1>5, <4>1 DEF Broken
    <3>2. CASE ~ \E b \in DOMAIN columns : ~ Len(columns[b]) >= hi - lo
      <4>1. PICK c \in DOMAIN Specs :
              ~ (Specs[c].optional \/ Specs[c].name \in DOMAIN columns)
        BY <2>2, <3>2 DEF Valid
      <4>2. ~ Required(Specs[c]) \subseteq layout.has
        BY <1>1, <1>7, <2>2, <4>1 DEF ReaderInv, NothingDropped
      <4> QED BY <4>1, <4>2 DEF Broken
    <3> QED BY <3>1, <3>2
  <2> QED BY <1>1, <2>1, <2>2, SameTree DEF Decided
<1> QED BY <1>2, <1>3, <1>4, <1>8, <1>9 DEF ReaderInv

LEMMA ReadStepInv == ReaderInv /\ ReadStep => ReaderInv'
BY BeginColumnInv, BranchMissingInv, ReadBasketInv, FetchFailsInv, EndColumnInv,
   EndWindowInv DEF ReadStep

LEMMA WindowInitInv == WindowInit => ReaderInv
<1> SUFFICES ASSUME WindowInit PROVE ReaderInv
  OBVIOUS
<1> USE SchemaNumbers, ReaderAssumption
<1>1. ReaderType
  BY DEF WindowInit, ReaderType, IsLayout
<1>2. DOMAIN columns = {} /\ DOMAIN fetched = {}
  BY DEF WindowInit
<1> QED BY <1>1, <1>2 DEF WindowInit, ReaderInv, Reading, ColumnsRead, NothingDropped,
  ColumnsAreSlices, Decided, PayloadsHeld, FetchedOnce

LEMMA OpenWindowInv ==
  ASSUME ReaderInv, NEW from \in Nat, NEW to \in Nat, from < to, to <= layout.entries,
         OpenWindow(from, to)
  PROVE  ReaderInv'
<1> USE SchemaNumbers, ReaderAssumption
<1>1. ReaderType'
  BY DEF OpenWindow, ReaderInv, ReaderType
<1>2. DOMAIN columns' = {} /\ DOMAIN fetched' = {} /\ cache' = {} /\ col' = 1
  BY DEF OpenWindow
<1>3. Reading' /\ ColumnsRead' /\ NothingDropped'
  BY <1>2 DEF OpenWindow, Reading, ColumnsRead, NothingDropped
<1>4. ColumnsAreSlices' /\ Decided' /\ PayloadsHeld'
  BY <1>2 DEF OpenWindow, ColumnsAreSlices, Decided, PayloadsHeld, FetchedOnce
<1> QED BY <1>1, <1>3, <1>4 DEF ReaderInv

\* The reader is idle again: its window was handed over, or its error returned.
LEMMA CloseWindowInv ==
  ASSUME ReaderInv, state' = "idle",
         UNCHANGED <<layout, lo, hi, col, todo, out, columns, cache, fetched, faults>>
  PROVE  ReaderInv'
<1>1. ReaderType' /\ Reading'
  BY DEF ReaderInv, ReaderType, Reading
<1>2. ColumnsRead'
  BY SameTree DEF ReaderInv, ColumnsRead, WholeColumn
<1>3. NothingDropped' /\ ColumnsAreSlices' /\ Decided' /\ PayloadsHeld'
  BY DEF ReaderInv, NothingDropped, ColumnsAreSlices, Decided, PayloadsHeld, FetchedOnce
<1> QED BY <1>1, <1>2, <1>3 DEF ReaderInv

LEMMA ReaderIdles ==
  ASSUME ReaderInv, UNCHANGED <<layout, reader>>
  PROVE  ReaderInv'
<1> USE DEF reader
<1>1. ReaderType' /\ Reading'
  <2>1. ReaderType'
    BY DEF ReaderInv, ReaderType
  <2>2. Reading'
    BY SameTree DEF ReaderInv, Reading, PartRead, Required, Basket
  <2> QED BY <2>1, <2>2
<1>2. ColumnsRead' /\ NothingDropped'
  BY SameTree DEF ReaderInv, ColumnsRead, WholeColumn, NothingDropped, Required
<1>3. ColumnsAreSlices' /\ Decided' /\ PayloadsHeld'
  BY SameTree DEF ReaderInv, ColumnsAreSlices, Decided, PayloadsHeld, FetchedOnce
<1> QED BY <1>1, <1>2, <1>3 DEF ReaderInv
=============================================================================
