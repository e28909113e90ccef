--------------------------- MODULE RootFileProofs ---------------------------
(* What RootFile promises, for every list of branches that write_tree may  *)
(* be given: that an open file is whole, that its tree reads back, and that *)
(* the chunks of a window are slices of what was written.  Of the files of  *)
(* other programs only their records are known; what is assumed of them is  *)
(* named: ForeignKeysLast, ForeignTreesRead, ForeignTreesCut.               *)
EXTENDS RootFile, WellFoundedInduction, TLAPS

\* Induction over data takes this form: the least counterexample.
LEMMA LeastElement ==
  ASSUME NEW T, T \subseteq Nat, T # {}
  PROVE  \E x \in T : \A y \in T : x <= y
<1> DEFINE R == {ss \in Nat \X Nat : ss[1] < ss[2]}
<1>1. IsWellFoundedOn(R, Nat)
  BY NatLessThanWellFounded DEF OpToRel
<1>2. PICK x \in T : \A y \in T : ~ (<<y, x>> \in R)
  BY <1>1, WFMin
<1>3. \A y \in T : x <= y
  <2> SUFFICES ASSUME NEW y \in T, y < x PROVE FALSE
    OBVIOUS
  <2>1. <<y, x>> \in Nat \X Nat
    OBVIOUS
  <2>2. <<y, x>>[1] = y /\ <<y, x>>[2] = x
    OBVIOUS
  <2>3. <<y, x>> \in R
    BY <2>1, <2>2
  <2> QED BY <1>2, <2>3
<1> QED BY <1>3
-----------------------------------------------------------------------------
(* Totals: the recursion of Total has a solution, and the totals of a row   *)
(* of lengths never fall.                                                   *)

TotalEquation(upto, seq, n) ==
  upto = [k \in 0 .. n |-> IF k = 0 THEN 0 ELSE upto[k - 1] + seq[k]]

LEMMA TotalsExist ==
  ASSUME NEW seq, NEW n \in Nat
  PROVE  \E upto : TotalEquation(upto, seq, n)
<1> DEFINE Bad == {m \in Nat : ~ \E upto : TotalEquation(upto, seq, m)}
<1> SUFFICES ASSUME Bad # {} PROVE FALSE
  OBVIOUS
<1>1. PICK m \in Bad : \A k \in Bad : m <= k
  BY LeastElement
<1>2. CASE m = 0
  <2>1. TotalEquation([k \in 0 .. 0 |-> 0], seq, 0)
    BY DEF TotalEquation
  <2> QED BY <1>2, <2>1
<1>3. CASE m # 0
  <2>1. m - 1 \in Nat /\ m - 1 \notin Bad
    BY <1>1, <1>3
  <2>2. PICK g : TotalEquation(g, seq, m - 1)
    BY <2>1
  <2> DEFINE h == [k \in 0 .. m |-> IF k = m THEN g[m - 1] + seq[m] ELSE g[k]]
  <2>3. \A k \in 0 .. m : h[k] = IF k = 0 THEN 0 ELSE h[k - 1] + seq[k]
    <3> SUFFICES ASSUME NEW k \in 0 .. m
                 PROVE  h[k] = IF k = 0 THEN 0 ELSE h[k - 1] + seq[k]
      OBVIOUS
    <3>1. CASE k = m
      BY <1>3, <3>1
    <3>2. CASE k # m
      <4>1. k \in 0 .. m - 1 /\ (k # 0 => k - 1 \in 0 .. m - 1 /\ k - 1 # m)
        BY <3>2
      <4>2. g[k] = IF k = 0 THEN 0 ELSE g[k - 1] + seq[k]
        BY <2>2, <4>1 DEF TotalEquation
      <4> QED BY <3>2, <4>1, <4>2
    <3> QED BY <3>1, <3>2
  <2>4. TotalEquation(h, seq, m)
    BY <2>3 DEF TotalEquation
  <2> QED BY <2>4
<1> QED BY <1>2, <1>3

LEMMA TotalOf ==
  ASSUME NEW seq, Len(seq) \in Nat
  PROVE  \E upto : TotalEquation(upto, seq, Len(seq)) /\ Total(seq) = upto[Len(seq)]
<1> DEFINE IsUpto(g) == g = [k \in 0 .. Len(seq) |-> IF k = 0 THEN 0 ELSE g[k - 1] + seq[k]]
           upto == CHOOSE g : IsUpto(g)
<1>1. \E g : IsUpto(g)
  BY TotalsExist DEF TotalEquation
<1>2. IsUpto(upto)
  <2> HIDE DEF IsUpto
  <2> QED BY <1>1
<1>3. Total(seq) = upto[Len(seq)]
  BY DEF Total
<1> QED BY <1>2, <1>3 DEF TotalEquation

\* The totals of all beginnings of a sequence of lengths: numbers, of which
\* the later ones are no smaller.
LEMMA TotalsGrow ==
  ASSUME NEW seq, NEW n \in Nat, \A k \in 1 .. n : seq[k] \in Nat,
         NEW upto, TotalEquation(upto, seq, n)
  PROVE  /\ \A k \in 0 .. n : upto[k] \in Nat
         /\ \A k \in 0 .. n : upto[k] <= upto[n]
<1> DEFINE Bad == {k \in 0 .. n : upto[k] \notin Nat}
           Low == {d \in 0 .. n : ~ upto[n - d] <= upto[n]}
<1>1. \A k \in 0 .. n : upto[k] = IF k = 0 THEN 0 ELSE upto[k - 1] + seq[k]
  BY DEF TotalEquation
<1>2. Bad = {}
  <2> SUFFICES ASSUME Bad # {} PROVE FALSE
    OBVIOUS
  <2>1. Bad \subseteq Nat
    OBVIOUS
  <2>2. PICK k \in Bad : \A j \in Bad : k <= j
    <3> HIDE DEF Bad
    <3> QED BY <2>1, LeastElement
  <2>3. k # 0
    BY <1>1, <2>2
  <2>4. k - 1 \in 0 .. n /\ upto[k - 1] \in Nat /\ seq[k] \in Nat
    BY <2>2, <2>3
  <2> QED BY <1>1, <2>2, <2>3, <2>4
<1>3. Low = {}
  <2> SUFFICES ASSUME Low # {} PROVE FALSE
    OBVIOUS
  <2>1. Low \subseteq Nat
    OBVIOUS
  <2>2. PICK d \in Low : \A j \in Low : d <= j
    <3> HIDE DEF Low
    <3> QED BY <2>1, LeastElement
  <2>3. d # 0
    BY <1>2, <2>2
  <2> DEFINE k == n - d
  <2>4. d - 1 \in 0 .. n /\ n - (d - 1) = k + 1 /\ k \in 0 .. n /\ k + 1 \in 1 .. n
    BY <2>3
  <2>5. upto[k + 1] <= upto[n]
    BY <2>2, <2>4
  <2>6. upto[k + 1] = upto[k] + seq[k + 1] /\ seq[k + 1] \in Nat
    <3> HIDE DEF k
    <3>1. k + 1 \in 0 .. n /\ k + 1 # 0 /\ (k + 1) - 1 = k
      BY <2>4
    <3> QED BY <1>1, <2>4, <3>1
  <2>7. upto[k] \in Nat /\ upto[k + 1] \in Nat /\ upto[n] \in Nat
    BY <1>2, <2>4
  <2>8. upto[k] <= upto[n]
    BY ONLY <2>5, <2>6, <2>7
  <2> QED BY <2>2, <2>8
<1> QED
  <2>1. \A k \in 0 .. n : upto[k] \in Nat
    BY <1>2
  <2>2. \A k \in 0 .. n : n - (n - k) = k /\ n - k \in 0 .. n
    OBVIOUS
  <2>3. \A k \in 0 .. n : upto[k] <= upto[n]
    BY <1>3, <2>2
  <2> QED BY <2>1, <2>3

LEMMA TotalNat ==
  ASSUME NEW seq, Len(seq) \in Nat, \A k \in 1 .. Len(seq) : seq[k] \in Nat
  PROVE  Total(seq) \in Nat
<1>1. PICK upto : TotalEquation(upto, seq, Len(seq)) /\ Total(seq) = upto[Len(seq)]
  BY TotalOf
<1> QED BY <1>1, TotalsGrow

\* Equal lengths have equal totals.
LEMMA SameTotals ==
  ASSUME NEW c, NEW d, NEW n \in Nat, NEW m \in Nat, n <= m,
         \A k \in 1 .. n : c[k] = d[k],
         NEW f, NEW g, TotalEquation(f, c, n), TotalEquation(g, d, m)
  PROVE  f[n] = g[n]
<1> DEFINE Bad == {k \in 0 .. n : f[k] # g[k]}
<1> SUFFICES ASSUME Bad # {} PROVE FALSE
  OBVIOUS
<1>0. Bad \subseteq Nat
  OBVIOUS
<1>1. PICK k \in Bad : \A j \in Bad : k <= j
  <2> HIDE DEF Bad
  <2> QED BY <1>0, LeastElement
<1>2. /\ f[k] = IF k = 0 THEN 0 ELSE f[k - 1] + c[k]
      /\ g[k] = IF k = 0 THEN 0 ELSE g[k - 1] + d[k]
  BY DEF TotalEquation
<1>3. k # 0
  BY <1>2
<1>4. k - 1 \in 0 .. n /\ f[k - 1] = g[k - 1]
  BY <1>1, <1>3
<1> QED BY <1>2, <1>3, <1>4

LEMMA TotalOfPart ==
  ASSUME NEW part, NEW seq, NEW n \in Nat, NEW m \in Nat, n < m, Len(part) = n, Len(seq) = m,
         \A k \in 1 .. n : part[k] = seq[k], \A k \in 1 .. m : seq[k] \in Nat
  PROVE  Total(part) \in Nat /\ Total(part) + seq[n + 1] <= Total(seq)
<1>1. PICK f : TotalEquation(f, part, n) /\ Total(part) = f[n]
  BY TotalOf
<1>2. PICK g : TotalEquation(g, seq, m) /\ Total(seq) = g[m]
  BY TotalOf
<1>3. f[n] = g[n]
  <2>1. TotalEquation(f, part, n)
    BY <1>1
  <2>2. TotalEquation(g, seq, m)
    BY <1>2
  <2> QED BY ONLY <2>1, <2>2, n \in Nat, m \in Nat, n < m,
                  \A k \in 1 .. n : part[k] = seq[k], SameTotals
<1>4. /\ \A k \in 0 .. m : g[k] \in Nat
      /\ \A k \in 0 .. m : g[k] <= g[m]
  BY <1>2, TotalsGrow
<1>5. n + 1 \in 0 .. m /\ n \in 0 .. m /\ n + 1 # 0 /\ (n + 1) - 1 = n
  OBVIOUS
<1>6. g[n + 1] = g[n] + seq[n + 1]
  BY <1>2, <1>5 DEF TotalEquation
<1> QED BY <1>1, <1>2, <1>3, <1>4, <1>5, <1>6

\* Whatever has its place in a row of records ends where the row ends, or
\* before.
LEMMA PlacedWithin ==
  ASSUME NEW lens \in Seq(Nat), NEW i \in 1 .. Len(lens), NEW from \in Nat
  PROVE  /\ Place(from, lens, i) \in Nat
         /\ Place(from, lens, i) + lens[i] <= from + Total(lens)
<1> DEFINE part == SubSeq(lens, 1, i - 1)
<1>1. PICK n \in Nat, m \in Nat : n = i - 1 /\ m = Len(lens)
  OBVIOUS
<1>2. /\ n < m /\ n + 1 = i /\ Len(part) = n
      /\ \A k \in 1 .. n : part[k] = lens[k]
      /\ \A k \in 1 .. m : lens[k] \in Nat
  BY <1>1
<1>3. Place(from, lens, i) = from + Total(part)
  BY DEF Place
<1> HIDE DEF part
<1>4. Total(part) \in Nat /\ Total(part) + lens[n + 1] <= Total(lens)
  BY <1>1, <1>2, TotalOfPart
<1>5. Total(lens) \in Nat /\ lens[i] \in Nat
  BY <1>1, <1>2, TotalNat
<1> QED BY <1>2, <1>3, <1>4, <1>5
-----------------------------------------------------------------------------
(* Joined sequences: the recursion of Joined has a solution, and only one.  *)

Then(x, y) == x \o y

JoinEquation(upto, parts, n) ==
  upto = [k \in 0 .. n |-> IF k = 0 THEN <<>> ELSE Then(upto[k - 1], parts[k])]

LEMMA JoinsExist ==
  ASSUME NEW parts, NEW n \in Nat
  PROVE  \E upto : JoinEquation(upto, parts, n)
<1> DEFINE Bad == {m \in Nat : ~ \E upto : JoinEquation(upto, parts, m)}
<1> SUFFICES ASSUME Bad # {} PROVE FALSE
  OBVIOUS
<1>1. PICK m \in Bad : \A k \in Bad : m <= k
  BY LeastElement
<1>2. CASE m = 0
  <2>1. JoinEquation([k \in 0 .. 0 |-> <<>>], parts, 0)
    BY DEF JoinEquation
  <2> QED BY <1>2, <2>1
<1>3. CASE m # 0
  <2>1. m - 1 \in Nat /\ m - 1 \notin Bad
    BY <1>1, <1>3
  <2>2. PICK g : JoinEquation(g, parts, m - 1)
    BY <2>1
  <2> DEFINE h == [k \in 0 .. m |-> IF k = m THEN Then(g[m - 1], parts[m]) ELSE g[k]]
  <2>3. \A k \in 0 .. m : h[k] = IF k = 0 THEN <<>> ELSE Then(h[k - 1], parts[k])
    <3> SUFFICES ASSUME NEW k \in 0 .. m
                 PROVE  h[k] = IF k = 0 THEN <<>> ELSE Then(h[k - 1], parts[k])
      OBVIOUS
    <3>1. CASE k = m
      BY <1>3, <3>1
    <3>2. CASE k # m
      <4>1. k \in 0 .. m - 1 /\ (k # 0 => k - 1 \in 0 .. m - 1 /\ k - 1 # m)
        BY <3>2
      <4>2. g[k] = IF k = 0 THEN <<>> ELSE Then(g[k - 1], parts[k])
        BY <2>2, <4>1 DEF JoinEquation
      <4> QED BY <3>2, <4>1, <4>2
    <3> QED BY <3>1, <3>2
  <2>4. JoinEquation(h, parts, m)
    BY <2>3 DEF JoinEquation
  <2> QED BY <2>4
<1> QED BY <1>2, <1>3

LEMMA JoinedOf ==
  ASSUME NEW parts, NEW n \in Nat
  PROVE  \E upto : JoinEquation(upto, parts, n) /\ Joined(parts, n) = upto[n]
<1> DEFINE IsUpto(g) == g = [k \in 0 .. n |-> IF k = 0 THEN <<>> ELSE Then(g[k - 1], parts[k])]
           upto == CHOOSE g : IsUpto(g)
<1>1. \E g : IsUpto(g)
  BY JoinsExist DEF JoinEquation
<1>2. IsUpto(upto)
  <2> HIDE DEF IsUpto
  <2> QED BY <1>1
<1>3. Joined(parts, n) = upto[n]
  BY DEF Joined, Then
<1> QED BY <1>2, <1>3 DEF JoinEquation

LEMMA SameJoins ==
  ASSUME NEW c, NEW d, NEW n \in Nat, NEW m \in Nat, n <= m,
         \A k \in 1 .. n : c[k] = d[k],
         NEW f, NEW g, JoinEquation(f, c, n), JoinEquation(g, d, m)
  PROVE  f[n] = g[n]
<1> DEFINE Bad == {k \in 0 .. n : f[k] # g[k]}
<1> SUFFICES ASSUME Bad # {} PROVE FALSE
  OBVIOUS
<1>0. Bad \subseteq Nat
  OBVIOUS
<1>1. PICK k \in Bad : \A j \in Bad : k <= j
  <2> HIDE DEF Bad
  <2> QED BY <1>0, LeastElement
<1>2. /\ f[k] = IF k = 0 THEN <<>> ELSE Then(f[k - 1], c[k])
      /\ g[k] = IF k = 0 THEN <<>> ELSE Then(g[k - 1], d[k])
  BY DEF JoinEquation
<1>3. k # 0
  BY <1>2
<1>4. k - 1 \in 0 .. n /\ f[k - 1] = g[k - 1]
  BY <1>1, <1>3
<1> QED BY <1>2, <1>3, <1>4

LEMMA JoinedSame ==
  ASSUME NEW c, NEW d, NEW n \in Nat, \A k \in 1 .. n : c[k] = d[k]
  PROVE  Joined(c, n) = Joined(d, n)
<1>1. PICK f : JoinEquation(f, c, n) /\ Joined(c, n) = f[n]
  BY JoinedOf
<1>2. PICK g : JoinEquation(g, d, n) /\ Joined(d, n) = g[n]
  BY JoinedOf
<1>3. f[n] = g[n]
  <2>1. PICK m \in Nat : m = n
    OBVIOUS
  <2>2. JoinEquation(f, c, n) /\ JoinEquation(g, d, m) /\ n <= m
    BY <1>1, <1>2, <2>1
  <2>3. f[n] = g[n]
    BY ONLY <2>2, n \in Nat, m \in Nat, \A k \in 1 .. n : c[k] = d[k], SameJoins
  <2> QED BY <2>3
<1> QED BY <1>1, <1>2, <1>3

LEMMA JoinedNone ==
  ASSUME NEW parts
  PROVE  Joined(parts, 0) = <<>>
<1>1. PICK f : JoinEquation(f, parts, 0) /\ Joined(parts, 0) = f[0]
  BY JoinedOf
<1> QED BY <1>1 DEF JoinEquation

LEMMA JoinedNext ==
  ASSUME NEW parts, NEW n \in Nat, n # 0
  PROVE  Joined(parts, n) = Joined(parts, n - 1) \o parts[n]
<1>1. PICK f : JoinEquation(f, parts, n) /\ Joined(parts, n) = f[n]
  BY JoinedOf
<1>2. n - 1 \in Nat /\ n - 1 <= n
  OBVIOUS
<1>3. PICK g : JoinEquation(g, parts, n - 1) /\ Joined(parts, n - 1) = g[n - 1]
  BY <1>2, JoinedOf
<1>4. g[n - 1] = f[n - 1]
  <2>1. PICK m \in Nat : m = n - 1
    BY <1>2
  <2>2. PICK same : same = parts
    OBVIOUS
  <2>3. /\ JoinEquation(g, same, m) /\ JoinEquation(f, parts, n) /\ m <= n
        /\ \A k \in 1 .. m : same[k] = parts[k]
    BY <1>1, <1>3, <2>1, <2>2
  <2>4. g[m] = f[m]
    BY ONLY <2>3, n \in Nat, m \in Nat, SameJoins
  <2> QED BY <2>1, <2>4
<1>5. f[n] = Then(f[n - 1], parts[n])
  BY <1>1 DEF JoinEquation
<1> QED BY <1>1, <1>3, <1>4, <1>5 DEF Then

\* Of one sequence.
LEMMA JoinedOne ==
  ASSUME NEW S, NEW parts, parts[1] \in Seq(S)
  PROVE  Joined(parts, 1) = parts[1]
<1>1. Joined(parts, 1) = Joined(parts, 0) \o parts[1]
  <2>1. 1 \in Nat /\ 1 # 0 /\ 1 - 1 = 0
    OBVIOUS
  <2>2. Joined(parts, 1) = Joined(parts, 1 - 1) \o parts[1]
    BY <2>1, JoinedNext
  <2> QED BY <2>1, <2>2
<1>2. Joined(parts, 0) = <<>>
  BY JoinedNone
<1> QED BY <1>1, <1>2

\* Of pairs.
Pairs(S, n, a, b, parts) ==
  /\ a \in [1 .. n -> S] /\ b \in [1 .. n -> S]
  /\ \A k \in 1 .. n : parts[k] = <<a[k], b[k]>>

LEMMA JoinedPairs ==
  ASSUME NEW S, NEW n \in Nat, NEW a, NEW b, NEW parts, NEW m \in Nat,
         Pairs(S, n, a, b, parts), m <= n
  PROVE  /\ Joined(parts, m) \in Seq(S) /\ Len(Joined(parts, m)) = 2 * m
         /\ \A k \in 1 .. m : Joined(parts, m)[2 * k - 1] = a[k] /\ Joined(parts, m)[2 * k] = b[k]
<1> USE DEF Pairs
<1> DEFINE Paired(j) ==
             /\ Joined(parts, j) \in Seq(S) /\ Len(Joined(parts, j)) = 2 * j
             /\ \A k \in 1 .. j :
                  Joined(parts, j)[2 * k - 1] = a[k] /\ Joined(parts, j)[2 * k] = b[k]
           Bad == {j \in 0 .. n : ~ Paired(j)}
<1> SUFFICES ASSUME Bad # {} PROVE FALSE
  OBVIOUS
<1>0. Bad \subseteq Nat
  OBVIOUS
<1>1. PICK j \in Bad : \A i \in Bad : j <= i
  <2> HIDE DEF Bad
  <2> QED BY <1>0, LeastElement
<1>2. j # 0
  <2>1. Joined(parts, 0) = <<>>
    BY JoinedNone
  <2>2. Paired(0)
    <3>1. << >> \in Seq(S) /\ Len(<< >>) = 2 * 0 /\ \A k \in 1 .. 0 : FALSE
      OBVIOUS
    <3> QED BY <2>1, <3>1
  <2> HIDE DEF Paired
  <2> QED BY <1>1, <2>2
<1>3. j - 1 \in 0 .. n /\ j \in 1 .. n /\ j \in Nat
  BY <1>1, <1>2
<1>4. Paired(j - 1)
  <2>1. j - 1 \notin Bad
    <3> HIDE DEF Bad
    <3> QED BY <1>0, <1>1, <1>3
  <2> HIDE DEF Paired
  <2> QED BY <1>3, <2>1
<1> DEFINE before == Joined(parts, j - 1)
<1>5. Joined(parts, j) = before \o <<a[j], b[j]>>
  <2>1. parts[j] = <<a[j], b[j]>>
    BY <1>3
  <2> QED BY <1>2, <1>3, <2>1, JoinedNext
<1>6. /\ before \in Seq(S) /\ Len(before) = 2 * (j - 1) /\ a[j] \in S /\ b[j] \in S
      /\ \A k \in 1 .. j - 1 : before[2 * k - 1] = a[k] /\ before[2 * k] = b[k]
  BY <1>3, <1>4
<1> DEFINE all == before \o <<a[j], b[j]>>
<1>7. all \in Seq(S) /\ Len(all) = 2 * j
  <2>1. <<a[j], b[j]>> \in Seq(S) /\ Len(<<a[j], b[j]>>) = 2
    BY <1>6
  <2>2. all \in Seq(S) /\ Len(all) = Len(before) + 2
    BY <1>6, <2>1
  <2>3. Len(before) = 2 * (j - 1)
    BY <1>6
  <2> HIDE DEF all, before
  <2> QED BY <1>3, <2>2, <2>3
<1>8. /\ \A i \in 1 .. 2 * (j - 1) : all[i] = before[i]
      /\ all[2 * (j - 1) + 1] = a[j] /\ all[2 * (j - 1) + 2] = b[j]
  BY <1>3, <1>6
<1> HIDE DEF before, all
<1>9. \A k \in 1 .. j : all[2 * k - 1] = a[k] /\ all[2 * k] = b[k]
  <2> SUFFICES ASSUME NEW k \in 1 .. j
               PROVE  all[2 * k - 1] = a[k] /\ all[2 * k] = b[k]
    OBVIOUS
  <2>1. CASE k = j
    <3>1. 2 * k - 1 = 2 * (j - 1) + 1 /\ 2 * k = 2 * (j - 1) + 2
      BY <1>3, <2>1
    <3> QED BY <1>8, <2>1, <3>1
  <2>2. CASE k # j
    <3>1. /\ k \in 1 .. j - 1 /\ 2 * k - 1 \in 1 .. 2 * (j - 1)
          /\ 2 * k \in 1 .. 2 * (j - 1)
      BY <1>3, <2>2
    <3> QED BY <1>6, <1>8, <3>1
  <2> QED BY <2>1, <2>2
<1>10. Paired(j)
  BY <1>5, <1>7, <1>9 DEF all
<1> HIDE DEF Paired
<1> QED BY <1>1, <1>10
-----------------------------------------------------------------------------
(* Lengths are numbers.                                                    *)

BranchList(bs) == bs \in Seq({b \in ToSet(bs) : IsBranch(b)})

LEMMA BranchesAre ==
  ASSUME NEW bs, BranchList(bs)
  PROVE  Len(bs) \in Nat /\ DOMAIN bs = 1 .. Len(bs) /\ \A i \in DOMAIN bs : IsBranch(bs[i])
BY DEF BranchList

LEMMA WidthNat ==
  ASSUME NEW b, IsBranch(b)
  PROVE  Width(b.type) \in Nat
BY DEF IsBranch, Width

LEMMA HeaderNat ==
  ASSUME NEW c \in Nat, NEW n \in Nat, NEW t \in Nat
  PROVE  KeyHeader(c, n, t) \in Nat /\ Named(n, t) \in Nat
BY DEF KeyHeader, Named, Checked, StringLen

LEMMA BasketNat ==
  ASSUME NEW t \in Nat, NEW b, IsBranch(b)
  PROVE  BasketLen(t, b) \in Nat /\ BasketLen(t, b) > 0
<1>1. b.chars \in Nat /\ b.jagged \in BOOLEAN /\ Len(b.rows) \in Nat /\ Width(b.type) \in Nat
  BY WidthNat DEF IsBranch
<1>2. KeyHeader(7, b.chars, t + 12 + b.chars) \in Nat
  <2>1. 7 \in Nat /\ t + 12 + b.chars \in Nat
    BY <1>1
  <2> QED BY <1>1, <2>1, HeaderNat
<1>3. CASE b.jagged
  <2>1. b.rows \in Seq(Nat)
    BY <1>3 DEF IsBranch
  <2>2. Total(b.rows) \in Nat
    BY <2>1, TotalNat
  <2>3. Total(b.rows) * Width(b.type) \in Nat
    BY <1>1, <2>2
  <2> QED BY <1>1, <1>2, <1>3, <2>3 DEF BasketLen
<1>4. CASE ~b.jagged
  <2>1. Len(b.rows) * Width(b.type) \in Nat
    BY <1>1
  <2> QED BY <1>2, <1>4, <2>1 DEF BasketLen
<1> QED BY <1>1, <1>3, <1>4

\* The counter of a branch that fits is a branch before it, of the name that
\* was asked for.
LEMMA CounterBefore ==
  ASSUME NEW bs, NEW i \in Nat, bs[i].jagged, CounterFits(bs, i)
  PROVE  CounterOf(bs, i) \in 1 .. i - 1 /\ bs[CounterOf(bs, i)].name = CounterName(bs[i])
<1> DEFINE earlier == {j \in 1 .. i - 1 : bs[j].name = CounterName(bs[i])}
<1>1. CounterOf(bs, i) = CHOOSE j \in earlier : \A k \in earlier : j <= k
  BY DEF CounterFits, CounterOf
<1>2. earlier # {} /\ earlier \subseteq Nat
  BY DEF CounterFits, CounterOf
<1> HIDE DEF earlier
<1>3. PICK j \in earlier : \A k \in earlier : j <= k
  BY <1>2, LeastElement
<1>4. CounterOf(bs, i) \in earlier
  BY <1>1, <1>3
<1> QED BY <1>4 DEF earlier

LEMMA TitleNat ==
  ASSUME NEW bs, BranchList(bs), Writable(bs), NEW i \in DOMAIN bs
  PROVE  LeafTitle(bs, i) \in Nat /\ bs[i].chars \in Nat
<1>1. IsBranch(bs[i]) /\ i \in 1 .. Len(bs) /\ Len(bs) \in Nat
  BY BranchesAre
<1>2. bs[i].chars \in Nat /\ bs[i].jagged \in BOOLEAN
  BY <1>1 DEF IsBranch
<1>3. CASE bs[i].jagged
  <2>1. CounterOf(bs, i) \in 1 .. i - 1
    BY <1>1, <1>3, CounterBefore DEF Writable
  <2>2. bs[CounterOf(bs, i)].chars \in Nat
    BY <1>1, <2>1, BranchesAre DEF IsBranch
  <2> QED BY <1>2, <1>3, <2>2 DEF LeafTitle
<1>4. CASE ~bs[i].jagged
  BY <1>2, <1>4 DEF LeafTitle
<1> QED BY <1>2, <1>3, <1>4

LEMMA BeforeLeavesNat ==
  ASSUME NEW bs, BranchList(bs), Writable(bs), NEW i \in DOMAIN bs
  PROVE  BeforeLeaves(bs, i) \in Nat
<1>1. bs[i].chars \in Nat /\ BranchTitle(bs, i) \in Nat
  BY TitleNat DEF BranchTitle
<1>2. Named(bs[i].chars, BranchTitle(bs, i)) \in Nat
  BY <1>1, HeaderNat
<1> QED BY <1>2 DEF BeforeLeaves, Checked, ObjArray

LEMMA BranchBodyNat ==
  ASSUME NEW bs, BranchList(bs), Writable(bs), NEW i \in DOMAIN bs
  PROVE  BranchBody(bs, i) \in Nat
<1>1. Width(bs[i].type) \in Nat
  BY BranchesAre, WidthNat
<1>2. LeafTitle(bs, i) \in Nat /\ bs[i].chars \in Nat
  BY TitleNat
<1>3. Named(bs[i].chars, LeafTitle(bs, i)) \in Nat
  BY <1>2, HeaderNat
<1>4. LeafBody(bs, i) \in Nat
  BY <1>1, <1>3 DEF LeafBody, Checked
<1>5. BeforeLeaves(bs, i) \in Nat
  BY BeforeLeavesNat
<1> QED BY <1>4, <1>5 DEF BranchBody, Checked, ObjArray, Raw, RawPrefix

LEMMA BranchAtNat ==
  ASSUME NEW t \in Nat, NEW bs, BranchList(bs), Writable(bs), NEW i \in 1 .. Len(bs) + 1
  PROVE  /\ BeforeBranches(t) \in Nat /\ BranchAt(t, bs, i) \in Nat
         /\ 4 + BeforeBranches(t) + 4 + ObjArray <= BranchAt(t, bs, i)
<1> DEFINE bodies == [j \in 1 .. i - 1 |-> Raw(7, BranchBody(bs, j))]
<1>1. Len(bs) \in Nat /\ DOMAIN bs = 1 .. Len(bs) /\ i - 1 \in Nat
  BY BranchesAre
<1>2. Total(bodies) \in Nat
  <2>1. \A j \in 1 .. i - 1 : Raw(7, BranchBody(bs, j)) \in Nat
    BY <1>1, BranchBodyNat DEF Raw, RawPrefix, Checked
  <2>2. Len(bodies) = i - 1 /\ \A j \in 1 .. i - 1 : bodies[j] \in Nat
    BY <1>1, <2>1
  <2> HIDE DEF bodies
  <2> QED BY <1>1, <2>2, TotalNat
<1>3. BeforeBranches(t) \in Nat
  <2>1. Named(t, t) \in Nat
    BY HeaderNat
  <2> QED BY <2>1 DEF BeforeBranches, Checked
<1>4. BranchAt(t, bs, i) = 4 + BeforeBranches(t) + 4 + ObjArray + Total(bodies)
  BY DEF BranchAt
<1> HIDE DEF bodies
<1> QED BY <1>2, <1>3, <1>4 DEF ObjArray

LEMMA TreeNat ==
  ASSUME NEW t \in Nat, NEW bs, BranchList(bs), Writable(bs)
  PROVE  TreeLen(t, bs) \in Nat
<1>1. PICK n \in Nat : n = Len(bs)
  BY BranchesAre
<1>2. BranchAt(t, bs, Len(bs) + 1) \in Nat
  BY <1>1, BranchAtNat
<1> QED BY <1>1, <1>2 DEF TreeLen, Checked, ObjArray

LEMMA LeafAtNat ==
  ASSUME NEW t \in Nat, NEW bs, BranchList(bs), Writable(bs), NEW i \in DOMAIN bs
  PROVE  LeafAt(t, bs, i) \in Nat
<1>1. i \in 1 .. Len(bs) + 1
  BY BranchesAre
<1>2. BranchAt(t, bs, i) \in Nat
  BY <1>1, BranchAtNat
<1> QED BY <1>2, BeforeLeavesNat DEF LeafAt, RawPrefix, ObjArray
-----------------------------------------------------------------------------
(* The records of a file.                                                  *)

\* The key list is put after the tree and its baskets.
KeysLast(records) ==
  \A k, r \in ToSet(records) :
    k.kind = "keys" /\ r.kind \in {"tree", "basket"} => EndOf(r) <= k.at

\* A record in a file whose key list is at keysAt.
Fits(r, keysAt) ==
  /\ IsRecord(r)
  /\ r.kind = "keys" => r.at = keysAt
  /\ r.kind \in {"tree", "basket"} => EndOf(r) <= keysAt

LEMMA RecordFits ==
  ASSUME NEW kind, NEW at \in Nat, NEW len \in Nat, NEW holds, NEW keysAt,
         kind = "directory" => holds.keysAt \in Nat /\ holds.keysLen \in Nat,
         kind = "keys" => at = keysAt,
         kind \in {"tree", "basket"} => at + len <= keysAt
  PROVE  Fits(Record(kind, at, len, holds), keysAt)
BY DEF Fits, IsRecord, Record, EndOf

LEMMA PlacesNat ==
  ASSUME NEW t \in Nat, NEW bs, BranchList(bs), Writable(bs)
  PROVE  /\ KeyHeader(5, t, t) \in Nat /\ KeysLen(t) \in Nat /\ InfosLen \in Nat
         /\ TreeEnd(t, bs) \in Nat /\ BasketsLen(t, bs) \in Nat
         /\ [j \in DOMAIN bs |-> BasketLen(t, bs[j])] \in Seq(Nat)
         /\ Len([j \in DOMAIN bs |-> BasketLen(t, bs[j])]) = Len(bs)
<1>1. KeyHeader(5, t, t) \in Nat /\ KeyHeader(5, 9, 9) \in Nat /\ KeyHeader(5, 12, 18) \in Nat
  BY HeaderNat
<1>2. KeysLen(t) \in Nat /\ InfosLen \in Nat
  BY <1>1 DEF KeysLen, InfosLen, Checked
<1>3. TreeEnd(t, bs) \in Nat
  BY <1>1, TreeNat DEF TreeEnd, TreeOffset, FileBegin
<1> DEFINE lens == [j \in DOMAIN bs |-> BasketLen(t, bs[j])]
<1>4. lens \in Seq(Nat) /\ Len(lens) = Len(bs)
  <2>1. DOMAIN bs = 1 .. Len(bs) /\ Len(bs) \in Nat
    BY BranchesAre
  <2>2. \A j \in DOMAIN bs : BasketLen(t, bs[j]) \in Nat
    BY BranchesAre, BasketNat
  <2> QED BY <2>1, <2>2
<1>5. BasketsLen(t, bs) \in Nat
  <2>1. BasketsLen(t, bs) = Total(lens)
    BY DEF BasketsLen
  <2> HIDE DEF lens
  <2> QED BY <1>4, <2>1, TotalNat
<1> QED BY <1>1, <1>2, <1>3, <1>4, <1>5

\* What write_tree writes, record by record.
TreeRecord(t, bs) ==
  Record("tree", TreeOffset + KeyHeader(5, t, t), TreeLen(t, bs),
         TreeObject(t, bs, TreeEnd(t, bs)))
KeysRecord(t, bs) ==
  Record("keys", TreeEnd(t, bs) + BasketsLen(t, bs), KeysLen(t),
         [treeAt |-> TreeOffset + KeyHeader(5, t, t), treeLen |-> TreeLen(t, bs)])
InfosRecord(t, bs) ==
  Record("infos", TreeEnd(t, bs) + BasketsLen(t, bs) + KeysLen(t), InfosLen + 4, {})
HeadOf(t, bs) ==
  HeadRecords(TreeEnd(t, bs) + BasketsLen(t, bs) + KeysLen(t), InfosLen,
              TreeEnd(t, bs) + BasketsLen(t, bs), KeysLen(t))

LEMMA ThenSet ==
  ASSUME NEW S, NEW x \in Seq(S), NEW y \in Seq(S)
  PROVE  x \o y \in Seq(S) /\ ToSet(x \o y) = ToSet(x) \cup ToSet(y)
<1> DEFINE z == x \o y
<1>1. z \in Seq(S) /\ Len(z) = Len(x) + Len(y)
  OBVIOUS
<1>2. \A k \in 1 .. Len(x) : z[k] = x[k]
  OBVIOUS
<1>3. \A k \in 1 .. Len(y) : z[Len(x) + k] = y[k]
  OBVIOUS
<1>4. Len(x) \in Nat /\ Len(y) \in Nat /\ DOMAIN x = 1 .. Len(x) /\ DOMAIN y = 1 .. Len(y)
  OBVIOUS
<1>5. DOMAIN z = 1 .. Len(x) + Len(y)
  BY <1>1
<1> HIDE DEF z
<1>6. ASSUME NEW e \in ToSet(z) PROVE e \in ToSet(x) \cup ToSet(y)
  <2>1. PICK k \in 1 .. Len(x) + Len(y) : e = z[k]
    BY <1>5 DEF ToSet
  <2>2. CASE k <= Len(x)
    <3>1. k \in DOMAIN x /\ e = x[k]
      BY <1>2, <1>4, <2>1, <2>2
    <3> QED BY <3>1 DEF ToSet
  <2>3. CASE k > Len(x)
    <3> DEFINE j == k - Len(x)
    <3>1. j \in 1 .. Len(y) /\ k = Len(x) + j
      <4>1. PICK m \in Nat, n \in Nat : m = Len(x) /\ n = Len(y)
        BY <1>4
      <4> QED BY <2>3, <4>1
    <3> HIDE DEF j
    <3>2. e = y[j]
      BY <1>3, <2>1, <3>1
    <3> QED BY <1>4, <3>1, <3>2 DEF ToSet
  <2> QED BY <1>4, <2>2, <2>3
<1>7. ASSUME NEW e \in ToSet(x) PROVE e \in ToSet(z)
  <2>1. PICK k \in 1 .. Len(x) : e = x[k]
    BY <1>4 DEF ToSet
  <2>2. k \in DOMAIN z /\ z[k] = e
    BY <1>2, <1>4, <1>5, <2>1
  <2> QED BY <2>2 DEF ToSet
<1>8. ASSUME NEW e \in ToSet(y) PROVE e \in ToSet(z)
  <2>1. PICK k \in 1 .. Len(y) : e = y[k]
    BY <1>4 DEF ToSet
  <2>2. Len(x) + k \in DOMAIN z /\ z[Len(x) + k] = e
    BY <1>3, <1>4, <1>5, <2>1
  <2> QED BY <2>2 DEF ToSet
<1> QED BY <1>1, <1>6, <1>7, <1>8 DEF z

LEMMA WrittenRecords ==
  ASSUME NEW v, NEW t \in Nat, NEW bs, BranchList(bs), Writable(bs)
  PROVE  /\ TreeRecord(t, bs) \in ToSet(WriteTree(v, t, bs))
         /\ \A i \in DOMAIN bs :
              BasketRecords(v, t, bs, TreeEnd(t, bs))[i] \in ToSet(WriteTree(v, t, bs))
         /\ \A r \in ToSet(WriteTree(v, t, bs)) :
              \/ r \in {HeadOf(t, bs)[1], HeadOf(t, bs)[2], TreeRecord(t, bs),
                        KeysRecord(t, bs), InfosRecord(t, bs)}
              \/ \E i \in DOMAIN bs : r = BasketRecords(v, t, bs, TreeEnd(t, bs))[i]
<1> DEFINE first == HeadOf(t, bs)[1]
           second == HeadOf(t, bs)[2]
           third == TreeRecord(t, bs)
           baskets == BasketRecords(v, t, bs, TreeEnd(t, bs))
           keys == KeysRecord(t, bs)
           infos == InfosRecord(t, bs)
           S == {first, second, third} \cup {baskets[i] : i \in DOMAIN bs} \cup {keys, infos}
<1>1. WriteTree(v, t, bs) = HeadOf(t, bs) \o <<third>> \o baskets \o <<keys, infos>>
  BY DEF WriteTree, Places, HeadOf, TreeRecord, KeysRecord, InfosRecord
<1>2. HeadOf(t, bs) = <<first, second>>
  BY DEF HeadOf, HeadRecords
<1>3. baskets = [i \in 1 .. Len(bs) |-> baskets[i]] /\ Len(bs) \in Nat /\ DOMAIN bs = 1 .. Len(bs)
  BY BranchesAre DEF BasketRecords
<1>4. DOMAIN baskets = DOMAIN bs
  BY DEF BasketRecords
<1>5. first \in S /\ second \in S /\ third \in S /\ keys \in S /\ infos \in S
  OBVIOUS
<1>6. \A i \in 1 .. Len(bs) : baskets[i] \in S
  BY <1>3
<1> HIDE DEF first, second, third, baskets, keys, infos, S
<1>7. <<first, second>> \in Seq(S) /\ <<third>> \in Seq(S) /\ <<keys, infos>> \in Seq(S)
  BY <1>5
<1>8. baskets \in Seq(S)
  BY <1>3, <1>6
<1>9. /\ ToSet(<<first, second>>) = {first, second} /\ ToSet(<<third>>) = {third}
      /\ ToSet(<<keys, infos>>) = {keys, infos}
  <2>1. \A x : ToSet(<<x>>) = {x}
    BY DEF ToSet
  <2>2. \A x, y : ToSet(<<x, y>>) = {x, y}
    BY DEF ToSet
  <2> QED BY <2>1, <2>2
<1>10. ToSet(baskets) = {baskets[i] : i \in DOMAIN bs}
  BY <1>4 DEF ToSet
<1>11. PICK head, middle, last :
         head = <<first, second>> /\ middle = <<third>> /\ last = <<keys, infos>>
  OBVIOUS
<1>12. head \in Seq(S) /\ middle \in Seq(S) /\ last \in Seq(S)
  BY <1>7, <1>11
<1>13. head \o middle \in Seq(S) /\ ToSet(head \o middle) = ToSet(head) \cup ToSet(middle)
  BY ONLY <1>12, ThenSet
<1>14. PICK two : two = head \o middle
  OBVIOUS
<1>15. two \o baskets \in Seq(S) /\ ToSet(two \o baskets) = ToSet(two) \cup ToSet(baskets)
  <2>1. two \in Seq(S)
    BY <1>13, <1>14
  <2> QED BY ONLY <1>8, <2>1, ThenSet
<1>16. PICK three : three = two \o baskets
  OBVIOUS
<1>17. ToSet(three \o last) = ToSet(three) \cup ToSet(last)
  <2>1. three \in Seq(S)
    BY <1>15, <1>16
  <2> QED BY ONLY <1>12, <2>1, ThenSet
<1>18. WriteTree(v, t, bs) = three \o last
  BY <1>1, <1>2, <1>11, <1>14, <1>16
<1>19. ToSet(WriteTree(v, t, bs))
         = {first, second} \cup {third} \cup {baskets[i] : i \in DOMAIN bs} \cup {keys, infos}
  BY <1>9, <1>10, <1>11, <1>13, <1>14, <1>15, <1>16, <1>17, <1>18
<1>20. third \in ToSet(WriteTree(v, t, bs))
  BY <1>19
<1>21. \A i \in DOMAIN bs : baskets[i] \in ToSet(WriteTree(v, t, bs))
  BY <1>19
<1>22. \A r \in ToSet(WriteTree(v, t, bs)) :
         r \in {first, second, third, keys, infos} \/ \E i \in DOMAIN bs : r = baskets[i]
  BY <1>19
<1> QED BY <1>20, <1>21, <1>22 DEF first, second, third, baskets, keys, infos

\* The file of write_tree, whatever the branches it takes.
LEMMA WrittenFits ==
  ASSUME NEW v, NEW t \in Nat, NEW bs, BranchList(bs), Writable(bs),
         NEW r \in ToSet(WriteTree(v, t, bs))
  PROVE  Fits(r, TreeEnd(t, bs) + BasketsLen(t, bs))
<1> DEFINE keysAt == TreeEnd(t, bs) + BasketsLen(t, bs)
           treeAt == TreeOffset + KeyHeader(5, t, t)
           infosAt == keysAt + KeysLen(t)
<1>1. /\ keysAt \in Nat /\ KeysLen(t) \in Nat /\ InfosLen \in Nat /\ TreeEnd(t, bs) \in Nat
      /\ treeAt \in Nat /\ TreeLen(t, bs) \in Nat /\ BasketsLen(t, bs) \in Nat
      /\ infosAt \in Nat /\ InfosLen + 4 \in Nat
      /\ treeAt + TreeLen(t, bs) = TreeEnd(t, bs)
  <2>1. /\ KeyHeader(5, t, t) \in Nat /\ KeysLen(t) \in Nat /\ InfosLen \in Nat
        /\ TreeEnd(t, bs) \in Nat /\ BasketsLen(t, bs) \in Nat
    BY PlacesNat
  <2>2. TreeLen(t, bs) \in Nat
    BY TreeNat
  <2>3. TreeOffset = 130 /\ TreeEnd(t, bs) = TreeOffset + KeyHeader(5, t, t) + TreeLen(t, bs)
    BY DEF TreeOffset, FileBegin, TreeEnd
  <2> QED BY ONLY <2>1, <2>2, <2>3
<1>2. ASSUME NEW i \in DOMAIN bs
      PROVE  Fits(BasketRecords(v, t, bs, TreeEnd(t, bs))[i], keysAt)
  <2> DEFINE lens == [j \in DOMAIN bs |-> BasketLen(t, bs[j])]
             place == Place(TreeEnd(t, bs), lens, i)
             cells == [entries |-> Len(bs[i].rows),
                       cells |-> Cells(v, bs[i], 1, Len(bs[i].rows))]
  <2>1. BasketRecords(v, t, bs, TreeEnd(t, bs))[i] = Record("basket", place, lens[i], cells)
    BY DEF BasketRecords
  <2>2. lens \in Seq(Nat) /\ i \in 1 .. Len(lens) /\ lens[i] \in Nat
    <3>1. lens \in Seq(Nat) /\ Len(lens) = Len(bs)
      BY PlacesNat
    <3>2. i \in 1 .. Len(lens)
      BY <3>1, BranchesAre
    <3> QED BY <3>1, <3>2
  <2>3. Total(lens) = BasketsLen(t, bs)
    BY DEF BasketsLen
  <2> HIDE DEF lens
  <2>4. place \in Nat /\ place + lens[i] <= keysAt
    BY <1>1, <2>2, <2>3, PlacedWithin
  <2> HIDE DEF place, cells, keysAt
  <2> QED BY <2>1, <2>2, <2>4, RecordFits
<1>3. Fits(HeadOf(t, bs)[1], keysAt)
  <2>1. HeadOf(t, bs)[1] = Record("header", 0, 75, [infosAt |-> infosAt, infosLen |-> InfosLen])
    BY DEF HeadOf, HeadRecords
  <2> HIDE DEF keysAt, infosAt
  <2> QED BY <2>1, RecordFits
<1>4. Fits(HeadOf(t, bs)[2], keysAt)
  <2> DEFINE dirs == [keysAt |-> keysAt, keysLen |-> KeysLen(t)]
  <2>1. HeadOf(t, bs)[2] = Record("directory", FileBegin, 30, dirs)
    BY DEF HeadOf, HeadRecords
  <2>2. dirs.keysAt \in Nat /\ dirs.keysLen \in Nat /\ FileBegin \in Nat
    BY <1>1 DEF FileBegin
  <2> HIDE DEF keysAt, dirs
  <2> QED BY <2>1, <2>2, RecordFits
<1>5. Fits(TreeRecord(t, bs), keysAt)
  <2>1. treeAt + TreeLen(t, bs) <= keysAt
    BY <1>1
  <2>2. TreeRecord(t, bs)
          = Record("tree", treeAt, TreeLen(t, bs), TreeObject(t, bs, TreeEnd(t, bs)))
    BY DEF TreeRecord
  <2> HIDE DEF treeAt, keysAt
  <2> QED BY <1>1, <2>1, <2>2, RecordFits
<1>6. Fits(KeysRecord(t, bs), keysAt) /\ Fits(InfosRecord(t, bs), keysAt)
  <2>1. /\ KeysRecord(t, bs) = Record("keys", keysAt, KeysLen(t),
                                      [treeAt |-> treeAt, treeLen |-> TreeLen(t, bs)])
        /\ InfosRecord(t, bs) = Record("infos", infosAt, InfosLen + 4, {})
    BY DEF KeysRecord, InfosRecord
  <2> HIDE DEF treeAt, keysAt, infosAt
  <2>2. Fits(KeysRecord(t, bs), keysAt)
    BY <1>1, <2>1, RecordFits
  <2>3. Fits(InfosRecord(t, bs), keysAt)
    BY <1>1, <2>1, RecordFits
  <2> QED BY <2>2, <2>3
<1> HIDE DEF keysAt
<1> QED BY <1>2, <1>3, <1>4, <1>5, <1>6, WrittenRecords DEF keysAt

LEMMA WrittenInOrder ==
  ASSUME NEW v, NEW t \in Nat, NEW bs, BranchList(bs), Writable(bs)
  PROVE  /\ \A r \in ToSet(WriteTree(v, t, bs)) : IsRecord(r)
         /\ KeysLast(WriteTree(v, t, bs))
BY WrittenFits DEF Fits, KeysLast
-----------------------------------------------------------------------------
(* What parse_tree makes of a tree that write_tree wrote.                  *)

LEMMA TreeFields ==
  ASSUME NEW t, NEW bs, NEW at, BranchList(bs)
  PROVE  /\ TreeObject(t, bs, at).entries = Len(bs[1].rows)
         /\ TreeObject(t, bs, at).keyLen = KeyHeader(5, t, t)
         /\ DOMAIN TreeObject(t, bs, at).branches = DOMAIN bs
         /\ Len(TreeObject(t, bs, at).branches) = Len(bs)
         /\ DOMAIN TreeObject(t, bs, at).leaves = DOMAIN bs
         /\ \A i \in DOMAIN bs : TreeObject(t, bs, at).leaves[i] = ByteTag(t, bs, i)
<1> DEFINE tree0 == TreeObject(t, bs, at)
<1>1. DOMAIN bs = 1 .. Len(bs) /\ Len(bs) \in Nat
  BY BranchesAre
<1>2. tree0.entries = Len(bs[1].rows) /\ tree0.keyLen = KeyHeader(5, t, t)
  BY DEF TreeObject
<1>3. DOMAIN tree0.branches = DOMAIN bs
  BY DEF TreeObject
<1>4. Len(tree0.branches) = Len(bs)
  <2>1. \A x : Len([i \in 1 .. Len(bs) |-> x[i]]) = Len(bs)
    BY <1>1
  <2> DEFINE x == tree0.branches
  <2>2. x = [i \in 1 .. Len(bs) |-> x[i]]
    BY <1>1 DEF TreeObject
  <2> HIDE DEF x, tree0
  <2> QED BY <2>1, <2>2 DEF x
<1>5. DOMAIN tree0.leaves = DOMAIN bs /\ \A i \in DOMAIN bs : tree0.leaves[i] = ByteTag(t, bs, i)
  BY DEF TreeObject
<1> QED BY <1>2, <1>3, <1>4, <1>5

\* The i-th branch of a tree that write_tree wrote.
BranchWritten(t, bs, at, i) ==
  [at |-> BranchAt(t, bs, i), name |-> bs[i].name, entries |-> Len(bs[1].rows),
   embedded |-> <<>>, writeBasket |-> 1,
   basketBytes |-> <<BasketLen(t, bs[i])>>, basketEntry |-> <<0>>,
   basketSeek |-> <<Place(at, [j \in DOMAIN bs |-> BasketLen(t, bs[j])], i)>>,
   leaf |-> [at |-> LeafAt(t, bs, i), name |-> bs[i].name, count |-> CounterTag(bs, i)]]

LEMMA BranchFields ==
  ASSUME NEW t, NEW bs, NEW at, NEW i, i \in DOMAIN bs
  PROVE  TreeObject(t, bs, at).branches[i] = BranchWritten(t, bs, at, i)
BY DEF TreeObject, BranchWritten

BranchRead(t, bs, i) == [class |-> "TBranch", at |-> BranchAt(t, bs, i), name |-> bs[i].name]
LeafRead(t, bs, i) == [class |-> "TLeaf", at |-> LeafAt(t, bs, i), name |-> bs[i].name]

\* Branch i is object 2i - 1, its leaf object 2i.
LEMMA ObjectsRead ==
  ASSUME NEW t, NEW bs, NEW at, NEW m \in Nat, NEW objects,
         BranchList(bs), m <= Len(bs), objects = ObjectsOf(TreeObject(t, bs, at), m)
  PROVE  /\ Len(objects) = 2 * m /\ DOMAIN objects = 1 .. 2 * m
         /\ \A i \in 1 .. m : /\ objects[2 * i - 1] = BranchRead(t, bs, i)
                              /\ objects[2 * i] = LeafRead(t, bs, i)
<1>1. PICK n \in Nat : n = Len(bs)
  BY BranchesAre
<1>2. PICK tree0 : tree0 = TreeObject(t, bs, at)
  OBVIOUS
<1> DEFINE part(i) == LET b == tree0.branches[i]
                      IN <<[class |-> "TBranch", at |-> b.at, name |-> b.name],
                           [class |-> "TLeaf", at |-> b.leaf.at, name |-> b.leaf.name]>>
                           \o [k \in DOMAIN b.embedded |->
                                 [class |-> "TBasket", at |-> 0, name |-> b.name]]
           parts == [i \in DOMAIN tree0.branches |-> part(i)]
           first == [i \in 1 .. n |-> BranchRead(t, bs, i)]
           second == [i \in 1 .. n |-> LeafRead(t, bs, i)]
           S == {first[i] : i \in 1 .. n} \cup {second[i] : i \in 1 .. n}
<1>3. DOMAIN bs = 1 .. n /\ DOMAIN tree0.branches = 1 .. n
  <2>1. DOMAIN bs = 1 .. n
    BY <1>1, BranchesAre
  <2> QED BY ONLY <1>2, <2>1, BranchList(bs), TreeFields
<1>4. ASSUME NEW i \in 1 .. n PROVE parts[i] = <<first[i], second[i]>>
  <2>1. i \in DOMAIN bs
    BY <1>3
  <2>2. PICK b : b = tree0.branches[i]
    OBVIOUS
  <2>3. /\ b.at = BranchAt(t, bs, i) /\ b.name = bs[i].name /\ b.embedded = <<>>
        /\ b.leaf.at = LeafAt(t, bs, i) /\ b.leaf.name = bs[i].name
    <3>1. b = BranchWritten(t, bs, at, i)
      BY <1>2, <2>1, <2>2, BranchFields
    <3> QED BY ONLY <3>1 DEF BranchWritten
  <2> DEFINE none == [k \in DOMAIN b.embedded |->
                        [class |-> "TBasket", at |-> 0, name |-> b.name]]
             two == <<[class |-> "TBranch", at |-> b.at, name |-> b.name],
                      [class |-> "TLeaf", at |-> b.leaf.at, name |-> b.leaf.name]>>
  <2>4. none = <<>>
    BY <2>3
  <2>5. two = <<first[i], second[i]>>
    BY <2>3 DEF BranchRead, LeafRead
  <2>6. parts[i] = two \o none
    BY <1>3, <2>2
  <2>7. \A x, y : <<x, y>> \o <<>> = <<x, y>>
    <3> TAKE x, y
    <3>1. <<x, y>> \in Seq({x, y})
      OBVIOUS
    <3> QED BY <3>1
  <2> HIDE DEF two, none, parts, first, second
  <2> QED BY <2>4, <2>5, <2>6, <2>7
<1>5. objects = Joined(parts, m)
  BY <1>2 DEF ObjectsOf
<1>6. first \in [1 .. n -> S] /\ second \in [1 .. n -> S] /\ m <= n
  BY <1>1
<1>7. /\ objects \in Seq(S) /\ Len(objects) = 2 * m
      /\ \A k \in 1 .. m : objects[2 * k - 1] = first[k] /\ objects[2 * k] = second[k]
  <2> HIDE DEF parts, first, second, S
  <2>1. Pairs(S, n, first, second, parts)
    BY <1>4, <1>6 DEF Pairs
  <2>2. m <= n
    BY <1>6
  <2>3. PICK joined : joined = Joined(parts, m)
    OBVIOUS
  <2>4. /\ joined \in Seq(S) /\ Len(joined) = 2 * m
        /\ \A k \in 1 .. m : joined[2 * k - 1] = first[k] /\ joined[2 * k] = second[k]
    BY ONLY m \in Nat, n \in Nat, <2>1, <2>2, <2>3, JoinedPairs
  <2> QED BY ONLY <1>5, <2>3, <2>4
<1>8. DOMAIN objects = 1 .. 2 * m
  <2> HIDE DEF S
  <2> QED BY <1>7
<1>9. \A k \in 1 .. m : first[k] = BranchRead(t, bs, k) /\ second[k] = LeafRead(t, bs, k)
  BY <1>6
<1> HIDE DEF first, second
<1> QED BY <1>7, <1>8, <1>9
-----------------------------------------------------------------------------
(* Its references.  A tag is taken for the number of an object first, so a  *)
(* place found by its tag must lie beyond all numbers.                      *)

PlacesBeyond(t, bs) ==
  \A i \in DOMAIN bs : 2 * Len(bs) < KeyHeader(5, t, t) + LeafAt(t, bs, i)

\* A tree of up to 200 branches is in no danger.
LEMMA FewBranches ==
  ASSUME NEW t \in Nat \ {0}, NEW bs, BranchList(bs), Writable(bs), Len(bs) <= 200
  PROVE  PlacesBeyond(t, bs)
<1> SUFFICES ASSUME NEW i \in DOMAIN bs
             PROVE  2 * Len(bs) < KeyHeader(5, t, t) + LeafAt(t, bs, i)
  BY DEF PlacesBeyond
<1>1. Len(bs) \in Nat /\ i \in 1 .. Len(bs) + 1
  BY BranchesAre
<1>2. ASSUME NEW n \in Nat, n # 0
      PROVE  StringLen(n) \in Nat /\ 2 <= StringLen(n)
  BY <1>2 DEF StringLen
<1>3. ASSUME NEW x \in Nat, NEW y \in Nat, x # 0, y # 0
      PROVE  Named(x, y) \in Nat /\ 20 <= Named(x, y)
  <2>1. StringLen(x) \in Nat /\ 2 <= StringLen(x) /\ StringLen(y) \in Nat /\ 2 <= StringLen(y)
    BY <1>2, <1>3
  <2> QED BY <2>1 DEF Named, Checked
<1>4. KeyHeader(5, t, t) \in Nat /\ 44 <= KeyHeader(5, t, t)
  <2>1. StringLen(5) = 6
    BY DEF StringLen
  <2>2. StringLen(t) \in Nat /\ 2 <= StringLen(t)
    BY <1>2
  <2> QED BY <2>1, <2>2 DEF KeyHeader
<1>5. bs[i].chars \in Nat /\ bs[i].chars # 0
      /\ BranchTitle(bs, i) \in Nat /\ BranchTitle(bs, i) # 0
  BY TitleNat DEF Writable, BranchTitle
<1>6. BeforeBranches(t) \in Nat /\ 170 <= BeforeBranches(t)
  <2>1. Named(t, t) \in Nat /\ 20 <= Named(t, t)
    BY <1>3
  <2>2. BeforeBranches(t) = Named(t, t) + 150
    BY <2>1 DEF BeforeBranches, Checked
  <2> QED BY <2>1, <2>2
<1>7. BeforeLeaves(bs, i) \in Nat /\ 125 <= BeforeLeaves(bs, i)
  <2>1. Named(bs[i].chars, BranchTitle(bs, i)) \in Nat
        /\ 20 <= Named(bs[i].chars, BranchTitle(bs, i))
    BY <1>3, <1>5
  <2> QED BY <2>1 DEF BeforeLeaves, Checked, ObjArray
<1>8. BranchAt(t, bs, i) \in Nat /\ 4 + BeforeBranches(t) + 4 + ObjArray <= BranchAt(t, bs, i)
  BY <1>1, BranchAtNat
<1>9. LeafAt(t, bs, i) = BranchAt(t, bs, i) + 12 + 4 + BeforeLeaves(bs, i) + 4 + 21
  BY <1>7, <1>8 DEF LeafAt, RawPrefix, ObjArray
<1>10. 199 <= BranchAt(t, bs, i)
  BY <1>6, <1>8 DEF ObjArray
<1>11. LeafAt(t, bs, i) \in Nat /\ 365 <= LeafAt(t, bs, i)
  BY <1>7, <1>8, <1>9, <1>10
<1> QED BY <1>1, <1>4, <1>11

\* A branch as it is parsed.
BranchParsed(t, bs, at, i) ==
  [name |-> bs[i].name, entries |-> Len(bs[1].rows),
   counter |-> IF bs[i].jagged THEN CounterName(bs[i]) ELSE NoName,
   basketEntry |-> <<0>>,
   baskets |-> <<[inMemory |-> FALSE,
                  seek |-> Place(at, [j \in DOMAIN bs |-> BasketLen(t, bs[j])], i),
                  len |-> BasketLen(t, bs[i])]>>]

\* The tree's list of leaves names each by its place.
LEMMA LeafByPlace ==
  ASSUME NEW t \in Nat, NEW bs, NEW at, NEW i, NEW objects,
         BranchList(bs), Writable(bs), PlacesBeyond(t, bs), i \in DOMAIN bs,
         objects = ObjectsOf(TreeObject(t, bs, at), Len(bs))
  PROVE  LeafAtTag(TreeObject(t, bs, at), objects, Len(objects), ByteTag(t, bs, i)) # {}
<1>1. PICK n \in Nat : n = Len(bs) /\ DOMAIN bs = 1 .. n
  BY BranchesAre
<1>2. i \in 1 .. n
  BY <1>1
<1>3. /\ Len(objects) = 2 * n /\ DOMAIN objects = 1 .. 2 * n
      /\ objects[2 * i] = LeafRead(t, bs, i)
  <2>1. n <= Len(bs) /\ objects = ObjectsOf(TreeObject(t, bs, at), n)
    BY <1>1
  <2>2. /\ Len(objects) = 2 * n /\ DOMAIN objects = 1 .. 2 * n
        /\ \A k \in 1 .. n : objects[2 * k] = LeafRead(t, bs, k)
    BY ONLY n \in Nat, <2>1, BranchList(bs), ObjectsRead
  <2> QED BY <1>2, <2>2
<1> DEFINE tag == ByteTag(t, bs, i)
           keyLen == KeyHeader(5, t, t)
           o == LeafRead(t, bs, i)
<1>4. keyLen \in Nat /\ LeafAt(t, bs, i) \in Nat /\ 2 * n < keyLen + LeafAt(t, bs, i)
  BY <1>1, HeaderNat, LeafAtNat DEF PlacesBeyond
<1>5. tag = keyLen + 2 + LeafAt(t, bs, i)
  BY DEF ByteTag, MapOffset
<1>6. ~(tag - MapOffset \in 1 .. Len(objects))
  <2> HIDE DEF tag, keyLen
  <2> QED BY <1>3, <1>4, <1>5 DEF MapOffset
<1>7. TreeObject(t, bs, at).keyLen = keyLen
  BY DEF TreeObject
<1>8. o \in ToSet(objects)
  BY <1>2, <1>3 DEF ToSet
<1>9. o.class = "TLeaf" /\ o.at = LeafAt(t, bs, i)
  BY DEF LeafRead
<1>10. o.at + keyLen + MapOffset = tag
  <2> HIDE DEF tag, keyLen, o
  <2> QED BY <1>4, <1>5, <1>9 DEF MapOffset
<1>11. o \in Resolve(TreeObject(t, bs, at), objects, Len(objects), tag)
  <2> HIDE DEF tag, keyLen, o
  <2> QED BY <1>6, <1>7, <1>8, <1>10 DEF Resolve
<1> QED BY <1>9, <1>11 DEF LeafAtTag

\* A jagged leaf names its counter's leaf by its number.
NamesAt(tree0, objects, known, tag) ==
  {o.name : o \in LeafAtTag(tree0, objects, known, tag)}

LEMMA CounterByNumber ==
  ASSUME NEW t \in Nat, NEW bs, NEW at, NEW i, NEW objects, NEW known,
         BranchList(bs), Writable(bs), i \in DOMAIN bs, bs[i].jagged,
         objects = ObjectsOf(TreeObject(t, bs, at), Len(bs)),
         known = Len(ObjectsOf(TreeObject(t, bs, at), i - 1)) + 2
  PROVE  /\ CounterTag(bs, i) \in Nat /\ ~(CounterTag(bs, i) < 2)
         /\ NamesAt(TreeObject(t, bs, at), objects, known, CounterTag(bs, i))
              = {CounterName(bs[i])}
<1>1. PICK n \in Nat : n = Len(bs) /\ DOMAIN bs = 1 .. n
  BY BranchesAre
<1>2. PICK m \in Nat : m = i - 1 /\ m < n /\ i = m + 1
  BY <1>1
<1>3. known = 2 * m + 2
  <2>1. PICK before : before = ObjectsOf(TreeObject(t, bs, at), m)
    OBVIOUS
  <2>2. Len(before) = 2 * m
    <3>1. m <= Len(bs)
      BY <1>1, <1>2
    <3> QED BY ONLY m \in Nat, <2>1, <3>1, BranchList(bs), ObjectsRead
  <2> QED BY <1>2, <2>1, <2>2
<1>4. PICK c \in Nat : /\ c = CounterOf(bs, i) /\ c \in 1 .. m
                       /\ bs[c].name = CounterName(bs[i])
  <2>1. CounterFits(bs, i)
    BY DEF Writable
  <2>2. i \in Nat
    BY <1>2
  <2> QED BY <1>2, <2>1, <2>2, CounterBefore
<1>5. CounterTag(bs, i) = 2 + 2 * c
  BY <1>4 DEF CounterTag, ReadOrderTag, MapOffset
<1>6. objects[2 * c] = LeafRead(t, bs, c)
  <2>1. n <= Len(bs) /\ objects = ObjectsOf(TreeObject(t, bs, at), n)
    BY <1>1
  <2>2. \A k \in 1 .. n : objects[2 * k] = LeafRead(t, bs, k)
    BY ONLY n \in Nat, <2>1, BranchList(bs), ObjectsRead
  <2>3. c \in 1 .. n
    BY <1>2, <1>4
  <2> QED BY ONLY <2>2, <2>3
<1>7. CounterTag(bs, i) - MapOffset = 2 * c /\ 2 * c \in 1 .. known
  BY <1>3, <1>4, <1>5 DEF MapOffset
<1>8. Resolve(TreeObject(t, bs, at), objects, known, CounterTag(bs, i)) = {LeafRead(t, bs, c)}
  BY <1>6, <1>7 DEF Resolve
<1>9. LeafRead(t, bs, c).class = "TLeaf" /\ LeafRead(t, bs, c).name = CounterName(bs[i])
  BY <1>4 DEF LeafRead
<1>10. LeafAtTag(TreeObject(t, bs, at), objects, known, CounterTag(bs, i)) = {LeafRead(t, bs, c)}
  BY <1>8, <1>9 DEF LeafAtTag
<1> QED BY <1>5, <1>9, <1>10 DEF NamesAt

LEMMA SubSeqAll ==
  ASSUME NEW S, NEW seq \in Seq(S)
  PROVE  SubSeq(seq, 1, Len(seq)) = seq
OBVIOUS

\* Its one basket.
LEMMA OneBasket ==
  ASSUME NEW t \in Nat, NEW bs, NEW at \in Nat, NEW i,
         BranchList(bs), Writable(bs), i \in DOMAIN bs, at > 0
  PROVE  OnDisk(BranchWritten(t, bs, at, i)) = BranchParsed(t, bs, at, i).baskets
<1> DEFINE lens == [j \in DOMAIN bs |-> BasketLen(t, bs[j])]
           seek == Place(at, lens, i)
           len == BasketLen(t, bs[i])
           b == BranchWritten(t, bs, at, i)
           basket == [inMemory |-> FALSE, seek |-> seek, len |-> len]
           parts == [k \in DOMAIN b.basketSeek |->
                       IF b.basketSeek[k] # 0 /\ b.basketBytes[k] > 0
                       THEN <<[inMemory |-> FALSE, seek |-> b.basketSeek[k],
                               len |-> b.basketBytes[k]]>>
                       ELSE <<>>]
<1>1. seek \in Nat /\ seek # 0
  <2> DEFINE part == SubSeq(lens, 1, i - 1)
  <2>1. lens \in Seq(Nat) /\ Len(lens) = Len(bs) /\ i \in 1 .. Len(lens)
    BY PlacesNat, BranchesAre
  <2>2. PICK m \in Nat : m = i - 1 /\ m < Len(lens)
    BY <2>1
  <2>3. Len(part) = m /\ \A k \in 1 .. m : part[k] \in Nat
    <3>1. part = SubSeq(lens, 1, m)
      BY <2>2
    <3> HIDE DEF part, lens
    <3> QED BY <2>1, <2>2, <3>1
  <2>4. seek = at + Total(part)
    BY DEF Place
  <2> HIDE DEF part, lens
  <2>5. Total(part) \in Nat
    BY <2>3, TotalNat
  <2> HIDE DEF seek
  <2> QED BY <2>4, <2>5
<1>2. len \in Nat /\ len > 0
  <2>1. IsBranch(bs[i])
    BY BranchesAre
  <2> QED BY <2>1, BasketNat
<1>3. b.basketSeek = <<seek>> /\ b.basketBytes = <<len>> /\ b.writeBasket = 1
  BY DEF BranchWritten
<1> HIDE DEF seek, len, b, lens
<1>4. Lesser(b.writeBasket, Len(b.basketSeek)) = 1
  BY <1>3 DEF Lesser
<1>5. parts[1] = <<basket>>
  <2>1. 1 \in DOMAIN b.basketSeek /\ b.basketSeek[1] = seek /\ b.basketBytes[1] = len
    BY <1>3
  <2> QED BY <1>1, <1>2, <2>1
<1>6. OnDisk(b) = Joined(parts, 1)
  BY <1>4 DEF OnDisk
<1>7. <<basket>> \in Seq({basket})
  OBVIOUS
<1> HIDE DEF parts, basket
<1>8. Joined(parts, 1) = <<basket>>
  BY <1>5, <1>7, JoinedOne
<1>9. BranchParsed(t, bs, at, i).baskets = <<basket>>
  BY DEF BranchParsed, basket, seek, len, lens
<1> QED BY <1>6, <1>8, <1>9 DEF b

LEMMA BranchReadBack ==
  ASSUME NEW t \in Nat, NEW bs, NEW at \in Nat, NEW i, NEW objects,
         BranchList(bs), Writable(bs), i \in DOMAIN bs, at > 0,
         objects = ObjectsOf(TreeObject(t, bs, at), Len(bs))
  PROVE  ParseBranch(TreeObject(t, bs, at), objects, i) = {BranchParsed(t, bs, at, i)}
<1> DEFINE tree0 == TreeObject(t, bs, at)
           b == BranchWritten(t, bs, at, i)
           known == Len(ObjectsOf(tree0, i - 1)) + 2
           counters == IF b.leaf.count < 2 THEN {NoName}
                       ELSE {o.name : o \in LeafAtTag(tree0, objects, known, b.leaf.count)}
           named == IF bs[i].jagged THEN CounterName(bs[i]) ELSE NoName
           entry == SubSeq(b.basketEntry, 1, Lesser(b.writeBasket, Len(b.basketEntry)))
           baskets == InMemory(b) \o OnDisk(b)
           parsed == BranchParsed(t, bs, at, i)
<1>1. tree0.branches[i] = b
  BY BranchFields
<1>2. counters = {named}
  <2>1. b.leaf.count = CounterTag(bs, i)
    BY DEF BranchWritten
  <2>2. CASE bs[i].jagged
    <3>1. PICK k : k = known
      OBVIOUS
    <3>2. k = Len(ObjectsOf(TreeObject(t, bs, at), i - 1)) + 2
      BY <3>1
    <3> HIDE DEF known
    <3>3. /\ CounterTag(bs, i) \in Nat /\ ~(CounterTag(bs, i) < 2)
          /\ NamesAt(tree0, objects, k, CounterTag(bs, i))
               = {CounterName(bs[i])}
      BY ONLY t \in Nat, BranchList(bs), Writable(bs), i \in DOMAIN bs, <2>2, <3>2,
              objects = ObjectsOf(TreeObject(t, bs, at), Len(bs)), CounterByNumber
    <3> HIDE DEF b
    <3> QED BY <2>1, <2>2, <3>1, <3>3 DEF NamesAt
  <2>3. CASE ~bs[i].jagged
    <3>1. CounterTag(bs, i) = 0
      BY <2>3 DEF CounterTag, CounterOf
    <3> HIDE DEF b, known, tree0
    <3> QED BY <2>1, <2>3, <3>1
  <2> QED BY <2>2, <2>3
<1>3. entry = <<0>>
  <2>1. b.basketEntry = <<0>> /\ b.writeBasket = 1
    BY DEF BranchWritten
  <2>2. Lesser(b.writeBasket, Len(b.basketEntry)) = 1
    BY <2>1 DEF Lesser
  <2>3. SubSeq(<<0>>, 1, 1) = <<0>>
    <3>1. <<0>> \in Seq(Nat) /\ Len(<<0>>) = 1
      OBVIOUS
    <3> QED BY <3>1, SubSeqAll
  <2> HIDE DEF b
  <2> QED BY <2>1, <2>2, <2>3
<1>4. baskets = parsed.baskets
  <2>1. InMemory(b) = <<>>
    BY DEF InMemory, BranchWritten
  <2>2. OnDisk(b) = parsed.baskets
    BY OneBasket
  <2>3. PICK x : parsed.baskets = <<x>>
    BY DEF BranchParsed
  <2>4. <<>> \o <<x>> = <<x>>
    <3>1. <<x>> \in Seq({x}) /\ <<>> \in Seq({x})
      OBVIOUS
    <3> QED BY <3>1
  <2> HIDE DEF b, parsed
  <2> QED BY <2>1, <2>2, <2>3, <2>4
<1>5. ParseBranch(tree0, objects, i)
        = {[name |-> b.name, entries |-> b.entries, counter |-> c,
            basketEntry |-> entry, baskets |-> baskets] : c \in counters}
  <2> HIDE DEF b
  <2> QED BY <1>1 DEF ParseBranch
<1>6. b.name = bs[i].name /\ b.entries = Len(bs[1].rows)
  BY DEF BranchWritten
<1>7. parsed = [name |-> bs[i].name, entries |-> Len(bs[1].rows), counter |-> named,
                basketEntry |-> <<0>>, baskets |-> parsed.baskets]
  BY DEF BranchParsed
<1> HIDE DEF counters, entry, baskets, named, b, parsed
<1> QED BY <1>2, <1>3, <1>4, <1>5, <1>6, <1>7 DEF parsed

\* What write_tree wrote parses, into what was written.
TreeParsed(t, bs, at) ==
  [entries |-> Len(bs[1].rows), branches |-> [i \in DOMAIN bs |-> BranchParsed(t, bs, at, i)]]

\* Whether the leaves that a tree lists are found.
LeavesFound(tree0) ==
  \A i \in DOMAIN tree0.leaves :
    LET objects == ObjectsOf(tree0, Len(tree0.branches))
    IN LeafAtTag(tree0, objects, Len(objects), tree0.leaves[i]) # {}

LEMMA TreeParses ==
  ASSUME NEW t \in Nat, NEW bs, NEW at \in Nat, BranchList(bs), Writable(bs), at > 0
  PROVE  ParseTree(TreeObject(t, bs, at))
           = IF LeavesFound(TreeObject(t, bs, at)) THEN Fine(TreeParsed(t, bs, at)) ELSE Error
<1>1. PICK tree0 : tree0 = TreeObject(t, bs, at)
  OBVIOUS
<1> DEFINE objects == ObjectsOf(tree0, Len(tree0.branches))
           branches == [i \in DOMAIN tree0.branches |-> ParseBranch(tree0, objects, i)]
<1>2. /\ DOMAIN tree0.branches = DOMAIN bs /\ Len(tree0.branches) = Len(bs)
      /\ tree0.entries = Len(bs[1].rows)
  BY ONLY <1>1, BranchList(bs), TreeFields
<1>3. objects = ObjectsOf(TreeObject(t, bs, at), Len(bs))
  BY <1>1, <1>2
<1>4. ASSUME NEW i \in DOMAIN bs
      PROVE  branches[i] = {BranchParsed(t, bs, at, i)}
  <2>1. branches[i] = ParseBranch(tree0, objects, i)
    BY <1>2
  <2> HIDE DEF objects, branches
  <2> QED BY <1>1, <1>3, <2>1, BranchReadBack
<1>5. DOMAIN branches = DOMAIN bs
  BY <1>2
<1>6. \A i \in DOMAIN branches : branches[i] # {}
  <2> HIDE DEF branches
  <2> QED BY <1>4, <1>5
<1>7. ParseTree(tree0)
        = IF LeavesFound(tree0)
          THEN Fine([entries |-> tree0.entries,
                     branches |-> [i \in DOMAIN branches |-> CHOOSE b \in branches[i] : TRUE]])
          ELSE Error
  BY <1>6 DEF ParseTree, LeavesFound
<1>8. [i \in DOMAIN branches |-> CHOOSE b \in branches[i] : TRUE]
        = [i \in DOMAIN bs |-> BranchParsed(t, bs, at, i)]
  <2>1. \A x : (CHOOSE b \in {x} : TRUE) = x
    OBVIOUS
  <2> HIDE DEF branches
  <2> QED BY <1>4, <1>5, <2>1
<1> HIDE DEF branches
<1> QED BY <1>1, <1>2, <1>7, <1>8 DEF TreeParsed

LEMMA TreeReadBack ==
  ASSUME NEW t \in Nat, NEW bs, NEW at \in Nat,
         BranchList(bs), Writable(bs), PlacesBeyond(t, bs), at > 0
  PROVE  ParseTree(TreeObject(t, bs, at)) = Fine(TreeParsed(t, bs, at))
<1>1. PICK tree0 : tree0 = TreeObject(t, bs, at)
  OBVIOUS
<1>2. /\ Len(tree0.branches) = Len(bs) /\ DOMAIN tree0.leaves = DOMAIN bs
      /\ \A i \in DOMAIN bs : tree0.leaves[i] = ByteTag(t, bs, i)
  BY ONLY <1>1, BranchList(bs), TreeFields
<1>3. PICK objects : objects = ObjectsOf(TreeObject(t, bs, at), Len(bs))
  OBVIOUS
<1>4. ASSUME NEW i \in DOMAIN bs
      PROVE  LeafAtTag(tree0, objects, Len(objects), ByteTag(t, bs, i)) # {}
  BY <1>1, <1>3, LeafByPlace
<1>5. LeavesFound(tree0)
  BY <1>1, <1>2, <1>3, <1>4 DEF LeavesFound
<1> QED BY <1>1, <1>5, TreeParses
-----------------------------------------------------------------------------
(* The invariant.  A reader that has the key list and is not overtaken by a *)
(* new write has seen the end of all baskets; what it asks for in between   *)
(* does not matter, nor what the streamer infos were.                       *)

\* Files of other programs are taken to end with their key list, as ROOT's
\* own do when they are closed.
ForeignKeysLast ==
  \A v \in DOMAIN Contents : Contents[v].foreign => KeysLast(Contents[v].records)

FileInOrder ==
  /\ {"records", "size"} \subseteq DOMAIN file
  /\ file.size \in Nat
  /\ \A r \in ToSet(file.records) : IsRecord(r)
  /\ KeysLast(file.records)

\* What is asked for as the key list has a place, and nothing else is asked
\* for before it has come.
KeysAsked ==
  /\ step = "keys" => want.at \in Nat /\ want.len \in Nat
  /\ chunk # Nothing => step = "reading"

PastKeys == step = "infos" \/ Opened

FileInv ==
  /\ FileInOrder
  /\ KeysAsked
  /\ PastKeys /\ ~touched => Whole

LEMMA ContentsInOrder ==
  ASSUME ForeignKeysLast, NEW v \in DOMAIN Contents,
         Contents[v].foreign \/ Writable(Contents[v].branches)
  PROVE  (\A r \in ToSet(BytesOf(v)) : IsRecord(r)) /\ KeysLast(BytesOf(v))
<1>1. IsContents(Contents[v]) /\ TreeChars \in Nat
  BY RootFileAssumption
<1>2. CASE Contents[v].foreign
  BY <1>1, <1>2 DEF IsContents, ForeignKeysLast, BytesOf
<1>3. CASE ~Contents[v].foreign
  <2>1. BranchList(Contents[v].branches)
    BY <1>1 DEF IsContents, BranchList
  <2>2. BytesOf(v) = WriteTree(v, TreeChars, Contents[v].branches)
    BY <1>3 DEF BytesOf
  <2> QED BY <1>1, <1>3, <2>1, <2>2, WrittenInOrder
<1> QED BY <1>2, <1>3

LEMMA InitFileInv == Init => FileInv
<1> SUFFICES ASSUME Init PROVE FileInv
  OBVIOUS
<1>1. file.records = << >> /\ file.size = 0 /\ {"records", "size"} \subseteq DOMAIN file
  BY DEF Init
<1>2. ToSet(file.records) = {}
  BY <1>1 DEF ToSet
<1>3. FileInOrder
  BY <1>1, <1>2 DEF FileInOrder, KeysLast
<1>4. step = "idle" /\ chunk = Nothing
  BY DEF Init
<1> QED BY <1>3, <1>4 DEF FileInv, KeysAsked, PastKeys, Opened

LEMMA CreateFileInv ==
  ASSUME ForeignKeysLast, FileInv, NEW v \in DOMAIN Contents, Create(v)
  PROVE  FileInv'
<1>1. /\ file'.records = BytesOf(v) /\ file'.size = 0
      /\ {"records", "size"} \subseteq DOMAIN file'
  BY DEF Create
<1>2. (\A r \in ToSet(BytesOf(v)) : IsRecord(r)) /\ KeysLast(BytesOf(v))
  BY ContentsInOrder DEF Create
<1>3. FileInOrder'
  BY <1>1, <1>2 DEF FileInOrder
<1>4. /\ step' = step /\ want' = want /\ chunk' = chunk
      /\ touched' = (touched \/ step # "idle")
  BY DEF Create, readerVars, chunkVars
<1>5. KeysAsked'
  BY <1>4 DEF KeysAsked, FileInv
<1> QED BY <1>3, <1>4, <1>5 DEF FileInv, PastKeys, Opened

LEMMA WriteFileInv ==
  ASSUME FileInv, Write
  PROVE  FileInv'
<1>1. PICK r \in ToSet(file.records) :
        EndOf(r) > file.size /\ file' = [file EXCEPT !.size = EndOf(r)]
  BY DEF Write
<1>2. /\ step' = step /\ want' = want /\ chunk' = chunk /\ touched' = touched
  BY DEF Write, readerVars, chunkVars
<1>3. /\ file'.records = file.records /\ file'.size = EndOf(r)
      /\ {"records", "size"} \subseteq DOMAIN file'
  BY <1>1 DEF FileInv, FileInOrder
<1>4. \A x \in ToSet(file.records) : IsRecord(x) /\ EndOf(x) \in Nat
  BY DEF FileInv, FileInOrder, IsRecord, EndOf
<1>5. FileInOrder'
  BY <1>3, <1>4 DEF FileInv, FileInOrder
<1>6. Whole => Whole'
  BY <1>1, <1>3, <1>4 DEF Whole, FileInv, FileInOrder
<1>7. KeysAsked'
  BY <1>2 DEF KeysAsked, FileInv
<1> QED BY <1>2, <1>5, <1>6, <1>7 DEF FileInv, PastKeys, Opened

\* A step of the reader that gets no further in the open than it was.
LEMMA QuietFileInv ==
  ASSUME FileInv, UNCHANGED <<file, touched>>,
         PastKeys' => PastKeys,
         step' = "keys" => step = "keys" /\ want' = want,
         chunk' # Nothing => step' = "reading"
  PROVE  FileInv'
<1>1. FileInOrder' /\ (Whole => Whole')
  BY DEF FileInv, FileInOrder, Whole
<1>2. KeysAsked'
  BY DEF FileInv, KeysAsked
<1> QED BY <1>1, <1>2 DEF FileInv

LEMMA ReadDirectoryFileInv ==
  ASSUME FileInv, ReadDirectory
  PROVE  FileInv'
<1>1. PICK r \in Found("directory") :
        step' = "keys" /\ Ask(r.holds.keysAt, r.holds.keysLen)
  BY DEF ReadDirectory
<1>2. r.holds.keysAt \in Nat /\ r.holds.keysLen \in Nat
  BY DEF Found, FileInv, FileInOrder, IsRecord
<1>3. /\ step = "directory" /\ file' = file /\ touched' = touched /\ chunk' = chunk
      /\ want' = [at |-> r.holds.keysAt, len |-> r.holds.keysLen]
  BY <1>1 DEF ReadDirectory, fileVars, chunkVars, Ask
<1>4. chunk' = Nothing
  BY <1>3 DEF FileInv, KeysAsked
<1>5. FileInOrder'
  BY <1>3 DEF FileInv, FileInOrder
<1>6. KeysAsked'
  BY <1>1, <1>2, <1>3, <1>4 DEF KeysAsked
<1> QED BY <1>1, <1>5, <1>6 DEF FileInv, PastKeys, Opened

\* The key list has come: whatever lies before it has been written.
LEMMA ReadKeysFileInv ==
  ASSUME FileInv, ReadKeys
  PROVE  FileInv'
<1>1. PICK k \in Found("keys") : step' = "infos"
  BY DEF ReadKeys
<1>2. /\ k \in ToSet(file.records) /\ k.kind = "keys" /\ k.at = want.at
      /\ want.at + want.len <= file.size /\ step = "keys"
  BY DEF Found, ReadKeys, Available
<1>3. want.at \in Nat /\ want.len \in Nat /\ file.size \in Nat
  BY <1>2 DEF FileInv, FileInOrder, KeysAsked
<1>4. ASSUME NEW r \in ToSet(file.records), r.kind \in {"tree", "basket"}
      PROVE  EndOf(r) <= file.size
  <2>1. EndOf(r) <= k.at /\ EndOf(r) \in Nat
    BY <1>2, <1>4 DEF FileInv, FileInOrder, KeysLast, IsRecord, EndOf
  <2> QED BY <1>2, <1>3, <2>1
<1>5. /\ file' = file /\ touched' = touched /\ chunk' = chunk
  BY DEF ReadKeys, fileVars, chunkVars
<1>6. Whole'
  BY <1>4, <1>5 DEF Whole
<1>7. FileInOrder'
  BY <1>5 DEF FileInv, FileInOrder
<1>8. KeysAsked'
  BY <1>1, <1>2, <1>5 DEF FileInv, KeysAsked
<1> QED BY <1>6, <1>7, <1>8 DEF FileInv

LEMMA OpeningFileInv ==
  ASSUME FileInv, Open \/ ReadHeader \/ ReadInfos \/ FetchTree \/ ReadTree \/ OpenFails
  PROVE  FileInv'
<1>1. file' = file /\ touched' = touched /\ chunk' = chunk
  BY DEF Open, ReadHeader, ReadInfos, FetchTree, ReadTree, OpenFails, fileVars, chunkVars
<1>2. step # "reading" /\ step' # "keys" /\ (PastKeys' => PastKeys)
  BY DEF Open, ReadHeader, ReadInfos, FetchTree, ReadTree, OpenFails, PastKeys, Opened
<1>3. chunk' = Nothing
  BY <1>1, <1>2 DEF FileInv, KeysAsked
<1> QED BY <1>1, <1>2, <1>3, QuietFileInv

LEMMA RedirectedFileInv ==
  ASSUME FileInv, Redirected \/ WriteStops \/ UNCHANGED vars
  PROVE  FileInv'
<1>1. /\ file' = file /\ touched' = touched /\ chunk' = chunk
      /\ step' = step /\ want' = want
  BY DEF Redirected, WriteStops, vars, fileVars, chunkVars, readerVars
<1> QED BY <1>1, QuietFileInv DEF FileInv, KeysAsked, PastKeys, Opened

\* Of the steps that read chunks, none happens before the tree is parsed.
LEMMA ReadingFileInv ==
  ASSUME FileInv,
         \/ NextChunk \/ AskBasket \/ ReadBasket \/ ReadEmbedded \/ ReadColumn
         \/ BasketFails \/ Exhausted \/ Dropped
         \/ \E w \in Windows : ChunkedReader(w)
  PROVE  FileInv'
<1>1. CASE NextChunk \/ AskBasket \/ ReadBasket \/ ReadEmbedded \/ ReadColumn \/ BasketFails
  <2>1. file' = file /\ touched' = touched /\ step' = step
    BY <1>1 DEF NextChunk, AskBasket, ReadBasket, ReadEmbedded, ReadColumn, BasketFails,
                fileVars
  <2>2. step = "reading"
    BY <1>1 DEF NextChunk, AskBasket, ReadBasket, ReadEmbedded, ReadColumn, BasketFails,
                FileInv, KeysAsked
  <2> QED BY <2>1, <2>2, QuietFileInv DEF PastKeys, Opened
<1>2. CASE Exhausted \/ Dropped \/ \E w \in Windows : ChunkedReader(w)
  <2>1. file' = file /\ touched' = touched /\ chunk' = chunk
    BY <1>2 DEF Exhausted, Dropped, ChunkedReader, fileVars, chunkVars
  <2>2. /\ step \in {"reading", "parsed"} /\ step' \in {"done", "reading", "failed"}
        /\ step = "reading" => chunk = Nothing
    BY <1>2 DEF Exhausted, Dropped, ChunkedReader
  <2>3. chunk' = Nothing
    BY <2>1, <2>2 DEF FileInv, KeysAsked
  <2>4. PastKeys /\ step' # "keys"
    BY <2>2 DEF PastKeys, Opened
  <2> QED BY <2>1, <2>3, <2>4, QuietFileInv
<1> QED BY <1>1, <1>2

LEMMA NextFileInv == ForeignKeysLast /\ FileInv /\ [Next]_vars => FileInv'
<1> SUFFICES ASSUME ForeignKeysLast, FileInv, [Next]_vars PROVE FileInv'
  OBVIOUS
<1>1. CASE \E v \in DOMAIN Contents : Create(v)
  BY <1>1, CreateFileInv
<1>2. CASE Write
  BY <1>2, WriteFileInv
<1>3. CASE ReadDirectory
  BY <1>3, ReadDirectoryFileInv
<1>4. CASE ReadKeys
  BY <1>4, ReadKeysFileInv
<1>5. CASE Open \/ ReadHeader \/ ReadInfos \/ FetchTree \/ ReadTree \/ OpenFails
  BY <1>5, OpeningFileInv
<1>6. CASE Redirected \/ WriteStops \/ UNCHANGED vars
  BY <1>6, RedirectedFileInv
<1>7. CASE \/ NextChunk \/ AskBasket \/ ReadBasket \/ ReadEmbedded \/ ReadColumn
           \/ BasketFails \/ Exhausted \/ Dropped
           \/ \E w \in Windows : ChunkedReader(w)
  BY <1>7, ReadingFileInv
<1> QED BY <1>1, <1>2, <1>3, <1>4, <1>5, <1>6, <1>7 DEF Next, WriterStep, ReaderStep

\* A file that RootFile::from_source could open, and that is not being written
\* anew, holds all of its tree and of its baskets, wherever its writer stopped:
\* write_tree puts the key list after them, for every list of branches it takes.
THEOREM OpenedFileIsWhole == ForeignKeysLast => (Spec => []OpenedIsWhole)
<1> SUFFICES ASSUME ForeignKeysLast PROVE Spec => []OpenedIsWhole
  OBVIOUS
<1>1. Init => FileInv
  BY InitFileInv
<1>2. FileInv /\ [Next]_vars => FileInv'
  BY NextFileInv
<1>3. FileInv => OpenedIsWhole
  BY DEF FileInv, PastKeys, OpenedIsWhole
<1> QED BY <1>1, <1>2, <1>3, PTL DEF Spec
-----------------------------------------------------------------------------
(* Reading back.  A reader that asks for the tree asks for what the key     *)
(* list of this file says, and there it finds what parses.                  *)

\* Whatever key list a file has, the tree it names is there and reads back.
HoldsTree(k, branches, records) ==
  \E r \in ToSet(records) :
    /\ r.kind = "tree" /\ r.at = k.holds.treeAt /\ r.len <= k.holds.treeLen
    /\ ReadsAs(r.holds, branches, records)

TreesHeld(branches, records) ==
  \A k \in ToSet(records) : k.kind = "keys" => HoldsTree(k, branches, records)

\* The trees of other programs are taken to parse, where their key list says.
ForeignTreesRead ==
  \A v \in DOMAIN Contents : Contents[v].foreign =>
    TreesHeld(Contents[v].branches, Contents[v].records)

\* No tree of ours has so many branches that a place is taken for a number.
OurPlacesBeyond ==
  \A v \in DOMAIN Contents :
    ~Contents[v].foreign /\ Writable(Contents[v].branches) =>
      PlacesBeyond(TreeChars, Contents[v].branches)

TreeKnown ==
  \E k \in ToSet(file.records) :
    k.kind = "keys" /\ dir.treeAt = k.holds.treeAt /\ dir.treeLen = k.holds.treeLen

TreeInv ==
  /\ {"branches", "records", "size"} \subseteq DOMAIN file
  /\ TreesHeld(file.branches, file.records)
  /\ chunk # Nothing => step = "reading"
  /\ step \in {"infos", "opened", "tree"} /\ ~touched => TreeKnown
  /\ step = "tree" => want = [at |-> dir.treeAt, len |-> dir.treeLen]

\* A tree that write_tree wrote, with its records.
LEMMA WrittenReadsAs ==
  ASSUME NEW v, NEW t \in Nat, NEW bs, BranchList(bs), Writable(bs), PlacesBeyond(t, bs)
  PROVE  ReadsAs(TreeObject(t, bs, TreeEnd(t, bs)), bs, WriteTree(v, t, bs))
<1> DEFINE at == TreeEnd(t, bs)
           records == WriteTree(v, t, bs)
           parsed == ParseTree(TreeObject(t, bs, at))
<1>1. at \in Nat /\ at > 0
  <2>1. KeyHeader(5, t, t) \in Nat /\ TreeLen(t, bs) \in Nat
    BY HeaderNat, TreeNat
  <2> QED BY <2>1 DEF TreeEnd, TreeOffset, FileBegin
<1>2. parsed = Fine(TreeParsed(t, bs, at))
  <2> HIDE DEF at
  <2> QED BY <1>1, TreeReadBack
<1>3. ~parsed.failed /\ parsed.is = TreeParsed(t, bs, at)
  BY <1>2 DEF Fine
<1>4. /\ DOMAIN TreeParsed(t, bs, at).branches = DOMAIN bs
      /\ Len(TreeParsed(t, bs, at).branches) = Len(bs)
  <2>1. Len(bs) \in Nat /\ DOMAIN bs = 1 .. Len(bs)
    BY BranchesAre
  <2>2. \A f : Len([i \in 1 .. Len(bs) |-> f[i]]) = Len(bs)
    BY <2>1
  <2>3. PICK f : f = TreeParsed(t, bs, at).branches
    OBVIOUS
  <2>4. DOMAIN f = 1 .. Len(bs) /\ f = [i \in 1 .. Len(bs) |-> f[i]]
    BY <2>1, <2>3 DEF TreeParsed
  <2> QED BY <2>1, <2>2, <2>3, <2>4
<1>5. ASSUME NEW i \in DOMAIN bs
      PROVE  IsWritten(TreeParsed(t, bs, at).branches[i], bs[i], records)
  <2> DEFINE b == BranchParsed(t, bs, at, i)
             r == BasketRecords(v, t, bs, at)[i]
             seek == Place(at, [j \in DOMAIN bs |-> BasketLen(t, bs[j])], i)
             k == [inMemory |-> FALSE, seek |-> seek, len |-> BasketLen(t, bs[i])]
  <2>1. TreeParsed(t, bs, at).branches[i] = b
    BY DEF TreeParsed
  <2>2. /\ b.name = bs[i].name /\ b.entries = Len(bs[1].rows)
        /\ b.counter = IF bs[i].jagged THEN CounterName(bs[i]) ELSE NoName
        /\ b.baskets = <<k>>
    BY DEF BranchParsed
  <2>3. Len(bs[1].rows) = Len(bs[i].rows)
    BY DEF Writable
  <2>4. r.kind = "basket" /\ r.at = seek /\ r.len = BasketLen(t, bs[i])
    BY DEF BasketRecords, Record
  <2>5. r \in ToSet(records)
    BY WrittenRecords
  <2>6. ToSet(<<k>>) = {k}
    <3> HIDE DEF k
    <3> QED BY DEF ToSet
  <2>7. k.seek = seek /\ k.len = BasketLen(t, bs[i])
    OBVIOUS
  <2> HIDE DEF b, r, k, seek, records, at
  <2> QED BY <2>1, <2>2, <2>3, <2>4, <2>5, <2>6, <2>7 DEF IsWritten
<1> HIDE DEF parsed, records, at
<1> QED BY <1>3, <1>4, <1>5 DEF ReadsAs, parsed, at, records

LEMMA ContentsHeld ==
  ASSUME ForeignTreesRead, OurPlacesBeyond, NEW v \in DOMAIN Contents,
         Contents[v].foreign \/ Writable(Contents[v].branches)
  PROVE  TreesHeld(Contents[v].branches, BytesOf(v))
<1>1. IsContents(Contents[v]) /\ TreeChars \in Nat
  BY RootFileAssumption
<1>2. CASE Contents[v].foreign
  BY <1>2 DEF ForeignTreesRead, BytesOf
<1>3. CASE ~Contents[v].foreign
  <2> DEFINE bs == Contents[v].branches
             t == TreeChars
             records == WriteTree(v, t, bs)
             object == TreeObject(t, bs, TreeEnd(t, bs))
             treeAt == TreeOffset + KeyHeader(5, t, t)
             r == Record("tree", treeAt, TreeLen(t, bs), object)
  <2>1. BranchList(bs) /\ Writable(bs) /\ PlacesBeyond(t, bs)
    BY <1>1, <1>3 DEF IsContents, BranchList, OurPlacesBeyond
  <2>2. BytesOf(v) = records
    BY <1>3 DEF BytesOf
  <2>3. ReadsAs(object, bs, records)
    BY <1>1, <2>1, WrittenReadsAs
  <2>4. r \in ToSet(records)
    BY <1>1, <2>1, WrittenRecords DEF TreeRecord
  <2>5. ASSUME NEW k \in ToSet(records), k.kind = "keys"
        PROVE  k.holds = [treeAt |-> treeAt, treeLen |-> TreeLen(t, bs)]
    <3>1. \/ k \in {HeadOf(t, bs)[1], HeadOf(t, bs)[2], TreeRecord(t, bs),
                    KeysRecord(t, bs), InfosRecord(t, bs)}
          \/ \E i \in DOMAIN bs : k = BasketRecords(v, t, bs, TreeEnd(t, bs))[i]
      BY <1>1, <2>1, WrittenRecords
    <3>2. /\ HeadOf(t, bs)[1].kind = "header" /\ HeadOf(t, bs)[2].kind = "directory"
          /\ TreeRecord(t, bs).kind = "tree" /\ InfosRecord(t, bs).kind = "infos"
      BY DEF TreeRecord, InfosRecord, HeadOf, HeadRecords, Record
    <3>3. \A i \in DOMAIN bs : BasketRecords(v, t, bs, TreeEnd(t, bs))[i].kind = "basket"
      BY DEF BasketRecords, Record
    <3>4. k = KeysRecord(t, bs)
      <4> HIDE DEF bs, t, records
      <4> QED BY <2>5, <3>1, <3>2, <3>3
    <3> QED BY <3>4 DEF KeysRecord, Record
  <2>6. TreeLen(t, bs) <= TreeLen(t, bs)
    <3>1. TreeLen(t, bs) \in Nat
      BY <1>1, <2>1, TreeNat
    <3> QED BY <3>1
  <2>7. /\ r.kind = "tree" /\ r.at = treeAt /\ r.len = TreeLen(t, bs) /\ r.holds = object
    BY DEF Record
  <2> HIDE DEF bs, t, records, object, treeAt, r
  <2>8. TreesHeld(bs, records)
    BY <2>3, <2>4, <2>5, <2>6, <2>7 DEF TreesHeld, HoldsTree
  <2> QED BY <2>2, <2>8 DEF bs
<1> QED BY <1>2, <1>3

LEMMA InitTreeInv == Init => TreeInv
<1> SUFFICES ASSUME Init PROVE TreeInv
  OBVIOUS
<1>1. /\ file.records = << >> /\ {"branches", "records", "size"} \subseteq DOMAIN file
      /\ step = "idle" /\ chunk = Nothing
  BY DEF Init
<1>2. ToSet(file.records) = {}
  BY <1>1 DEF ToSet
<1> QED BY <1>1, <1>2 DEF TreeInv, TreesHeld

LEMMA CreateTreeInv ==
  ASSUME ForeignTreesRead, OurPlacesBeyond, TreeInv, NEW v \in DOMAIN Contents, Create(v)
  PROVE  TreeInv'
<1>1. /\ file' = [version |-> v, branches |-> Contents[v].branches,
                  records |-> BytesOf(v), size |-> 0]
      /\ Contents[v].foreign \/ Writable(Contents[v].branches)
  BY DEF Create
<1>2. /\ file'.branches = Contents[v].branches /\ file'.records = BytesOf(v)
      /\ {"branches", "records", "size"} \subseteq DOMAIN file'
  BY <1>1
<1>3. TreesHeld(Contents[v].branches, BytesOf(v))
  BY <1>1, ContentsHeld
<1>4. /\ step' = step /\ want' = want /\ chunk' = chunk /\ dir' = dir
      /\ touched' = (touched \/ step # "idle")
  BY DEF Create, readerVars, chunkVars
<1> QED BY <1>2, <1>3, <1>4 DEF TreeInv

\* A step after which the tree is still where it was, for the same reader.
LEMMA QuietTreeInv ==
  ASSUME TreeInv,
         file'.records = file.records, file'.branches = file.branches,
         {"branches", "records", "size"} \subseteq DOMAIN file', touched' = touched,
         chunk' # Nothing => step' = "reading",
         step' \in {"infos", "opened", "tree"} =>
           step \in {"infos", "opened", "tree"} /\ dir' = dir,
         step' = "tree" => want' = [at |-> dir'.treeAt, len |-> dir'.treeLen]
  PROVE  TreeInv'
<1>1. TreesHeld(file.branches, file.records)'
  BY DEF TreeInv
<1>2. step' \in {"infos", "opened", "tree"} /\ ~touched' => TreeKnown'
  BY DEF TreeInv, TreeKnown
<1> QED BY <1>1, <1>2 DEF TreeInv

LEMMA WriterTreeInv ==
  ASSUME TreeInv, Write \/ WriteStops \/ Redirected \/ UNCHANGED vars
  PROVE  TreeInv'
<1>1. /\ step' = step /\ chunk' = chunk /\ dir' = dir /\ want' = want /\ touched' = touched
  BY DEF Write, WriteStops, Redirected, vars, fileVars, readerVars, chunkVars
<1>2. /\ file'.records = file.records /\ file'.branches = file.branches
      /\ {"branches", "records", "size"} \subseteq DOMAIN file'
  <2>1. CASE Write
    BY <2>1 DEF Write, TreeInv
  <2>2. CASE WriteStops \/ Redirected \/ UNCHANGED vars
    BY <2>2 DEF WriteStops, Redirected, vars, fileVars, TreeInv
  <2> QED BY <2>1, <2>2
<1> QED BY <1>1, <1>2, QuietTreeInv DEF TreeInv

LEMMA OpeningTreeInv ==
  ASSUME TreeInv, Open \/ ReadHeader \/ ReadDirectory \/ ReadTree \/ OpenFails
  PROVE  TreeInv'
<1>1. file' = file /\ touched' = touched /\ chunk' = chunk
  BY DEF Open, ReadHeader, ReadDirectory, ReadTree, OpenFails, fileVars, chunkVars
<1>2. step # "reading" /\ step' \notin {"infos", "opened", "tree"}
  BY DEF Open, ReadHeader, ReadDirectory, ReadTree, OpenFails
<1>3. chunk' = Nothing
  BY <1>1, <1>2 DEF TreeInv
<1> QED BY <1>1, <1>2, <1>3, QuietTreeInv DEF TreeInv

\* From the key list on, what is asked for is what it says.
LEMMA AskingTreeInv ==
  ASSUME TreeInv, ReadKeys \/ ReadInfos \/ FetchTree
  PROVE  TreeInv'
<1>1. CASE ReadKeys
  <2>1. PICK k \in Found("keys") :
          /\ dir' = [infosAt |-> dir.infosAt, infosLen |-> dir.infosLen,
                     treeAt |-> k.holds.treeAt, treeLen |-> k.holds.treeLen]
          /\ step' = "infos"
    BY <1>1 DEF ReadKeys
  <2>2. file' = file /\ touched' = touched /\ chunk' = chunk /\ step = "keys"
    BY <1>1 DEF ReadKeys, fileVars, chunkVars
  <2>3. TreeKnown'
    BY <2>1, <2>2 DEF TreeKnown, Found
  <2>4. chunk' = Nothing
    BY <2>2 DEF TreeInv
  <2> QED BY <2>1, <2>2, <2>3, <2>4 DEF TreeInv
<1>2. CASE ReadInfos
  <2>1. /\ file' = file /\ touched' = touched /\ chunk' = chunk /\ dir' = dir
        /\ step = "infos" /\ step' = "opened"
    BY <1>2 DEF ReadInfos, fileVars, chunkVars
  <2>2. chunk' = Nothing
    BY <2>1 DEF TreeInv
  <2> QED BY <2>1, <2>2, QuietTreeInv DEF TreeInv
<1>3. CASE FetchTree
  <2>1. /\ file' = file /\ touched' = touched /\ chunk' = chunk /\ dir' = dir
        /\ step = "opened" /\ step' = "tree"
        /\ want' = [at |-> dir.treeAt, len |-> dir.treeLen]
    BY <1>3 DEF FetchTree, fileVars, chunkVars, Ask
  <2>2. chunk' = Nothing
    BY <2>1 DEF TreeInv
  <2> QED BY <2>1, <2>2, QuietTreeInv DEF TreeInv
<1> QED BY <1>1, <1>2, <1>3

LEMMA ReadingTreeInv ==
  ASSUME TreeInv,
         \/ NextChunk \/ AskBasket \/ ReadBasket \/ ReadEmbedded \/ ReadColumn
         \/ BasketFails \/ Exhausted \/ Dropped
         \/ \E w \in Windows : ChunkedReader(w)
  PROVE  TreeInv'
<1>1. CASE NextChunk \/ AskBasket \/ ReadBasket \/ ReadEmbedded \/ ReadColumn \/ BasketFails
  <2>1. file' = file /\ touched' = touched /\ step' = step
    BY <1>1 DEF NextChunk, AskBasket, ReadBasket, ReadEmbedded, ReadColumn, BasketFails,
                fileVars
  <2>2. step = "reading"
    BY <1>1 DEF NextChunk, AskBasket, ReadBasket, ReadEmbedded, ReadColumn, BasketFails,
                TreeInv
  <2> QED BY <2>1, <2>2, QuietTreeInv DEF TreeInv
<1>2. CASE Exhausted \/ Dropped \/ \E w \in Windows : ChunkedReader(w)
  <2>1. file' = file /\ touched' = touched /\ chunk' = chunk
    BY <1>2 DEF Exhausted, Dropped, ChunkedReader, fileVars, chunkVars
  <2>2. /\ step' \in {"done", "reading", "failed"}
        /\ chunk' # Nothing => step' = "reading"
    BY <1>2, <2>1 DEF Exhausted, Dropped, ChunkedReader, TreeInv
  <2> QED BY <2>1, <2>2, QuietTreeInv DEF TreeInv
<1> QED BY <1>1, <1>2

LEMMA NextTreeInv ==
  ForeignTreesRead /\ OurPlacesBeyond /\ TreeInv /\ [Next]_vars => TreeInv'
<1> SUFFICES ASSUME ForeignTreesRead, OurPlacesBeyond, TreeInv, [Next]_vars PROVE TreeInv'
  OBVIOUS
<1>1. CASE \E v \in DOMAIN Contents : Create(v)
  BY <1>1, CreateTreeInv
<1>2. CASE Write \/ WriteStops \/ Redirected \/ UNCHANGED vars
  BY <1>2, WriterTreeInv
<1>3. CASE Open \/ ReadHeader \/ ReadDirectory \/ ReadTree \/ OpenFails
  BY <1>3, OpeningTreeInv
<1>4. CASE ReadKeys \/ ReadInfos \/ FetchTree
  BY <1>4, AskingTreeInv
<1>5. CASE \/ NextChunk \/ AskBasket \/ ReadBasket \/ ReadEmbedded \/ ReadColumn
           \/ BasketFails \/ Exhausted \/ Dropped
           \/ \E w \in Windows : ChunkedReader(w)
  BY <1>5, ReadingTreeInv
<1> QED BY <1>1, <1>2, <1>3, <1>4, <1>5 DEF Next, WriterStep, ReaderStep

\* What write_tree accepts, parse_tree reads back and never refuses: every
\* branch, its entries, its counter and its basket, for every list of branches
\* whose leaves lie beyond the numbers of the objects (200 branches always do),
\* and, of other programs' trees, those that parse where their key list says.
THEOREM WrittenTreeReadsBack ==
  ForeignTreesRead /\ OurPlacesBeyond => (Spec => []ReadsBack)
<1> SUFFICES ASSUME ForeignTreesRead, OurPlacesBeyond PROVE Spec => []ReadsBack
  OBVIOUS
<1>1. Init => TreeInv
  BY InitTreeInv
<1>2. TreeInv /\ [Next]_vars => TreeInv'
  BY NextTreeInv
<1>3. TreeInv => ReadsBack
  <2> SUFFICES ASSUME TreeInv, step = "tree", ~touched
               PROVE  \E r \in Found("tree") : ReadsAs(r.holds, Written, file.records)
    BY DEF ReadsBack
  <2>1. PICK k \in ToSet(file.records) :
          k.kind = "keys" /\ dir.treeAt = k.holds.treeAt /\ dir.treeLen = k.holds.treeLen
    BY DEF TreeInv, TreeKnown
  <2>2. want.at = k.holds.treeAt /\ want.len = k.holds.treeLen
    BY <2>1 DEF TreeInv
  <2>3. PICK r \in ToSet(file.records) :
          /\ r.kind = "tree" /\ r.at = k.holds.treeAt /\ r.len <= k.holds.treeLen
          /\ ReadsAs(r.holds, file.branches, file.records)
    BY <2>1 DEF TreeInv, TreesHeld, HoldsTree
  <2>4. r \in Found("tree")
    BY <2>2, <2>3 DEF Found
  <2> QED BY <2>3, <2>4 DEF Written
<1> QED BY <1>1, <1>2, <1>3, PTL DEF Spec
-----------------------------------------------------------------------------
LEMMA SameSeq ==
  ASSUME NEW S, NEW x \in Seq(S), NEW y \in Seq(S), Len(x) = Len(y),
         \A k \in 1 .. Len(y) : x[k] = y[k]
  PROVE  x = y
<1>1. x = [k \in 1 .. Len(x) |-> x[k]] /\ y = [k \in 1 .. Len(y) |-> y[k]]
  OBVIOUS
<1> QED BY <1>1

\* All beginnings of joined sequences are sequences, each the beginning of the
\* next.
LEMMA JoinedSeq ==
  ASSUME NEW S, NEW parts, NEW n \in Nat, NEW m \in Nat, m <= n,
         \A k \in 1 .. n : parts[k] \in Seq(S)
  PROVE  Joined(parts, m) \in Seq(S)
<1> DEFINE Bad == {j \in 0 .. n : Joined(parts, j) \notin Seq(S)}
<1> SUFFICES ASSUME Bad # {} PROVE FALSE
  OBVIOUS
<1>0. Bad \subseteq Nat
  OBVIOUS
<1>1. PICK j \in Bad : \A i \in Bad : j <= i
  <2> HIDE DEF Bad
  <2> QED BY <1>0, LeastElement
<1>2. j # 0
  <2>1. Joined(parts, 0) = <<>>
    BY JoinedNone
  <2>2. << >> \in Seq(S)
    OBVIOUS
  <2> QED BY <1>1, <2>1, <2>2
<1>3. j - 1 \in 0 .. n /\ j \in 1 .. n /\ j \in Nat
  BY <1>1, <1>2
<1>4. Joined(parts, j - 1) \in Seq(S)
  BY <1>1, <1>3
<1>5. Joined(parts, j) = Joined(parts, j - 1) \o parts[j]
  BY <1>2, <1>3, JoinedNext
<1>6. parts[j] \in Seq(S)
  BY <1>3
<1>7. \A x, y \in Seq(S) : x \o y \in Seq(S)
  OBVIOUS
<1> QED BY <1>1, <1>4, <1>5, <1>6, <1>7

IsBeginning(x, y) == Len(x) <= Len(y) /\ \A k \in 1 .. Len(x) : y[k] = x[k]

LEMMA ThenBegins ==
  ASSUME NEW S, NEW x \in Seq(S), NEW y \in Seq(S)
  PROVE  /\ x \o y \in Seq(S) /\ Len(x \o y) = Len(x) + Len(y)
         /\ IsBeginning(x, x \o y)
         /\ \A k \in 1 .. Len(y) : (x \o y)[Len(x) + k] = y[k]
BY DEF IsBeginning

LEMMA JoinedBegins ==
  ASSUME NEW S, NEW parts, NEW n \in Nat, NEW m \in Nat, m <= n,
         \A k \in 1 .. n : parts[k] \in Seq(S)
  PROVE  IsBeginning(Joined(parts, m), Joined(parts, n))
<1> DEFINE Bad == {j \in m .. n : ~ IsBeginning(Joined(parts, m), Joined(parts, j))}
<1> SUFFICES ASSUME Bad # {} PROVE FALSE
  OBVIOUS
<1>0. Bad \subseteq Nat
  OBVIOUS
<1>1. PICK j \in Bad : \A i \in Bad : j <= i
  <2> HIDE DEF Bad
  <2> QED BY <1>0, LeastElement
<1>2. Joined(parts, m) \in Seq(S)
  BY JoinedSeq
<1>3. j # m
  <2>1. IsBeginning(Joined(parts, m), Joined(parts, m))
    BY <1>2 DEF IsBeginning
  <2> QED BY <1>1, <2>1
<1>4. j - 1 \in m .. n /\ j \in 1 .. n /\ j \in Nat /\ j # 0 /\ j - 1 \in Nat /\ j - 1 <= n
  BY <1>1, <1>3
<1>5. IsBeginning(Joined(parts, m), Joined(parts, j - 1))
  BY <1>1, <1>4
<1>6. PICK x, y, z : x = Joined(parts, m) /\ y = Joined(parts, j - 1) /\ z = parts[j]
  OBVIOUS
<1>7. x \in Seq(S) /\ y \in Seq(S) /\ z \in Seq(S)
  <2>1. Joined(parts, j - 1) \in Seq(S)
    BY <1>4, JoinedSeq
  <2>2. parts[j] \in Seq(S)
    BY <1>4
  <2> QED BY <1>2, <1>6, <2>1, <2>2
<1>8. Joined(parts, j) = y \o z
  BY <1>4, <1>6, JoinedNext
<1>9. IsBeginning(y, y \o z) /\ y \o z \in Seq(S) /\ Len(y \o z) = Len(y) + Len(z)
  BY ONLY <1>7, ThenBegins
<1>10. PICK w : w = y \o z
  OBVIOUS
<1>11. /\ Len(x) \in Nat /\ Len(y) \in Nat /\ Len(w) \in Nat
       /\ IsBeginning(x, y) /\ IsBeginning(y, w)
  <2>1. IsBeginning(x, y) /\ IsBeginning(y, w)
    BY <1>5, <1>6, <1>9, <1>10
  <2>2. w \in Seq(S)
    BY <1>9, <1>10
  <2> QED BY ONLY <1>7, <2>1, <2>2
<1>12. IsBeginning(x, w)
  BY ONLY <1>11 DEF IsBeginning
<1> QED BY <1>1, <1>6, <1>8, <1>10, <1>12

LEMMA TotalNext ==
  ASSUME NEW lens, NEW n \in Nat, n # 0
  PROVE  Total([k \in 1 .. n |-> lens[k]])
           = Total([k \in 1 .. n - 1 |-> lens[k]]) + lens[n]
<1>1. PICK m \in Nat : m = n - 1
  OBVIOUS
<1>2. PICK all, part : all = [k \in 1 .. n |-> lens[k]] /\ part = [k \in 1 .. m |-> lens[k]]
  OBVIOUS
<1>3. Len(all) = n /\ Len(part) = m
  BY <1>2
<1>4. PICK f : TotalEquation(f, part, m) /\ Total(part) = f[m]
  BY <1>3, TotalOf
<1>5. PICK g : TotalEquation(g, all, n) /\ Total(all) = g[n]
  BY <1>3, TotalOf
<1>6. f[m] = g[m]
  <2>1. m <= n /\ \A k \in 1 .. m : part[k] = all[k]
    BY <1>1, <1>2
  <2> QED BY ONLY m \in Nat, n \in Nat, <1>4, <1>5, <2>1, SameTotals
<1>7. g[n] = g[n - 1] + all[n]
  BY <1>5 DEF TotalEquation
<1> QED BY <1>1, <1>2, <1>4, <1>5, <1>6, <1>7

LensOf(parts, n) == [k \in 1 .. n |-> Len(parts[k])]

LEMMA JoinedLen ==
  ASSUME NEW S, NEW parts, NEW n \in Nat, \A k \in 1 .. n : parts[k] \in Seq(S)
  PROVE  Len(Joined(parts, n)) = Total(LensOf(parts, n))
<1> DEFINE lens == [k \in 1 .. n |-> Len(parts[k])]
           upto(j) == Total([k \in 1 .. j |-> lens[k]])
           Bad == {j \in 0 .. n : Len(Joined(parts, j)) # upto(j)}
<1> SUFFICES ASSUME Bad # {} PROVE FALSE
  <2>1. [k \in 1 .. n |-> lens[k]] = lens
    OBVIOUS
  <2>2. upto(n) = Total(lens)
    BY <2>1
  <2>3. n \notin Bad => Len(Joined(parts, n)) = upto(n)
    <3> HIDE DEF upto
    <3> QED OBVIOUS
  <2>4. lens = LensOf(parts, n)
    BY DEF LensOf
  <2> HIDE DEF Bad, upto, lens
  <2> QED BY <2>2, <2>3, <2>4
<1>0. Bad \subseteq Nat
  OBVIOUS
<1>1. PICK j \in Bad : \A i \in Bad : j <= i
  <2> HIDE DEF Bad
  <2> QED BY <1>0, LeastElement
<1>2. j # 0
  <2>1. Joined(parts, 0) = <<>>
    BY JoinedNone
  <2>2. upto(0) = 0
    <3>1. PICK none : none = [k \in 1 .. 0 |-> lens[k]]
      OBVIOUS
    <3>2. Len(none) = 0 /\ Len(none) \in Nat
      BY <3>1
    <3>3. PICK f : TotalEquation(f, none, Len(none)) /\ Total(none) = f[Len(none)]
      BY ONLY <3>2, TotalOf
    <3> QED BY <3>1, <3>2, <3>3 DEF TotalEquation
  <2> HIDE DEF upto
  <2> QED BY <1>1, <2>1, <2>2
<1>3. j - 1 \in 0 .. n /\ j \in 1 .. n /\ j \in Nat /\ j - 1 \in Nat /\ j - 1 <= n
  BY <1>1, <1>2
<1>4. Len(Joined(parts, j - 1)) = upto(j - 1)
  <2> HIDE DEF upto
  <2> QED BY <1>1, <1>3
<1>5. upto(j) = upto(j - 1) + lens[j]
  <2> HIDE DEF lens
  <2> QED BY <1>2, <1>3, TotalNext
<1>6. PICK x, y : x = Joined(parts, j - 1) /\ y = parts[j]
  OBVIOUS
<1>7. x \in Seq(S) /\ y \in Seq(S) /\ Joined(parts, j) = x \o y
  <2>1. Joined(parts, j - 1) \in Seq(S)
    BY <1>3, JoinedSeq
  <2>2. parts[j] \in Seq(S)
    BY <1>3
  <2>3. Joined(parts, j) = Joined(parts, j - 1) \o parts[j]
    BY <1>2, <1>3, JoinedNext
  <2> QED BY <1>6, <2>1, <2>2, <2>3
<1>8. Len(x \o y) = Len(x) + Len(y)
  BY <1>7
<1>9. lens[j] = Len(y)
  BY <1>3, <1>6
<1> HIDE DEF upto, lens
<1> QED BY <1>1, <1>4, <1>5, <1>6, <1>7, <1>8, <1>9

\* A part is found between the lengths of those before it and its own end.
LEMMA JoinedPart ==
  ASSUME NEW S, NEW parts, NEW n \in Nat, NEW k \in 1 .. n, \A i \in 1 .. n : parts[i] \in Seq(S)
  PROVE  SubSeq(Joined(parts, n), Len(Joined(parts, k - 1)) + 1, Len(Joined(parts, k))) = parts[k]
<1>1. PICK j \in Nat : j = k /\ j # 0 /\ j <= n /\ j - 1 \in Nat /\ j - 1 <= n
  OBVIOUS
<1>2. PICK before, part, upto, all :
         /\ before = Joined(parts, j - 1) /\ part = parts[j]
         /\ upto = Joined(parts, j) /\ all = Joined(parts, n)
  OBVIOUS
<1>3. /\ before \in Seq(S) /\ part \in Seq(S) /\ upto \in Seq(S) /\ all \in Seq(S)
      /\ upto = before \o part /\ IsBeginning(upto, all)
  <2>1. Joined(parts, j - 1) \in Seq(S)
    BY <1>1, JoinedSeq
  <2>2. Joined(parts, j) \in Seq(S)
    BY <1>1, JoinedSeq
  <2>3. Joined(parts, n) \in Seq(S)
    <3>1. PICK m \in Nat : m = n
      OBVIOUS
    <3>2. m <= n
      BY <3>1
    <3>3. Joined(parts, m) \in Seq(S)
      BY ONLY n \in Nat, m \in Nat, <3>2, \A i \in 1 .. n : parts[i] \in Seq(S), JoinedSeq
    <3> QED BY <3>1, <3>3
  <2>4. IsBeginning(Joined(parts, j), Joined(parts, n))
    BY <1>1, JoinedBegins
  <2>5. Joined(parts, j) = Joined(parts, j - 1) \o parts[j]
    BY <1>1, JoinedNext
  <2> QED BY <1>1, <1>2, <2>1, <2>2, <2>3, <2>4, <2>5
<1>4. /\ Len(upto) = Len(before) + Len(part)
      /\ \A i \in 1 .. Len(part) : upto[Len(before) + i] = part[i]
  BY ONLY <1>3, ThenBegins
<1>5. PICK lo \in Nat, l \in Nat : lo = Len(before) /\ l = Len(part) /\ Len(upto) = lo + l
  BY <1>3, <1>4
<1>6. lo + l <= Len(all) /\ \A i \in 1 .. l : all[lo + i] = part[i]
  <2>1. \A i \in 1 .. l : lo + i \in 1 .. lo + l
    OBVIOUS
  <2> QED BY <1>3, <1>4, <1>5, <2>1 DEF IsBeginning
<1>7. SubSeq(all, lo + 1, lo + l) = part
  <2>1. PICK s : s = SubSeq(all, lo + 1, lo + l)
    OBVIOUS
  <2>2. s \in Seq(S) /\ Len(s) = l /\ \A i \in 1 .. l : s[i] = all[lo + i]
    BY <1>3, <1>6, <2>1
  <2>3. \A i \in 1 .. l : s[i] = part[i]
    BY <1>6, <2>2
  <2>4. Len(part) = l /\ part \in Seq(S)
    BY <1>3, <1>5
  <2>5. s = part
    BY ONLY <2>2, <2>3, <2>4, SameSeq
  <2> QED BY <2>1, <2>5
<1> QED BY <1>1, <1>2, <1>5, <1>7
-----------------------------------------------------------------------------
(* Slices of a function: the columns of a chunk are slices of what was      *)
(* written, and so are the parts of them that the baskets hold.             *)

Slice(f, x, y) == [k \in 1 .. y - x |-> f[x + k]]

\* What a function has at x + 1 .. y, all of one set.
Within(f, x, y, S) == \A k \in x + 1 .. y : f[k] \in S

IsSlice(a, f, x, y, S) ==
  a \in Seq(S) /\ Len(a) = y - x /\ \A k \in 1 .. y - x : a[k] = f[x + k]

LEMMA SliceSeq ==
  ASSUME NEW S, NEW f, NEW x \in Nat, NEW y \in Nat, x <= y, Within(f, x, y, S)
  PROVE  IsSlice(Slice(f, x, y), f, x, y, S)
<1> USE DEF Within, IsSlice
<1>1. PICK n \in Nat : n = y - x
  OBVIOUS
<1>2. \A k \in 1 .. n : f[x + k] \in S
  BY <1>1
<1>3. Slice(f, x, y) = [k \in 1 .. n |-> f[x + k]]
  BY <1>1 DEF Slice
<1> QED BY <1>1, <1>2, <1>3

LEMMA WithinSome == ASSUME NEW f, NEW x \in Nat, NEW y \in Nat PROVE \E S : Within(f, x, y, S)
<1>1. Within(f, x, y, {f[k] : k \in x + 1 .. y})
  BY DEF Within
<1> QED BY <1>1

LEMMA SliceThen ==
  ASSUME NEW f, NEW x \in Nat, NEW y \in Nat, NEW z \in Nat, x <= y, y <= z
  PROVE  Slice(f, x, y) \o Slice(f, y, z) = Slice(f, x, z)
<1>1. PICK S : Within(f, x, z, S)
  BY WithinSome
<1>2. PICK a, b, c : a = Slice(f, x, y) /\ b = Slice(f, y, z) /\ c = Slice(f, x, z)
  OBVIOUS
<1>3. IsSlice(a, f, x, y, S)
  <2>1. Within(f, x, y, S)
    BY <1>1 DEF Within
  <2> QED BY <1>2, <2>1, SliceSeq
<1>4. IsSlice(b, f, y, z, S)
  <2>1. Within(f, y, z, S)
    BY <1>1 DEF Within
  <2> QED BY <1>2, <2>1, SliceSeq
<1>5. IsSlice(c, f, x, z, S)
  <2>1. x <= z
    OBVIOUS
  <2> QED BY <1>1, <1>2, <2>1, SliceSeq
<1>6. PICK d : d = a \o b
  OBVIOUS
<1>7. PICK m \in Nat, l \in Nat : m = y - x /\ l = z - y
  OBVIOUS
<1>8. /\ a \in Seq(S) /\ Len(a) = m /\ \A k \in 1 .. m : a[k] = f[x + k]
      /\ b \in Seq(S) /\ Len(b) = l /\ \A k \in 1 .. l : b[k] = f[y + k]
      /\ c \in Seq(S) /\ Len(c) = m + l /\ \A k \in 1 .. m + l : c[k] = f[x + k]
  <2>1. z - x = m + l
    BY <1>7
  <2> QED BY <1>3, <1>4, <1>5, <1>7, <2>1 DEF IsSlice
<1>9. /\ d \in Seq(S) /\ Len(d) = m + l
      /\ \A k \in 1 .. m : d[k] = a[k]
      /\ \A k \in 1 .. l : d[m + k] = b[k]
  <2>1. a \in Seq(S) /\ b \in Seq(S) /\ Len(a) = m /\ Len(b) = l
    BY <1>8
  <2>2. /\ a \o b \in Seq(S) /\ Len(a \o b) = Len(a) + Len(b) /\ IsBeginning(a, a \o b)
        /\ \A k \in 1 .. Len(b) : (a \o b)[Len(a) + k] = b[k]
    BY ONLY <2>1, ThenBegins
  <2> QED BY ONLY <1>6, <2>1, <2>2 DEF IsBeginning
<1>10. ASSUME NEW k \in 1 .. m + l PROVE d[k] = c[k]
  <2>1. c[k] = f[x + k]
    BY <1>8
  <2>2. CASE k <= m
    <3>1. k \in 1 .. m
      BY <1>7, <2>2
    <3> QED BY <1>8, <1>9, <2>1, <3>1
  <2>3. CASE k > m
    <3>1. PICK j \in Nat : j = k - m /\ j \in 1 .. l /\ k = m + j /\ y + j = x + k
      BY <1>7, <2>3
    <3>2. d[k] = b[j] /\ b[j] = f[y + j]
      BY <1>8, <1>9, <3>1
    <3> QED BY <2>1, <3>1, <3>2
  <2> QED BY <1>7, <2>2, <2>3
<1>11. d = c
  <2>1. d \in Seq(S) /\ c \in Seq(S) /\ Len(d) = Len(c) /\ Len(c) = m + l
    BY <1>8, <1>9
  <2> QED BY ONLY <1>10, <2>1, SameSeq
<1> QED BY <1>2, <1>6, <1>11

\* Baskets that follow one another, the first at the first entry, the last to
\* the end of what is asked for or beyond.
InARow(n, begin, end, from, to) ==
  /\ n # 0 /\ from < to /\ begin[1] = 0 /\ to <= end[n]
  /\ \A i \in 1 .. n : begin[i] \in Nat /\ end[i] \in Nat /\ begin[i] < end[i]
  /\ \A i \in 1 .. n : i # 1 => begin[i] = end[i - 1]

PartOf(f, begin, end, from, to) ==
  IF begin < to /\ end > from THEN Slice(f, Greater(from, begin), Lesser(to, end)) ELSE <<>>

\* Joined, the parts of those that overlap are the slice.
LEMMA PartsJoin ==
  ASSUME NEW f, NEW n \in Nat, NEW begin, NEW end, NEW from \in Nat, NEW to \in Nat, NEW parts,
         InARow(n, begin, end, from, to),
         \A i \in 1 .. n : parts[i] = PartOf(f, begin[i], end[i], from, to)
  PROVE  Joined(parts, n) = Slice(f, from, to)
<1> DEFINE mid(i) == IF i = 0 THEN from ELSE Greater(from, Lesser(to, end[i]))
           Bad == {i \in 0 .. n : Joined(parts, i) # Slice(f, from, mid(i))}
<1> USE DEF InARow
<1>1. mid(n) = to
  BY DEF Greater, Lesser
<1> SUFFICES ASSUME Bad # {} PROVE FALSE
  <2>1. n \notin Bad => Joined(parts, n) = Slice(f, from, mid(n))
    <3> HIDE DEF mid
    <3> QED OBVIOUS
  <2> HIDE DEF Bad, mid
  <2> QED BY <1>1, <2>1
<1>0. Bad \subseteq Nat
  OBVIOUS
<1>2. PICK i \in Bad : \A j \in Bad : i <= j
  <2> HIDE DEF Bad
  <2> QED BY <1>0, LeastElement
<1>3. i # 0
  <2>1. Joined(parts, 0) = <<>>
    BY JoinedNone
  <2>2. Slice(f, from, mid(0)) = <<>>
    BY DEF Slice
  <2> HIDE DEF mid
  <2> QED BY <1>2, <2>1, <2>2
<1>4. i \in 1 .. n /\ i \in Nat /\ i - 1 \in 0 .. n
  BY <1>2, <1>3
<1>5. Joined(parts, i - 1) = Slice(f, from, mid(i - 1))
  <2> HIDE DEF mid
  <2> QED BY <1>2, <1>4
<1>6. Joined(parts, i) = Joined(parts, i - 1) \o parts[i]
  BY <1>3, <1>4, JoinedNext
<1>7. PICK b \in Nat, e \in Nat : b = begin[i] /\ e = end[i] /\ b < e
  BY <1>4
<1>8. mid(i - 1) = Greater(from, Lesser(to, b))
  <2>1. CASE i = 1
    BY <1>7, <2>1 DEF Greater, Lesser
  <2>2. CASE i # 1
    <3>1. i - 1 # 0 /\ begin[i] = end[i - 1]
      BY <1>4, <2>2
    <3> QED BY <1>7, <3>1
  <2> QED BY <2>1, <2>2
<1>9. mid(i) = Greater(from, Lesser(to, e))
  BY <1>3, <1>7
<1>10. PICK x \in Nat, y \in Nat : x = mid(i - 1) /\ y = mid(i) /\ from <= x /\ x <= y
  <2> HIDE DEF mid
  <2> QED BY <1>7, <1>8, <1>9 DEF Greater, Lesser
<1>11. parts[i] = PartOf(f, b, e, from, to)
  BY <1>4, <1>7
<1>12. parts[i] = Slice(f, x, y)
  <2>1. CASE b < to /\ e > from
    <3>1. x = Greater(from, b) /\ y = Lesser(to, e)
      <4> HIDE DEF mid
      <4> QED BY <1>7, <1>8, <1>9, <1>10, <2>1 DEF Greater, Lesser
    <3> QED BY <1>11, <2>1, <3>1 DEF PartOf
  <2>2. CASE ~(b < to /\ e > from)
    <3>1. x = y
      <4> HIDE DEF mid
      <4> QED BY <1>7, <1>8, <1>9, <1>10, <2>2 DEF Greater, Lesser
    <3>2. Slice(f, x, y) = <<>>
      BY <3>1 DEF Slice
    <3> QED BY <1>11, <2>2, <3>2 DEF PartOf
  <2> QED BY <2>1, <2>2
<1>13. Slice(f, from, x) \o Slice(f, x, y) = Slice(f, from, y)
  <2>1. from <= x /\ x <= y
    BY <1>10
  <2> HIDE DEF mid, Bad, InARow
  <2> QED BY <2>1, SliceThen
<1>14. Joined(parts, i) = Slice(f, from, mid(i))
  <2> HIDE DEF mid
  <2> QED BY <1>5, <1>6, <1>10, <1>12, <1>13
<1> HIDE DEF mid
<1> QED BY <1>2, <1>14

\* A slice of a slice.
After(seq, from, to) == SubSeq(seq, from + 1, to)

LEMMA SliceOfSlice ==
  ASSUME NEW f, NEW x \in Nat, NEW y \in Nat, NEW from \in Nat, NEW to \in Nat,
         from <= to, x + to <= y
  PROVE  After(Slice(f, x, y), from, to) = Slice(f, x + from, x + to)
<1>1. PICK S : Within(f, x, y, S)
  BY WithinSome
<1>2. PICK p \in Nat, q \in Nat : p = x + from /\ q = x + to /\ p <= q /\ q <= y /\ x <= p
  OBVIOUS
<1>3. PICK a, c : a = Slice(f, x, y) /\ c = Slice(f, p, q)
  OBVIOUS
<1>4. IsSlice(a, f, x, y, S)
  <2>1. x <= y
    BY <1>2
  <2> QED BY <1>1, <1>3, <2>1, SliceSeq
<1>5. IsSlice(c, f, p, q, S)
  <2>1. Within(f, p, q, S)
    BY <1>1, <1>2 DEF Within
  <2> QED BY <1>2, <1>3, <2>1, SliceSeq
<1>6. PICK m \in Nat, l \in Nat : m = to - from /\ l = y - x /\ from + m = to /\ to <= l /\ m = q - p
  BY <1>2
<1>7. /\ a \in Seq(S) /\ Len(a) = l /\ \A k \in 1 .. l : a[k] = f[x + k]
      /\ c \in Seq(S) /\ Len(c) = m /\ \A k \in 1 .. m : c[k] = f[p + k]
  BY <1>4, <1>5, <1>6 DEF IsSlice
<1>8. PICK d : d = SubSeq(a, from + 1, to)
  OBVIOUS
<1>9. d \in Seq(S) /\ Len(d) = m /\ \A k \in 1 .. m : d[k] = a[from + k]
  <2>1. a \in Seq(S) /\ Len(a) = l
    BY <1>7
  <2>2. SubSeq(a, from + 1, to) = [k \in 1 .. m |-> a[from + k]]
    <3>1. to - (from + 1) + 1 = m /\ \A k \in Nat : from + 1 + k - 1 = from + k
      BY <1>6
    <3>2. SubSeq(a, from + 1, to) = [k \in 1 .. to - (from + 1) + 1 |-> a[from + 1 + k - 1]]
      BY <2>1
    <3> QED BY <3>1, <3>2
  <2>3. \A k \in 1 .. m : a[from + k] \in S
    <3>1. \A k \in 1 .. m : from + k \in 1 .. l
      BY <1>6
    <3> QED BY <2>1, <3>1
  <2>4. PICK g : g = [k \in 1 .. m |-> a[from + k]]
    OBVIOUS
  <2>5. g \in Seq(S) /\ Len(g) = m /\ \A k \in 1 .. m : g[k] = a[from + k]
    BY <2>3, <2>4
  <2>6. d = g
    BY <1>8, <2>2, <2>4
  <2> QED BY <2>5, <2>6
<1>10. ASSUME NEW k \in 1 .. m PROVE d[k] = c[k]
  <2>1. from + k \in 1 .. l /\ x + (from + k) = p + k
    BY <1>2, <1>6
  <2>2. a[from + k] = f[p + k]
    BY <1>7, <2>1
  <2> QED BY <1>7, <1>9, <2>2
<1>11. d = c
  <2>1. d \in Seq(S) /\ c \in Seq(S) /\ Len(d) = Len(c) /\ Len(c) = m
    BY <1>7, <1>9
  <2> QED BY ONLY <1>10, <2>1, SameSeq
<1> QED BY <1>2, <1>3, <1>8, <1>11 DEF After
-----------------------------------------------------------------------------
(* The cells of a range of entries.                                         *)

\* Sequences of one element each.
LEMMA JoinedSingles ==
  ASSUME NEW g, NEW n \in Nat, NEW parts, \A k \in 1 .. n : parts[k] = <<g[k]>>
  PROVE  Joined(parts, n) = Slice(g, 0, n)
<1>1. CASE n = 0
  <2>1. Slice(g, 0, n) = <<>>
    BY <1>1 DEF Slice
  <2> QED BY <1>1, <2>1, JoinedNone
<1>2. CASE n # 0
  <2> DEFINE begin == [k \in 1 .. n |-> k - 1]
             end == [k \in 1 .. n |-> k]
  <2>1. InARow(n, begin, end, 0, n)
    BY <1>2 DEF InARow
  <2>2. ASSUME NEW k \in 1 .. n PROVE parts[k] = PartOf(g, begin[k], end[k], 0, n)
    <3>1. PICK j \in Nat : j = k - 1 /\ begin[k] = j /\ end[k] = j + 1 /\ k = j + 1
      OBVIOUS
    <3>2. PartOf(g, j, j + 1, 0, n) = Slice(g, j, j + 1)
      BY <3>1 DEF PartOf, Greater, Lesser
    <3>3. Slice(g, j, j + 1) = <<g[j + 1]>>
      <4>1. j + 1 - j = 1 /\ 1 .. 1 = {1}
        OBVIOUS
      <4>2. Slice(g, j, j + 1) = [l \in 1 .. 1 |-> g[j + l]]
        BY <4>1 DEF Slice
      <4> QED BY <4>2
    <3> QED BY <3>1, <3>2, <3>3
  <2> HIDE DEF begin, end
  <2> QED BY <2>1, <2>2, PartsJoin
<1> QED BY <1>1, <1>2

\* What a scalar branch holds, entry by entry, and what a jagged one does.
CellsOf(v, w) == [e \in 1 .. Len(w.rows) |-> <<v, w.name, e, w.rows[e]>>]
ListsOf(v, w) == [e \in 1 .. Len(w.rows) |-> RowCells(v, w, e)]

LEMMA ScalarCells ==
  ASSUME NEW v, NEW w, ~w.jagged, Len(w.rows) \in Nat,
         NEW from \in Nat, NEW to \in Nat, from <= to, to <= Len(w.rows)
  PROVE  Cells(v, w, from + 1, to) = Slice(CellsOf(v, w), from, to)
<1>1. PICK n \in Nat : n = to - from /\ to + 1 - (from + 1) = n
  OBVIOUS
<1> DEFINE parts == [k \in 1 .. n |-> RowCells(v, w, from + 1 + k - 1)]
           g == [k \in 1 .. n |-> CellsOf(v, w)[from + k]]
<1>2. Cells(v, w, from + 1, to) = Joined(parts, n)
  BY <1>1 DEF Cells
<1>3. ASSUME NEW k \in 1 .. n PROVE parts[k] = <<g[k]>>
  <2>1. PICK e \in Nat : e = from + k /\ e = from + 1 + k - 1 /\ e \in 1 .. Len(w.rows)
    BY <1>1
  <2>2. parts[k] = RowCells(v, w, e) /\ g[k] = CellsOf(v, w)[e]
    BY <2>1
  <2>3. RowCells(v, w, e) = << <<v, w.name, e, w.rows[e]>> >>
    BY DEF RowCells
  <2>4. CellsOf(v, w)[e] = <<v, w.name, e, w.rows[e]>>
    BY <2>1 DEF CellsOf
  <2> QED BY <2>2, <2>3, <2>4
<1>4. Slice(g, 0, n) = Slice(CellsOf(v, w), from, to)
  <2>1. Slice(g, 0, n) = [k \in 1 .. n |-> g[k]]
    BY DEF Slice
  <2>2. Slice(CellsOf(v, w), from, to) = [k \in 1 .. n |-> CellsOf(v, w)[from + k]]
    BY <1>1 DEF Slice
  <2> QED BY <2>1, <2>2
<1>5. Joined(parts, n) = Slice(g, 0, n)
  <2> HIDE DEF parts, g
  <2> QED BY <1>3, JoinedSingles
<1> QED BY <1>2, <1>4, <1>5
-----------------------------------------------------------------------------
(* Baskets and their payloads.                                              *)

\* A branch whose baskets follow one another.
IsRun(b) ==
  /\ b.entries \in Nat /\ Listed(b) \in Nat /\ Listed(b) # 0
  /\ Len(b.basketEntry) = Listed(b)
  /\ \A i \in 1 .. Listed(b) :
       /\ BasketStart(b, i) \in Nat /\ BasketEnd(b, i) \in Nat
       /\ BasketStart(b, i) < BasketEnd(b, i) /\ BasketEnd(b, i) <= b.entries
  /\ BasketStart(b, 1) = 0

Starts(b) == [i \in 1 .. Listed(b) |-> BasketStart(b, i)]
Ends(b) == [i \in 1 .. Listed(b) |-> BasketEnd(b, i)]

LEMMA RunInARow ==
  ASSUME NEW b, IsRun(b), NEW from \in Nat, NEW to \in Nat, from < to, to <= b.entries
  PROVE  InARow(Listed(b), Starts(b), Ends(b), from, to)
<1>1. PICK n \in Nat : n = Listed(b) /\ n # 0 /\ Len(b.basketEntry) = n
  BY DEF IsRun
<1>2. \A i \in 1 .. n : Starts(b)[i] = BasketStart(b, i) /\ Ends(b)[i] = BasketEnd(b, i)
  BY <1>1 DEF Starts, Ends
<1>3. Ends(b)[n] = b.entries
  <2>1. n \in 1 .. n /\ ~(n < n)
    BY <1>1
  <2> QED BY <1>1, <1>2, <2>1 DEF BasketEnd
<1>4. ASSUME NEW i \in 1 .. n, i # 1 PROVE Starts(b)[i] = Ends(b)[i - 1]
  <2>1. i - 1 \in 1 .. n /\ i - 1 < n /\ i - 1 + 1 = i
    BY <1>4
  <2>2. BasketEnd(b, i - 1) = b.basketEntry[i]
    BY <1>1, <2>1 DEF BasketEnd
  <2> QED BY <1>2, <2>1, <2>2 DEF BasketStart
<1>5. Starts(b)[1] = 0
  BY <1>1, <1>2 DEF IsRun
<1>6. ASSUME NEW i \in 1 .. n
      PROVE  Starts(b)[i] \in Nat /\ Ends(b)[i] \in Nat /\ Starts(b)[i] < Ends(b)[i]
  BY <1>1, <1>2 DEF IsRun
<1> QED BY <1>1, <1>3, <1>4, <1>5, <1>6 DEF InARow

\* The place of a single element among joined sequences.
LEMMA JoinedPlace ==
  ASSUME NEW S, NEW parts, NEW n \in Nat, NEW i \in 1 .. n, NEW x,
         \A k \in 1 .. n : parts[k] \in Seq(S), parts[i] = <<x>>
  PROVE  /\ Len(Joined(parts, i)) \in 1 .. Len(Joined(parts, n))
         /\ Joined(parts, n)[Len(Joined(parts, i))] = x
<1>1. PICK j \in Nat : j = i /\ j # 0 /\ j <= n /\ j - 1 \in Nat /\ j - 1 <= n
  OBVIOUS
<1>2. PICK before, part, upto, all :
         /\ before = Joined(parts, j - 1) /\ part = parts[j]
         /\ upto = Joined(parts, j) /\ all = Joined(parts, n)
  OBVIOUS
<1>3. before \in Seq(S) /\ upto \in Seq(S) /\ all \in Seq(S)
  <2>1. Joined(parts, j - 1) \in Seq(S)
    BY <1>1, JoinedSeq
  <2>2. Joined(parts, j) \in Seq(S)
    BY <1>1, JoinedSeq
  <2>3. Joined(parts, n) \in Seq(S)
    BY JoinedSeq
  <2> QED BY <1>2, <2>1, <2>2, <2>3
<1>4. upto = before \o part /\ part \in Seq(S) /\ part = <<x>>
  BY <1>1, <1>2, JoinedNext
<1>5. IsBeginning(upto, all)
  BY <1>1, <1>2, JoinedBegins
<1>6. PICK m \in Nat : m = Len(before)
  BY <1>3
<1>7. Len(upto) = m + 1 /\ upto[m + 1] = x
  <2>1. /\ Len(before \o part) = Len(before) + Len(part)
        /\ \A k \in 1 .. Len(part) : (before \o part)[Len(before) + k] = part[k]
    BY ONLY <1>3, <1>4, ThenBegins
  <2>2. Len(part) = 1 /\ part[1] = x /\ 1 \in 1 .. 1
    BY <1>4
  <2> QED BY <1>4, <1>6, <2>1, <2>2
<1>8. m + 1 <= Len(all) /\ all[m + 1] = x /\ Len(all) \in Nat
  BY <1>3, <1>5, <1>7 DEF IsBeginning
<1> QED BY <1>1, <1>2, <1>7, <1>8

Taken(b, from, to) ==
  [i \in 1 .. Listed(b) |-> IF Overlaps(b, i, from, to) THEN <<b.baskets[i]>> ELSE <<>>]

BasketSet(b) == {b.baskets[i] : i \in 1 .. Listed(b)}

LEMMA TakenSeq ==
  ASSUME NEW b, NEW from, NEW to, NEW S, BasketSet(b) \subseteq S
  PROVE  \A i \in 1 .. Listed(b) : Taken(b, from, to)[i] \in Seq(S)
<1> SUFFICES ASSUME NEW i \in 1 .. Listed(b) PROVE Taken(b, from, to)[i] \in Seq(S)
  OBVIOUS
<1>1. PICK x : x = b.baskets[i] /\ x \in S
  BY DEF BasketSet
<1>2. Taken(b, from, to)[i] = IF Overlaps(b, i, from, to) THEN <<x>> ELSE <<>>
  BY <1>1 DEF Taken
<1>3. <<x>> \in Seq(S) /\ << >> \in Seq(S)
  BY <1>1
<1> QED BY <1>2, <1>3

LEMMA BasketsSeq ==
  ASSUME NEW b, Listed(b) \in Nat, NEW from, NEW to, NEW S, BasketSet(b) \subseteq S
  PROVE  BasketsUpTo(b, Listed(b), from, to) \in Seq(S)
<1>1. Listed(b) <= Listed(b)
  OBVIOUS
<1>2. Joined(Taken(b, from, to), Listed(b)) \in Seq(S)
  BY <1>1, TakenSeq, JoinedSeq
<1> QED BY <1>2 DEF BasketsUpTo, Taken

\* The payload of a basket that overlaps is that of this basket.
LEMMA ScalarPlace ==
  ASSUME NEW b, Listed(b) \in Nat, NEW from, NEW to, NEW i \in 1 .. Listed(b),
         Overlaps(b, i, from, to)
  PROVE  /\ Len(BasketsUpTo(b, i, from, to)) \in 1 .. Len(BasketsUpTo(b, Listed(b), from, to))
         /\ BasketsUpTo(b, Listed(b), from, to)[Len(BasketsUpTo(b, i, from, to))] = b.baskets[i]
<1>1. \A k : BasketsUpTo(b, k, from, to) = Joined(Taken(b, from, to), k)
  BY DEF BasketsUpTo, Taken
<1>0. PICK n \in Nat : n = Listed(b)
  OBVIOUS
<1>2. PICK parts, S, x :
         /\ parts = Taken(b, from, to) /\ S = BasketSet(b) /\ x = b.baskets[i] /\ n = Listed(b)
  BY <1>0
<1>3. \A k \in 1 .. n : parts[k] \in Seq(S)
  BY <1>2, TakenSeq
<1>4. parts[i] = <<x>>
  BY <1>2 DEF Taken
<1>5. /\ Len(Joined(parts, i)) \in 1 .. Len(Joined(parts, n))
      /\ Joined(parts, n)[Len(Joined(parts, i))] = x
  <2>1. i \in 1 .. n
    BY <1>2
  <2> QED BY ONLY <1>3, <1>4, <2>1, n \in Nat, JoinedPlace
<1> QED BY <1>1, <1>2, <1>5

\* Entries start + 1 .. end of what a branch holds are in the payload.
HasCells(payload, f, b, i) == payload.cells = Slice(f, BasketStart(b, i), BasketEnd(b, i))

PayloadsAre(b, f, payloads, from, to) ==
  \A i \in 1 .. Listed(b) : Overlaps(b, i, from, to) =>
    HasCells(ScalarPayload(b, i, payloads, from, to), f, b, i)

\* Scalars decode to the slice of what was written.
LEMMA ScalarsAre ==
  ASSUME NEW b, NEW f, NEW payloads, NEW from \in Nat, NEW to \in Nat,
         IsRun(b), from < to, to <= b.entries, PayloadsAre(b, f, payloads, from, to)
  PROVE  Scalars(b, payloads, from, to) = Slice(f, from, to)
<1>1. PICK n \in Nat : n = Listed(b)
  BY DEF IsRun
<1> DEFINE part(i) == ScalarPart(b, i, ScalarPayload(b, i, payloads, from, to), from, to)
           parts == [i \in 1 .. n |-> IF Overlaps(b, i, from, to) THEN part(i) ELSE <<>>]
<1>2. Scalars(b, payloads, from, to) = Joined(parts, n)
  BY <1>1 DEF Scalars
<1>3. InARow(n, Starts(b), Ends(b), from, to)
  BY <1>1, RunInARow
<1>4. ASSUME NEW i \in 1 .. n
      PROVE  parts[i] = PartOf(f, Starts(b)[i], Ends(b)[i], from, to)
  <2>1. PICK s \in Nat, e \in Nat :
           s = BasketStart(b, i) /\ e = BasketEnd(b, i) /\ s < e
    BY <1>1 DEF IsRun
  <2>2. Starts(b)[i] = s /\ Ends(b)[i] = e
    BY <1>1, <2>1 DEF Starts, Ends
  <2>3. Overlaps(b, i, from, to) <=> (s < to /\ e > from)
    BY <2>1 DEF Overlaps
  <2>4. CASE Overlaps(b, i, from, to)
    <3>1. PICK x \in Nat, y \in Nat : /\ x = Greater(from, s) - s /\ y = Lesser(to, e) - s
                                      /\ x <= y /\ s + y <= e
                                      /\ s + x = Greater(from, s) /\ s + y = Lesser(to, e)
      BY <2>1, <2>3, <2>4 DEF Greater, Lesser
    <3>2. ScalarPayload(b, i, payloads, from, to).cells = Slice(f, s, e)
      BY <1>1, <2>1, <2>4 DEF PayloadsAre, HasCells
    <3>3. part(i) = After(Slice(f, s, e), x, y)
      BY <2>1, <3>1, <3>2 DEF ScalarPart, After
    <3>4. After(Slice(f, s, e), x, y) = Slice(f, s + x, s + y)
      <4>1. x <= y /\ s + y <= e
        BY <3>1
      <4> HIDE DEF part, parts
      <4> QED BY <4>1, SliceOfSlice
    <3>5. parts[i] = part(i)
      BY <2>4
    <3> HIDE DEF parts, part
    <3> QED BY <2>2, <2>3, <2>4, <3>1, <3>3, <3>4, <3>5 DEF PartOf
  <2>5. CASE ~Overlaps(b, i, from, to)
    <3>1. parts[i] = <<>>
      BY <2>5
    <3> HIDE DEF parts, part
    <3> QED BY <2>2, <2>3, <2>5, <3>1 DEF PartOf
  <2> QED BY <2>4, <2>5
<1> HIDE DEF parts
<1>5. Joined(parts, n) = Slice(f, from, to)
  BY <1>3, <1>4, PartsJoin
<1> QED BY <1>2, <1>5

\* The lists of one jagged basket, by their counts.
LEMMA RowSeq ==
  ASSUME NEW v, NEW w, IsBranch(w), w.jagged
  PROVE  \E S : \A e \in 1 .. Len(w.rows) :
           /\ RowCells(v, w, e) \in Seq(S) /\ Len(RowCells(v, w, e)) = w.rows[e]
<1>1. Len(w.rows) \in Nat /\ \A e \in 1 .. Len(w.rows) : w.rows[e] \in Nat
  BY DEF IsBranch
<1> DEFINE cell(e, k) == <<v, w.name, e, k>>
           S == {cell(e, k) : e \in 1 .. Len(w.rows), k \in Nat}
<1>2. ASSUME NEW e \in 1 .. Len(w.rows)
      PROVE  RowCells(v, w, e) \in Seq(S) /\ Len(RowCells(v, w, e)) = w.rows[e]
  <2>1. PICK n \in Nat : n = w.rows[e]
    BY <1>1
  <2>2. RowCells(v, w, e) = [k \in 1 .. n |-> cell(e, k)]
    BY <2>1 DEF RowCells
  <2>3. \A k \in 1 .. n : cell(e, k) \in S
    OBVIOUS
  <2> HIDE DEF cell, S
  <2> QED BY <2>1, <2>2, <2>3
<1> HIDE DEF S
<1> QED BY <1>2

\* What a basket with entries s + 1 .. e holds, the counts of a part of them,
\* and what the counts cut it into.
CellsIn(v, w, s, e) == Cells(v, w, s + 1, e)

CountsFrom(counts, w, s, y) ==
  Len(counts) = y - s /\ \A k \in 1 .. y - s : counts[k][4] = w.rows[s + k]

ListsBy(cells, counts, skipped) ==
  [k \in 1 .. Len(counts) - skipped |->
     SubSeq(cells, CellsAt(counts, skipped + k - 1) + 1, CellsAt(counts, skipped + k))]

\* Entries x + 1 .. y are looked for in the cells of such a basket.
Counted(v, w, counts, s, x, y, e, d, cells) ==
  /\ d = x - s /\ s <= x /\ x <= y /\ y <= e /\ e <= Len(w.rows)
  /\ cells = CellsIn(v, w, s, e) /\ CountsFrom(counts, w, s, y)

LEMMA ListsCut ==
  ASSUME NEW v, NEW w, NEW counts, NEW s \in Nat, NEW x \in Nat, NEW y \in Nat, NEW e \in Nat,
         NEW d \in Nat, NEW cells, IsBranch(w), w.jagged,
         Counted(v, w, counts, s, x, y, e, d, cells)
  PROVE  ListsBy(cells, counts, d) = Slice(ListsOf(v, w), x, y)
<1> USE DEF Counted
<1>1. PICK n \in Nat, m \in Nat, l \in Nat :
         /\ n = e - s /\ e + 1 - (s + 1) = n /\ m = y - s /\ l = y - x
         /\ m - d = l /\ d <= m /\ m <= n /\ s + d = x
  OBVIOUS
<1>2. PICK S : \A k \in 1 .. Len(w.rows) :
                 RowCells(v, w, k) \in Seq(S) /\ Len(RowCells(v, w, k)) = w.rows[k]
  BY RowSeq
<1> DEFINE parts == [k \in 1 .. n |-> RowCells(v, w, s + 1 + k - 1)]
<1>3. cells = Joined(parts, n)
  BY <1>1 DEF Cells, CellsIn
<1>4. ASSUME NEW k \in 1 .. n
      PROVE  /\ parts[k] \in Seq(S) /\ Len(parts[k]) = w.rows[s + k]
             /\ parts[k] = RowCells(v, w, s + k)
  <2>1. PICK j \in Nat : j = s + k /\ s + 1 + k - 1 = j /\ j \in 1 .. Len(w.rows)
    <3>1. Len(w.rows) \in Nat
      BY DEF IsBranch
    <3> QED BY <1>1, <3>1
  <2>2. parts[k] = RowCells(v, w, j)
    BY <2>1
  <2> QED BY <1>2, <2>1, <2>2
<1> HIDE DEF parts
<1>5. Len(counts) = m /\ \A k \in 1 .. m : counts[k][4] = w.rows[s + k]
  BY <1>1 DEF CountsFrom
<1>6. ASSUME NEW j \in Nat, j <= m PROVE CellsAt(counts, j) = Len(Joined(parts, j))
  <2>1. \A k \in 1 .. j : parts[k] \in Seq(S)
    BY <1>1, <1>4, <1>6
  <2>2. Len(Joined(parts, j)) = Total(LensOf(parts, j))
    BY <2>1, JoinedLen
  <2>3. ASSUME NEW k \in 1 .. j PROVE counts[k][4] = Len(parts[k])
    <3>1. k \in 1 .. m /\ k \in 1 .. n
      BY <1>1, <1>6
    <3> QED BY <1>4, <1>5, <3>1
  <2>4. [k \in 1 .. j |-> counts[k][4]] = LensOf(parts, j)
    BY <2>3 DEF LensOf
  <2> QED BY <2>2, <2>4 DEF CellsAt
<1>7. ASSUME NEW k \in 1 .. l
      PROVE  SubSeq(cells, CellsAt(counts, d + k - 1) + 1, CellsAt(counts, d + k))
               = ListsOf(v, w)[x + k]
  <2>1. PICK j \in Nat : /\ j = d + k /\ j - 1 \in Nat /\ d + k - 1 = j - 1
                         /\ j \in 1 .. n /\ j <= m /\ j - 1 <= m /\ s + j = x + k
                         /\ x + k \in 1 .. Len(w.rows)
    <3>1. Len(w.rows) \in Nat
      BY DEF IsBranch
    <3> QED BY <1>1, <3>1
  <2>2. CellsAt(counts, j) = Len(Joined(parts, j))
    BY <1>6, <2>1
  <2>3. CellsAt(counts, j - 1) = Len(Joined(parts, j - 1))
    BY <1>6, <2>1
  <2>4. SubSeq(Joined(parts, n), Len(Joined(parts, j - 1)) + 1, Len(Joined(parts, j)))
          = parts[j]
    BY <1>4, <2>1, JoinedPart
  <2>5. parts[j] = ListsOf(v, w)[x + k]
    BY <1>4, <2>1 DEF ListsOf
  <2> QED BY <1>3, <2>1, <2>2, <2>3, <2>4, <2>5
<1>8. Slice(ListsOf(v, w), x, y) = [k \in 1 .. l |-> ListsOf(v, w)[x + k]]
  BY <1>1 DEF Slice
<1>9. Len(counts) - d = l
  BY <1>1, <1>5
<1> QED BY <1>7, <1>8, <1>9 DEF ListsBy
-----------------------------------------------------------------------------
(* What is read from the places of a branch's baskets, and what it decodes  *)
(* to.                                                                      *)

\* A payload that a reader gets who asks for this basket.
Held(records, k, payload) ==
  \E r \in ToSet(records) :
    r.kind = "basket" /\ r.at = k.seek /\ r.len <= k.len /\ r.holds = payload

AllHeld(records, ks, payloads) == \A j \in 1 .. Len(ks) : Held(records, ks[j], payloads[j])

\* A branch that was written as w, cut into baskets that follow one another.
IsCutBranch(b, w, v, records) ==
  /\ b.entries = Len(w.rows)
  /\ b.entries > 0 =>
       /\ IsRun(b)
       /\ \A i \in 1 .. Listed(b) :
            /\ ~b.baskets[i].inMemory
            /\ \A r \in ToSet(records) :
                 r.kind = "basket" /\ r.at = b.baskets[i].seek /\ r.len <= b.baskets[i].len =>
                   r.holds.cells = Cells(v, w, BasketStart(b, i) + 1, BasketEnd(b, i))

LEMMA CutRun ==
  ASSUME NEW b, NEW w, NEW v, NEW records, IsCutBranch(b, w, v, records),
         Len(w.rows) \in Nat, NEW from \in Nat, NEW to \in Nat, from < to, to <= b.entries
  PROVE  /\ IsRun(b) /\ b.entries = Len(w.rows)
         /\ \A i \in 1 .. Listed(b) : \A payload : Held(records, b.baskets[i], payload) =>
              payload.cells = Cells(v, w, BasketStart(b, i) + 1, BasketEnd(b, i))
<1>1. b.entries = Len(w.rows) /\ b.entries > 0
  BY DEF IsCutBranch
<1>2. ASSUME NEW i \in 1 .. Listed(b), NEW payload, Held(records, b.baskets[i], payload)
      PROVE  payload.cells = Cells(v, w, BasketStart(b, i) + 1, BasketEnd(b, i))
  <2>1. PICK r \in ToSet(records) :
          /\ r.kind = "basket" /\ r.at = b.baskets[i].seek /\ r.len <= b.baskets[i].len
          /\ r.holds = payload
    BY <1>2 DEF Held
  <2> QED BY <1>1, <1>2, <2>1 DEF IsCutBranch
<1>3. IsRun(b)
  BY <1>1 DEF IsCutBranch
<1> QED BY <1>1, <1>2, <1>3

LEMMA ScalarColumn ==
  ASSUME NEW b, NEW w, NEW v, NEW records, NEW payloads, NEW from \in Nat, NEW to \in Nat,
         IsCutBranch(b, w, v, records), ~w.jagged, Len(w.rows) \in Nat,
         from < to, to <= b.entries,
         AllHeld(records, BasketsUpTo(b, Listed(b), from, to), payloads)
  PROVE  Scalars(b, payloads, from, to) = Slice(CellsOf(v, w), from, to)
<1>1. /\ IsRun(b) /\ b.entries = Len(w.rows)
      /\ \A i \in 1 .. Listed(b) : \A payload : Held(records, b.baskets[i], payload) =>
           payload.cells = Cells(v, w, BasketStart(b, i) + 1, BasketEnd(b, i))
  BY CutRun
<1>2. ASSUME NEW i \in 1 .. Listed(b), Overlaps(b, i, from, to)
      PROVE  HasCells(ScalarPayload(b, i, payloads, from, to), CellsOf(v, w), b, i)
  <2>1. PICK j \in 1 .. Len(BasketsUpTo(b, Listed(b), from, to)) :
          /\ j = Len(BasketsUpTo(b, i, from, to))
          /\ BasketsUpTo(b, Listed(b), from, to)[j] = b.baskets[i]
    <3>1. Listed(b) \in Nat
      BY <1>1 DEF IsRun
    <3> QED BY <1>2, <3>1, ScalarPlace
  <2>2. PICK payload : payload = ScalarPayload(b, i, payloads, from, to) /\ payload = payloads[j]
    BY <2>1 DEF ScalarPayload
  <2>3. Held(records, b.baskets[i], payload)
    BY <2>1, <2>2 DEF AllHeld
  <2>4. payload.cells = Cells(v, w, BasketStart(b, i) + 1, BasketEnd(b, i))
    BY <1>1, <2>3
  <2>5. PICK s \in Nat, e \in Nat :
          s = BasketStart(b, i) /\ e = BasketEnd(b, i) /\ s <= e /\ e <= Len(w.rows)
    BY <1>1 DEF IsRun
  <2>6. Cells(v, w, s + 1, e) = Slice(CellsOf(v, w), s, e)
    BY <2>5, ScalarCells
  <2> QED BY <2>2, <2>4, <2>5, <2>6 DEF HasCells
<1>3. PayloadsAre(b, CellsOf(v, w), payloads, from, to)
  BY <1>2 DEF PayloadsAre
<1> QED BY <1>1, <1>3, ScalarsAre

\* The payloads of one part of joined baskets.
JoinedHeld(records, S, P, parts, n, payloads) ==
  /\ payloads \in Seq(P) /\ \A k \in 1 .. n : parts[k] \in Seq(S)
  /\ Len(payloads) = Len(Joined(parts, n)) /\ AllHeld(records, Joined(parts, n), payloads)

PartAt(payloads, parts, i) ==
  After(payloads, Len(Joined(parts, i - 1)), Len(Joined(parts, i)))

LEMMA PartHeld ==
  ASSUME NEW records, NEW S, NEW P, NEW parts, NEW payloads, NEW n \in Nat, NEW i \in 1 .. n,
         JoinedHeld(records, S, P, parts, n, payloads)
  PROVE  /\ PartAt(payloads, parts, i) \in Seq(P)
         /\ Len(PartAt(payloads, parts, i)) = Len(parts[i])
         /\ AllHeld(records, parts[i], PartAt(payloads, parts, i))
<1>0. PICK of : of = PartAt(payloads, parts, i)
  OBVIOUS
<1> USE DEF JoinedHeld
<1>1. PICK j \in Nat : j = i /\ j # 0 /\ j <= n /\ j - 1 \in Nat /\ j - 1 <= n
  OBVIOUS
<1>2. PICK before, part, upto, all :
         /\ before = Joined(parts, j - 1) /\ part = parts[j]
         /\ upto = Joined(parts, j) /\ all = Joined(parts, n)
  OBVIOUS
<1>3. before \in Seq(S) /\ upto \in Seq(S) /\ all \in Seq(S)
  <2>1. Joined(parts, j - 1) \in Seq(S)
    BY <1>1, JoinedSeq
  <2>2. Joined(parts, j) \in Seq(S)
    BY <1>1, JoinedSeq
  <2>3. Joined(parts, n) \in Seq(S)
    <3>1. n <= n
      OBVIOUS
    <3> QED BY <3>1, JoinedSeq
  <2> QED BY <1>2, <2>1, <2>2, <2>3
<1>4. upto = before \o part /\ part \in Seq(S)
  BY <1>1, <1>2, JoinedNext
<1>5. IsBeginning(upto, all)
  BY <1>1, <1>2, JoinedBegins
<1>6. PICK a \in Nat, m \in Nat, c \in Nat : a = Len(before) /\ m = Len(part) /\ c = Len(all)
  BY <1>3, <1>4
<1>7. Len(upto) = a + m /\ \A k \in 1 .. m : upto[a + k] = part[k]
  <2>1. /\ Len(before \o part) = Len(before) + Len(part)
        /\ \A k \in 1 .. Len(part) : (before \o part)[Len(before) + k] = part[k]
    BY ONLY <1>3, <1>4, ThenBegins
  <2> QED BY <1>4, <1>6, <2>1
<1>8. a + m <= c /\ \A k \in 1 .. m : all[a + k] = part[k]
  <2>1. a + m <= c /\ \A k \in 1 .. a + m : all[k] = upto[k]
    BY <1>5, <1>6, <1>7 DEF IsBeginning
  <2>2. \A k \in 1 .. m : a + k \in 1 .. a + m
    OBVIOUS
  <2> QED BY <1>7, <2>1, <2>2
<1>9. of = SubSeq(payloads, a + 1, a + m) /\ Len(payloads) = c
  BY <1>0, <1>1, <1>2, <1>6, <1>7 DEF After, PartAt
<1>10. of \in Seq(P) /\ Len(of) = m /\ \A k \in 1 .. m : of[k] = payloads[a + k]
  <2>1. SubSeq(payloads, a + 1, a + m) = [k \in 1 .. m |-> payloads[a + k]]
    <3>1. a + m - (a + 1) + 1 = m /\ \A k \in Nat : a + 1 + k - 1 = a + k
      OBVIOUS
    <3>2. SubSeq(payloads, a + 1, a + m)
            = [k \in 1 .. a + m - (a + 1) + 1 |-> payloads[a + 1 + k - 1]]
      OBVIOUS
    <3> QED BY <3>1, <3>2
  <2>2. \A k \in 1 .. m : payloads[a + k] \in P
    <3>1. \A k \in 1 .. m : a + k \in 1 .. c
      BY <1>8
    <3>2. payloads \in Seq(P) /\ Len(payloads) = c
      BY <1>9
    <3> QED BY ONLY <3>1, <3>2, c \in Nat
  <2>3. PICK g : g = [k \in 1 .. m |-> payloads[a + k]]
    OBVIOUS
  <2>4. g \in Seq(P) /\ Len(g) = m /\ \A k \in 1 .. m : g[k] = payloads[a + k]
    BY <2>2, <2>3
  <2>5. of = g
    BY <1>9, <2>1, <2>3
  <2> QED BY <2>4, <2>5
<1>11. ASSUME NEW k \in 1 .. m PROVE Held(records, part[k], of[k])
  <2>1. a + k \in 1 .. c
    BY <1>8
  <2>2. Held(records, all[a + k], payloads[a + k])
    BY <1>2, <1>6, <2>1 DEF AllHeld
  <2> QED BY <1>8, <1>10, <2>2
<1> QED BY <1>0, <1>1, <1>2, <1>6, <1>10, <1>11 DEF AllHeld

\* A jagged branch and its counter.
IsCounted(b, c, w, wc, v, records) ==
  /\ IsCutBranch(b, w, v, records) /\ IsBranch(w) /\ w.jagged
  /\ IsCutBranch(c, wc, v, records) /\ IsBranch(wc) /\ ~wc.jagged
  /\ \A e \in DOMAIN w.rows : w.rows[e] = wc.rows[e]

\* The baskets of the counts, then that of the lists.
CountsOf(b, c, i, to) == BasketsUpTo(c, Listed(c), BasketStart(b, i), CountsEnd(b, i, to))

OfBasket(b, c, i, to, S, P, part, of, records) ==
  /\ CountsOf(b, c, i, to) \in Seq(S) /\ b.baskets[i] \in S
  /\ part = CountsOf(b, c, i, to) \o <<b.baskets[i]>>
  /\ of \in Seq(P) /\ Len(of) = Len(part) /\ AllHeld(records, part, of)

\* One basket of a jagged branch, whose payload comes after those of its
\* counts.
LEMMA JaggedOne ==
  ASSUME NEW b, NEW c, NEW w, NEW wc, NEW v, NEW records, NEW of, NEW part, NEW P, NEW S,
         NEW i \in 1 .. Listed(b), NEW from \in Nat, NEW to \in Nat,
         IsCounted(b, c, w, wc, v, records), c.entries = b.entries,
         Overlaps(b, i, from, to), to <= b.entries,
         OfBasket(b, c, i, to, S, P, part, of, records)
  PROVE  JaggedPart(b, c, i, of, from, to)
           = Slice(ListsOf(v, w), Greater(from, BasketStart(b, i)), Lesser(to, BasketEnd(b, i)))
<1> USE DEF IsCounted, OfBasket
<1>0. PICK counts : counts = CountsOf(b, c, i, to) /\ counts \in Seq(S)
  OBVIOUS
<1>1. /\ Len(w.rows) \in Nat /\ Len(wc.rows) \in Nat /\ DOMAIN w.rows = 1 .. Len(w.rows)
      /\ b.entries = Len(w.rows) /\ c.entries = Len(wc.rows) /\ Len(wc.rows) = Len(w.rows)
  BY DEF IsBranch, IsCutBranch
<1>2. /\ IsRun(b)
      /\ \A payload : Held(records, b.baskets[i], payload) =>
           payload.cells = Cells(v, w, BasketStart(b, i) + 1, BasketEnd(b, i))
  <2>1. from < to /\ Len(w.rows) \in Nat /\ IsCutBranch(b, w, v, records) /\ to <= b.entries
    BY <1>1 DEF Overlaps
  <2>2. /\ IsRun(b) /\ b.entries = Len(w.rows)
        /\ \A k \in 1 .. Listed(b) : \A payload : Held(records, b.baskets[k], payload) =>
             payload.cells = Cells(v, w, BasketStart(b, k) + 1, BasketEnd(b, k))
    BY ONLY <2>1, from \in Nat, to \in Nat, CutRun
  <2> QED BY <2>2
<1>3. PICK s \in Nat, e \in Nat, x \in Nat, y \in Nat :
        /\ s = BasketStart(b, i) /\ e = BasketEnd(b, i) /\ s < e /\ e <= Len(w.rows)
        /\ x = Greater(from, s) /\ y = Lesser(to, e) /\ s <= x /\ x < y /\ y <= e
        /\ y = CountsEnd(b, i, to)
  <2>1. PICK s \in Nat, e \in Nat :
          s = BasketStart(b, i) /\ e = BasketEnd(b, i) /\ s < e /\ e <= Len(w.rows)
    BY <1>1, <1>2 DEF IsRun
  <2>2. s < to /\ e > from /\ from < to
    BY <2>1 DEF Overlaps
  <2>3. PICK x \in Nat, y \in Nat : x = Greater(from, s) /\ y = Lesser(to, e)
    BY DEF Greater, Lesser
  <2>4. s <= x /\ x < y /\ y <= e
    BY <2>1, <2>2, <2>3 DEF Greater, Lesser
  <2>5. y = CountsEnd(b, i, to)
    BY <2>1, <2>3 DEF CountsEnd
  <2> QED BY <2>1, <2>3, <2>4, <2>5
<1>4. PICK n \in Nat, m \in Nat : n = Len(counts) /\ m = n + 1 /\ Len(part) = m /\ part[m] = b.baskets[i]
                                  /\ \A j \in 1 .. n : part[j] = counts[j]
  <2>1. PICK last : last = <<b.baskets[i]>>
    OBVIOUS
  <2>2. last \in Seq(S) /\ Len(last) = 1 /\ last[1] = b.baskets[i]
    BY <2>1
  <2>3. /\ Len(counts \o last) = Len(counts) + Len(last) /\ IsBeginning(counts, counts \o last)
        /\ \A k \in 1 .. Len(last) : (counts \o last)[Len(counts) + k] = last[k]
    <3>1. last \in Seq(S)
      BY <2>2
    <3>2. counts \in Seq(S)
      BY <1>0
    <3> QED BY ONLY <3>1, <3>2, ThenBegins
  <2>4. part = counts \o last /\ 1 \in 1 .. 1
    BY <1>0, <2>1
  <2>5. Len(counts) \in Nat
    BY <1>0
  <2> HIDE DEF IsBeginning
  <2>6. Len(part) = Len(counts) + 1 /\ part[Len(counts) + 1] = b.baskets[i]
    BY ONLY <2>2, <2>3, <2>4
  <2>7. \A j \in 1 .. Len(counts) : part[j] = counts[j]
    BY ONLY <2>3, <2>4 DEF IsBeginning
  <2>8. PICK n \in Nat : n = Len(counts)
    BY <2>5
  <2>9. PICK m \in Nat : m = n + 1
    OBVIOUS
  <2> QED BY ONLY n \in Nat, m \in Nat, <2>6, <2>7, <2>8, <2>9
<1>5. of[m].cells = Cells(v, w, s + 1, e) /\ Len(of) = m
  <2>1. Held(records, b.baskets[i], of[m])
    <3>1. m \in 1 .. Len(part)
      BY <1>4
    <3>2. Held(records, part[m], of[m])
      BY <3>1 DEF AllHeld
    <3> QED BY <1>4, <3>2
  <2> QED BY <1>2, <1>3, <1>4, <2>1
<1>6. Scalars(c, of, s, y) = Slice(CellsOf(v, wc), s, y)
  <2>1. s < y /\ y <= c.entries
    BY <1>1, <1>3
  <2>2. counts = BasketsUpTo(c, Listed(c), s, y)
    BY <1>0, <1>3 DEF CountsOf
  <2>3. ASSUME NEW j \in 1 .. Len(counts) PROVE Held(records, counts[j], of[j])
    <3>1. j \in 1 .. n /\ j \in 1 .. m
      BY <1>4
    <3> QED BY <1>4, <3>1 DEF AllHeld
  <2>4. AllHeld(records, BasketsUpTo(c, Listed(c), s, y), of)
    BY <2>2, <2>3 DEF AllHeld
  <2>5. IsCutBranch(c, wc, v, records) /\ ~wc.jagged /\ Len(wc.rows) \in Nat
    BY <1>1
  <2> QED BY ONLY s \in Nat, y \in Nat, <2>1, <2>4, <2>5, ScalarColumn
<1>7. PICK cs : cs = Scalars(c, of, s, y)
  OBVIOUS
<1>8. CountsFrom(cs, w, s, y)
  <2>1. PICK l \in Nat : l = y - s
    BY <1>3
  <2>2. cs = [k \in 1 .. l |-> CellsOf(v, wc)[s + k]]
    BY <1>6, <1>7, <2>1 DEF Slice
  <2>3. ASSUME NEW k \in 1 .. l PROVE cs[k][4] = w.rows[s + k]
    <3>1. PICK j \in Nat : j = s + k /\ j \in 1 .. Len(w.rows)
      <4>1. y <= Len(w.rows)
        <5>1. y <= e /\ e <= Len(w.rows)
          BY <1>3
        <5> QED BY <1>1, <5>1
      <4> QED BY <1>1, <2>1, <4>1
    <3>2. CellsOf(v, wc)[j] = <<v, wc.name, j, wc.rows[j]>>
      BY <1>1, <3>1 DEF CellsOf
    <3>3. wc.rows[j] = w.rows[j]
      BY <1>1, <3>1
    <3> QED BY <2>2, <3>1, <3>2, <3>3
  <2> QED BY <2>1, <2>2, <2>3 DEF CountsFrom
<1>9. PICK d \in Nat, cells \in {CellsIn(v, w, s, e)} : cells = CellsIn(v, w, s, e) /\ d = x - s
  BY <1>3
<1>10. ListsBy(cells, cs, d) = Slice(ListsOf(v, w), x, y)
  <2>1. Counted(v, w, cs, s, x, y, e, d, cells)
    BY <1>3, <1>8, <1>9 DEF Counted
  <2> QED BY <2>1, ListsCut
<1>11. JaggedPart(b, c, i, of, from, to) = ListsBy(cells, cs, d)
  BY <1>3, <1>5, <1>7, <1>9 DEF JaggedPart, ListsBy, CellsIn
<1> QED BY <1>3, <1>10, <1>11

Fetched(b, c, i, from, to) ==
  IF Overlaps(b, i, from, to) THEN CountsOf(b, c, i, to) \o <<b.baskets[i]>> ELSE <<>>

LEMMA FetchedSeq ==
  ASSUME NEW b, NEW c, NEW i \in 1 .. Listed(b), NEW from, NEW to, NEW S, Listed(c) \in Nat,
         BasketSet(b) \subseteq S, BasketSet(c) \subseteq S
  PROVE  /\ CountsOf(b, c, i, to) \in Seq(S) /\ b.baskets[i] \in S
         /\ Fetched(b, c, i, from, to) \in Seq(S)
<1>1. PICK counts : counts = CountsOf(b, c, i, to)
  OBVIOUS
<1>2. counts \in Seq(S)
  BY <1>1, BasketsSeq DEF CountsOf
<1>3. PICK x, last : x = b.baskets[i] /\ x \in S /\ last = <<x>>
  BY DEF BasketSet
<1>4. last \in Seq(S) /\ << >> \in Seq(S)
  BY <1>3
<1>5. counts \o last \in Seq(S)
  BY ONLY <1>2, <1>4
<1>6. Fetched(b, c, i, from, to) \in {counts \o last, << >>}
  BY <1>1, <1>3 DEF Fetched
<1> QED BY <1>1, <1>2, <1>3, <1>4, <1>5, <1>6

LEMMA JaggedBasketsSeq ==
  ASSUME NEW tree0, NEW b, NEW from, NEW to, NEW S, Listed(b) \in Nat,
         Listed(Branch(tree0, b.counter)) \in Nat,
         BasketSet(b) \subseteq S, BasketSet(Branch(tree0, b.counter)) \subseteq S
  PROVE  JaggedBasketsUpTo(tree0, b, Listed(b), from, to) \in Seq(S)
<1>1. PICK c : c = Branch(tree0, b.counter)
  OBVIOUS
<1>2. PICK n \in Nat : n = Listed(b) /\ n <= n
  OBVIOUS
<1> DEFINE fetched == [i \in 1 .. n |-> Fetched(b, c, i, from, to)]
<1>3. JaggedBasketsUpTo(tree0, b, n, from, to) = Joined(fetched, n)
  BY <1>1, <1>2 DEF JaggedBasketsUpTo, Fetched, CountsOf, CountBaskets
<1>4. \A i \in 1 .. n : fetched[i] \in Seq(S)
  BY <1>1, <1>2, FetchedSeq
<1> HIDE DEF fetched
<1>5. Joined(fetched, n) \in Seq(S)
  BY <1>2, <1>4, JoinedSeq
<1> QED BY <1>2, <1>3, <1>5

\* Lists decode to the slice of what was written.
Lists(tree0, b, c, payloads, from, to) ==
  Joined([i \in 1 .. Listed(b) |->
            IF Overlaps(b, i, from, to)
            THEN JaggedPart(b, c, i, JaggedPayloads(tree0, b, i, payloads, from, to), from, to)
            ELSE <<>>], Listed(b))

LEMMA JaggedColumn ==
  ASSUME NEW tree0, NEW b, NEW c, NEW w, NEW wc, NEW v, NEW records, NEW payloads, NEW P,
         NEW from \in Nat, NEW to \in Nat,
         IsCounted(b, c, w, wc, v, records), c.entries = b.entries,
         c = Branch(tree0, b.counter), from < to, to <= b.entries,
         payloads \in Seq(P),
         Len(payloads) = Len(JaggedBasketsUpTo(tree0, b, Listed(b), from, to)),
         AllHeld(records, JaggedBasketsUpTo(tree0, b, Listed(b), from, to), payloads)
  PROVE  Lists(tree0, b, c, payloads, from, to) = Slice(ListsOf(v, w), from, to)
<1>1. Len(w.rows) \in Nat /\ Len(wc.rows) \in Nat /\ b.entries = Len(w.rows)
  BY DEF IsCounted, IsBranch, IsCutBranch
<1>2. IsRun(b) /\ IsRun(c)
  BY <1>1 DEF IsCounted, IsCutBranch
<1>3. PICK n \in Nat : n = Listed(b)
  BY <1>2 DEF IsRun
<1>4. PICK S : S = BasketSet(b) \cup BasketSet(c)
  OBVIOUS
<1> DEFINE fetched == [i \in 1 .. n |-> Fetched(b, c, i, from, to)]
           of(i) == JaggedPayloads(tree0, b, i, payloads, from, to)
           part(i) == JaggedPart(b, c, i, of(i), from, to)
           parts == [i \in 1 .. n |-> IF Overlaps(b, i, from, to) THEN part(i) ELSE <<>>]
<1>5. \A k : JaggedBasketsUpTo(tree0, b, k, from, to) = Joined(fetched, k)
  BY <1>3 DEF JaggedBasketsUpTo, Fetched, CountsOf, CountBaskets
<1>6. \A i \in 1 .. n : fetched[i] \in Seq(S)
  <2>1. Listed(c) \in Nat
    BY <1>2 DEF IsRun
  <2> QED BY <1>3, <1>4, <2>1, FetchedSeq
<1>7. Lists(tree0, b, c, payloads, from, to) = Joined(parts, n)
  BY <1>3 DEF Lists
<1>8. InARow(n, Starts(b), Ends(b), from, to)
  BY <1>2, <1>3, RunInARow
<1>9. ASSUME NEW i \in 1 .. n, Overlaps(b, i, from, to)
      PROVE  part(i) = Slice(ListsOf(v, w), Greater(from, BasketStart(b, i)), Lesser(to, BasketEnd(b, i)))
  <2>1. of(i) = PartAt(payloads, fetched, i)
    <3> HIDE DEF fetched
    <3>1. /\ JaggedBasketsUpTo(tree0, b, i - 1, from, to) = Joined(fetched, i - 1)
          /\ JaggedBasketsUpTo(tree0, b, i, from, to) = Joined(fetched, i)
      BY <1>5
    <3>2. of(i) = After(payloads, Len(JaggedBasketsUpTo(tree0, b, i - 1, from, to)),
                        Len(JaggedBasketsUpTo(tree0, b, i, from, to)))
      BY DEF JaggedPayloads, After
    <3> HIDE DEF of
    <3> QED BY ONLY <3>1, <3>2 DEF PartAt
  <2>2. PICK o, p : o = of(i) /\ p = fetched[i]
    OBVIOUS
  <2>3. Len(payloads) = Len(Joined(fetched, n)) /\ AllHeld(records, Joined(fetched, n), payloads)
    BY <1>3, <1>5
  <2> HIDE DEF fetched, of
  <2>4. o \in Seq(P) /\ Len(o) = Len(p) /\ AllHeld(records, p, o)
    <3>1. JoinedHeld(records, S, P, fetched, n, payloads)
      BY <1>6, <2>3 DEF JoinedHeld
    <3>2. /\ PartAt(payloads, fetched, i) \in Seq(P)
          /\ Len(PartAt(payloads, fetched, i)) = Len(fetched[i])
          /\ AllHeld(records, fetched[i], PartAt(payloads, fetched, i))
      BY <3>1, PartHeld
    <3> QED BY <2>1, <2>2, <3>2
  <2>5. p = CountsOf(b, c, i, to) \o <<b.baskets[i]>>
    <3>1. p = Fetched(b, c, i, from, to)
      BY <2>2 DEF fetched
    <3> QED BY <1>9, <3>1 DEF Fetched
  <2>6. CountsOf(b, c, i, to) \in Seq(S) /\ b.baskets[i] \in S /\ i \in 1 .. Listed(b)
    <3>1. Listed(c) \in Nat
      BY <1>2 DEF IsRun
    <3> QED BY <1>3, <1>4, <3>1, FetchedSeq
  <2>7. JaggedPart(b, c, i, o, from, to)
          = Slice(ListsOf(v, w), Greater(from, BasketStart(b, i)), Lesser(to, BasketEnd(b, i)))
    <3>1. /\ IsCounted(b, c, w, wc, v, records) /\ c.entries = b.entries /\ to <= b.entries
          /\ Overlaps(b, i, from, to)
      BY <1>9
    <3>2. from \in Nat /\ to \in Nat
      OBVIOUS
    <3>3. OfBasket(b, c, i, to, S, P, p, o, records)
      BY <2>4, <2>5, <2>6 DEF OfBasket
    <3> QED BY ONLY <2>6, <3>1, <3>2, <3>3, JaggedOne
  <2> QED BY <2>2, <2>7
<1>10. ASSUME NEW i \in 1 .. n
       PROVE  parts[i] = PartOf(ListsOf(v, w), Starts(b)[i], Ends(b)[i], from, to)
  <2>1. PICK s \in Nat, e \in Nat : s = BasketStart(b, i) /\ e = BasketEnd(b, i)
    BY <1>2, <1>3 DEF IsRun
  <2>2. Starts(b)[i] = s /\ Ends(b)[i] = e
    BY <1>3, <2>1 DEF Starts, Ends
  <2>3. Overlaps(b, i, from, to) <=> (s < to /\ e > from)
    BY <2>1 DEF Overlaps
  <2>4. parts[i] = IF Overlaps(b, i, from, to) THEN part(i) ELSE <<>>
    OBVIOUS
  <2> HIDE DEF part, parts
  <2> QED BY <1>9, <2>1, <2>2, <2>3, <2>4 DEF PartOf
<1> HIDE DEF parts
<1>11. Joined(parts, n) = Slice(ListsOf(v, w), from, to)
  BY <1>8, <1>10, PartsJoin
<1> QED BY <1>7, <1>11
-----------------------------------------------------------------------------
(* Columns.                                                                 *)

FirstOf(bs, i) == \A k \in 1 .. i - 1 : bs[k].name # bs[i].name

LEMMA FirstNamedIs ==
  ASSUME NEW bs, NEW n \in Nat, DOMAIN bs = 1 .. n, NEW i \in 1 .. n, FirstOf(bs, i)
  PROVE  FirstNamed(bs, bs[i].name) = bs[i]
<1> DEFINE first(k) == bs[k].name = bs[i].name /\ \A l \in 1 .. k - 1 : bs[l].name # bs[i].name
<1>1. first(i)
  BY DEF FirstOf
<1>2. ASSUME NEW k \in 1 .. n, first(k) PROVE k = i
  <2>1. ~(k < i)
    BY <1>1, <1>2
  <2>2. ~(i < k)
    BY <1>2
  <2> QED BY <2>1, <2>2
<1>3. FirstNamed(bs, bs[i].name) = bs[CHOOSE k \in 1 .. n : first(k)]
  BY DEF FirstNamed
<1> HIDE DEF first
<1>4. (CHOOSE k \in 1 .. n : first(k)) = i
  BY <1>1, <1>2
<1> QED BY <1>3, <1>4

LEMMA FirstExists ==
  ASSUME NEW bs, NEW n \in Nat, NEW i \in 1 .. n
  PROVE  \E k \in 1 .. n : bs[k].name = bs[i].name /\ FirstOf(bs, k)
<1> DEFINE T == {k \in 1 .. n : bs[k].name = bs[i].name}
<1>1. T \subseteq Nat /\ T # {}
  OBVIOUS
<1>2. PICK k \in T : \A l \in T : k <= l
  <2> HIDE DEF T
  <2> QED BY <1>1, LeastElement
<1>3. ASSUME NEW l \in 1 .. k - 1 PROVE bs[l].name # bs[k].name
  <2>1. l \in 1 .. n /\ l < k
    BY <1>2
  <2> QED BY <1>2, <2>1
<1> QED BY <1>2, <1>3 DEF FirstOf

\* A parsed branch whose baskets are all in the file, of which each holds its
\* entries of what was written, and the branch that counts it.
IsCutColumn(branches, bs, i, v, records) ==
  /\ IsCutBranch(branches[i], bs[i], v, records)
  /\ ~bs[i].jagged => branches[i].counter = NoName
  /\ bs[i].jagged => \E c \in DOMAIN bs :
       /\ branches[i].counter = bs[c].name /\ FirstOf(bs, c)
       /\ IsCutBranch(branches[c], bs[c], v, records)
       /\ ~bs[c].jagged /\ CountsMatch(bs, i, c)

\* A parsed tree that was written as bs; branches with baskets in memory are
\* left out.
IsCut(parsed, bs, v, records) ==
  /\ DOMAIN parsed.branches = DOMAIN bs /\ parsed.entries \in Nat
  /\ \A i \in DOMAIN bs :
       /\ parsed.branches[i].name = bs[i].name
       /\ parsed.entries <= Len(bs[i].rows)
       /\ \/ \E k \in ToSet(parsed.branches[i].baskets) : k.inMemory
          \/ IsCutColumn(parsed.branches, bs, i, v, records)

NotOnDisk(b) == \E k \in ToSet(b.baskets) : k.inMemory

\* What is found for a name, in the tree and in what was written.
LEMMA ColumnFound ==
  ASSUME NEW tree0, NEW bs, NEW v, NEW records, NEW name, BranchList(bs),
         IsCut(tree0, bs, v, records), \E i \in DOMAIN bs : bs[i].name = name,
         ~NotOnDisk(Branch(tree0, name))
  PROVE  \E i \in DOMAIN bs :
           /\ Branch(tree0, name) = tree0.branches[i] /\ FirstNamed(bs, name) = bs[i]
           /\ tree0.entries <= Len(bs[i].rows) /\ IsBranch(bs[i])
           /\ IsCutColumn(tree0.branches, bs, i, v, records)
<1>1. PICK n \in Nat : n = Len(bs) /\ DOMAIN bs = 1 .. n /\ DOMAIN tree0.branches = 1 .. n
  BY BranchesAre DEF IsCut
<1>2. PICK i \in 1 .. n : bs[i].name = name /\ FirstOf(bs, i)
  BY <1>1, FirstExists
<1>3. FirstNamed(bs, name) = bs[i]
  BY <1>1, <1>2, FirstNamedIs
<1>4. \A k \in 1 .. n : tree0.branches[k].name = bs[k].name
  BY <1>1 DEF IsCut
<1>5. FirstOf(tree0.branches, i)
  <2>1. \A k \in 1 .. i - 1 : k \in 1 .. n
    OBVIOUS
  <2> QED BY <1>2, <1>4, <2>1 DEF FirstOf
<1>6. Branch(tree0, name) = tree0.branches[i]
  <2>1. FirstNamed(tree0.branches, tree0.branches[i].name) = tree0.branches[i]
    BY <1>1, <1>5, FirstNamedIs
  <2> QED BY <1>2, <1>4, <2>1 DEF Branch
<1>7. IsBranch(bs[i])
  BY <1>1, BranchesAre
<1> QED BY <1>1, <1>3, <1>6, <1>7 DEF IsCut, NotOnDisk

\* The branch that counts a column.
LEMMA CounterFound ==
  ASSUME NEW tree0, NEW bs, NEW v, NEW records, NEW i \in DOMAIN bs, BranchList(bs),
         IsCut(tree0, bs, v, records), IsCutColumn(tree0.branches, bs, i, v, records), bs[i].jagged
  PROVE  \E c \in DOMAIN bs :
           /\ Branch(tree0, tree0.branches[i].counter) = tree0.branches[c]
           /\ tree0.branches[i].counter = bs[c].name
           /\ IsCounted(tree0.branches[i], tree0.branches[c], bs[i], bs[c], v, records)
<1>1. PICK n \in Nat : n = Len(bs) /\ DOMAIN bs = 1 .. n /\ DOMAIN tree0.branches = 1 .. n
  BY BranchesAre DEF IsCut
<1>2. PICK c \in 1 .. n :
       /\ tree0.branches[i].counter = bs[c].name /\ FirstOf(bs, c)
       /\ IsCutBranch(tree0.branches[c], bs[c], v, records)
       /\ ~bs[c].jagged /\ CountsMatch(bs, i, c)
  BY <1>1 DEF IsCutColumn
<1>3. \A k \in 1 .. n : tree0.branches[k].name = bs[k].name
  BY <1>1 DEF IsCut
<1>4. FirstOf(tree0.branches, c)
  <2>1. \A k \in 1 .. c - 1 : k \in 1 .. n
    OBVIOUS
  <2> QED BY <1>2, <1>3, <2>1 DEF FirstOf
<1>5. Branch(tree0, bs[c].name) = tree0.branches[c]
  <2>1. FirstNamed(tree0.branches, tree0.branches[c].name) = tree0.branches[c]
    BY <1>1, <1>4, FirstNamedIs
  <2> QED BY <1>3, <2>1 DEF Branch
<1>6. IsBranch(bs[c]) /\ IsBranch(bs[i])
  BY <1>1, BranchesAre
<1>7. IsCounted(tree0.branches[i], tree0.branches[c], bs[i], bs[c], v, records)
  BY <1>2, <1>6 DEF IsCounted, IsCutColumn, CountsMatch
<1> QED BY <1>1, <1>2, <1>5, <1>7

\* Rows from + 1 .. to of what was written.
RowsFrom(v, w, from, to) ==
  IF w.jagged THEN [e \in 1 .. to - from |-> RowCells(v, w, from + e)]
  ELSE Cells(v, w, from + 1, to)

ReadFor(records, P, ks, payloads) ==
  payloads \in Seq(P) /\ Len(payloads) = Len(ks) /\ AllHeld(records, ks, payloads)

\* A column that decodes is the slice of what was written.
LEMMA ColumnReads ==
  ASSUME NEW tree0, NEW bs, NEW v, NEW records, NEW name, NEW P, NEW payloads,
         NEW from \in Nat, NEW to \in Nat, BranchList(bs), \A i \in DOMAIN bs : bs[i].name # NoName,
         IsCut(tree0, bs, v, records), \E i \in DOMAIN bs : bs[i].name = name,
         ~NotOnDisk(Branch(tree0, name)), from < to, to <= tree0.entries,
         ReadFor(records, P, ColumnBaskets(tree0, Branch(tree0, name), from, to), payloads),
         ~Decode(tree0, Branch(tree0, name), payloads, from, to).failed
  PROVE  Decode(tree0, Branch(tree0, name), payloads, from, to).is
           = RowsFrom(v, FirstNamed(bs, name), from, to)
<1>1. PICK i \in DOMAIN bs :
           /\ Branch(tree0, name) = tree0.branches[i] /\ FirstNamed(bs, name) = bs[i]
           /\ tree0.entries <= Len(bs[i].rows) /\ IsBranch(bs[i])
           /\ IsCutColumn(tree0.branches, bs, i, v, records)
  BY ColumnFound
<1>2. PICK b, w : b = tree0.branches[i] /\ w = bs[i]
  OBVIOUS
<1>3. /\ Len(w.rows) \in Nat /\ b.entries = Len(w.rows) /\ from <= to /\ to <= Len(w.rows)
      /\ to <= b.entries /\ IsCutBranch(b, w, v, records) /\ IsBranch(w)
  <2>1. Len(w.rows) \in Nat /\ b.entries = Len(w.rows)
    BY <1>1, <1>2 DEF IsBranch, IsCutColumn, IsCutBranch
  <2>2. tree0.entries \in Nat
    BY DEF IsCut
  <2> QED BY <1>1, <1>2, <2>1, <2>2 DEF IsCutColumn
<1>4. CASE ~w.jagged
  <2>1. b.counter = NoName
    BY <1>1, <1>2, <1>4 DEF IsCutColumn
  <2>2. AllHeld(records, BasketsUpTo(b, Listed(b), from, to), payloads)
    BY <1>1, <1>2, <2>1 DEF ColumnBaskets, ReadFor
  <2>3. Scalars(b, payloads, from, to) = Slice(CellsOf(v, w), from, to)
    BY <1>3, <1>4, <2>2, ScalarColumn
  <2>4. Cells(v, w, from + 1, to) = Slice(CellsOf(v, w), from, to)
    BY <1>3, <1>4, ScalarCells
  <2>5. Decode(tree0, b, payloads, from, to) \in {Fine(Scalars(b, payloads, from, to)), Error}
    BY <2>1 DEF Decode
  <2>6. Decode(tree0, b, payloads, from, to).is = Scalars(b, payloads, from, to)
    BY <1>1, <1>2, <2>5 DEF Fine, Error
  <2> QED BY <1>1, <1>2, <1>4, <2>3, <2>4, <2>6 DEF RowsFrom
<1>5. CASE w.jagged
  <2>1. PICK k \in DOMAIN bs :
           /\ Branch(tree0, b.counter) = tree0.branches[k] /\ b.counter = bs[k].name
           /\ IsCounted(b, tree0.branches[k], w, bs[k], v, records)
    BY <1>1, <1>2, <1>5, CounterFound
  <2>2. PICK c : c = tree0.branches[k]
    OBVIOUS
  <2>3. b.counter # NoName /\ c = Branch(tree0, b.counter)
    BY <2>1, <2>2
  <2>4. /\ Decode(tree0, b, payloads, from, to)
             \in {Fine(Lists(tree0, b, c, payloads, from, to)), Error}
        /\ c.entries = b.entries \/ Decode(tree0, b, payloads, from, to) = Error
    BY <2>3 DEF Decode, DecodeJagged, Lists
  <2>5. /\ Decode(tree0, b, payloads, from, to).is = Lists(tree0, b, c, payloads, from, to)
        /\ c.entries = b.entries
    BY <1>1, <1>2, <2>4 DEF Fine, Error
  <2>6. /\ payloads \in Seq(P)
        /\ Len(payloads) = Len(JaggedBasketsUpTo(tree0, b, Listed(b), from, to))
        /\ AllHeld(records, JaggedBasketsUpTo(tree0, b, Listed(b), from, to), payloads)
    BY <1>1, <1>2, <2>3 DEF ColumnBaskets, ReadFor
  <2>7. Lists(tree0, b, c, payloads, from, to) = Slice(ListsOf(v, w), from, to)
    <3>1. IsCounted(b, c, w, bs[k], v, records)
      BY <2>1, <2>2
    <3> QED BY <1>3, <2>3, <2>5, <2>6, <3>1, JaggedColumn
  <2>8. Slice(ListsOf(v, w), from, to) = [e \in 1 .. to - from |-> RowCells(v, w, from + e)]
    <3>1. ASSUME NEW e \in 1 .. to - from PROVE ListsOf(v, w)[from + e] = RowCells(v, w, from + e)
      <4>1. from + e \in 1 .. Len(w.rows)
        BY <1>3
      <4> QED BY <4>1 DEF ListsOf
    <3> QED BY <3>1 DEF Slice
  <2> QED BY <1>1, <1>2, <1>5, <2>5, <2>7, <2>8 DEF RowsFrom
<1> QED BY <1>4, <1>5
-----------------------------------------------------------------------------
\* What the baskets of a column are is all in the file.
LEMMA PlannedOnDisk ==
  ASSUME NEW tree0, NEW bs, NEW v, NEW records, NEW name, NEW from \in Nat, NEW to \in Nat,
         BranchList(bs), \A i \in DOMAIN bs : bs[i].name # NoName,
         IsCut(tree0, bs, v, records), \E i \in DOMAIN bs : bs[i].name = name,
         ~NotOnDisk(Branch(tree0, name)), from < to, to <= tree0.entries
  PROVE  \E S : /\ ColumnBaskets(tree0, Branch(tree0, name), from, to) \in Seq(S)
                /\ \A k \in S : ~k.inMemory
<1>1. PICK i \in DOMAIN bs :
           /\ Branch(tree0, name) = tree0.branches[i] /\ FirstNamed(bs, name) = bs[i]
           /\ tree0.entries <= Len(bs[i].rows) /\ IsBranch(bs[i])
           /\ IsCutColumn(tree0.branches, bs, i, v, records)
  BY ColumnFound
<1>2. PICK b, w : b = tree0.branches[i] /\ w = bs[i]
  OBVIOUS
<1>3. Len(w.rows) \in Nat /\ b.entries = Len(w.rows) /\ b.entries > 0
  <2>1. Len(w.rows) \in Nat /\ b.entries = Len(w.rows)
    BY <1>1, <1>2 DEF IsBranch, IsCutColumn, IsCutBranch
  <2>2. tree0.entries \in Nat
    BY DEF IsCut
  <2> QED BY <1>1, <1>2, <2>1, <2>2
<1>4. Listed(b) \in Nat /\ \A k \in BasketSet(b) : ~k.inMemory
  BY <1>1, <1>2, <1>3 DEF IsCutColumn, IsCutBranch, IsRun, BasketSet
<1>5. CASE ~w.jagged
  <2>1. b.counter = NoName
    BY <1>1, <1>2, <1>5 DEF IsCutColumn
  <2>2. BasketsUpTo(b, Listed(b), from, to) \in Seq(BasketSet(b))
    BY <1>4, BasketsSeq
  <2>3. ColumnBaskets(tree0, b, from, to) = BasketsUpTo(b, Listed(b), from, to)
    BY <2>1 DEF ColumnBaskets
  <2> QED BY <1>1, <1>2, <1>4, <2>2, <2>3
<1>6. CASE w.jagged
  <2>1. PICK k \in DOMAIN bs :
           /\ Branch(tree0, b.counter) = tree0.branches[k] /\ b.counter = bs[k].name
           /\ IsCounted(b, tree0.branches[k], w, bs[k], v, records)
    BY <1>1, <1>2, <1>6, CounterFound
  <2>2. PICK c : c = Branch(tree0, b.counter) /\ IsCounted(b, c, w, bs[k], v, records)
    BY <2>1
  <2>3. b.counter # NoName
    BY <2>1
  <2>4. CASE c.entries > 0
    <3>1. Listed(c) \in Nat /\ \A l \in BasketSet(c) : ~l.inMemory
      BY <2>2, <2>4 DEF IsCounted, IsCutBranch, IsRun, BasketSet
    <3>2. PICK S : S = BasketSet(b) \cup BasketSet(c)
      OBVIOUS
    <3>3. BasketSet(b) \subseteq S /\ BasketSet(c) \subseteq S /\ \A l \in S : ~l.inMemory
      BY <1>4, <3>1, <3>2
    <3>4. JaggedBasketsUpTo(tree0, b, Listed(b), from, to) \in Seq(S)
      BY <1>4, <2>2, <3>1, <3>3, JaggedBasketsSeq
    <3> QED BY <1>1, <1>2, <2>3, <3>3, <3>4 DEF ColumnBaskets
  <2>5. c.entries > 0
    <3>1. tree0.entries <= Len(bs[k].rows) /\ tree0.entries \in Nat
      BY DEF IsCut
    <3>2. c.entries = Len(bs[k].rows) /\ Len(bs[k].rows) \in Nat
      BY <2>2 DEF IsCounted, IsCutBranch, IsBranch
    <3> QED BY <3>1, <3>2
  <2> QED BY <2>4, <2>5
<1> QED BY <1>5, <1>6

-----------------------------------------------------------------------------
(* The trees that write_tree writes.                                        *)

\* Records of a row that are not empty have each a place of its own.
LEMMA PlaceBefore ==
  ASSUME NEW lens \in Seq(Nat), NEW i \in 1 .. Len(lens), NEW j \in 1 .. Len(lens), i < j,
         NEW from \in Nat
  PROVE  Place(from, lens, i) + lens[i] <= Place(from, lens, j)
<1>1. PICK n \in Nat, m \in Nat : n = i - 1 /\ m = j - 1 /\ n < m /\ n + 1 = i
  OBVIOUS
<1>2. PICK part, seq : part = SubSeq(lens, 1, n) /\ seq = SubSeq(lens, 1, m)
  OBVIOUS
<1>3. /\ Len(part) = n /\ Len(seq) = m /\ \A k \in 1 .. m : seq[k] = lens[k] /\ seq[k] \in Nat
      /\ \A k \in 1 .. n : part[k] = lens[k]
  BY <1>1, <1>2
<1>4. Total(part) \in Nat /\ Total(part) + seq[n + 1] <= Total(seq)
  <2>1. \A k \in 1 .. n : part[k] = seq[k]
    BY <1>1, <1>3
  <2>2. \A k \in 1 .. m : seq[k] \in Nat
    BY <1>3
  <2> QED BY <1>1, <1>3, <2>1, <2>2, TotalOfPart
<1>5. Place(from, lens, i) = from + Total(part) /\ Place(from, lens, j) = from + Total(seq)
  BY <1>1, <1>2 DEF Place
<1>6. seq[n + 1] = lens[i] /\ lens[i] \in Nat /\ Total(seq) \in Nat
  <2>1. \A k \in 1 .. Len(seq) : seq[k] \in Nat
    BY <1>3
  <2> QED BY <1>1, <1>3, <2>1, TotalNat
<1> QED BY <1>4, <1>5, <1>6

LEMMA BasketsApart ==
  ASSUME NEW t \in Nat, NEW bs, NEW at \in Nat, BranchList(bs), Writable(bs),
         NEW i \in DOMAIN bs, NEW j \in DOMAIN bs,
         Place(at, [k \in DOMAIN bs |-> BasketLen(t, bs[k])], i)
           = Place(at, [k \in DOMAIN bs |-> BasketLen(t, bs[k])], j)
  PROVE  i = j
<1>1. PICK lens : lens = [k \in DOMAIN bs |-> BasketLen(t, bs[k])]
  OBVIOUS
<1>2. lens \in Seq(Nat) /\ Len(lens) = Len(bs) /\ DOMAIN bs = 1 .. Len(bs) /\ Len(bs) \in Nat
  BY <1>1, PlacesNat, BranchesAre
<1>3. i \in 1 .. Len(lens) /\ j \in 1 .. Len(lens)
  BY <1>2
<1>4. lens[i] \in Nat /\ lens[i] > 0 /\ lens[j] \in Nat /\ lens[j] > 0
  BY <1>1, BasketNat, BranchesAre
<1>5. Place(at, lens, i) \in Nat /\ Place(at, lens, j) \in Nat
  BY <1>2, <1>3, PlacedWithin
<1>6. ~(i < j)
  <2>1. i < j => Place(at, lens, i) + lens[i] <= Place(at, lens, j)
    BY <1>2, <1>3, PlaceBefore
  <2> QED BY <1>1, <1>4, <1>5, <2>1
<1>7. ~(j < i)
  <2>1. j < i => Place(at, lens, j) + lens[j] <= Place(at, lens, i)
    BY <1>2, <1>3, PlaceBefore
  <2> QED BY <1>1, <1>4, <1>5, <2>1
<1> QED BY <1>2, <1>3, <1>6, <1>7

\* Its only basket holds all entries of a branch.
LEMMA OwnBranchCut ==
  ASSUME NEW v, NEW t \in Nat, NEW bs, NEW at, BranchList(bs), Writable(bs), NEW i \in DOMAIN bs,
         at = TreeEnd(t, bs)
  PROVE  IsCutBranch(BranchParsed(t, bs, at, i), bs[i], v, WriteTree(v, t, bs))
<1>1. PICK b, k, seek, n : 
        /\ b = BranchParsed(t, bs, at, i) /\ n = Len(bs[i].rows)
        /\ seek = Place(at, [j \in DOMAIN bs |-> BasketLen(t, bs[j])], i)
        /\ k = [inMemory |-> FALSE, seek |-> seek, len |-> BasketLen(t, bs[i])]
  OBVIOUS
<1>2. b.entries = n /\ b.basketEntry = <<0>> /\ b.baskets = <<k>> /\ n \in Nat
  <2>1. n \in Nat /\ Len(bs[1].rows) = n
    BY <1>1, BranchesAre DEF IsBranch, Writable
  <2> QED BY <1>1, <2>1 DEF BranchParsed
<1>3. Listed(b) = 1 /\ Len(b.basketEntry) = 1 /\ b.baskets[1] = k
  BY <1>2 DEF Listed
<1>4. BasketStart(b, 1) = 0 /\ BasketEnd(b, 1) = n
  BY <1>2 DEF BasketStart, BasketEnd
<1>5. 1 .. Listed(b) = {1}
  BY <1>3
<1>6. ASSUME NEW q \in ToSet(WriteTree(v, t, bs)), q.kind = "basket", q.at = k.seek
      PROVE  q.holds.cells = Cells(v, bs[i], 1, n)
  <2>1. q.at = seek
    BY <1>1, <1>6
  <2>2. PICK j \in DOMAIN bs : q = BasketRecords(v, t, bs, at)[j]
    <3>1. \/ q \in {HeadOf(t, bs)[1], HeadOf(t, bs)[2], TreeRecord(t, bs),
                    KeysRecord(t, bs), InfosRecord(t, bs)}
          \/ \E j \in DOMAIN bs : q = BasketRecords(v, t, bs, at)[j]
      BY WrittenRecords
    <3>2. /\ HeadOf(t, bs)[1].kind = "header" /\ HeadOf(t, bs)[2].kind = "directory"
          /\ TreeRecord(t, bs).kind = "tree" /\ InfosRecord(t, bs).kind = "infos"
          /\ KeysRecord(t, bs).kind = "keys"
      BY DEF TreeRecord, InfosRecord, KeysRecord, HeadOf, HeadRecords, Record
    <3> QED BY <1>6, <3>1, <3>2
  <2>3. /\ q.at = Place(at, [l \in DOMAIN bs |-> BasketLen(t, bs[l])], j)
        /\ q.holds.cells = Cells(v, bs[j], 1, Len(bs[j].rows))
    BY <2>2 DEF BasketRecords, Record
  <2>4. i = j
    <3>1. at \in Nat
      BY PlacesNat
    <3> QED BY <1>1, <2>1, <2>3, <3>1, BasketsApart
  <2> QED BY <1>1, <2>1, <2>3, <2>4
<1>7. ~k.inMemory /\ 0 + 1 = 1
  BY <1>1
<1>8. n > 0 => IsRun(b)
  BY <1>2, <1>3, <1>4, <1>5 DEF IsRun
<1> QED BY <1>1, <1>2, <1>3, <1>4, <1>5, <1>6, <1>7, <1>8 DEF IsCutBranch
-----------------------------------------------------------------------------
\* The counter of a branch is the first of its name.
LEMMA CounterFirst ==
  ASSUME NEW bs, NEW i \in Nat, bs[i].jagged, CounterFits(bs, i)
  PROVE  FirstOf(bs, CounterOf(bs, i))
<1> DEFINE earlier == {j \in 1 .. i - 1 : bs[j].name = CounterName(bs[i])}
<1>1. CounterOf(bs, i) \in 1 .. i - 1 /\ bs[CounterOf(bs, i)].name = CounterName(bs[i])
  BY CounterBefore
<1>2. earlier # {} /\ CounterOf(bs, i) = CHOOSE j \in earlier : \A k \in earlier : j <= k
  <2>1. CounterOf(bs, i) # 0
    BY <1>1
  <2> QED BY <2>1 DEF CounterOf
<1>3. \E j \in earlier : \A k \in earlier : j <= k
  <2>1. earlier \subseteq Nat
    OBVIOUS
  <2> HIDE DEF earlier
  <2> QED BY <1>2, <2>1, LeastElement
<1>4. \A k \in earlier : CounterOf(bs, i) <= k
  <2> HIDE DEF earlier
  <2> QED BY <1>2, <1>3
<1>5. ASSUME NEW k \in 1 .. CounterOf(bs, i) - 1, bs[k].name = CounterName(bs[i]) PROVE FALSE
  <2>1. k \in 1 .. i - 1 /\ k < CounterOf(bs, i)
    BY <1>1
  <2>2. k \in earlier
    BY <1>5, <2>1
  <2> HIDE DEF earlier
  <2> QED BY <1>1, <1>4, <2>1, <2>2
<1> QED BY <1>1, <1>5 DEF FirstOf

\* What a tree that a key list names is: written as bs, if it parses.
TreesCut(v, bs, records) ==
  \A k, r \in ToSet(records) :
    k.kind = "keys" /\ r.kind = "tree" /\ r.at = k.holds.treeAt /\ r.len <= k.holds.treeLen =>
      ParseTree(r.holds).failed \/ IsCut(ParseTree(r.holds).is, bs, v, records)

LEMMA OwnTreeIsCut ==
  ASSUME NEW v, NEW t \in Nat, NEW bs, BranchList(bs), Writable(bs)
  PROVE  IsCut(TreeParsed(t, bs, TreeEnd(t, bs)), bs, v, WriteTree(v, t, bs))
<1>1. PICK at, records, parsed :
         /\ at = TreeEnd(t, bs) /\ records = WriteTree(v, t, bs)
         /\ parsed = TreeParsed(t, bs, at)
  OBVIOUS
<1>2. /\ DOMAIN bs = 1 .. Len(bs) /\ Len(bs) \in Nat /\ 1 \in DOMAIN bs
      /\ \A i \in DOMAIN bs : IsBranch(bs[i]) /\ Len(bs[i].rows) = Len(bs[1].rows)
  <2>1. DOMAIN bs = 1 .. Len(bs) /\ Len(bs) \in Nat /\ \A i \in DOMAIN bs : IsBranch(bs[i])
    BY BranchesAre
  <2>2. Len(bs) # 0
    BY DEF Writable, BranchList
  <2> QED BY <2>1, <2>2 DEF Writable
<1>3. Len(bs[1].rows) \in Nat
  BY <1>2 DEF IsBranch
<1>4. DOMAIN parsed.branches = DOMAIN bs /\ parsed.entries = Len(bs[1].rows)
  BY <1>1 DEF TreeParsed
<1>5. \A i \in DOMAIN bs : parsed.branches[i] = BranchParsed(t, bs, at, i)
  BY <1>1 DEF TreeParsed
<1>6. \A i \in DOMAIN bs : IsCutBranch(parsed.branches[i], bs[i], v, records)
  BY <1>1, <1>5, OwnBranchCut
<1>7. ASSUME NEW i \in DOMAIN bs
      PROVE  /\ parsed.branches[i].name = bs[i].name
             /\ parsed.branches[i].counter = IF bs[i].jagged THEN CounterName(bs[i]) ELSE NoName
  <2>1. PICK b : b = BranchParsed(t, bs, at, i)
    OBVIOUS
  <2>2. b.name = bs[i].name /\ b.counter = IF bs[i].jagged THEN CounterName(bs[i]) ELSE NoName
    BY <2>1 DEF BranchParsed
  <2> QED BY <1>5, <2>1, <2>2
<1>8. ASSUME NEW i \in DOMAIN bs PROVE IsCutColumn(parsed.branches, bs, i, v, records)
  <2>1. CASE ~bs[i].jagged
    BY <1>6, <1>7, <2>1 DEF IsCutColumn
  <2>2. CASE bs[i].jagged
    <3>1. CounterFits(bs, i) /\ i \in Nat
      BY <1>2, <2>2 DEF Writable
    <3>2. PICK c : c = CounterOf(bs, i)
      OBVIOUS
    <3>3. c \in 1 .. i - 1 /\ bs[c].name = CounterName(bs[i]) /\ FirstOf(bs, c)
      BY <2>2, <3>1, <3>2, CounterBefore, CounterFirst
    <3>4. c \in DOMAIN bs
      BY <1>2, <3>3
    <3>5. ~bs[c].jagged /\ CountsMatch(bs, i, c)
      BY <3>1, <3>2 DEF CounterFits
    <3> QED BY <1>6, <1>7, <2>2, <3>3, <3>4, <3>5 DEF IsCutColumn
  <2> QED BY <2>1, <2>2
<1>9. \A i \in DOMAIN bs : parsed.entries <= Len(bs[i].rows)
  BY <1>2, <1>3, <1>4
<1> QED BY <1>1, <1>3, <1>4, <1>7, <1>8, <1>9 DEF IsCut

\* The trees of other programs, as far as they parse, are taken to list the
\* baskets of a branch in the order of its entries, each with what it holds.
ForeignTreesCut ==
  \A v \in DOMAIN Contents : Contents[v].foreign =>
    TreesCut(v, Contents[v].branches, Contents[v].records)

LEMMA ContentsCut ==
  ASSUME ForeignTreesCut, NEW v \in DOMAIN Contents,
         Contents[v].foreign \/ Writable(Contents[v].branches)
  PROVE  TreesCut(v, Contents[v].branches, BytesOf(v))
<1>1. IsContents(Contents[v]) /\ TreeChars \in Nat
  BY RootFileAssumption
<1>2. CASE Contents[v].foreign
  BY <1>2 DEF ForeignTreesCut, BytesOf
<1>3. CASE ~Contents[v].foreign
  <2>0. PICK t \in Nat : t = TreeChars
    BY <1>1
  <2>1. PICK bs, records :
          bs = Contents[v].branches /\ t = TreeChars /\ records = WriteTree(v, t, bs)
    BY <2>0
  <2>2. BranchList(bs) /\ Writable(bs)
    BY <1>1, <1>3, <2>1 DEF IsContents, BranchList
  <2>3. BytesOf(v) = records
    BY <1>3, <2>1 DEF BytesOf
  <2>4. ASSUME NEW r \in ToSet(records), r.kind = "tree"
        PROVE  ParseTree(r.holds).failed \/ IsCut(ParseTree(r.holds).is, bs, v, records)
    <3>1. PICK at \in Nat : at = TreeEnd(t, bs) /\ at > 0
      <4>1. KeyHeader(5, t, t) \in Nat /\ TreeLen(t, bs) \in Nat
        BY <2>2, HeaderNat, TreeNat
      <4> QED BY <4>1 DEF TreeEnd, TreeOffset, FileBegin
    <3>2. r.holds = TreeObject(t, bs, at)
      <4>1. \/ r \in {HeadOf(t, bs)[1], HeadOf(t, bs)[2], TreeRecord(t, bs),
                      KeysRecord(t, bs), InfosRecord(t, bs)}
            \/ \E i \in DOMAIN bs : r = BasketRecords(v, t, bs, TreeEnd(t, bs))[i]
        BY <2>1, <2>2, WrittenRecords
      <4>2. /\ HeadOf(t, bs)[1].kind = "header" /\ HeadOf(t, bs)[2].kind = "directory"
            /\ KeysRecord(t, bs).kind = "keys" /\ InfosRecord(t, bs).kind = "infos"
            /\ TreeRecord(t, bs).holds = TreeObject(t, bs, TreeEnd(t, bs))
        BY DEF TreeRecord, KeysRecord, InfosRecord, HeadOf, HeadRecords, Record
      <4>3. \A i \in DOMAIN bs : BasketRecords(v, t, bs, TreeEnd(t, bs))[i].kind = "basket"
        BY DEF BasketRecords, Record
      <4>4. r = TreeRecord(t, bs)
        BY <2>4, <4>1, <4>2, <4>3
      <4> QED BY <3>1, <4>2, <4>4
    <3>3. ParseTree(r.holds) \in {Fine(TreeParsed(t, bs, at)), Error}
      BY <2>2, <3>1, <3>2, TreeParses
    <3>4. IsCut(TreeParsed(t, bs, at), bs, v, records)
      BY <2>1, <2>2, <3>1, OwnTreeIsCut
    <3> QED BY <3>3, <3>4 DEF Fine, Error
  <2> QED BY <2>1, <2>3, <2>4 DEF TreesCut
<1> QED BY <1>2, <1>3
-----------------------------------------------------------------------------
(* Sequences of anything.                                                   *)

IsList(s) == Len(s) \in Nat /\ s = [k \in 1 .. Len(s) |-> s[k]]

LEMMA ListAppend ==
  ASSUME NEW s, NEW x, IsList(s)
  PROVE  /\ IsList(Append(s, x)) /\ Len(Append(s, x)) = Len(s) + 1
         /\ Append(s, x)[Len(s) + 1] = x /\ \A k \in 1 .. Len(s) : Append(s, x)[k] = s[k]
<1>1. PICK n \in Nat : n = Len(s) /\ s = [k \in 1 .. n |-> s[k]]
  BY DEF IsList
<1>2. PICK S : S = {s[k] : k \in 1 .. n} \cup {x}
  OBVIOUS
<1>3. s \in Seq(S) /\ x \in S
  BY <1>1, <1>2
<1>4. PICK a : a = Append(s, x)
  OBVIOUS
<1>5. a \in Seq(S) /\ Len(a) = n + 1 /\ a[n + 1] = x /\ \A k \in 1 .. n : a[k] = s[k]
  BY <1>1, <1>3, <1>4
<1>6. a = [k \in 1 .. Len(a) |-> a[k]]
  BY <1>5
<1> QED BY <1>1, <1>4, <1>5, <1>6 DEF IsList

LEMMA NoList == IsList(<<>>) /\ Len(<<>>) = 0
BY DEF IsList
-----------------------------------------------------------------------------
(* Baskets that are still to be had.                                        *)

Payloads(records) == {r.holds : r \in {q \in ToSet(records) : q.kind = "basket"}}

\* Those after the first n.
Remaining(ks, n) == SubSeq(ks, n + 1, Len(ks))

HalfRead(records, ks, rest, had) ==
  /\ had \in Seq(Payloads(records)) /\ Len(had) <= Len(ks)
  /\ rest = Remaining(ks, Len(had))
  /\ \A j \in 1 .. Len(had) : Held(records, ks[j], had[j])

LEMMA RemainingIs ==
  ASSUME NEW S, NEW ks \in Seq(S), NEW n \in Nat, n <= Len(ks)
  PROVE  /\ Remaining(ks, n) \in Seq(S) /\ Len(Remaining(ks, n)) = Len(ks) - n
         /\ \A k \in 1 .. Len(ks) - n : Remaining(ks, n)[k] = ks[n + k]
<1>0. PICK m \in Nat : m = Len(ks) /\ n <= m
  OBVIOUS
<1>1. PICK l \in Nat : l = m - n
  <2>1. m - n \in Nat
    BY <1>0
  <2> QED BY <2>1
<1>2. Remaining(ks, n) = [k \in 1 .. l |-> ks[n + k]]
  <2>1. m - (n + 1) + 1 = l /\ \A k \in Nat : n + 1 + k - 1 = n + k
    BY <1>1
  <2>2. SubSeq(ks, n + 1, m) = [k \in 1 .. m - (n + 1) + 1 |-> ks[n + 1 + k - 1]]
    OBVIOUS
  <2> QED BY <1>0, <2>1, <2>2 DEF Remaining
<1>3. \A k \in 1 .. l : ks[n + k] \in S
  <2>1. \A k \in 1 .. l : n + k \in 1 .. m
    BY <1>0, <1>1
  <2> QED BY <1>0, <2>1
<1>4. PICK g : g = [k \in 1 .. l |-> ks[n + k]]
  OBVIOUS
<1>5. g \in Seq(S) /\ Len(g) = l /\ \A k \in 1 .. l : g[k] = ks[n + k]
  BY <1>3, <1>4
<1> QED BY <1>0, <1>1, <1>2, <1>4, <1>5

LEMMA RemainingNext ==
  ASSUME NEW S, NEW ks \in Seq(S), NEW n \in Nat, n + 1 <= Len(ks)
  PROVE  /\ Remaining(ks, n) # <<>> /\ Head(Remaining(ks, n)) = ks[n + 1] /\ ks[n + 1] \in S
         /\ Tail(Remaining(ks, n)) = Remaining(ks, n + 1)
<1>a. PICK r : r = Remaining(ks, n)
  OBVIOUS
<1>0. PICK m \in Nat : m = Len(ks) /\ r = Remaining(ks, n)
  BY <1>a
<1>1. PICK l \in Nat : l = m - (n + 1)
  BY <1>0
<1>2. n <= m /\ m - n = l + 1 /\ n + 1 \in Nat /\ n + 1 \in 1 .. m
  BY <1>0, <1>1
<1>3. r \in Seq(S) /\ Len(r) = l + 1 /\ \A k \in 1 .. l + 1 : r[k] = ks[n + k]
  <2>1. /\ r \in Seq(S) /\ Len(r) = Len(ks) - n
        /\ \A k \in 1 .. Len(ks) - n : r[k] = ks[n + k]
    BY <1>0, <1>2, RemainingIs
  <2>2. Len(ks) - n = l + 1
    BY <1>0, <1>2
  <2> QED BY <2>1, <2>2
<1>4. PICK q : q = Remaining(ks, n + 1)
  OBVIOUS
<1>5. q \in Seq(S) /\ Len(q) = l /\ \A k \in 1 .. l : q[k] = ks[n + 1 + k]
  <2>1. /\ q \in Seq(S) /\ Len(q) = Len(ks) - (n + 1)
        /\ \A k \in 1 .. Len(ks) - (n + 1) : q[k] = ks[n + 1 + k]
    BY <1>0, <1>2, <1>4, RemainingIs
  <2>2. Len(ks) - (n + 1) = l
    BY <1>0, <1>1
  <2> QED BY <2>1, <2>2
<1>6. r # <<>> /\ Head(r) = r[1] /\ 1 \in 1 .. l + 1
  <2>1. Len(<< >>) = 0
    OBVIOUS
  <2> QED BY <1>3, <2>1
<1>7. PICK t : t = Tail(r)
  OBVIOUS
<1>8. t \in Seq(S) /\ Len(t) = l /\ \A k \in 1 .. l : t[k] = r[k + 1]
  <2>1. t \in Seq(S) /\ Len(t) = Len(r) - 1
    BY <1>3, <1>6, <1>7
  <2>2. \A k \in 1 .. Len(t) : t[k] = r[k + 1]
    BY <1>3, <1>6, <1>7, <2>1
  <2> QED BY <1>3, <2>1, <2>2
<1>9. ASSUME NEW k \in 1 .. l PROVE t[k] = q[k]
  <2>1. k + 1 \in 1 .. l + 1 /\ n + (k + 1) = n + 1 + k
    OBVIOUS
  <2> QED BY <1>3, <1>5, <1>8, <2>1
<1>10. t = q
  BY <1>5, <1>8, <1>9, SameSeq
<1> QED BY <1>0, <1>2, <1>3, <1>4, <1>6, <1>7, <1>10

LEMMA HalfReadStart ==
  ASSUME NEW records, NEW S, NEW ks \in Seq(S)
  PROVE  HalfRead(records, ks, ks, <<>>)
<1>1. << >> \in Seq(Payloads(records)) /\ Len(<< >>) = 0 /\ 0 + 1 = 1 /\ 1 .. 0 = {}
  OBVIOUS
<1>2. Remaining(ks, 0) = ks
  BY <1>1, SubSeqAll DEF Remaining
<1>3. Len(ks) \in Nat
  OBVIOUS
<1> QED BY <1>1, <1>2, <1>3 DEF HalfRead

\* While some remain, the first of them is one of the baskets.
LEMMA HalfReadHead ==
  ASSUME NEW records, NEW S, NEW ks \in Seq(S), NEW rest, NEW had,
         HalfRead(records, ks, rest, had), rest # <<>>
  PROVE  Len(had) < Len(ks) /\ Head(rest) \in S
<1>1. PICK n \in Nat, m \in Nat : n = Len(had) /\ m = Len(ks) /\ n <= m
  BY DEF HalfRead
<1>2. rest = Remaining(ks, n)
  BY <1>1 DEF HalfRead
<1>3. n # m
  <2>1. CASE n = m
    <3>1. rest \in Seq(S) /\ Len(rest) = m - n
      BY <1>1, <1>2, RemainingIs
    <3>2. Len(rest) = 0
      BY <2>1, <3>1
    <3> QED BY <3>1, <3>2
  <2> QED BY <2>1
<1>4. n + 1 <= m
  BY <1>1, <1>3
<1> QED BY <1>1, <1>2, <1>4, RemainingNext

LEMMA HalfReadNext ==
  ASSUME NEW records, NEW S, NEW ks \in Seq(S), NEW rest, NEW had, NEW payload,
         HalfRead(records, ks, rest, had), rest # <<>>,
         Held(records, Head(rest), payload), payload \in Payloads(records)
  PROVE  HalfRead(records, ks, Tail(rest), Append(had, payload))
<1>1. Len(had) < Len(ks)
  BY HalfReadHead
<1>2. PICK n \in Nat, m \in Nat : n = Len(had) /\ m = Len(ks) /\ n + 1 <= m
  BY <1>1 DEF HalfRead
<1>3. had \in Seq(Payloads(records)) /\ \A j \in 1 .. n : Held(records, ks[j], had[j])
  BY <1>2 DEF HalfRead
<1>4. rest = Remaining(ks, n)
  BY <1>2 DEF HalfRead
<1>5. Head(rest) = ks[n + 1] /\ Tail(rest) = Remaining(ks, n + 1)
  BY <1>2, <1>4, RemainingNext
<1>6. PICK more : more = Append(had, payload)
  OBVIOUS
<1>7. /\ more \in Seq(Payloads(records)) /\ Len(more) = n + 1 /\ more[n + 1] = payload
      /\ \A j \in 1 .. n : more[j] = had[j]
  BY <1>2, <1>3, <1>6
<1>8. ASSUME NEW j \in 1 .. n + 1 PROVE Held(records, ks[j], more[j])
  <2>1. CASE j = n + 1
    BY <1>5, <1>7, <2>1
  <2>2. CASE j # n + 1
    <3>1. j \in 1 .. n
      BY <2>2
    <3> QED BY <1>3, <1>7, <3>1
  <2> QED BY <2>1, <2>2
<1>9. Len(more) <= Len(ks) /\ Tail(rest) = Remaining(ks, Len(more))
  BY <1>2, <1>5, <1>7
<1>10. \A j \in 1 .. Len(more) : Held(records, ks[j], more[j])
  BY <1>7, <1>8
<1> QED BY ONLY <1>6, <1>7, <1>9, <1>10 DEF HalfRead

LEMMA HalfReadDone ==
  ASSUME NEW records, NEW S, NEW ks \in Seq(S), NEW had, HalfRead(records, ks, <<>>, had)
  PROVE  ReadFor(records, Payloads(records), ks, had)
<1>1. PICK n \in Nat, m \in Nat : n = Len(had) /\ m = Len(ks) /\ n <= m
  BY DEF HalfRead
<1>2. << >> = Remaining(ks, n)
  BY <1>1 DEF HalfRead
<1>3. n = m
  <2>1. Len(Remaining(ks, n)) = m - n
    BY <1>1, RemainingIs
  <2>2. Len(<< >>) = 0
    OBVIOUS
  <2>3. m - n = 0
    BY <1>2, <2>1, <2>2
  <2> QED BY <1>1, <2>3
<1>4. had \in Seq(Payloads(records)) /\ \A j \in 1 .. Len(had) : Held(records, ks[j], had[j])
  BY DEF HalfRead
<1>5. AllHeld(records, ks, had)
  BY <1>1, <1>3, <1>4 DEF AllHeld
<1> QED BY <1>1, <1>3, <1>4, <1>5 DEF ReadFor
-----------------------------------------------------------------------------
(* The chunks of a window.                                                  *)

\* What is asked for is there: some columns, of names that every file has.
ColumnsExist ==
  \A w \in Windows :
    /\ Len(w.columns) \in Nat \ {0} /\ DOMAIN w.columns = 1 .. Len(w.columns)
    /\ \A c \in DOMAIN w.columns, v \in DOMAIN Contents :
         Contents[v].foreign \/ Writable(Contents[v].branches) =>
           \E i \in DOMAIN Contents[v].branches : Contents[v].branches[i].name = w.columns[c]

Current ==
  /\ file.version \in DOMAIN Contents
  /\ Contents[file.version].foreign \/ Writable(Contents[file.version].branches)
  /\ file.branches = Contents[file.version].branches
  /\ file.records = BytesOf(file.version)

FileSound ==
  /\ {"version", "branches", "records", "size"} \subseteq DOMAIN file
  /\ file.records = <<>> \/ Current

TreeSound == Current /\ IsCut(tree, Written, file.version, file.records)

WindowSound ==
  TreeSound /\ window \in Windows /\ window.size > 0 /\ AfterWindow <= tree.entries

StartOf(n) == window.start + n * window.size

\* The columns of the chunk so far are rows that were written, and what has
\* been read of the next one are the first of its baskets.
ColumnsSound ==
  /\ IsList(columns) /\ Len(columns) < Len(window.columns)
  /\ \A c \in 1 .. Len(columns) : ~Misplaced(window.columns[c]) =>
       columns[c] = RowsOf(window.columns[c], chunk.start, chunk.start + chunk.len)
  /\ ~NotOnDisk(Column) =>
       HalfRead(file.records, ColumnBaskets(tree, Column, chunk.start, chunk.start + chunk.len),
                todo, got)

ChunkSound ==
  /\ chunk.start = StartOf(Len(items)) /\ chunk.start < AfterWindow
  /\ chunk.len = Lesser(AfterWindow - chunk.start, window.size)
  /\ next = chunk.start + chunk.len
  /\ want # Nothing => /\ todo # <<>> /\ ~Head(todo).inMemory
                       /\ want = [at |-> Head(todo).seek, len |-> Head(todo).len]
  /\ ColumnsSound

Between == want = Nothing /\ next = Lesser(AfterWindow, StartOf(Len(items)))

ItemsSound ==
  /\ IsList(items)
  /\ \A k \in 1 .. Len(items) : items[k].failed \/ ItemIsSlice(items[k].is, StartOf(k - 1))

ReadSound == WindowSound /\ ItemsSound /\ IF chunk = Nothing THEN Between ELSE ChunkSound

\* What the reader has asked for, and what it has not begun.
Asked ==
  /\ chunk # Nothing => step = "reading"
  /\ step \notin {"reading", "done"} => items = <<>>
  /\ step = "tree" => want = [at |-> dir.treeAt, len |-> dir.treeLen]
  /\ step = "parsed" => want = Nothing

ChunksInv ==
  /\ FileSound /\ Asked
  /\ ~replaced => /\ step \in {"infos", "opened", "tree"} => TreeKnown
                  /\ step = "parsed" => TreeSound
                  /\ step = "reading" => ReadSound

LEMMA SomeRecord ==
  /\ \A a, b : [start |-> a, len |-> b] # Nothing
  /\ \A a, b : [at |-> a, len |-> b] # Nothing
<1>1. ASSUME NEW a, NEW b PROVE [start |-> a, len |-> b] # Nothing
  <2>1. PICK x : x = [start |-> a, len |-> b]
    OBVIOUS
  <2>2. DOMAIN x = {"start", "len"} /\ DOMAIN Nothing = {"none"}
    BY <2>1 DEF Nothing
  <2> QED BY <2>1, <2>2
<1>2. ASSUME NEW a, NEW b PROVE [at |-> a, len |-> b] # Nothing
  <2>1. PICK x : x = [at |-> a, len |-> b]
    OBVIOUS
  <2>2. DOMAIN x = {"at", "len"} /\ DOMAIN Nothing = {"none"}
    BY <2>1 DEF Nothing
  <2> QED BY <2>1, <2>2
<1> QED BY <1>1, <1>2

\* What properties of the chunks look at, beside the chunks.
SameData ==
  /\ file'.version = file.version /\ file'.branches = file.branches
  /\ file'.records = file.records
  /\ {"version", "branches", "records", "size"} \subseteq DOMAIN file'
  /\ tree' = tree /\ window' = window

LEMMA SameOfData ==
  ASSUME SameData
  PROVE  /\ \A name : Misplaced(name)' = Misplaced(name)
         /\ \A name, from, to : RowsOf(name, from, to)' = RowsOf(name, from, to)
         /\ \A n : StartOf(n)' = StartOf(n)
         /\ AfterWindow' = AfterWindow /\ (FileSound => FileSound')
         /\ TreeSound' = TreeSound /\ WindowSound' = WindowSound
<1>1. ASSUME NEW name PROVE Misplaced(name)' = Misplaced(name)
  BY DEF SameData, Misplaced
<1>2. ASSUME NEW name, NEW from, NEW to
      PROVE  RowsOf(name, from, to)' = RowsOf(name, from, to)
  BY DEF SameData, RowsOf, Written
<1>3. ASSUME NEW n PROVE StartOf(n)' = StartOf(n)
  BY DEF SameData, StartOf
<1>4. AfterWindow' = AfterWindow
  BY DEF SameData, AfterWindow
<1>5. Current' = Current
  BY DEF SameData, Current
<1>6. TreeSound' = TreeSound
  BY <1>5 DEF SameData, TreeSound, Written
<1>7. WindowSound' = WindowSound
  BY <1>4, <1>6 DEF SameData, WindowSound
<1>8. FileSound => FileSound'
  BY <1>5 DEF SameData, FileSound
<1> QED BY <1>1, <1>2, <1>3, <1>4, <1>6, <1>7, <1>8

\* A step that changes nothing of what is being read.
SameChunks ==
  /\ SameData
  /\ UNCHANGED <<step, want, dir, next, chunk, columns, todo, got, items>>
  /\ ~replaced' => ~replaced

LEMMA SameChunksInv ==
  ASSUME ChunksInv, SameChunks
  PROVE  ChunksInv'
<1>1. /\ \A name : Misplaced(name)' = Misplaced(name)
      /\ \A name, from, to : RowsOf(name, from, to)' = RowsOf(name, from, to)
      /\ \A n : StartOf(n)' = StartOf(n)
      /\ AfterWindow' = AfterWindow /\ (FileSound => FileSound')
      /\ TreeSound' = TreeSound /\ WindowSound' = WindowSound
  BY SameOfData DEF SameChunks
<1>2. ColumnsSound => ColumnsSound'
  <2>1. Column' = Column
    BY DEF SameChunks, SameData, Column
  <2> QED BY <1>1, <2>1 DEF SameChunks, SameData, ColumnsSound
<1>3. ChunkSound => ChunkSound'
  BY <1>1, <1>2 DEF SameChunks, SameData, ChunkSound
<1>4. Between => Between'
  BY <1>1 DEF SameChunks, Between
<1>5. ItemsSound => ItemsSound'
  <2>1. \A item, start : ItemIsSlice(item, start)' = ItemIsSlice(item, start)
    BY <1>1 DEF SameChunks, SameData, ItemIsSlice
  <2> QED BY <1>1, <2>1 DEF SameChunks, ItemsSound
<1>6. ReadSound => ReadSound'
  BY <1>1, <1>3, <1>4, <1>5 DEF SameChunks, ReadSound
<1>7. Asked'
  BY DEF ChunksInv, Asked, SameChunks
<1>8. TreeKnown => TreeKnown'
  BY DEF TreeKnown, SameChunks, SameData
<1> QED BY <1>1, <1>6, <1>7, <1>8 DEF ChunksInv, SameChunks

\* A writer that writes the same again, or something else.
LEMMA WriterChunksInv ==
  ASSUME ChunksInv, NEW v \in DOMAIN Contents, Create(v)
  PROVE  ChunksInv'
<1>1. /\ file' = [version |-> v, branches |-> Contents[v].branches,
                  records |-> BytesOf(v), size |-> 0]
      /\ Contents[v].foreign \/ Writable(Contents[v].branches)
  BY DEF Create
<1>2. /\ file'.version = v /\ file'.branches = Contents[v].branches
      /\ file'.records = BytesOf(v)
      /\ {"version", "branches", "records", "size"} \subseteq DOMAIN file'
  BY <1>1
<1>3. /\ UNCHANGED <<step, want, dir, tree, window, next, chunk, columns, todo, got, items>>
      /\ replaced' = (replaced \/ (step # "idle" /\ v # file.version))
  BY DEF Create, readerVars, chunkVars
<1>4. FileSound'
  BY <1>1, <1>2 DEF FileSound, Current
<1>5. Asked'
  BY <1>3 DEF ChunksInv, Asked
<1>6. CASE ~replaced' /\ step \in {"infos", "opened", "tree", "parsed", "reading"}
  <2>1. v = file.version /\ ~replaced
    BY <1>3, <1>6
  <2>2. Current
    <3>1. CASE step \in {"infos", "opened", "tree"}
      <4>1. TreeKnown
        BY <2>1, <3>1 DEF ChunksInv
      <4>2. file.records # << >>
        <5>1. CASE file.records = << >>
          <6>1. ToSet(file.records) = {}
            BY <5>1 DEF ToSet
          <6> QED BY <4>1, <6>1 DEF TreeKnown
        <5> QED BY <5>1
      <4> QED BY <4>2 DEF ChunksInv, FileSound
    <3>2. CASE step \in {"parsed", "reading"}
      BY <2>1, <3>2 DEF ChunksInv, ReadSound, WindowSound, TreeSound
    <3> QED BY <1>6, <3>1, <3>2
  <2>3. file.branches = Contents[v].branches /\ file.records = BytesOf(v)
    BY <2>1, <2>2 DEF Current
  <2>4. SameChunks
    BY <1>2, <1>3, <2>1, <2>3 DEF SameChunks, SameData
  <2> QED BY <2>4, SameChunksInv
<1>7. CASE replaced' \/ step \notin {"infos", "opened", "tree", "parsed", "reading"}
  BY <1>3, <1>4, <1>5, <1>7 DEF ChunksInv
<1> QED BY <1>6, <1>7

LEMMA QuietChunksInv ==
  ASSUME ChunksInv, Write \/ WriteStops \/ Redirected \/ UNCHANGED vars
  PROVE  ChunksInv'
<1>1. UNCHANGED <<step, want, dir, tree, window, next, chunk, columns, todo, got, items, replaced>>
  BY DEF Write, WriteStops, Redirected, vars, fileVars, readerVars, chunkVars
<1>2. /\ file'.version = file.version /\ file'.branches = file.branches
      /\ file'.records = file.records
      /\ {"version", "branches", "records", "size"} \subseteq DOMAIN file'
  <2>1. CASE Write
    BY <2>1 DEF Write, ChunksInv, FileSound
  <2>2. CASE WriteStops \/ Redirected \/ UNCHANGED vars
    BY <2>2 DEF WriteStops, Redirected, vars, fileVars, ChunksInv, FileSound
  <2> QED BY <2>1, <2>2
<1>3. SameChunks
  BY <1>1, <1>2 DEF SameChunks, SameData
<1> QED BY <1>3, SameChunksInv
-----------------------------------------------------------------------------
\* The steps of the open and of what comes before any chunk.
LEMMA SameFile ==
  ASSUME FileSound, file' = file
  PROVE  FileSound'
BY DEF FileSound, Current

LEMMA OpeningChunksInv ==
  ASSUME ChunksInv, Open \/ ReadHeader \/ ReadDirectory \/ ReadKeys \/ ReadInfos \/ FetchTree
  PROVE  ChunksInv'
<1>1. /\ file' = file /\ replaced' = replaced /\ chunk' = chunk /\ items' = items
      /\ step \in {"idle", "header", "directory", "keys", "infos", "opened"}
      /\ step' \in {"header", "directory", "keys", "infos", "opened", "tree"}
  BY DEF Open, ReadHeader, ReadDirectory, ReadKeys, ReadInfos, FetchTree, fileVars, chunkVars
<1>2. FileSound'
  BY <1>1, SameFile DEF ChunksInv
<1>3. chunk = Nothing /\ items = <<>>
  BY <1>1 DEF ChunksInv, Asked
<1>4. step' = "tree" => want' = [at |-> dir'.treeAt, len |-> dir'.treeLen]
  <2>1. CASE FetchTree
    BY <2>1 DEF FetchTree, Ask
  <2>2. CASE Open \/ ReadHeader \/ ReadDirectory \/ ReadKeys \/ ReadInfos
    BY <2>2 DEF Open, ReadHeader, ReadDirectory, ReadKeys, ReadInfos
  <2> QED BY <2>1, <2>2
<1>5. Asked'
  BY <1>1, <1>3, <1>4 DEF Asked
<1>6. ASSUME ~replaced, step' \in {"infos", "opened", "tree"} PROVE TreeKnown'
  <2>1. CASE ReadKeys
    <3>1. PICK k \in Found("keys") :
            dir' = [infosAt |-> dir.infosAt, infosLen |-> dir.infosLen,
                    treeAt |-> k.holds.treeAt, treeLen |-> k.holds.treeLen]
      BY <2>1 DEF ReadKeys
    <3> QED BY <1>1, <3>1 DEF TreeKnown, Found
  <2>2. CASE ReadInfos \/ FetchTree
    <3>1. step \in {"infos", "opened"} /\ dir' = dir
      BY <2>2 DEF ReadInfos, FetchTree
    <3>2. TreeKnown
      BY <1>6, <3>1 DEF ChunksInv
    <3> QED BY <1>1, <3>1, <3>2 DEF TreeKnown
  <2>3. CASE Open \/ ReadHeader \/ ReadDirectory
    BY <1>6, <2>3 DEF Open, ReadHeader, ReadDirectory
  <2> QED BY <2>1, <2>2, <2>3
<1> QED BY <1>1, <1>2, <1>5, <1>6 DEF ChunksInv

\* What is found where the key list says is the tree that was written.
LEMMA ReadTreeChunksInv ==
  ASSUME ForeignTreesCut, ChunksInv, ReadTree \/ OpenFails
  PROVE  ChunksInv'
<1>1. /\ file' = file /\ replaced' = replaced /\ chunk' = chunk /\ items' = items
      /\ step \notin {"reading", "done"} /\ want' = Nothing
      /\ step' \in {"parsed", "failed"}
  BY DEF ReadTree, OpenFails, fileVars, chunkVars, AskNothing
<1>2. FileSound'
  BY <1>1, SameFile DEF ChunksInv
<1>3. Asked'
  BY <1>1 DEF ChunksInv, Asked
<1>4. ASSUME ~replaced, step' = "parsed" PROVE TreeSound'
  <2>1. step = "tree" /\ ReadTree
    BY <1>4 DEF ReadTree, OpenFails
  <2>2. PICK r \in Found("tree") : ~ParseTree(r.holds).failed /\ tree' = ParseTree(r.holds).is
    BY <1>4, <2>1 DEF ReadTree
  <2>3. PICK k \in ToSet(file.records) :
          k.kind = "keys" /\ dir.treeAt = k.holds.treeAt /\ dir.treeLen = k.holds.treeLen
    BY <1>4, <2>1 DEF ChunksInv, TreeKnown
  <2>4. want.at = k.holds.treeAt /\ want.len = k.holds.treeLen
    BY <2>1, <2>3 DEF ChunksInv, Asked
  <2>5. file.records # << >>
    <3>1. CASE file.records = << >>
      <4>1. ToSet(file.records) = {}
        BY <3>1 DEF ToSet
      <4> QED BY <2>3, <4>1
    <3> QED BY <3>1
  <2>6. Current
    BY <2>5 DEF ChunksInv, FileSound
  <2>7. TreesCut(file.version, file.branches, file.records)
    BY <2>6, ContentsCut DEF Current
  <2>8. IsCut(ParseTree(r.holds).is, file.branches, file.version, file.records)
    BY <2>2, <2>3, <2>4, <2>7 DEF TreesCut, Found
  <2>9. Current'
    BY <1>1, <2>6 DEF Current
  <2> QED BY <1>1, <2>2, <2>8, <2>9 DEF TreeSound, Written
<1> QED BY <1>1, <1>2, <1>3, <1>4 DEF ChunksInv

LEMMA StartChunksInv ==
  ASSUME ChunksInv, NEW w \in Windows, ChunkedReader(w)
  PROVE  ChunksInv'
<1>1. /\ file' = file /\ replaced' = replaced /\ tree' = tree /\ want' = want
      /\ chunk' = chunk /\ items' = items /\ window' = w /\ next' = w.start
      /\ step = "parsed" /\ step' \in {"reading", "failed"}
      /\ step' = "reading" => w.size > 0 /\ w.start + w.len <= tree.entries
  BY DEF ChunkedReader, fileVars
<1>2. chunk = Nothing /\ items = <<>> /\ want = Nothing
  BY <1>1 DEF ChunksInv, Asked
<1>3. FileSound'
  BY <1>1, SameFile DEF ChunksInv
<1>4. Asked'
  BY <1>1, <1>2 DEF Asked
<1>5. ASSUME ~replaced, step' = "reading" PROVE ReadSound'
  <2>1. TreeSound'
    BY <1>1, <1>5 DEF ChunksInv, TreeSound, Current, Written
  <2>2. PICK s \in Nat, n \in Nat, z \in Nat : s = w.start /\ n = w.len /\ z = w.size
    BY RootFileAssumption
  <2>3. WindowSound'
    BY <1>1, <1>5, <2>1 DEF WindowSound, AfterWindow
  <2>4. ItemsSound'
    BY <1>1, <1>2, NoList DEF ItemsSound
  <2>5. Between'
    <3>1. Len(items') = 0
      BY <1>1, <1>2, NoList
    <3>2. s + 0 * z = s /\ Lesser(s + n, s) = s
      BY <2>2 DEF Lesser
    <3>3. StartOf(Len(items))' = s /\ AfterWindow' = s + n
      BY <1>1, <2>2, <3>1, <3>2 DEF StartOf, AfterWindow
    <3> QED BY <1>1, <1>2, <2>2, <3>2, <3>3 DEF Between
  <2> QED BY <1>1, <1>2, <2>3, <2>4, <2>5 DEF ReadSound
<1> QED BY <1>1, <1>3, <1>4, <1>5 DEF ChunksInv

LEMMA EndChunksInv ==
  ASSUME ChunksInv, Exhausted \/ Dropped
  PROVE  ChunksInv'
<1>1. /\ file' = file /\ replaced' = replaced /\ chunk' = chunk /\ chunk = Nothing
      /\ step' = "done"
  BY DEF Exhausted, Dropped, fileVars, chunkVars
<1>2. FileSound'
  BY <1>1, SameFile DEF ChunksInv
<1>3. Asked'
  BY <1>1 DEF Asked
<1> QED BY <1>1, <1>2, <1>3 DEF ChunksInv
-----------------------------------------------------------------------------
\* The steps that read a chunk.
LEMMA WindowNats ==
  ASSUME WindowSound
  PROVE  /\ window.start \in Nat /\ window.len \in Nat /\ window.size \in Nat \ {0}
         /\ AfterWindow \in Nat /\ tree.entries \in Nat /\ AfterWindow <= tree.entries
<1>1. PICK s \in Nat, n \in Nat, z \in Nat : s = window.start /\ n = window.len /\ z = window.size
  BY RootFileAssumption DEF WindowSound
<1>2. tree.entries \in Nat
  BY DEF WindowSound, TreeSound, IsCut
<1>3. z > 0
  BY <1>1 DEF WindowSound
<1>4. AfterWindow \in Nat
  BY <1>1 DEF AfterWindow
<1>5. AfterWindow <= tree.entries
  BY DEF WindowSound
<1> QED BY <1>1, <1>2, <1>3, <1>4, <1>5

LEMMA StartNext ==
  ASSUME WindowSound, NEW n \in Nat, NEW m \in Nat, m = n + 1
  PROVE  StartOf(n) \in Nat /\ StartOf(m) = StartOf(n) + window.size
<1>1. PICK s \in Nat, z \in Nat : s = window.start /\ z = window.size
  BY WindowNats
<1>2. s + n * z \in Nat /\ s + m * z = (s + n * z) + z
  BY <1>1
<1> QED BY <1>1, <1>2 DEF StartOf

LEMMA ColumnKnown ==
  ASSUME ColumnsExist, WindowSound, NEW c \in 1 .. Len(window.columns)
  PROVE  \E i \in DOMAIN Written : Written[i].name = window.columns[c]
<1>1. c \in DOMAIN window.columns
  BY DEF ColumnsExist, WindowSound
<1> QED BY <1>1 DEF ColumnsExist, WindowSound, TreeSound, Current, Written

LEMMA BranchesWritten ==
  ASSUME WindowSound
  PROVE  BranchList(Written) /\ \A i \in DOMAIN Written : Written[i].name # NoName
<1>1. BranchList(Written)
  BY RootFileAssumption DEF WindowSound, TreeSound, Current, Written, IsContents, BranchList
<1> QED BY <1>1, BranchesAre DEF IsBranch

\* A column of which no basket is in memory.
LEMMA ColumnOnDisk ==
  ASSUME ColumnsExist, WindowSound, NEW c \in 1 .. Len(window.columns),
         NEW from \in Nat, NEW to \in Nat, from < to, to <= AfterWindow,
         ~Misplaced(window.columns[c])
  PROVE  \E S : /\ ColumnBaskets(tree, Branch(tree, window.columns[c]), from, to) \in Seq(S)
                /\ \A k \in S : ~k.inMemory
<1>1. PICK name : name = window.columns[c]
  OBVIOUS
<1>2. \E i \in DOMAIN Written : Written[i].name = name
  BY <1>1, ColumnKnown
<1>3. BranchList(Written) /\ \A i \in DOMAIN Written : Written[i].name # NoName
  BY BranchesWritten
<1>4. ~NotOnDisk(Branch(tree, name))
  BY <1>1 DEF Misplaced, NotOnDisk
<1>5. to <= tree.entries
  <2>1. PICK a \in Nat, b \in Nat : a = AfterWindow /\ b = tree.entries /\ a <= b
    BY WindowNats
  <2> QED BY <2>1
<1>6. IsCut(tree, Written, file.version, file.records)
  BY DEF WindowSound, TreeSound
<1> QED BY <1>1, <1>2, <1>3, <1>4, <1>5, <1>6, PlannedOnDisk

LEMMA ColumnDecoded ==
  ASSUME ColumnsExist, WindowSound, NEW c \in 1 .. Len(window.columns),
         NEW from \in Nat, NEW to \in Nat, from < to, to <= AfterWindow,
         ~Misplaced(window.columns[c]), NEW payloads,
         ReadFor(file.records, Payloads(file.records),
                 ColumnBaskets(tree, Branch(tree, window.columns[c]), from, to), payloads),
         ~Decode(tree, Branch(tree, window.columns[c]), payloads, from, to).failed
  PROVE  Decode(tree, Branch(tree, window.columns[c]), payloads, from, to).is
           = RowsOf(window.columns[c], from, to)
<1>1. PICK name : name = window.columns[c]
  OBVIOUS
<1>2. \E i \in DOMAIN Written : Written[i].name = name
  BY <1>1, ColumnKnown
<1>3. BranchList(Written) /\ \A i \in DOMAIN Written : Written[i].name # NoName
  BY BranchesWritten
<1>4. ~NotOnDisk(Branch(tree, name))
  BY <1>1 DEF Misplaced, NotOnDisk
<1>5. to <= tree.entries
  <2>1. PICK a \in Nat, b \in Nat : a = AfterWindow /\ b = tree.entries /\ a <= b
    BY WindowNats
  <2> QED BY <2>1
<1>6. IsCut(tree, Written, file.version, file.records)
  BY DEF WindowSound, TreeSound
<1>7. Decode(tree, Branch(tree, name), payloads, from, to).is
        = RowsFrom(file.version, FirstNamed(Written, name), from, to)
  BY <1>1, <1>2, <1>3, <1>4, <1>5, <1>6, ColumnReads
<1> QED BY <1>1, <1>7 DEF RowsOf, RowsFrom

LEMMA ReadingStep ==
  ASSUME ChunksInv, step = "reading", UNCHANGED <<fileVars, step, tree, window>>,
         ReadSound /\ ~replaced => ReadSound'
  PROVE  ChunksInv'
<1>1. FileSound'
  BY SameFile DEF ChunksInv, fileVars
<1>2. Asked'
  BY DEF Asked
<1> QED BY <1>1, <1>2 DEF ChunksInv, fileVars

LEMMA ReadingSame ==
  ASSUME ReadSound, FileSound, UNCHANGED <<fileVars, tree, window>>
  PROVE  /\ SameData /\ WindowSound /\ WindowSound'
         /\ \A name : Misplaced(name)' = Misplaced(name)
         /\ \A name, from, to : RowsOf(name, from, to)' = RowsOf(name, from, to)
         /\ \A n : StartOf(n)' = StartOf(n)
         /\ AfterWindow' = AfterWindow
<1>1. SameData
  BY DEF SameData, fileVars, FileSound
<1> QED BY <1>1, SameOfData DEF ReadSound
-----------------------------------------------------------------------------
\* The chunk being read, and its column.
LEMMA ChunkNats ==
  ASSUME WindowSound, NEW n \in Nat, NEW start, NEW len, start = StartOf(n),
         start < AfterWindow, len = Lesser(AfterWindow - start, window.size)
  PROVE  /\ start \in Nat /\ start + len \in Nat
         /\ start < start + len /\ start + len <= AfterWindow
         /\ start + len = Lesser(AfterWindow, StartOf(n + 1))
<1>1. PICK m \in Nat : m = n + 1
  OBVIOUS
<1>2. PICK a \in Nat, z \in Nat : a = AfterWindow /\ z = window.size /\ z > 0
  BY WindowNats
<1>3. StartOf(n) \in Nat /\ StartOf(m) = StartOf(n) + window.size
  BY <1>1, StartNext
<1>4. PICK s \in Nat : s = start /\ s < a /\ StartOf(m) = s + z
  BY <1>2, <1>3
<1>5. PICK d \in Nat : d = a - s /\ d > 0
  <2>1. a - s \in Nat /\ a - s > 0
    BY <1>4
  <2> QED BY <2>1
<1>6. PICK l : l = Lesser(d, z) /\ l = len
  BY <1>2, <1>4, <1>5
<1>7. l \in Nat /\ l > 0 /\ l <= d /\ l <= z /\ (l = d \/ l = z)
  BY <1>2, <1>5, <1>6 DEF Lesser
<1>8. s + l = Lesser(a, s + z)
  BY <1>2, <1>5, <1>6, <1>7 DEF Lesser
<1>9. s + l <= a /\ s + l \in Nat /\ s < s + l
  BY <1>5, <1>7
<1> QED BY <1>1, <1>2, <1>4, <1>6, <1>8, <1>9

\* The bounds of the chunk that is being read.
LEMMA ChunkBounds ==
  ASSUME WindowSound, ItemsSound, ChunkSound
  PROVE  /\ chunk.start \in Nat /\ chunk.start + chunk.len \in Nat
         /\ chunk.start < chunk.start + chunk.len /\ chunk.start + chunk.len <= AfterWindow
         /\ chunk.start + chunk.len = Lesser(AfterWindow, StartOf(Len(items) + 1))
<1>1. PICK n \in Nat : n = Len(items)
  BY DEF ItemsSound, IsList
<1>2. PICK start, len : start = chunk.start /\ len = chunk.len
  OBVIOUS
<1>3. /\ start = StartOf(n) /\ start < AfterWindow
      /\ len = Lesser(AfterWindow - start, window.size)
  BY <1>1, <1>2 DEF ChunkSound
<1>4. /\ start \in Nat /\ start + len \in Nat /\ start < start + len
      /\ start + len <= AfterWindow /\ start + len = Lesser(AfterWindow, StartOf(n + 1))
  BY <1>3, ChunkNats
<1> QED BY <1>1, <1>2, <1>4

\* Baskets of the column are asked for and come.
LEMMA ColumnStep ==
  ASSUME ReadSound, FileSound, chunk # Nothing,
         UNCHANGED <<fileVars, tree, window, next, chunk, columns, items>>,
         want' # Nothing => /\ todo' # <<>> /\ ~Head(todo').inMemory
                            /\ want' = [at |-> Head(todo').seek, len |-> Head(todo').len],
         ~NotOnDisk(Column) =>
           HalfRead(file.records, ColumnBaskets(tree, Column, chunk.start, chunk.start + chunk.len),
                    todo', got')
  PROVE  ReadSound'
<1>1. /\ SameData /\ WindowSound /\ WindowSound'
      /\ \A name : Misplaced(name)' = Misplaced(name)
      /\ \A name, from, to : RowsOf(name, from, to)' = RowsOf(name, from, to)
      /\ \A n : StartOf(n)' = StartOf(n)
      /\ AfterWindow' = AfterWindow
  BY ReadingSame
<1>2. ChunkSound /\ ItemsSound
  BY DEF ReadSound
<1>3. Column' = Column
  BY DEF Column
<1>4. ColumnsSound'
  BY <1>1, <1>2, <1>3 DEF ChunkSound, ColumnsSound, SameData
<1>5. ChunkSound'
  BY <1>1, <1>2, <1>4 DEF ChunkSound
<1>6. ItemsSound'
  <2>1. \A item, start : ItemIsSlice(item, start)' = ItemIsSlice(item, start)
    BY <1>1 DEF ItemIsSlice
  <2> QED BY <1>1, <1>2, <2>1 DEF ItemsSound
<1> QED BY <1>1, <1>5, <1>6 DEF ReadSound

LEMMA ColumnOfChunk ==
  ASSUME ColumnsExist, ReadSound, chunk # Nothing, ~NotOnDisk(Column)
  PROVE  \E S : /\ ColumnBaskets(tree, Column, chunk.start, chunk.start + chunk.len) \in Seq(S)
                /\ \A k \in S : ~k.inMemory
<1>1. WindowSound /\ ChunkSound /\ ItemsSound
  BY DEF ReadSound
<1>2. PICK c : c = Len(columns) + 1
  OBVIOUS
<1>3. c \in 1 .. Len(window.columns)
  <2>1. PICK m \in Nat : m = Len(window.columns)
    BY <1>1 DEF WindowSound, ColumnsExist
  <2>2. PICK n \in Nat : n = Len(columns) /\ n < m
    BY <1>1, <2>1 DEF ChunkSound, ColumnsSound, IsList
  <2> QED BY <1>2, <2>1, <2>2
<1>4. ~Misplaced(window.columns[c])
  BY <1>2 DEF Misplaced, NotOnDisk, Column
<1>5. PICK from \in Nat : from = chunk.start
  BY <1>1, ChunkBounds
<1>6. PICK to \in Nat : to = chunk.start + chunk.len /\ from < to /\ to <= AfterWindow
  BY <1>1, <1>5, ChunkBounds
<1> QED BY <1>1, <1>2, <1>3, <1>4, <1>5, <1>6, ColumnOnDisk DEF Column

LEMMA AskBasketSound ==
  ASSUME ColumnsExist, ReadSound, FileSound, AskBasket
  PROVE  ReadSound'
<1>1. /\ chunk # Nothing /\ todo # <<>> /\ ~Head(todo).inMemory
      /\ want' = [at |-> Head(todo).seek, len |-> Head(todo).len]
      /\ UNCHANGED <<fileVars, tree, window, next, chunk, columns, todo, got, items>>
  BY DEF AskBasket, Ask, chunkVars
<1>2. ChunkSound
  BY <1>1 DEF ReadSound
<1> QED BY <1>1, <1>2, ColumnStep DEF ChunkSound, ColumnsSound

LEMMA ReadBasketSound ==
  ASSUME ColumnsExist, ReadSound, FileSound, ReadBasket
  PROVE  ReadSound'
<1>1. PICK r \in Found("basket") : got' = Append(got, r.holds) /\ todo' = Tail(todo)
  BY DEF ReadBasket, Got
<1>2. /\ chunk # Nothing /\ want # Nothing /\ want' = Nothing
      /\ UNCHANGED <<fileVars, tree, window, next, chunk, columns, items>>
  BY DEF ReadBasket, AskNothing
<1>3. ChunkSound
  BY <1>2 DEF ReadSound
<1>4. todo # <<>> /\ want.at = Head(todo).seek /\ want.len = Head(todo).len
  BY <1>2, <1>3 DEF ChunkSound
<1>5. Held(file.records, Head(todo), r.holds) /\ r.holds \in Payloads(file.records)
  BY <1>4 DEF Found, Held, Payloads
<1>6. ASSUME ~NotOnDisk(Column)
      PROVE  HalfRead(file.records,
                      ColumnBaskets(tree, Column, chunk.start, chunk.start + chunk.len), todo', got')
  <2>1. PICK ks : ks = ColumnBaskets(tree, Column, chunk.start, chunk.start + chunk.len)
    OBVIOUS
  <2>2. PICK S : ks \in Seq(S)
    BY <1>2, <1>6, <2>1, ColumnOfChunk
  <2>3. HalfRead(file.records, ks, todo, got)
    BY <1>3, <1>6, <2>1 DEF ChunkSound, ColumnsSound
  <2> QED BY <1>1, <1>4, <1>5, <2>1, <2>2, <2>3, HalfReadNext
<1> QED BY <1>2, <1>6, ColumnStep

LEMMA ReadEmbeddedSound ==
  ASSUME ColumnsExist, ReadSound, FileSound, ReadEmbedded
  PROVE  ReadSound'
<1>1. /\ chunk # Nothing /\ todo # <<>> /\ Head(todo).inMemory /\ want' = want
      /\ UNCHANGED <<fileVars, tree, window, next, chunk, columns, items>>
  BY DEF ReadEmbedded
<1>2. ChunkSound
  BY <1>1 DEF ReadSound
<1>3. want' = Nothing
  BY <1>1, <1>2 DEF ChunkSound
<1>4. NotOnDisk(Column)
  <2> SUFFICES ASSUME ~NotOnDisk(Column) PROVE FALSE
    OBVIOUS
  <2>1. PICK ks : ks = ColumnBaskets(tree, Column, chunk.start, chunk.start + chunk.len)
    OBVIOUS
  <2>2. PICK S : ks \in Seq(S) /\ \A k \in S : ~k.inMemory
    BY <1>1, <2>1, ColumnOfChunk
  <2>3. HalfRead(file.records, ks, todo, got)
    BY <1>2, <2>1 DEF ChunkSound, ColumnsSound
  <2>4. Head(todo) \in S
    BY <1>1, <2>2, <2>3, HalfReadHead
  <2> QED BY <1>1, <2>2, <2>4
<1> QED BY <1>1, <1>3, <1>4, ColumnStep
-----------------------------------------------------------------------------
\* An item that is an error, or a slice where the last one ended.
LEMMA EmitSound ==
  ASSUME ReadSound, FileSound, chunk # Nothing, want' = Nothing, NEW item, Emit(item),
         UNCHANGED <<fileVars, tree, window, next>>,
         item.failed \/ ItemIsSlice(item.is, chunk.start)
  PROVE  ReadSound'
<1>1. /\ WindowSound /\ WindowSound'
      /\ \A name : Misplaced(name)' = Misplaced(name)
      /\ \A name, from, to : RowsOf(name, from, to)' = RowsOf(name, from, to)
      /\ \A n : StartOf(n)' = StartOf(n)
      /\ AfterWindow' = AfterWindow
  BY ReadingSame
<1>2. ChunkSound /\ ItemsSound
  BY DEF ReadSound
<1>3. \A i, start : ItemIsSlice(i, start)' = ItemIsSlice(i, start)
  BY <1>1 DEF ItemIsSlice
<1>4. PICK n \in Nat : n = Len(items)
  BY <1>2 DEF ItemsSound, IsList
<1>5. /\ IsList(items') /\ Len(items') = n + 1 /\ items'[n + 1] = item
      /\ \A k \in 1 .. n : items'[k] = items[k]
  BY <1>2, <1>4, ListAppend DEF Emit, ItemsSound
<1>6. ASSUME NEW k \in 1 .. n + 1
      PROVE  items'[k].failed \/ ItemIsSlice(items'[k].is, StartOf(k - 1))
  <2>1. CASE k = n + 1
    <3>1. chunk.start = StartOf(n) /\ k - 1 = n
      BY <1>2, <1>4, <2>1 DEF ChunkSound
    <3> QED BY <1>5, <2>1, <3>1
  <2>2. CASE k # n + 1
    <3>1. k \in 1 .. n
      BY <2>2
    <3> QED BY <1>2, <1>4, <1>5, <3>1 DEF ItemsSound
  <2> QED BY <2>1, <2>2
<1>7. ItemsSound'
  BY <1>1, <1>3, <1>5, <1>6 DEF ItemsSound
<1>8. next = Lesser(AfterWindow, StartOf(n + 1))
  BY <1>1, <1>2, <1>4, ChunkBounds DEF ChunkSound
<1>9. Between'
  BY <1>1, <1>5, <1>8 DEF Between
<1> QED BY <1>1, <1>7, <1>9 DEF ReadSound, Emit

LEMMA BasketFailsSound ==
  ASSUME ReadSound, FileSound, BasketFails
  PROVE  ReadSound'
<1>1. /\ chunk # Nothing /\ want' = Nothing /\ Emit(Error)
      /\ UNCHANGED <<fileVars, tree, window, next>>
  BY DEF BasketFails, AskNothing
<1>2. Error.failed
  BY DEF Error
<1> QED BY <1>1, <1>2, EmitSound

\* Before anything of a column is read.
LEMMA NewColumn ==
  ASSUME ColumnsExist, WindowSound, NEW c \in 1 .. Len(window.columns),
         NEW from \in Nat, NEW to \in Nat, from < to, to <= AfterWindow,
         NEW ks, ks = ColumnBaskets(tree, Branch(tree, window.columns[c]), from, to),
         ~NotOnDisk(Branch(tree, window.columns[c]))
  PROVE  HalfRead(file.records, ks, ks, <<>>)
<1>1. PICK S : ks \in Seq(S)
  BY ColumnOnDisk DEF Misplaced, NotOnDisk
<1> QED BY <1>1, HalfReadStart

LEMMA NextChunkSound ==
  ASSUME ColumnsExist, ReadSound, FileSound, NextChunk
  PROVE  ReadSound'
<1>1. /\ chunk = Nothing /\ next < AfterWindow /\ columns' = <<>> /\ want' = want
      /\ UNCHANGED <<fileVars, tree, window, items>>
      /\ chunk' = [start |-> next, len |-> Lesser(AfterWindow - next, window.size)]
      /\ next' = next + Lesser(AfterWindow - next, window.size)
      /\ BeginColumn(1, chunk')
  BY DEF NextChunk
<1>2. /\ SameData /\ WindowSound /\ WindowSound'
      /\ \A name : Misplaced(name)' = Misplaced(name)
      /\ \A name, from, to : RowsOf(name, from, to)' = RowsOf(name, from, to)
      /\ \A n : StartOf(n)' = StartOf(n)
      /\ AfterWindow' = AfterWindow
  BY <1>1, ReadingSame
<1>3. Between /\ ItemsSound
  BY <1>1 DEF ReadSound
<1>4. ItemsSound'
  <2>1. \A item, start : ItemIsSlice(item, start)' = ItemIsSlice(item, start)
    BY <1>1, <1>2 DEF ItemIsSlice
  <2> QED BY <1>1, <1>2, <1>3, <2>1 DEF ItemsSound
<1>5. chunk' # Nothing
  BY <1>1, SomeRecord
<1>6. want' = Nothing
  BY <1>1, <1>3 DEF Between
<1>7. next = StartOf(Len(items)) /\ next \in Nat
  <2>1. PICK n \in Nat : n = Len(items)
    BY <1>3 DEF ItemsSound, IsList
  <2>2. PICK m \in Nat : m = n + 1
    OBVIOUS
  <2>3. PICK s \in Nat : s = StartOf(n)
    BY <1>2, <2>2, StartNext
  <2>4. PICK a \in Nat : a = AfterWindow
    BY <1>2, WindowNats
  <2> QED BY <1>1, <1>3, <2>1, <2>3, <2>4 DEF Between, Lesser
<1>8. PICK start, len :
        /\ start = next /\ len = Lesser(AfterWindow - next, window.size)
        /\ chunk'.start = start /\ chunk'.len = len /\ next' = start + len
  BY <1>1
<1>9. /\ start \in Nat /\ start + len \in Nat
      /\ start < start + len /\ start + len <= AfterWindow
  <2>1. PICK n \in Nat : n = Len(items)
    BY <1>3 DEF ItemsSound, IsList
  <2>2. /\ start = StartOf(n) /\ start < AfterWindow
        /\ len = Lesser(AfterWindow - start, window.size)
    BY <1>1, <1>7, <1>8, <2>1
  <2> QED BY <1>2, <2>2, ChunkNats
<1>10. PICK m \in Nat : m = Len(window.columns) /\ m > 0
  BY <1>2 DEF WindowSound, ColumnsExist
<1>11. ColumnsSound'
  <2>1. IsList(columns') /\ Len(columns') = 0
    BY <1>1, NoList
  <2>2. Len(columns') < Len(window'.columns)
    BY <1>1, <1>10, <2>1
  <2>3. PICK ks : ks = ColumnBaskets(tree, Branch(tree, window.columns[1]), start, start + len)
    OBVIOUS
  <2>4. todo' = ks /\ got' = <<>>
    BY <1>1, <1>8, <2>3 DEF BeginColumn
  <2>5. Column' = Branch(tree, window.columns[1])
    BY <1>1, <2>1 DEF Column
  <2>6. 1 \in 1 .. Len(window.columns)
    BY <1>10
  <2>7. ~NotOnDisk(Branch(tree, window.columns[1])) => HalfRead(file.records, ks, ks, <<>>)
    BY <1>2, <1>9, <2>3, <2>6, NewColumn
  <2>8. ~NotOnDisk(Column)' =>
          HalfRead(file'.records, ColumnBaskets(tree', Column', chunk'.start,
                                                chunk'.start + chunk'.len), todo', got')
    BY <1>1, <1>2, <1>8, <2>3, <2>4, <2>5, <2>7 DEF SameData, NotOnDisk
  <2> QED BY <2>1, <2>2, <2>8 DEF ColumnsSound
<1>12. ChunkSound'
  <2>1. StartOf(Len(items))' = StartOf(Len(items))
    BY <1>1, <1>2
  <2> QED BY <1>1, <1>2, <1>6, <1>7, <1>8, <1>11, <2>1 DEF ChunkSound
<1> QED BY <1>2, <1>4, <1>5, <1>12 DEF ReadSound
-----------------------------------------------------------------------------
\* All baskets of a column are there.
RowsRight(rows, upto) ==
  /\ IsList(rows) /\ Len(rows) = upto
  /\ \A c \in 1 .. upto : ~Misplaced(window.columns[c]) =>
       rows[c] = RowsOf(window.columns[c], chunk.start, chunk.start + chunk.len)

LEMMA ColumnEnds ==
  ASSUME ColumnsExist, ReadSound, chunk # Nothing, todo = <<>>,
         NEW column, column = Decode(tree, Column, got, chunk.start, chunk.start + chunk.len),
         ~column.failed
  PROVE  /\ RowsRight(Append(columns, column.is), Len(columns) + 1)
         /\ Len(columns) \in Nat /\ Len(columns) + 1 <= Len(window.columns)
<1>1. WindowSound /\ ChunkSound /\ ItemsSound /\ ColumnsSound
  BY DEF ReadSound, ChunkSound
<1>2. PICK m \in Nat : m = Len(window.columns)
  BY <1>1 DEF WindowSound, ColumnsExist
<1>3. PICK n \in Nat : n = Len(columns) /\ n < m
  BY <1>1, <1>2 DEF ColumnsSound, IsList
<1>4. PICK c \in 1 .. m : c = n + 1
  BY <1>3
<1>5. PICK from \in Nat : from = chunk.start
  BY <1>1, ChunkBounds
<1>6. PICK to \in Nat : to = chunk.start + chunk.len /\ from < to /\ to <= AfterWindow
  BY <1>1, <1>5, ChunkBounds
<1>7. PICK name : name = window.columns[c] /\ Column = Branch(tree, name)
  BY <1>3, <1>4 DEF Column
<1>8. ASSUME ~Misplaced(name) PROVE column.is = RowsOf(name, from, to)
  <2>1. ~NotOnDisk(Column)
    BY <1>7, <1>8 DEF Misplaced, NotOnDisk
  <2>2. PICK ks : ks = ColumnBaskets(tree, Column, from, to)
    OBVIOUS
  <2>3. PICK S : ks \in Seq(S)
    BY <1>5, <1>6, <2>1, <2>2, ColumnOfChunk
  <2>4. HalfRead(file.records, ks, <<>>, got)
    BY <1>1, <1>5, <1>6, <2>1, <2>2 DEF ColumnsSound
  <2>5. ReadFor(file.records, Payloads(file.records), ks, got)
    BY <2>3, <2>4, HalfReadDone
  <2>6. column = Decode(tree, Branch(tree, window.columns[c]), got, from, to)
    BY <1>5, <1>6, <1>7
  <2>7. ReadFor(file.records, Payloads(file.records),
                ColumnBaskets(tree, Branch(tree, window.columns[c]), from, to), got)
    BY <1>7, <2>2, <2>5
  <2>8. ~Misplaced(window.columns[c]) /\ c \in 1 .. Len(window.columns)
    BY <1>2, <1>7, <1>8
  <2>9. ~Decode(tree, Branch(tree, window.columns[c]), got, from, to).failed
    BY <2>6
  <2>10. Decode(tree, Branch(tree, window.columns[c]), got, from, to).is
           = RowsOf(window.columns[c], from, to)
    <3>1. WindowSound /\ from < to /\ to <= AfterWindow
      BY <1>1, <1>6
    <3> QED BY ONLY ColumnsExist, from \in Nat, to \in Nat, <3>1, <2>7, <2>8, <2>9, ColumnDecoded
  <2> QED BY <1>7, <2>6, <2>10
<1>9. PICK rows : rows = Append(columns, column.is)
  OBVIOUS
<1>10. /\ IsList(rows) /\ Len(rows) = n + 1 /\ rows[n + 1] = column.is
       /\ \A k \in 1 .. n : rows[k] = columns[k]
  BY <1>1, <1>3, <1>9, ListAppend DEF ColumnsSound
<1>11. ASSUME NEW k \in 1 .. n + 1, ~Misplaced(window.columns[k])
       PROVE  rows[k] = RowsOf(window.columns[k], from, to)
  <2>1. CASE k = n + 1
    BY <1>4, <1>7, <1>8, <1>10, <1>11, <2>1
  <2>2. CASE k # n + 1
    <3>1. k \in 1 .. n
      BY <2>2
    <3> QED BY <1>1, <1>3, <1>5, <1>6, <1>10, <1>11, <3>1 DEF ColumnsSound
  <2> QED BY <2>1, <2>2
<1>12. RowsRight(rows, n + 1)
  BY <1>5, <1>6, <1>10, <1>11 DEF RowsRight
<1>13. n + 1 <= m
  BY <1>3
<1> QED BY <1>2, <1>3, <1>9, <1>12, <1>13

LEMMA ReadColumnSound ==
  ASSUME ColumnsExist, ReadSound, FileSound, ReadColumn
  PROVE  ReadSound'
<1>1. /\ chunk # Nothing /\ todo = <<>> /\ want' = want
      /\ UNCHANGED <<fileVars, tree, window, next>>
  BY DEF ReadColumn
<1>2. WindowSound /\ ChunkSound /\ ItemsSound
  BY <1>1 DEF ReadSound
<1>3. want' = Nothing
  BY <1>1, <1>2 DEF ChunkSound
<1>4. PICK column : column = Decode(tree, Column, got, chunk.start, chunk.start + chunk.len)
  OBVIOUS
<1>5. \/ column.failed /\ Emit(Error)
      \/ /\ ~column.failed /\ Len(columns) + 1 = Len(window.columns)
         /\ Emit(Fine([start |-> chunk.start, len |-> chunk.len,
                       columns |-> Append(columns, column.is)]))
      \/ /\ ~column.failed /\ Len(columns) + 1 < Len(window.columns)
         /\ columns' = Append(columns, column.is)
         /\ BeginColumn(Len(columns) + 2, chunk)
         /\ items' = items /\ chunk' = chunk
  BY <1>4 DEF ReadColumn
<1>6. CASE column.failed /\ Emit(Error)
  <2>1. Error.failed
    BY DEF Error
  <2> QED BY <1>1, <1>3, <1>6, <2>1, EmitSound
<1>7. PICK rows : rows = Append(columns, column.is)
  OBVIOUS
<1>8. CASE /\ ~column.failed /\ Len(columns) + 1 = Len(window.columns)
           /\ Emit(Fine([start |-> chunk.start, len |-> chunk.len, columns |-> rows]))
  <2>1. RowsRight(rows, Len(window.columns))
    BY <1>1, <1>4, <1>7, <1>8, ColumnEnds
  <2>2. PICK item : item = [start |-> chunk.start, len |-> chunk.len, columns |-> rows]
    OBVIOUS
  <2>3. DOMAIN window.columns = 1 .. Len(window.columns)
    BY <1>2 DEF WindowSound, ColumnsExist
  <2>4. ItemIsSlice(item, chunk.start)
    BY <2>1, <2>2, <2>3 DEF ItemIsSlice, RowsRight
  <2>5. Fine(item).is = item
    BY DEF Fine
  <2> QED BY <1>1, <1>3, <1>8, <2>2, <2>4, <2>5, EmitSound
<1>9. CASE /\ ~column.failed /\ Len(columns) + 1 < Len(window.columns)
           /\ columns' = rows /\ BeginColumn(Len(columns) + 2, chunk)
           /\ items' = items /\ chunk' = chunk
  <2>1. /\ RowsRight(rows, Len(columns) + 1) /\ Len(columns) \in Nat
    BY <1>1, <1>4, <1>7, <1>9, ColumnEnds
  <2>2. PICK n \in Nat, m \in Nat : n = Len(columns) /\ m = Len(window.columns) /\ n + 1 < m
    <3>1. Len(window.columns) \in Nat
      BY <1>2 DEF WindowSound, ColumnsExist
    <3> QED BY <1>9, <2>1, <3>1
  <2>3. PICK c \in 1 .. m : c = n + 2 /\ c = (n + 1) + 1
    BY <2>2
  <2>4. PICK from \in Nat : from = chunk.start
    BY <1>2, ChunkBounds
  <2>5. PICK to \in Nat : to = chunk.start + chunk.len /\ from < to /\ to <= AfterWindow
    BY <1>2, <2>4, ChunkBounds
  <2>6. PICK ks : ks = ColumnBaskets(tree, Branch(tree, window.columns[c]), from, to)
    OBVIOUS
  <2>7. todo' = ks /\ got' = <<>>
    BY <1>9, <2>2, <2>3, <2>4, <2>5, <2>6 DEF BeginColumn
  <2>8. ~NotOnDisk(Branch(tree, window.columns[c])) => HalfRead(file.records, ks, ks, <<>>)
    BY <1>2, <2>2, <2>5, <2>6, NewColumn
  <2>9. /\ SameData /\ WindowSound'
        /\ \A name : Misplaced(name)' = Misplaced(name)
        /\ \A name, a, b : RowsOf(name, a, b)' = RowsOf(name, a, b)
        /\ \A k : StartOf(k)' = StartOf(k)
        /\ AfterWindow' = AfterWindow
    BY <1>1, ReadingSame
  <2>10. IsList(columns') /\ Len(columns') = n + 1
    BY <1>9, <2>1, <2>2 DEF RowsRight
  <2>11. Column' = Branch(tree, window.columns[c])
    BY <1>1, <2>3, <2>10 DEF Column
  <2>12. ColumnsSound'
    <3>1. \A k \in 1 .. n + 1 : ~Misplaced(window.columns[k]) =>
            columns'[k] = RowsOf(window.columns[k], from, to)
      BY <1>9, <2>1, <2>2, <2>4, <2>5 DEF RowsRight
    <3>2. \A k \in 1 .. Len(columns') : ~Misplaced(window.columns[k])' =>
            columns'[k] = RowsOf(window.columns[k], chunk.start, chunk.start + chunk.len)'
      BY <1>1, <1>9, <2>4, <2>5, <2>9, <2>10, <3>1
    <3>3. ~NotOnDisk(Column)' =>
            HalfRead(file'.records, ColumnBaskets(tree', Column', chunk'.start,
                                                  chunk'.start + chunk'.len), todo', got')
      BY <1>1, <1>9, <2>4, <2>5, <2>6, <2>7, <2>8, <2>9, <2>11 DEF SameData, NotOnDisk
    <3>4. Len(columns') < Len(window'.columns)
      BY <1>1, <2>2, <2>10
    <3> QED BY <2>10, <3>2, <3>3, <3>4 DEF ColumnsSound
  <2>13. ChunkSound'
    BY <1>1, <1>2, <1>3, <1>9, <2>9, <2>12 DEF ChunkSound
  <2>14. ItemsSound'
    <3>1. \A item, start : ItemIsSlice(item, start)' = ItemIsSlice(item, start)
      BY <1>1, <2>9 DEF ItemIsSlice
    <3> QED BY <1>2, <1>9, <2>9, <3>1 DEF ItemsSound
  <2> QED BY <1>1, <1>9, <2>9, <2>13, <2>14 DEF ReadSound
<1> QED BY <1>5, <1>6, <1>7, <1>8, <1>9

LEMMA ReadingChunksInv ==
  ASSUME ColumnsExist, ChunksInv,
         NextChunk \/ AskBasket \/ ReadBasket \/ ReadEmbedded \/ ReadColumn \/ BasketFails
  PROVE  ChunksInv'
<1>1. step = "reading"
  BY DEF NextChunk, AskBasket, ReadBasket, ReadEmbedded, ReadColumn, BasketFails,
         ChunksInv, Asked
<1>2. UNCHANGED <<fileVars, step, tree, window>>
  BY DEF NextChunk, AskBasket, ReadBasket, ReadEmbedded, ReadColumn, BasketFails, chunkVars
<1>3. FileSound
  BY DEF ChunksInv
<1>4. ReadSound => ReadSound'
  BY <1>3, NextChunkSound, AskBasketSound, ReadBasketSound, ReadEmbeddedSound,
     ReadColumnSound, BasketFailsSound
<1> QED BY <1>1, <1>2, <1>4, ReadingStep

LEMMA InitChunksInv == Init => ChunksInv
<1> SUFFICES ASSUME Init PROVE ChunksInv
  OBVIOUS
<1>1. /\ file.records = <<>>
      /\ {"version", "branches", "records", "size"} \subseteq DOMAIN file
      /\ step = "idle" /\ chunk = Nothing /\ items = <<>>
  BY DEF Init
<1> QED BY <1>1 DEF ChunksInv, FileSound, Asked

LEMMA NextChunksInv ==
  ForeignTreesCut /\ ColumnsExist /\ ChunksInv /\ [Next]_vars => ChunksInv'
<1> SUFFICES ASSUME ForeignTreesCut, ColumnsExist, ChunksInv, [Next]_vars PROVE ChunksInv'
  OBVIOUS
<1>1. CASE \E v \in DOMAIN Contents : Create(v)
  BY <1>1, WriterChunksInv
<1>2. CASE Write \/ WriteStops \/ Redirected \/ UNCHANGED vars
  BY <1>2, QuietChunksInv
<1>3. CASE Open \/ ReadHeader \/ ReadDirectory \/ ReadKeys \/ ReadInfos \/ FetchTree
  BY <1>3, OpeningChunksInv
<1>4. CASE ReadTree \/ OpenFails
  BY <1>4, ReadTreeChunksInv
<1>5. CASE NextChunk \/ AskBasket \/ ReadBasket \/ ReadEmbedded \/ ReadColumn \/ BasketFails
  BY <1>5, ReadingChunksInv
<1>6. CASE Exhausted \/ Dropped
  BY <1>6, EndChunksInv
<1>7. CASE \E w \in Windows : ChunkedReader(w)
  BY <1>7, StartChunksInv
<1> QED BY <1>1, <1>2, <1>3, <1>4, <1>5, <1>6, <1>7 DEF Next, WriterStep, ReaderStep

\* The chunks that ChunkedReader returns are the consecutive slices of its
\* range, in each column the entries that were written, however the branches
\* are cut into baskets and however windows and chunks fall across them, also
\* when a fetch failed before or the same contents are written anew meanwhile.
THEOREM ChunksAreWrittenSlices ==
  ForeignTreesCut /\ ColumnsExist => (Spec => []ChunksAreSlices)
<1> SUFFICES ASSUME ForeignTreesCut, ColumnsExist PROVE Spec => []ChunksAreSlices
  OBVIOUS
<1>1. Init => ChunksInv
  BY InitChunksInv
<1>2. ChunksInv /\ [Next]_vars => ChunksInv'
  BY NextChunksInv
<1>3. ChunksInv => ChunksAreSlices
  <2> SUFFICES ASSUME ChunksInv, step = "reading", ~replaced
               PROVE  /\ \A k \in DOMAIN items :
                           items[k].failed
                             \/ ItemIsSlice(items[k].is, window.start + (k - 1) * window.size)
                      /\ chunk = Nothing =>
                           next = Lesser(AfterWindow, window.start + Len(items) * window.size)
    BY DEF ChunksAreSlices
  <2>1. ItemsSound /\ (chunk = Nothing => Between)
    BY DEF ChunksInv, ReadSound
  <2>2. DOMAIN items = 1 .. Len(items)
    BY <2>1 DEF ItemsSound, IsList
  <2> QED BY <2>1, <2>2 DEF ItemsSound, Between, StartOf
<1> QED BY <1>1, <1>2, <1>3, PTL DEF Spec
=============================================================================
