----------------------------- MODULE Kinematics -----------------------------
(***************************************************************************)
(* The numbers of an event and the arithmetic of crates/nano-spec          *)
(* (interpret.rs) on them.                                                 *)
(*                                                                         *)
(* A number is an integer, a momentum in thirds of a GeV, or NaN.          *)
(* Particles are massless and fly along one axis of the transverse plane:  *)
(* phi is 0 or 1 (the opposite direction), so a pair has a positive mass   *)
(* exactly when its particles are opposite.  A result that is no integer   *)
(* counts as NaN; comparisons with NaN fail, except "ne".                  *)
(***************************************************************************)
EXTENDS Integers, Sequences, FiniteSets

CONSTANT Factor(_, _)  \* the value of a correction payload: name, input values |-> number

NaN == -999
None == [none |-> TRUE]        \* Option::None
NoPt == -998                   \* f64::NEG_INFINITY

Abs(x) == IF x = NaN THEN NaN ELSE IF x < 0 THEN -x ELSE x
Root(x) == IF \E r \in 0 .. x : r * r = x THEN CHOOSE r \in 0 .. x : r * r = x ELSE NaN

Arithmetic(op, x, y) ==
  IF NaN \in {x, y} THEN NaN
  ELSE CASE op = "add" -> x + y
         [] op = "sub" -> x - y
         [] op = "mul" -> x * y
         [] op = "div" -> IF y > 0 /\ (x % y) = 0 THEN x \div y ELSE NaN
         [] op = "pow" -> IF y >= 0 THEN x ^ y ELSE NaN

Compare(x, op, y) ==
  IF NaN \in {x, y} THEN op = "ne"
  ELSE CASE op = "gt" -> x > y
         [] op = "ge" -> x >= y
         [] op = "lt" -> x < y
         [] op = "le" -> x <= y
         [] op = "eq" -> x = y
         [] op = "ne" -> x # y

CompareBool(b, op, v) == IF op = "eq" THEN b = (v = 1) ELSE b # (v = 1)

Truncated(m) == m - (m % 3)    \* `as i32`: whole GeV
DeltaR(f, g) == IF f.phi = g.phi THEN Abs(f.eta - g.eta) ELSE 3 + Abs(f.eta - g.eta)

\* energy and momentum along the axis
Vector(f) == [e |-> f.pt, px |-> IF f.phi = 0 THEN f.pt ELSE -f.pt]
Plus(v, w) == [e |-> v.e + w.e, px |-> v.px + w.px]
MassOf(v) == Root(v.e * v.e - v.px * v.px)
PtOf(v) == Abs(v.px)

Infinity == 997
MinDeltaR(items) ==
  LET pairs == {<<i, j>> \in (1 .. Len(items)) \X (1 .. Len(items)) : i < j}
      all == {DeltaR(items[ij[1]], items[ij[2]]) : ij \in pairs} \cup {Infinity}
  IN CHOOSE d \in all : \A x \in all : d <= x

\* positions by decreasing key, a stable sort
DescendingBy(keys) ==
  LET Before(i, j) == keys[i] > keys[j] \/ (keys[i] = keys[j] /\ i < j)
      Rank(i) == 1 + Cardinality({j \in DOMAIN keys : Before(j, i)})
  IN [r \in DOMAIN keys |-> CHOOSE i \in DOMAIN keys : Rank(i) = r]

RECURSIVE SumOf(_)
SumOf(seq) == IF seq = <<>> THEN 0 ELSE Head(seq) + SumOf(Tail(seq))

RECURSIVE ProductOf(_)
ProductOf(seq) == IF seq = <<>> THEN 1 ELSE Head(seq) * ProductOf(Tail(seq))

MaxOf(set) == CHOOSE x \in set : \A y \in set : y <= x
=============================================================================
