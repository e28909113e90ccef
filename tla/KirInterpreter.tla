--------------------------- MODULE KirInterpreter ---------------------------
(***************************************************************************)
(* The interpreter of crates/nano-spec (interpret.rs): one event run       *)
(* through the verified block of a plan, statement by statement, for one   *)
(* systematic variation, with or without histograms to fill.               *)
(*                                                                         *)
(* `selected` holds, per object, the selected items of the collection with *)
(* the attributes the interpreter materialised for them; `derived` holds   *)
(* the candidates, None when there is none.  Output and histogram values   *)
(* are numbers or Booleans.  Plans with models are only validated.         *)
(***************************************************************************)
EXTENDS KirProgram, Kinematics, TLC

CONSTANTS
  Plans,   \* name -> spec
  Events   \* [mc, lumi, scalar : name -> value, coll : source -> Seq(attribute -> value)]

VARIABLES
  name, channel,  \* the plan that is run, and its channel (1 for a flat plan)
  plan,         \* what that channel is run by: its spec and the read branches
  block,        \* the verified block, empty before lowering
  event,        \* the event it is run on
  variant,      \* the systematic asked for, a member of Axis(spec)
  filling,      \* interpret_and_fill rather than interpret
  pc,           \* next statement of the block; 0 before lowering
  loop,         \* variants of the systematic loop still to be run
  lpc,          \* next statement of the loop body, 0 outside it
  values,       \* value id -> value
  selected, derived,
  outcome,      \* "running", "row", "skipped" (Ok(None)), "rejected" (lowering
                \* or verification failed), or a kind of error
  row,          \* the outputs returned
  fills,        \* histogram fills made, in order: [h, variant, value, weight]
  rows          \* the rows of the channels before this one: [channel, row]

vars == <<name, channel, plan, block, event, variant, filling, pc, loop, lpc, values, selected, derived,
          outcome, row, fills, rows>>

(***************************************************************************)
(* Accepted plans.  A channel of a union runs as a flat plan, with the     *)
(* read branches of the union.                                             *)
(***************************************************************************)
Channels(n) == IF Plans[n].channels = <<>> THEN {1} ELSE DOMAIN Plans[n].channels
ChannelSpec(n, c) ==
  IF Plans[n].channels = <<>> THEN Plans[n] ELSE AsSpec(Plans[n], Plans[n].channels[c])
ChannelPlan(c) == [plan EXCEPT !.spec = ChannelSpec(name, c)]

spec == plan.spec

(***************************************************************************)
(* Which attributes of an object are materialised                          *)
(***************************************************************************)
RECURSIVE LeadingAttrs(_, _)
LeadingAttrs(e, o) ==
  CASE e.k = "leading" -> IF e.o = o THEN {e.a} ELSE {}
    [] e.k \in {"abs", "sqrt"} -> LeadingAttrs(e.x, o)
    [] e.k = "bin" -> LeadingAttrs(e.l, o) \cup LeadingAttrs(e.r, o)
    [] OTHER -> {}

RECURSIVE SelectedAttrs(_, _)
SelectedAttrs(e, o) ==
  CASE e.k \in {"attr", "sum"} -> IF e.o = o THEN {e.a} ELSE {}
    [] e.k = "bin" -> SelectedAttrs(e.l, o) \cup SelectedAttrs(e.r, o)
    [] e.k \in {"abs", "sqrt"} -> SelectedAttrs(e.x, o)
    [] e.k \in {"countWhere", "all", "any"} -> IF e.o = o THEN SelectedAttrs(e.p.lhs, o) ELSE {}
    [] OTHER -> {}

FilterAttrs(d) ==
  UNION {CASE d.filters[i].lhs.k \in {"pairDeltaR", "candMinDeltaR"} -> {"eta", "phi"}
           [] OTHER -> {"pt"} : i \in DOMAIN d.filters}

DerivedAttrs(s, o) ==
  UNION {LET d == s.derived[i]
         IN IF (d.kind = "pair" /\ d.object = o)
               \/ (d.kind = "candidate" /\ \E j \in DOMAIN d.items : d.items[j] = o)
            THEN FourVector \cup FilterAttrs(d)
                 \cup (IF d.kind = "pair" /\ d.opposite THEN {"charge"} ELSE {})
            ELSE {} : i \in DOMAIN s.derived}

FactorAttrs(p, o) ==
  {a \in UNION {{p.spec.sfs[i].inputs[j].from : j \in DOMAIN p.spec.sfs[i].inputs} :
                i \in {k \in DOMAIN p.spec.sfs : p.spec.sfs[k].collection = o}} :
     <<SourceOf(p.spec, o), a>> \in p.reads}

\* for the mutant runs: only requirements are searched for selected attributes
Materialised_Requirements(p, o) ==
  LET reqs == AllRequirements(p.spec)
  IN UNION {LeadingAttrs(reqs[i].lhs, o) \cup SelectedAttrs(reqs[i].lhs, o) : i \in DOMAIN reqs}
     \cup FactorAttrs(p, o) \cup DerivedAttrs(p.spec, o)

Materialised(p, o) ==
  LET s == p.spec
      reqs == AllRequirements(s)
  IN {s.outputs[i].expr.a : i \in {j \in DOMAIN s.outputs :
        s.outputs[j].expr.k = "leading" /\ s.outputs[j].expr.o = o}}
     \cup UNION {LeadingAttrs(reqs[i].lhs, o) \cup SelectedAttrs(reqs[i].lhs, o) : i \in DOMAIN reqs}
     \cup UNION {SelectedAttrs(s.outputs[i].expr, o) : i \in DOMAIN s.outputs}
     \cup FactorAttrs(p, o)
     \cup DerivedAttrs(s, o)

(***************************************************************************)
(* Object selection                                                        *)
(***************************************************************************)
InputValue(p, ev, o, item, input) ==
  LET b == <<SourceOf(p.spec, o), input.from>>
  IN IF input.literal # "no" THEN input.value
     ELSE IF b \in p.reads THEN item[input.from] ELSE ev.scalar[input.from]

ShapeCorrectionFactor(p, ev, c, item, v) ==
  LET uncertainty == Factor(c.payload, [i \in DOMAIN c.inputs |->
                            InputValue(p, ev, c.collection, item, c.inputs[i])])
      up == v = <<CamelOf[c.name], "Up">>
      down == v = <<CamelOf[c.name], "Down">>
  IN CASE up   -> IF c.payload = "scale" THEN c.up ELSE 1 + uncertainty
       [] down -> IF c.payload = "scale" THEN c.down ELSE 1 - uncertainty
       [] OTHER -> 1

\* only the first correction of the attribute applies
ShapeFactor(p, ev, o, a, item, v) ==
  LET cs == {i \in DOMAIN p.spec.shapes : p.spec.shapes[i].collection = o /\ p.spec.shapes[i].attr = a}
      first == CHOOSE i \in cs : \A j \in cs : i <= j
  IN IF cs = {} THEN 1 ELSE ShapeCorrectionFactor(p, ev, p.spec.shapes[first], item, v)

ReadAttr(p, ev, o, a, item, v) ==
  IF Catalogue[<<SourceOf(p.spec, o), a>>] = "vecf32"
  THEN item[a] * ShapeFactor(p, ev, o, a, item, v) ELSE item[a]

\* the value of an expression over one item with the attributes read
RECURSIVE ItemValue(_, _)
ItemValue(e, read) ==
  CASE e.k = "attr" -> read[e.a]
    [] e.k = "lit"  -> e.v
    [] e.k = "bin"  -> Arithmetic(e.op, ItemValue(e.l, read), ItemValue(e.r, read))
    [] e.k = "abs"  -> Abs(ItemValue(e.x, read))
    [] e.k = "sqrt" -> Root(ItemValue(e.x, read))

\* attributes an expression over items of o reads; {"unsupported"} if it is
\* not such an expression
RECURSIVE ItemAttrs(_, _)
ItemAttrs(o, e) ==
  CASE e.k = "attr" -> IF e.o = o THEN {e.a} ELSE {"unsupported"}
    [] e.k = "lit"  -> {}
    [] e.k = "bin"  -> ItemAttrs(o, e.l) \cup ItemAttrs(o, e.r)
    [] e.k \in {"abs", "sqrt"} -> ItemAttrs(o, e.x)
    [] OTHER -> {"unsupported"}

CutAttrs(o) == UNION {ItemAttrs(o.name, o.cuts[i].lhs) : i \in DOMAIN o.cuts}

PassesCuts(p, ev, o, item, v) ==
  LET read == [a \in CutAttrs(o) |-> ReadAttr(p, ev, o.name, a, item, v)]
  IN \A i \in DOMAIN o.cuts : Compare(ItemValue(o.cuts[i].lhs, read), o.cuts[i].op, o.cuts[i].rhs.v)

\* the items that pass the cuts, with the attributes attrs
SelectObject(p, ev, o, v, attrs) ==
  LET items == ev.coll[o.source]
      Item(i) == [index |-> i,
                  at |-> [a \in attrs |-> ReadAttr(p, ev, o.name, a, items[i], v)]]
  IN SelectSeq([i \in DOMAIN items |-> Item(i)],
               LAMBDA x : PassesCuts(p, ev, o, items[x.index], v))

SelectionError(p, ev, o) ==
  CASE Counter(o.source) \notin p.reads -> "MissingBranch"
    [] ev.coll[o.source] = <<>> -> "none"
    [] "unsupported" \in CutAttrs(o) -> "Unsupported"
    [] \E a \in CutAttrs(o) \cup Materialised(p, o.name) : <<o.source, a>> \notin p.reads
         -> "MissingBranch"
    [] OTHER -> "none"

(***************************************************************************)
(* Derived objects                                                         *)
(***************************************************************************)
\* attr_f64: an attribute that was not materialised reads as 0
AttrOf(item, a) == IF a \in DOMAIN item.at THEN item.at[a] ELSE 0

Constituent(o, item) ==
  [object |-> o, index |-> item.index,
   pt |-> AttrOf(item, "pt"), eta |-> AttrOf(item, "eta"), phi |-> AttrOf(item, "phi")]

RECURSIVE SumVectors(_)
SumVectors(vs) == IF vs = <<>> THEN [e |-> 0, px |-> 0] ELSE Plus(Head(vs), SumVectors(Tail(vs)))

DerivedFrom(v, constituents) ==
  [mass |-> MassOf(v), pt |-> PtOf(v), min_delta_r |-> MinDeltaR(constituents),
   v |-> v, constituents |-> constituents]

NthPt(items, n) ==
  LET order == DescendingBy([i \in DOMAIN items |-> items[i].pt])
  IN IF n <= Len(items) THEN items[order[n]].pt ELSE NoPt

FilterValue(e, items) ==
  CASE e.k \in {"pairDeltaR", "candMinDeltaR"} -> MinDeltaR(items)
    [] e.k \in {"pairLeadingPt", "candLeadingPt"} -> NthPt(items, 1)
    [] e.k \in {"pairSubleadingPt", "candSubleadingPt"} -> NthPt(items, 2)

PassesFilters(filters, items) ==
  \A i \in DOMAIN filters : Compare(FilterValue(filters[i].lhs, items), filters[i].op, filters[i].rhs.v)

Pairing(d, f, g) ==
  LET items == <<Constituent(d.object, f), Constituent(d.object, g)>>
  IN DerivedFrom(SumVectors(<<Vector(items[1]), Vector(items[2])>>), items)

\* the pairs in the order they are tried, with positions of the selected items
PairOrder(d, items) ==
  LET order == IF d.select = "truncated" THEN [i \in DOMAIN items |-> i]
               ELSE DescendingBy([i \in DOMAIN items |-> AttrOf(items[i], "pt")])
      n == Len(items)
  IN Flat([i \in 1 .. n |-> [k \in 1 .. n - i |-> <<order[i], order[i + k]>>]])

\* for the mutant runs: only the first leg of an excluded pair is excluded
ExcludedIndices_OneLeg(d, der) ==
  {der[x].constituents[1].index : x \in {y \in d.exclude : der[y] # None}}

ExcludedIndices(d, der) ==
  UNION {IF der[x] = None THEN {}
         ELSE {der[x].constituents[i].index : i \in {j \in DOMAIN der[x].constituents :
                                                     der[x].constituents[j].object = d.object}} :
         x \in d.exclude}

ValidPair(d, der, f, g) ==
  LET c == Pairing(d, f, g)
  IN /\ {f.index, g.index} \cap ExcludedIndices(d, der) = {}
     /\ d.opposite => AttrOf(f, "charge") * AttrOf(g, "charge") < 0
     /\ PassesFilters(d.filters, c.constituents)
     /\ c.mass # NaN /\ c.mass > 0

\* for the mutant runs: the mass to beat is not replaced with the best pair
RECURSIVE BestPair_MassKept(_, _, _, _)
BestPair_MassKept(d, candidates, best, bestMass) ==
  IF candidates = <<>> THEN best
  ELSE LET c == Head(candidates)
           better == best = None \/ Abs(d.target.v - c.mass) < Abs(d.target.v - bestMass)
       IN BestPair_MassKept(d, Tail(candidates), IF better THEN c ELSE best, bestMass)

\* fold over the pairs: best so far and the mass it is compared by
RECURSIVE BestPair(_, _, _, _)
BestPair(d, candidates, best, bestMass) ==
  IF candidates = <<>> THEN best
  ELSE LET c == Head(candidates)
           better == \/ d.select = "nearest" /\ best = None
                     \/ Abs(d.target.v - c.mass) < Abs(d.target.v - bestMass)
       IN IF ~better THEN BestPair(d, Tail(candidates), best, bestMass)
          ELSE BestPair(d, Tail(candidates), c,
                        IF d.select = "truncated" THEN Truncated(c.mass) ELSE c.mass)

DerivePair(d, sel, der) ==
  LET items == sel[d.object]
      order == SelectSeq(PairOrder(d, items), LAMBDA ij : ValidPair(d, der, items[ij[1]], items[ij[2]]))
      candidates == [k \in DOMAIN order |-> Pairing(d, items[order[k][1]], items[order[k][2]])]
  IN IF candidates = <<>> THEN None
     ELSE IF d.select = "leading" THEN candidates[1]
     ELSE BestPair(d, candidates, None, -3)

\* item i of a candidate: the next selected object not yet used, or a derived one
Occurrence(d, i) == Cardinality({j \in 1 .. i : d.items[j] = d.items[i]})

DeriveCandidate(d, sel, der) ==
  LET IsObject(x) == x \in DOMAIN sel
      Has(i) == IF IsObject(d.items[i]) THEN Occurrence(d, i) <= Len(sel[d.items[i]])
                ELSE der[d.items[i]] # None
      Parts(i) == IF IsObject(d.items[i])
                  THEN <<Constituent(d.items[i], sel[d.items[i]][Occurrence(d, i)])>>
                  ELSE der[d.items[i]].constituents
      constituents == Flat([i \in DOMAIN d.items |-> Parts(i)])
      c == DerivedFrom(SumVectors([i \in DOMAIN constituents |-> Vector(constituents[i])]), constituents)
  IN IF \E i \in DOMAIN d.items : ~Has(i) THEN None
     ELSE IF c.mass = NaN \/ c.mass <= 0 \/ ~PassesFilters(d.filters, c.constituents) THEN None
     ELSE c

DeriveObject(d, sel, der) ==
  IF d.kind = "pair" THEN DerivePair(d, sel, der) ELSE DeriveCandidate(d, sel, der)
(***************************************************************************)
(* Expressions over the selected and derived objects                       *)
(***************************************************************************)
HaveAttr(sel, o, a) == {i \in DOMAIN sel[o] : a \in DOMAIN sel[o][i].at}
LeadingValue(sel, o, a) == MaxOf({sel[o][i].at[a] : i \in HaveAttr(sel, o, a)})

PairPt(sel, o, e) ==
  LET pts == [i \in DOMAIN sel[o] |-> [pt |-> AttrOf(sel[o][i], "pt")]]
  IN Len(pts) >= 2 /\ NthPt(pts, 1) > e.lead.v /\ NthPt(pts, 2) > e.sub.v

EitherPairPt(sel, e) == PairPt(sel, e.l, e) \/ PairPt(sel, e.r, e)

OrderedMass(der, e) ==
  LET l == der[e.l].mass
      r == der[e.r].mass
      leftIsClosest == Abs(l - e.t.v) < Abs(r - e.t.v)
  IN IF leftIsClosest = (e.k = "closestMass") THEN l ELSE r

One(b) == IF b THEN 1 ELSE 0

\* some derived object or leading item the expression needs does not exist
RECURSIVE Missing(_, _, _)
Missing(e, sel, der) ==
  CASE e.k = "attr"    -> e.o \in DOMAIN der /\ der[e.o] = None
    [] e.k = "bin"     -> Missing(e.l, sel, der) \/ Missing(e.r, sel, der)
    [] e.k \in {"abs", "sqrt"} -> Missing(e.x, sel, der)
    [] e.k \in {"countWhere", "all", "any"} -> Missing(e.p.lhs, sel, der)
    [] e.k \in {"closestMass", "otherMass"} -> None \in {der[e.l], der[e.r]}
    [] e.k = "leading" -> HaveAttr(sel, e.o, e.a) = {}
    [] OTHER           -> FALSE

\* kinds of the errors evaluation may return; cur is None, or the object and
\* the item a predicate is evaluated for
RECURSIVE EvalErrors(_, _, _, _)
EvalErrors(e, sel, der, cur) ==
  LET Predicates == UNION {EvalErrors(e.p.lhs, sel, der, [o |-> e.o, item |-> sel[e.o][i]]) :
                           i \in DOMAIN sel[e.o]}
      Kind(ok, kind) == IF ok THEN {} ELSE {kind}
  IN CASE e.k = "attr" /\ cur # None ->
            IF e.o # cur.o THEN {"Unsupported"}
            ELSE Kind(e.a \in DOMAIN cur.item.at, "NotMaterialised")
       [] e.k = "attr" /\ cur = None -> Kind(e.o \in DOMAIN der, "MissingObject")
       [] e.k = "bin" -> EvalErrors(e.l, sel, der, cur) \cup EvalErrors(e.r, sel, der, cur)
       [] e.k \in {"abs", "sqrt"} -> EvalErrors(e.x, sel, der, cur)
       [] e.k = "sum" -> IF e.o \notin DOMAIN sel THEN {"MissingObject"}
                         ELSE Kind(\A i \in DOMAIN sel[e.o] : e.a \in DOMAIN sel[e.o][i].at,
                                   "NotMaterialised")
       [] e.k = "leading" -> Kind(e.o \in DOMAIN sel, "MissingObject")
       [] e.k \in {"countWhere", "all", "any"} -> Predicates
       [] e.k = "scalar" -> {"InvalidExpression"}
       [] OTHER -> {}

RECURSIVE Eval(_, _, _, _)
Eval(e, sel, der, cur) ==
  LET Holds(i) == Compare(Eval(e.p.lhs, sel, der, [o |-> e.o, item |-> sel[e.o][i]]),
                          e.p.op, e.p.rhs.v)
  IN CASE e.k = "attr"  -> IF cur # None THEN cur.item.at[e.a] ELSE der[e.o][e.a]
       [] e.k = "lit"   -> e.v
       [] e.k = "bin"   -> Arithmetic(e.op, Eval(e.l, sel, der, cur), Eval(e.r, sel, der, cur))
       [] e.k = "abs"   -> Abs(Eval(e.x, sel, der, cur))
       [] e.k = "sqrt"  -> Root(Eval(e.x, sel, der, cur))
       [] e.k = "count" -> Len(sel[e.o])
       [] e.k = "sum"   -> SumOf([i \in DOMAIN sel[e.o] |-> sel[e.o][i].at[e.a]])
       [] e.k = "leading"      -> LeadingValue(sel, e.o, e.a)
       [] e.k = "countWhere"   -> Cardinality({i \in DOMAIN sel[e.o] : Holds(i)})
       [] e.k = "all"          -> One(\A i \in DOMAIN sel[e.o] : Holds(i))
       [] e.k = "any"          -> One(\E i \in DOMAIN sel[e.o] : Holds(i))
       [] e.k = "eitherPairPt" -> One(EitherPairPt(sel, e))
       [] e.k \in {"closestMass", "otherMass"} -> OrderedMass(der, e)

Outputs == {"count", "countWhere", "sum", "leading", "attr", "all", "any", "eitherPairPt",
            "closestMass", "otherMass"}
OutputErrors(e, sel, der) ==
  CASE e.k \notin Outputs -> {"Unsupported"}
    [] e.k \in {"closestMass", "otherMass"} /\ None \in {der[e.l], der[e.r]} -> {"NoCandidate"}
    [] OTHER -> EvalErrors(e, sel, der, None)
OutputMissing(e, sel, der) ==
  \/ e.k = "leading" /\ HaveAttr(sel, e.o, e.a) = {}
  \/ e.k = "attr" /\ der[e.o] = None

(***************************************************************************)
(* Weights                                                                 *)
(***************************************************************************)
\* only the first declared weight systematic varies the weight, by its own name
DeclaredFactor(p, v) ==
  LET w == WeightSystematics(p.spec)[1]
  IN CASE WeightSystematics(p.spec) = <<>> -> 1
       [] WeightSystematics(p.spec) # <<>> /\ v = <<CamelOf[w.name], "Up">>   -> w.up
       [] WeightSystematics(p.spec) # <<>> /\ v = <<CamelOf[w.name], "Down">> -> w.down
       [] OTHER -> 1

SystematicValue(c, v) ==
  CASE v = <<CamelOf[c.name], "Up">>   -> c.up
    [] v = <<CamelOf[c.name], "Down">> -> c.down
    [] OTHER                           -> c.nominal

\* product over the selected items of the collection
ScaleFactor(p, ev, c, sel, v) ==
  LET Inputs(item) == [i \in DOMAIN c.inputs |-> InputValue(p, ev, c.collection, item.at, c.inputs[i])]
                      \o (IF c.systematic = "none" THEN <<>> ELSE <<SystematicValue(c, v)>>)
  IN ProductOf([i \in DOMAIN sel[c.collection] |-> Factor(c.payload, Inputs(sel[c.collection][i]))])

ScaleFactors(p, ev, sel, v) ==
  ProductOf([i \in DOMAIN p.spec.sfs |-> ScaleFactor(p, ev, p.spec.sfs[i], sel, v)])

WeightFor(p, ev, sel, v) ==
  DeclaredFactor(p, v) * ProductOf(p.spec.nominal) * ScaleFactors(p, ev, sel, v)

(***************************************************************************)
(* Running a plan                                                          *)
(***************************************************************************)
Init ==
  /\ \E n \in {m \in DOMAIN Plans : Plans[m].models = <<>>} :
       \E checked \in {Validate(Plans[n])} :
         /\ checked.errors = {}
         /\ name = n
         /\ plan = [spec |-> ChannelSpec(n, 1), reads |-> checked.reads]
  /\ channel = 1 /\ block = <<>>
  /\ event \in Events
  /\ filling \in BOOLEAN
  /\ variant \in {Axis(spec)[i] : i \in DOMAIN Axis(spec)}
  /\ Plans[name].channels # <<>> => ~filling /\ variant = NominalVariant
  /\ pc = 0 /\ lpc = 0 /\ loop = <<>>
  /\ values = <<>> /\ selected = <<>> /\ derived = <<>>
  /\ outcome = "running" /\ row = <<>> /\ fills = <<>> /\ rows = <<>>

asked == <<name, channel, plan, block, event, variant, filling, rows>>
results == <<row, fills>>

InLoop == lpc > 0
stmt == IF InLoop THEN block[pc].body[lpc] ELSE block[pc]
Running == /\ outcome = "running" /\ pc > 0
           /\ InLoop => lpc <= Len(block[pc].body)

Lower ==
  /\ outcome = "running" /\ pc = 0
  /\ IF Lowers(plan)
     THEN pc' = 1 /\ block' = ExecutableBlock(spec) /\ UNCHANGED outcome
     ELSE outcome' = "rejected" /\ UNCHANGED <<pc, block>>
  /\ UNCHANGED <<name, channel, plan, event, variant, filling, rows, loop, lpc, values, selected, derived, results>>

Step == IF InLoop THEN lpc' = lpc + 1 /\ UNCHANGED pc ELSE pc' = pc + 1 /\ UNCHANGED lpc
Fail(kinds) ==
  /\ outcome' \in kinds
  /\ UNCHANGED <<asked, pc, lpc, loop, values, selected, derived, results>>
Define(x) == values' = (stmt.id :> x) @@ values
IsLet(rv) == Running /\ stmt.op = "let" /\ stmt.rv = rv

\* Ok(None) of a let: the whole block returns, which the loop takes for an error
SkipEvent ==
  /\ outcome' = IF InLoop THEN "LoopReturned" ELSE "skipped"
  /\ UNCHANGED <<asked, pc, lpc, loop, values, selected, derived, results>>

EvalLumi ==
  /\ IsLet("lumi")
  /\ IF ~event.mc /\ ~(LumiBranches \subseteq plan.reads) THEN Fail({"MissingBranch"})
     ELSE /\ Define(event.mc \/ event.lumi \in stmt.arg)
          /\ Step
          /\ UNCHANGED <<asked, loop, selected, derived, outcome, results>>

EvalSelect ==
  /\ IsLet("select")
  /\ LET e == SelectionError(plan, event, stmt.arg)
     IN IF e # "none" THEN Fail({e})
        ELSE /\ selected' = LET o == stmt.arg
                             IN (o.name :> SelectObject(plan, event, o, variant,
                                                        Materialised(plan, o.name))) @@ selected
             /\ Step
             /\ UNCHANGED <<asked, loop, values, derived, outcome, results>>

EvalDerive ==
  /\ IsLet("derive")
  /\ derived' = (stmt.arg.name :> DeriveObject(stmt.arg, selected, derived)) @@ derived
  /\ Step
  /\ UNCHANGED <<asked, loop, values, selected, outcome, results>>

EvalRequirement ==
  /\ IsLet("requirement")
  /\ LET c == stmt.arg
         errors == EvalErrors(c.lhs, selected, derived, None)
         Passes(b) == Define(b) /\ Step /\ UNCHANGED <<asked, loop, selected, derived, outcome, results>>
     IN CASE c.lhs.k = "scalar" ->
               IF <<"event", c.lhs.b>> \in plan.reads
               THEN Passes(CompareBool(event.scalar[c.lhs.b], c.op, c.rhs.v))
               ELSE Fail({"MissingBranch"})
          [] c.lhs.k # "scalar" /\ Missing(c.lhs, selected, derived) -> Passes(FALSE)
          [] c.lhs.k # "scalar" /\ ~Missing(c.lhs, selected, derived) ->
               IF errors # {} THEN Fail(errors)
               ELSE Passes(Compare(Eval(c.lhs, selected, derived, None), c.op, c.rhs.v))

EvalRequire ==
  /\ Running /\ stmt.op = "require"
  /\ IF values[stmt.id] THEN Step /\ UNCHANGED <<asked, loop, values, selected, derived, outcome, results>>
     ELSE SkipEvent

EvalOutput ==
  /\ IsLet("output")
  /\ LET errors == OutputErrors(stmt.arg, selected, derived)
     IN CASE errors # {} -> Fail(errors)
          [] errors = {} /\ OutputMissing(stmt.arg, selected, derived) -> SkipEvent
          [] errors = {} /\ ~OutputMissing(stmt.arg, selected, derived) ->
               /\ Define(Eval(stmt.arg, selected, derived, None))
               /\ Step
               /\ UNCHANGED <<asked, loop, selected, derived, outcome, results>>

EvalHistogram ==
  /\ IsLet("histogram")
  /\ Define(stmt.arg)
  /\ Step
  /\ UNCHANGED <<asked, loop, selected, derived, outcome, results>>

\* active_systematics: the axis; the loop runs whether or not fills are asked for
EnterLoop ==
  /\ Running /\ ~InLoop /\ stmt.op = "foreach"
  /\ loop' = Axis(spec)
  /\ lpc' = 1
  /\ UNCHANGED <<asked, pc, values, selected, derived, outcome, results>>

EvalScaleFactor ==
  /\ IsLet("scaleFactor")
  /\ Define(ScaleFactors(plan, event, selected, Head(loop)))
  /\ Step
  /\ UNCHANGED <<asked, loop, selected, derived, outcome, results>>

\* for the mutant runs: the weight of the variant asked for, not of the loop's
EvalWeight_Asked ==
  /\ IsLet("weight")
  /\ Define(WeightFor(plan, event, selected, variant))
  /\ Step
  /\ UNCHANGED <<asked, loop, selected, derived, outcome, results>>

EvalWeight ==
  /\ IsLet("weight")
  /\ Define(WeightFor(plan, event, selected, Head(loop)))
  /\ Step
  /\ UNCHANGED <<asked, loop, selected, derived, outcome, results>>

EvalHistogramValue ==
  /\ IsLet("histogramValue")
  /\ LET errors == EvalErrors(stmt.arg, selected, derived, None)
     IN IF Missing(stmt.arg, selected, derived) THEN SkipEvent
        ELSE IF errors # {} THEN Fail(errors)
        ELSE /\ Define(Eval(stmt.arg, selected, derived, None))
             /\ Step
             /\ UNCHANGED <<asked, loop, selected, derived, outcome, results>>

ExecuteFill ==
  /\ Running /\ stmt.op = "fill"
  /\ fills' = IF filling
              THEN Append(fills, [h |-> values[stmt.histogram], variant |-> Head(loop),
                                  value |-> values[stmt.value], weight |-> values[stmt.weight]])
              ELSE fills
  /\ Step
  /\ UNCHANGED <<asked, loop, values, selected, derived, outcome, row>>

NextSystematic ==
  /\ outcome = "running" /\ InLoop
  /\ lpc > Len(block[pc].body)
  /\ loop' = Tail(loop)
  /\ IF Len(loop) > 1 THEN lpc' = 1 /\ UNCHANGED pc ELSE lpc' = 0 /\ pc' = pc + 1
  /\ UNCHANGED <<asked, values, selected, derived, outcome, results>>

\* fill_current_histograms: one fill per histogram at the variant asked for;
\* it stops at the first histogram without a value, the earlier ones filled
CurrentFills(n) ==
  [i \in 1 .. n |->
     [h |-> spec.histograms[i].name, variant |-> variant,
      value |-> Eval(spec.histograms[i].expr, selected, derived, None),
      weight |-> WeightFor(plan, event, selected, variant)]]

Return ==
  /\ Running /\ ~InLoop /\ stmt.op = "return"
  /\ LET hists == spec.histograms
         Bad(i) == \/ Missing(hists[i].expr, selected, derived)
                   \/ EvalErrors(hists[i].expr, selected, derived, None) # {}
         bad == {i \in DOMAIN hists : Bad(i)}
         first == CHOOSE i \in bad : \A j \in bad : i <= j
         outputs == [i \in DOMAIN stmt.values |-> values[stmt.values[i]]]
     IN IF ~filling \/ (HasWeightSystematic(spec) /\ ~HasShapeCorrection(spec))
        THEN outcome' = "row" /\ row' = outputs /\ UNCHANGED fills
        ELSE IF bad = {}
        THEN outcome' = "row" /\ row' = outputs /\ fills' = CurrentFills(Len(hists))
        ELSE /\ outcome' \in (IF Missing(hists[first].expr, selected, derived) THEN {"skipped"}
                              ELSE EvalErrors(hists[first].expr, selected, derived, None))
             /\ fills' = CurrentFills(first - 1)
             /\ UNCHANGED row
  /\ UNCHANGED <<asked, pc, lpc, loop, values, selected, derived>>

\* for the mutant runs: a channel that selects nothing gives a row too
NextChannel_EveryRow ==
  /\ outcome \in {"row", "skipped"} /\ channel + 1 \in Channels(name)
  /\ rows' = Append(rows, [channel |-> Plans[name].channels[channel].name, row |-> row])
  /\ channel' = channel + 1
  /\ plan' = ChannelPlan(channel + 1) /\ block' = <<>>
  /\ pc' = 0 /\ lpc' = 0 /\ loop' = <<>>
  /\ values' = <<>> /\ selected' = <<>> /\ derived' = <<>>
  /\ outcome' = "running" /\ row' = <<>> /\ fills' = <<>>
  /\ UNCHANGED <<name, event, variant, filling>>

\* interpret_union: the next channel, after one that returned a row or none
NextChannel ==
  /\ outcome \in {"row", "skipped"} /\ channel + 1 \in Channels(name)
  /\ rows' = IF outcome = "row"
             THEN Append(rows, [channel |-> Plans[name].channels[channel].name, row |-> row])
             ELSE rows
  /\ channel' = channel + 1
  /\ plan' = ChannelPlan(channel + 1) /\ block' = <<>>
  /\ pc' = 0 /\ lpc' = 0 /\ loop' = <<>>
  /\ values' = <<>> /\ selected' = <<>> /\ derived' = <<>>
  /\ outcome' = "running" /\ row' = <<>> /\ fills' = <<>>
  /\ UNCHANGED <<name, event, variant, filling>>

\* interpret or interpret_union has returned
Returned ==
  /\ outcome # "running"
  /\ outcome \in {"row", "skipped"} => channel + 1 \notin Channels(name)
  /\ UNCHANGED vars

Next ==
  \/ Lower \/ EvalLumi \/ EvalSelect \/ EvalDerive \/ EvalRequirement \/ EvalRequire
  \/ EvalOutput \/ EvalHistogram \/ EnterLoop \/ EvalScaleFactor \/ EvalWeight
  \/ EvalHistogramValue \/ ExecuteFill \/ NextSystematic \/ Return \/ NextChannel
  \/ Returned

Spec == Init /\ [][Next]_vars
=============================================================================
