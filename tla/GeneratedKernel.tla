--------------------------- MODULE GeneratedKernel ---------------------------
(***************************************************************************)
(* The kernel crates/nano-spec generates for a plan (codegen.rs), as what  *)
(* the emitted code computes from an event: the row it returns, if any,    *)
(* and the histogram fills it makes.  It is the second back end of a plan; *)
(* the first is the interpreter (KirInterpreter), and SpecAgreement says   *)
(* where the two agree.  Nothing here is taken from the interpreter.       *)
(*                                                                         *)
(* Single precision is left out, and so is what the emitted types of the   *)
(* histogram and systematic axes add to a fill.                            *)
(***************************************************************************)
EXTENDS CodegenSupport, Kinematics, TLC
LOCAL INSTANCE SequencesExt

(***************************************************************************)
(* Shape corrections: emit_shape_factor_bindings, shape_factor_expr        *)
(***************************************************************************)
UpOf(n) == <<CamelOf[n], "Up">>
DownOf(n) == <<CamelOf[n], "Down">>

ScaleBinding(c, v) == CASE v = UpOf(c.name) -> c.up [] v = DownOf(c.name) -> c.down [] OTHER -> 1

\* of the item as it was read
JesBinding(c, item, v) ==
  LET uncertainty == Factor(c.payload, [i \in DOMAIN c.inputs |-> item[c.inputs[i].from]])
  IN CASE v = UpOf(c.name)   -> 1 + uncertainty
       [] v = DownOf(c.name) -> 1 - uncertainty
       [] OTHER              -> 1

GenRead(p, o, a, item, v) ==
  LET corrected == SelectSeq(p.spec.shapes, LAMBDA c : c.collection = o /\ c.attr = a)
      c == Head(corrected)
  IN IF corrected = <<>> THEN item[a]
     ELSE item[a] * (IF c.payload = "scale" THEN ScaleBinding(c, v) ELSE JesBinding(c, item, v))

(***************************************************************************)
(* Selection                                                               *)
(***************************************************************************)
\* an expression over the attributes x of one item
RECURSIVE ItemExpr(_, _)
ItemExpr(e, x) ==
  CASE e.k = "attr" -> x[e.a]
    [] e.k = "lit"  -> e.v
    [] e.k = "bin"  -> Arithmetic(e.op, ItemExpr(e.l, x), ItemExpr(e.r, x))
    [] e.k = "abs"  -> Abs(ItemExpr(e.x, x))
    [] e.k = "sqrt" -> Root(ItemExpr(e.x, x))

GenCut(cut, x) == Compare(ItemExpr(cut.lhs, x), cut.op, cut.rhs.v)

GenSelect(p, ev, o, v) ==
  LET items == ev.coll[o.source]
      Read(i) == [a \in GenReads(p, o.name) |-> GenRead(p, o.name, a, items[i], v)]
      Passes(i) == LET x == Read(i) IN \A j \in DOMAIN o.cuts : GenCut(o.cuts[j], x)
      passing == SelectSeq([i \in DOMAIN items |-> i], Passes)
      Kept(i) == LET x == Read(i) IN [a \in GenAttrs(p, o.name) |-> x[a]] @@ ("source_index" :> i)
  IN [k \in DOMAIN passing |-> Kept(passing[k])]

GenSelected(p, ev, v) ==
  [o \in Names(p.spec.objects) |-> GenSelect(p, ev, At(p.spec.objects, o), v)]

(***************************************************************************)
(* Kinematic helpers of the emitted source                                 *)
(***************************************************************************)
GenFourVector(x) == [e |-> x.pt, px |-> IF x.phi = 0 THEN x.pt ELSE -x.pt]
GenMass(v) == Root(MaxOf({v.e * v.e - v.px * v.px, 0}))
GenPt(v) == Root(v.px * v.px)
GenDeltaR(f, g) == (IF f.phi = g.phi THEN 0 ELSE 3) + Abs(f.eta - g.eta)

GenCandidateMinDeltaR(items) ==
  LET pairs == {ij \in (DOMAIN items) \X (DOMAIN items) : ij[1] < ij[2]}
      distances == {GenDeltaR(items[ij[1]], items[ij[2]]) : ij \in pairs}
  IN IF distances = {} THEN Infinity ELSE CHOOSE d \in distances : \A x \in distances : d <= x
GenCandidateLeadingPt(items) == MaxOf({items[i].pt : i \in DOMAIN items} \cup {NoPt})
GenCandidateSubleadingPt(items) ==
  LET pts == SortSeq([i \in DOMAIN items |-> items[i].pt], LAMBDA x, y : x > y)
  IN IF Len(pts) < 2 THEN NoPt ELSE pts[2]

GenConstituent(o, x) == [object |-> o, index |-> x.source_index, pt |-> x.pt, eta |-> x.eta, phi |-> x.phi]
GenCandidate(v, distance, constituents) ==
  [mass |-> GenMass(v), pt |-> GenPt(v), min_delta_r |-> distance, v |-> v, constituents |-> constituents]

(***************************************************************************)
(* Pairs                                                                   *)
(***************************************************************************)
GenExcluded(d, der) ==
  UNION {{c.index : c \in {der[x].constituents[i] : i \in DOMAIN der[x].constituents}} :
         x \in {y \in d.exclude : der[y] # None}}

GenPairOrder(d, items) ==
  LET order == IF d.select = "truncated" THEN [i \in DOMAIN items |-> i]
               ELSE DescendingBy([i \in DOMAIN items |-> items[i].pt])
      after(i) == [k \in 1 .. Len(order) - i |-> <<items[order[i]], items[order[i + k]]>>]
  IN Flat([i \in DOMAIN order |-> after(i)])

GenPairFilter(e, f, g) ==
  CASE e.k = "pairDeltaR"       -> GenDeltaR(f, g)
    [] e.k = "pairLeadingPt"    -> MaxOf({f.pt, g.pt})
    [] e.k = "pairSubleadingPt" -> f.pt + g.pt - MaxOf({f.pt, g.pt})

GenPair(d, f, g) ==
  GenCandidate(Plus(GenFourVector(f), GenFourVector(g)), GenDeltaR(f, g),
               <<GenConstituent(d.object, f), GenConstituent(d.object, g)>>)

GenPairKept(d, der, f, g) ==
  /\ {f.source_index, g.source_index} \cap GenExcluded(d, der) = {}
  /\ d.opposite => f.charge * g.charge < 0
  /\ \A i \in DOMAIN d.filters :
       Compare(GenPairFilter(d.filters[i].lhs, f, g), d.filters[i].op, d.filters[i].rhs.v)
  /\ GenPair(d, f, g).mass # NaN /\ GenPair(d, f, g).mass > 0

\* the truncated mass starts at -1 GeV, and the best pair is the last to beat it
Nearer(d, mass, best) == Abs(d.target.v - mass) < Abs(d.target.v - best)
GenChoice(d, pairs) ==
  CASE d.select = "leading"   -> IF pairs = <<>> THEN None ELSE Head(pairs)
    [] d.select = "nearest"   ->
         FoldLeft(LAMBDA best, c : IF best = None THEN c ELSE IF Nearer(d, c.mass, best.mass) THEN c ELSE best,
                  None, pairs)
    [] d.select = "truncated" ->
         FoldLeft(LAMBDA best, c : IF Nearer(d, c.mass, best.mass)
                                   THEN [pair |-> c, mass |-> Truncated(c.mass)] ELSE best,
                  [pair |-> None, mass |-> -3], pairs).pair

GenDerivePair(d, sel, der) ==
  LET kept == SelectSeq(GenPairOrder(d, sel[d.object]), LAMBDA fg : GenPairKept(d, der, fg[1], fg[2]))
  IN GenChoice(d, [k \in DOMAIN kept |-> GenPair(d, kept[k][1], kept[k][2])])

(***************************************************************************)
(* Candidates                                                              *)
(***************************************************************************)
GenCandidateFilter(e, items) ==
  CASE e.k = "candMinDeltaR"    -> GenCandidateMinDeltaR(items)
    [] e.k = "candLeadingPt"    -> GenCandidateLeadingPt(items)
    [] e.k = "candSubleadingPt" -> GenCandidateSubleadingPt(items)

\* item i: the selected object of that position among its like, or a derived one
GenItem(d, i, sel, der) ==
  LET x == d.items[i]
      occurrence == Cardinality({j \in 1 .. i : d.items[j] = x})
      Of(f) == [v |-> GenFourVector(f), constituents |-> <<GenConstituent(x, f)>>]
  IN IF x \notin DOMAIN sel THEN der[x]
     ELSE IF occurrence > Len(sel[x]) THEN None ELSE Of(sel[x][occurrence])

GenDeriveCandidate(d, sel, der) ==
  LET items == [i \in DOMAIN d.items |-> GenItem(d, i, sel, der)]
      used == Flat([i \in DOMAIN items |-> items[i].constituents])
      c == GenCandidate(FoldLeft(LAMBDA v, x : Plus(v, x.v), [e |-> 0, px |-> 0], items),
                        GenCandidateMinDeltaR(used), used)
      Kept(f) == Compare(GenCandidateFilter(f.lhs, used), f.op, f.rhs.v)
  IN IF \E i \in DOMAIN items : items[i] = None THEN None
     ELSE IF c.mass # NaN /\ c.mass > 0 /\ \A i \in DOMAIN d.filters : Kept(d.filters[i]) THEN c
     ELSE None

GenDerive(d, sel, der) ==
  IF d.kind = "pair" THEN GenDerivePair(d, sel, der) ELSE GenDeriveCandidate(d, sel, der)

GenDerived(s, sel) ==
  FoldLeft(LAMBDA der, d : (d.name :> GenDerive(d, sel, der)) @@ der, <<>>, OrderedDerived(s))

(***************************************************************************)
(* Requirements and outputs                                                *)
(***************************************************************************)
GenValues(sel, o, a) == [i \in DOMAIN sel[o] |-> sel[o][i][a]]
GenLeading(sel, e) == MaxOf({sel[e.o][i][e.a] : i \in DOMAIN sel[e.o]})

GenPairPt(sel, o, e) ==
  LET pts == SortSeq(GenValues(sel, o, "pt"), LAMBDA x, y : x > y)
  IN Len(pts) >= 2 /\ pts[1] > e.lead.v /\ pts[2] > e.sub.v

GenBool(sel, e) ==
  LET Holds(x) == Compare(ItemExpr(e.p.lhs, x), e.p.op, e.p.rhs.v)
  IN CASE e.k = "all" -> \A i \in DOMAIN sel[e.o] : Holds(sel[e.o][i])
       [] e.k = "any" -> \E i \in DOMAIN sel[e.o] : Holds(sel[e.o][i])
       [] e.k = "eitherPairPt" -> GenPairPt(sel, e.l, e) \/ GenPairPt(sel, e.r, e)

\* closest_mass is the left mass when it is nearer, other_mass when it is not
GenOrderedMass(der, e) ==
  LET Distance(d) == Abs(der[d].mass - e.t.v)
      left == IF e.k = "closestMass" THEN Distance(e.l) < Distance(e.r) ELSE Distance(e.l) >= Distance(e.r)
  IN IF left THEN der[e.l].mass ELSE der[e.r].mass

GenOutput(sel, der, e) ==
  CASE e.k = "count" -> Len(sel[e.o])
    [] e.k = "countWhere" -> Len(SelectSeq(sel[e.o], LAMBDA x : Compare(ItemExpr(e.p.lhs, x), e.p.op, e.p.rhs.v)))
    [] e.k = "sum"     -> SumOf(GenValues(sel, e.o, e.a))
    [] e.k = "leading" -> GenLeading(sel, e)
    [] e.k = "attr"    -> der[e.o][e.a]
    [] e.k \in {"closestMass", "otherMass"} -> GenOrderedMass(der, e)
    [] e.k \in {"all", "any", "eitherPairPt"} -> IF GenBool(sel, e) THEN 1 ELSE 0

\* a Boolean is compared as one, and an empty leading(...) fails its region
GenRequirement(ev, sel, der, c) ==
  CASE c.lhs.k = "scalar" -> ev.scalar[c.lhs.b] = ((c.op = "eq") = (c.rhs.v = 1))
    [] c.lhs.k \in {"all", "any", "eitherPairPt"} -> GenBool(sel, c.lhs) = ((c.op = "eq") = (c.rhs.v = 1))
    [] c.lhs.k = "leading" -> sel[c.lhs.o] # <<>> /\ Compare(GenLeading(sel, c.lhs), c.op, c.rhs.v)
    [] OTHER -> Compare(GenOutput(sel, der, c.lhs), c.op, c.rhs.v)

\* the derived objects the regions use are unwrapped before the first region
GenRegions(s, ev, sel, der) ==
  /\ s.regions # <<>> => \A d \in RegionDerived(s) : der[d] # None
  /\ \A i \in DOMAIN AllRequirements(s) : GenRequirement(ev, sel, der, AllRequirements(s)[i])

GenLumi(s, ev) == s.lumi.on => ev.mc \/ ev.lumi \in s.lumi.certified

(***************************************************************************)
(* Weights                                                                 *)
(***************************************************************************)
\* every weight variant of the axis, of a scale factor too, gets the up or
\* down factor of the first declared weight systematic
GenDeclaredFactor(p, v) ==
  LET ws == WeightSystematics(p.spec)
      shapes == {CamelOf[p.spec.shapes[i].name] : i \in DOMAIN p.spec.shapes}
  IN CASE ws = <<>> \/ v = NominalVariant \/ v[1] \in shapes -> 1
       [] OTHER -> IF v[2] = "Up" THEN ws[1].up ELSE ws[1].down

\* the inputs in the order of the payload; those not read of the item are the event's
GenFactorInput(p, ev, c, n, x, v) ==
  LET input == CHOOSE i \in {c.inputs[j] : j \in DOMAIN c.inputs} : i.name = n
      read == <<SourceOf(p.spec, c.collection), input.from>> \in p.reads
  IN IF n = c.systematic
     THEN CASE v = UpOf(c.name) -> c.up [] v = DownOf(c.name) -> c.down [] OTHER -> c.nominal
     ELSE IF input.literal # "no" THEN input.value
     ELSE IF read THEN x[input.from] ELSE ev.scalar[input.from]

GenScaleFactor(p, ev, sel, c, v) ==
  LET inputs == Payloads[c.payload].inputs
      Values(x) == [i \in DOMAIN inputs |-> GenFactorInput(p, ev, c, inputs[i].name, x, v)]
  IN ProductOf([i \in DOMAIN sel[c.collection] |-> Factor(c.payload, Values(sel[c.collection][i]))])

GenWeight(p, ev, sel, v) ==
  ProductOf(p.spec.nominal) * GenDeclaredFactor(p, v)
  * ProductOf([i \in DOMAIN p.spec.sfs |-> GenScaleFactor(p, ev, sel, p.spec.sfs[i], v)])

(***************************************************************************)
(* Values that may be missing.  A leading(...) value is unwrapped into a   *)
(* variable, once for each name: in the systematic loop every histogram    *)
(* uses the name "histogram", outside it the histogram's own.              *)
(***************************************************************************)
Leading(defs) == SelectSeq(defs, LAMBDA d : d.expr.k = "leading")
UnwrapIn(names, defs) == [i \in DOMAIN defs |-> [n |-> names[i], e |-> defs[i].expr]]
NamesOf(defs) == [i \in DOMAIN defs |-> defs[i].name]

LoopUnwraps(s) ==
  LET hists == IF LoopsOverSystematics(s) THEN Leading(s.histograms) ELSE <<>>
  IN UnwrapIn([i \in DOMAIN hists |-> "histogram"], hists)
OutputUnwraps(s) == LoopUnwraps(s) \o UnwrapIn(NamesOf(Leading(s.outputs)), Leading(s.outputs))
FillUnwraps(s) ==
  LET hists == IF LoopsOverSystematics(s) THEN <<>> ELSE Leading(s.histograms)
  IN OutputUnwraps(s) \o UnwrapIn(NamesOf(hists), hists)

\* the expression the variable n holds once unwraps were emitted
Held(unwraps, n) ==
  LET same == {i \in DOMAIN unwraps : unwraps[i].n = n}
  IN unwraps[CHOOSE i \in same : \A j \in same : i <= j].e

\* one of them is missing, or a derived object of defs is
GenMissing(unwraps, defs, sel, der) ==
  \/ \E i \in DOMAIN unwraps : sel[Held(unwraps, unwraps[i].n).o] = <<>>
  \/ \E i \in DOMAIN defs : defs[i].expr.k = "attr" /\ der[defs[i].expr.o] = None

\* the value of expression e where the emitted variable of a leading one is n
GenValue(unwraps, n, e, sel, der) ==
  GenOutput(sel, der, IF e.k = "leading" THEN Held(unwraps, n) ELSE e)

(***************************************************************************)
(* The emitted kernel                                                      *)
(***************************************************************************)
GenFills(p, ev, sel, der, variants, unwraps) ==
  LET hists == p.spec.histograms
      Var(h) == IF LoopsOverSystematics(p.spec) THEN "histogram" ELSE h.name
      Of(h, v) == [h |-> h.name, variant |-> v, weight |-> GenWeight(p, ev, sel, v),
                   value |-> GenValue(unwraps, Var(h), h.expr, sel, der)]
  IN Flat([k \in DOMAIN variants |-> [i \in DOMAIN hists |-> Of(hists[i], variants[k])]])

GenRow(s, sel, der) ==
  [i \in DOMAIN s.outputs |-> GenValue(OutputUnwraps(s), s.outputs[i].name, s.outputs[i].expr, sel, der)]

Returns(outcome, row, fills) == [outcome |-> outcome, row |-> row, fills |-> fills]

\* once the objects are selected and derived
GenRun(p, ev, v, fill, sel, der) ==
  LET s == p.spec
      loops == LoopsOverSystematics(s)
      loopFills == IF loops /\ fill THEN GenFills(p, ev, sel, der, Axis(s), LoopUnwraps(s)) ELSE <<>>
      hists == s.histograms
  IN IF ~GenRegions(s, ev, sel, der) THEN Returns("skipped", <<>>, <<>>)
     ELSE IF loops /\ GenMissing(LoopUnwraps(s), hists, sel, der) THEN Returns("skipped", <<>>, <<>>)
     ELSE IF GenMissing(OutputUnwraps(s), s.outputs, sel, der) THEN Returns("skipped", <<>>, loopFills)
     ELSE IF ~loops /\ GenMissing(FillUnwraps(s), hists, sel, der) THEN Returns("skipped", <<>>, <<>>)
     ELSE Returns("row", GenRow(s, sel, der),
                  IF loops \/ ~fill THEN loopFills
                  ELSE GenFills(p, ev, sel, der, <<v>>, FillUnwraps(s)))

\* branches the emitted code may ask the event for that the plan does not read
GenUnread(p, ev) ==
  LET s == p.spec
      Attrs(o) == IF ev.coll[o.source] = <<>> THEN {} ELSE {<<o.source, a>> : a \in GenReads(p, o.name)}
      scalars == {<<"event", e.b>> : e \in {x \in RequirementExprs(s) : x.k = "scalar"}}
      needed == scalars \cup UNION {{Counter(s.objects[i].source)} \cup Attrs(s.objects[i]) : i \in DOMAIN s.objects}
  IN (needed \cup (IF s.lumi.on /\ ~ev.mc THEN LumiBranches ELSE {})) \ p.reads

GenDerivedRun(p, ev, v, fill, sel) == GenRun(p, ev, v, fill, sel, GenDerived(p.spec, sel))
Generated(p, ev, v, fill) ==
  IF GenUnread(p, ev) # {} THEN Returns("MissingBranch", <<>>, <<>>)
  ELSE IF ~GenLumi(p.spec, ev) THEN Returns("skipped", <<>>, <<>>)
  ELSE GenDerivedRun(p, ev, v, fill, GenSelected(p, ev, v))

\* `analyze` of a union: the rows of the channels that select the event, in order
GenUnionRows(s, reads, ev) ==
  LET Row(c) == Generated([spec |-> AsSpec(s, c), reads |-> reads], ev, NominalVariant, FALSE)
      Push(c) == LET r == Row(c) IN IF r.outcome = "row" THEN <<[channel |-> c.name, row |-> r.row]>> ELSE <<>>
  IN Flat([i \in DOMAIN s.channels |-> Push(s.channels[i])])
=============================================================================
