---------------------------- MODULE AnalysisSpec ----------------------------
(***************************************************************************)
(* The typed analysis spec of crates/nano-spec (lib.rs, systematics.rs)    *)
(* and its validation against a branch catalogue: `validate` accepts a     *)
(* spec or rejects it with errors, and derives the branches an event loop  *)
(* has to read (ResolvedPlan::read_branches).                              *)
(*                                                                         *)
(* A spec is a record of sequences: objects selected from a collection by  *)
(* cuts, objects derived from them, regions of requirements, outputs,      *)
(* histograms, weights, corrections, models, or the channels of a union.   *)
(* An expression is a record whose field k is the variant of `Expr`.  A    *)
(* branch is <<collection, attribute>>, <<"n", collection>> for a counter  *)
(* or <<"event", name>>.  Checking a part of a spec returns the type the   *)
(* code returns ("none" for None), the branches it requires and the errors *)
(* it pushes, as <<kind>> or <<kind, subject>>; their wording is left out. *)
(***************************************************************************)
EXTENDS Integers, Sequences, FiniteSets

CONSTANTS
  Catalogue,  \* branch -> type: "vecf32", "veci32", "vecbool", "bool", "u32",
              \* "f32", "unsupported"
  Payloads,   \* corrections that load: name -> [inputs |-> Seq([name, kind]), real]
  CamelOf     \* names that can be identifiers -> their upper camel form

At(seq, n) == LET i == CHOOSE i \in DOMAIN seq : seq[i].name = n IN seq[i]
Names(seq) == {seq[i].name : i \in DOMAIN seq}
SourceOf(s, o) == At(s.objects, o).source
Counter(source) == <<"n", source>>

FourVector == {"pt", "eta", "phi", "mass"}
NumericVectors == {"vecf32", "veci32"}
Momenta == {"pt", "mass", "energy", "msoftdrop", "rawFactor"}
AttributeDimension(a) == IF a \in Momenta THEN "momentum" ELSE "dimensionless"

(***************************************************************************)
(* Results of a check                                                      *)
(***************************************************************************)
Typed(t, reads) == [type |-> t, reads |-> reads, errors |-> {}]
\* an error is <<kind>>, or <<kind, subject>> when repair looks at the branch,
\* the object or the place it is about
FailedOn(error) == [type |-> "none", reads |-> {}, errors |-> {error}]
Failed(kind) == FailedOn(<<kind>>)
Fine == Typed("none", {})
Check(ok, kind) == IF ok THEN Fine ELSE Failed(kind)

\* the results rs together, as one part of type t
Join(t, rs) == [type   |-> t,
                reads  |-> UNION {r.reads : r \in rs},
                errors |-> UNION {r.errors : r \in rs}]

\* of the quantity q, which stands in place
UnitErrors(place, dimension, q) ==
  CASE <<dimension, q.u>> \in {<<"momentum", "GeV">>, <<"dimensionless", "one">>} -> Fine
    [] <<dimension, q.u>> = <<"momentum", "one">>      -> FailedOn(<<"MissingUnit", place>>)
    [] <<dimension, q.u>> = <<"dimensionless", "GeV">> -> Failed("UnitMismatch")

\* the type of a branch if the catalogue has it with one of the types allowed
BranchOf(b, allowed) ==
  CASE b \notin DOMAIN Catalogue        -> FailedOn(<<"MissingBranch", b>>)
    [] b \in DOMAIN Catalogue /\ Catalogue[b] = "unsupported"
                                        -> Failed("UnsupportedBranchType")
    [] b \in DOMAIN Catalogue /\ Catalogue[b] \notin allowed \cup {"unsupported"}
                                        -> Failed("WrongBranchType")
    [] OTHER                            -> Typed(Catalogue[b], {b})

RequireAttr(source, a, type) ==
  LET b == BranchOf(<<source, a>>, {type})
  IN IF b.errors = {} THEN Typed("none", {<<source, a>>, Counter(source)}) ELSE b

RequireFourVector(source) == Join("none", {RequireAttr(source, a, "vecf32") : a \in FourVector})

(***************************************************************************)
(* Models: one F32 score per object of a collection                        *)
(***************************************************************************)
ModelOutputs(s) == {s.models[i].output : i \in DOMAIN s.models}

ModelBatch(s, m) ==
  IF m.batch \in Names(s.objects) THEN SourceOf(s, m.batch)
  ELSE IF \E i \in DOMAIN s.objects : s.objects[i].source = m.batch THEN m.batch ELSE "none"

\* a provider other than the mock needs its endpoint, launch command or model file
ValidProvider(provider) ==
  \/ provider.kind = "mock"
  \/ provider.kind \in {"inproc", "remote", "managed"} /\ provider.configured

ModelChecks(s, i) ==
  LET m == s.models[i]
      Earlier == {s.models[j] : j \in 1 .. i - 1}
  IN {Check(\A e \in Earlier : e.name # m.name, "InvalidModel"),
      Check(ModelBatch(s, m) # "none", "UndefinedBatch"),
      Check(m.inputs # {}, "InvalidModel"),
      Check(ModelBatch(s, m) \in {"none", m.output[1]}, "InvalidModel"),
      Check(m.output \notin DOMAIN Catalogue, "ModelOutputCollision"),
      Check(\A e \in Earlier : e.output # m.output, "ModelOutputCollision"),
      Check(ValidProvider(m.provider), "InvalidProvider")}
     \cup {BranchOf(b, NumericVectors \cup {"u32", "f32"}) : b \in m.inputs}

ValidateModels(s) == Join("none", UNION {ModelChecks(s, i) : i \in DOMAIN s.models})

(***************************************************************************)
(* Expressions                                                             *)
(***************************************************************************)
DerivedAttr(s, d, a) ==
  LET source == SourceOf(s, d.object)
      Vec(attrs, t) == Join(t, {RequireAttr(source, x, "vecf32") : x \in attrs})
  IN CASE a \notin {"mass", "pt", "min_delta_r"} -> Failed("InvalidExpression")
       [] a \in {"mass", "pt"} /\ d.kind = "candidate" -> Typed("momentum", {})
       [] a = "min_delta_r" /\ d.kind = "candidate"    -> Typed("dimensionless", {})
       [] d.kind = "pair" /\ d.object \notin Names(s.objects) -> FailedOn(<<"UndefinedObject", d.object>>)
       [] OTHER -> CASE a = "mass"        -> Vec(FourVector, "momentum")
                     [] a = "pt"          -> Vec({"pt", "phi"}, "momentum")
                     [] a = "min_delta_r" -> Vec({"eta", "phi"}, "dimensionless")

\* for the mutant runs: the attribute is typed but not added to the branches read
ValidateAttr_NotRead(s, o, a) ==
  IF o \in Names(s.derived) THEN DerivedAttr(s, At(s.derived, o), a)
  ELSE IF o \notin Names(s.objects) THEN FailedOn(<<"UndefinedObject", o>>)
  ELSE LET b == BranchOf(<<SourceOf(s, o), a>>, NumericVectors)
       IN IF b.errors # {} THEN b ELSE Typed(AttributeDimension(a), {})

ValidateAttr(s, o, a) ==
  IF o \in Names(s.derived) THEN DerivedAttr(s, At(s.derived, o), a)
  ELSE IF o \notin Names(s.objects) THEN FailedOn(<<"UndefinedObject", o>>)
  ELSE LET source == SourceOf(s, o)
           b == BranchOf(<<source, a>>, NumericVectors)
       IN IF <<source, a>> \in ModelOutputs(s) THEN Typed("dimensionless", {Counter(source)})
          ELSE IF b.errors # {} THEN b
          ELSE Typed(AttributeDimension(a), {<<source, a>>, Counter(source)})

BinaryType(op, l, r) ==
  CASE op \in {"add", "sub"} -> IF l = r THEN l ELSE "none"
    [] op = "mul"            -> IF l = "dimensionless" THEN r
                                ELSE IF r = "dimensionless" THEN l ELSE "dimensionless"
    [] op = "div"            -> IF r = "dimensionless" THEN l ELSE "dimensionless"
    [] op = "pow"            -> IF r = "dimensionless" THEN l ELSE "none"

Numeric == {"momentum", "dimensionless"}
FilterOnly == {"pairDeltaR", "pairLeadingPt", "pairSubleadingPt",
               "candMinDeltaR", "candLeadingPt", "candSubleadingPt"}

RECURSIVE ValidateExpr(_, _)
ValidateExpr(s, e) ==
  LET Known(o) == o \in Names(s.objects)
      Sub(x) == ValidateExpr(s, x)
      NumericOnly(r) == IF r.type \in {"count", "bool"}
                        THEN Join("none", {r, Failed("InvalidExpression")}) ELSE r
      Predicate(t) ==
        IF ~Known(e.o) THEN FailedOn(<<"UndefinedObject", e.o>>)
        ELSE LET r == NumericOnly(Sub(e.p.lhs))
             IN Join(t, {Typed("none", {Counter(SourceOf(s, e.o))}), r,
                         IF r.type = "none" THEN Fine ELSE UnitErrors(<<"predicate", e>>, r.type, e.p.rhs)})
      PairPt(o) == {UnitErrors(<<"lead", e>>, "momentum", e.lead),
                    UnitErrors(<<"sub", e>>, "momentum", e.sub),
                    IF Known(o) THEN RequireAttr(SourceOf(s, o), "pt", "vecf32")
                    ELSE FailedOn(<<"UndefinedObject", o>>)}
      Mass(o) == IF o \in Names(s.derived) THEN DerivedAttr(s, At(s.derived, o), "mass")
                 ELSE FailedOn(<<"UndefinedObject", o>>)
  IN CASE e.k \in {"attr", "sum", "leading"} -> ValidateAttr(s, e.o, e.a)
       [] e.k = "scalar" -> LET b == BranchOf(<<"event", e.b>>, {"bool"})
                            IN IF b.errors = {} THEN Typed("bool", b.reads) ELSE b
       [] e.k = "lit"    -> Typed("dimensionless", {})
       [] e.k = "bin"    ->
            LET l == Sub(e.l)
                r == Sub(e.r)
            IN IF "none" \in {l.type, r.type} THEN Join("none", {l, r})
               ELSE LET t == IF {l.type, r.type} \subseteq Numeric
                             THEN BinaryType(e.op, l.type, r.type) ELSE "none"
                    IN Join(t, {l, r, Check(t # "none", "InvalidExpression")})
       [] e.k \in {"abs", "sqrt"} -> NumericOnly(Sub(e.x))
       [] e.k = "count"  -> IF Known(e.o) THEN Typed("count", {Counter(SourceOf(s, e.o))})
                            ELSE IF e.o \in Names(s.derived) THEN Failed("InvalidExpression")
                            ELSE FailedOn(<<"UndefinedObject", e.o>>)
       [] e.k = "countWhere"     -> Predicate("count")
       [] e.k \in {"all", "any"} -> Predicate("bool")
       [] e.k = "eitherPairPt"   -> Join("bool", PairPt(e.l) \cup PairPt(e.r))
       [] e.k \in {"closestMass", "otherMass"} ->
            Join("momentum", {Mass(e.l), Mass(e.r), UnitErrors(<<"mass", e>>, "momentum", e.t)})
       [] e.k \in FilterOnly     -> Failed("InvalidExpression")

(***************************************************************************)
(* Cuts, requirements, histograms                                          *)
(***************************************************************************)
\* r is what checking the left side of c, or the value of h, gave
CutChecks(r, c) ==
  CASE r.type \in Numeric         -> {r, UnitErrors(<<"cut", c>>, r.type, c.rhs)}
    [] r.type \in {"count", "bool"} -> {r, Failed("InvalidExpression")}
    [] r.type = "none"            -> {r}
ValidateCut(s, c) == Join("none", CutChecks(ValidateExpr(s, c.lhs), c))

RequirementChecks(r, c) ==
  CASE r.type \in Numeric -> {r, UnitErrors(<<"requirement", c>>, r.type, c.rhs)}
    [] r.type = "count"   -> {r, UnitErrors(<<"requirement", c>>, "dimensionless", c.rhs)}
    [] r.type = "bool"    ->
         {r, UnitErrors(<<"requirement", c>>, "dimensionless", c.rhs),
          Check(c.rhs.v \in {0, 1} /\ c.op \in {"eq", "ne"}, "InvalidExpression")}
    [] r.type = "none"    -> {r}
ValidateRequirement(s, c) == Join("none", RequirementChecks(ValidateExpr(s, c.lhs), c))

HistogramChecks(r, h) ==
  {r, Check(h.bins > 0, "InvalidExpression"), Check(h.hi > h.lo, "InvalidExpression"),
   Check(r.type # "bool", "InvalidExpression")}
ValidateHistogram(s, h) == Join("none", HistogramChecks(ValidateExpr(s, h.expr), h))

(***************************************************************************)
(* Derived objects                                                         *)
(***************************************************************************)
FilterDimension(kind, e) ==
  CASE <<kind, e.k>> \in {<<"pair", "pairDeltaR">>, <<"candidate", "candMinDeltaR">>}
                                    -> "dimensionless"
    [] <<kind, e.k>> \in {"pair"} \X {"pairLeadingPt", "pairSubleadingPt"}
                         \cup {"candidate"} \X {"candLeadingPt", "candSubleadingPt"}
                                    -> "momentum"
    [] OTHER                        -> "none"

ValidateFilter(d, f) ==
  LET dim == FilterDimension(d.kind, f.lhs)
  IN IF dim = "none" THEN Failed("InvalidExpression") ELSE UnitErrors(<<d.name, f>>, dim, f.rhs)

ValidatePair(s, d) ==
  LET source == SourceOf(s, d.object)
      Excluded(x) ==
        IF x \notin Names(s.derived) THEN FailedOn(<<"UndefinedObject", x>>)
        ELSE LET y == At(s.derived, x)
             IN Check(y.kind = "pair" /\ y.object = d.object, "InvalidExpression")
  IN IF d.object \notin Names(s.objects) THEN FailedOn(<<"UndefinedObject", d.object>>)
     ELSE Join("none", {RequireFourVector(source),
                        IF d.opposite THEN RequireAttr(source, "charge", "veci32") ELSE Fine,
                        IF d.select = "leading" THEN Fine ELSE UnitErrors(<<d.name, d.target>>, "momentum", d.target)}
                       \cup {ValidateFilter(d, d.filters[i]) : i \in DOMAIN d.filters}
                       \cup {Excluded(x) : x \in d.exclude})

ValidateCandidate(s, d) ==
  LET Item(x) == IF x \in Names(s.objects) THEN RequireFourVector(SourceOf(s, x))
                 ELSE IF x \in Names(s.derived) THEN DerivedAttr(s, At(s.derived, x), "mass")
                 ELSE FailedOn(<<"UndefinedObject", x>>)
  IN IF d.items = <<>> THEN Failed("InvalidExpression")
     ELSE Join("none", {Item(d.items[i]) : i \in DOMAIN d.items}
                       \cup {ValidateFilter(d, d.filters[i]) : i \in DOMAIN d.filters})

(***************************************************************************)
(* Corrections                                                             *)
(***************************************************************************)
InputNames(inputs) == [i \in DOMAIN inputs |-> inputs[i].name]
BranchesOfKind(kind) == CASE kind = "real" -> {"vecf32", "f32"}
                          [] kind = "int"  -> {"veci32", "u32"}
                          [] kind = "string" -> {}

\* an input is a literal of some kind or the value of an object attribute,
\* or (scale factors) of an event branch when the object has no such attribute
ValidateInput(source, input, kind, eventToo) ==
  LET attr == <<source, input.from>>
      branch == <<"event", input.from>>
  IN IF input.literal # "no"
     THEN Check(eventToo /\ input.literal = kind, "InvalidExpression")
     ELSE IF attr \in DOMAIN Catalogue
     THEN Join("none", {BranchOf(attr, BranchesOfKind(kind)), Typed("none", {attr, Counter(source)})})
     ELSE IF eventToo THEN BranchOf(branch, BranchesOfKind(kind)) ELSE FailedOn(<<"MissingBranch", attr>>)

ValidateInputs(source, c, declared, eventToo) ==
  IF c.payload \notin DOMAIN Payloads THEN Failed("InvalidExpression")
  ELSE LET p == Payloads[c.payload]
       IN IF declared # InputNames(p.inputs) THEN Failed("InvalidExpression")
          ELSE Join("none", {ValidateInput(source, c.inputs[i], p.inputs[i].kind, eventToo) :
                             i \in DOMAIN c.inputs}
                            \cup {Check(eventToo \/ p.real, "InvalidExpression")})

ValidateShape(s, c) ==
  LET source == SourceOf(s, c.collection)
  IN IF c.collection \notin Names(s.objects) THEN FailedOn(<<"UndefinedObject", c.collection>>)
     ELSE Join("none", {RequireAttr(source, c.attr, "vecf32"), Typed("none", {Counter(source)}),
                        IF c.payload = "scale" THEN Fine
                        ELSE ValidateInputs(source, c, InputNames(c.inputs), FALSE)})

\* the systematic of a scale factor, if any, is the last input of its payload
ValidateScaleFactor(s, c) ==
  LET source == SourceOf(s, c.collection)
      declared == InputNames(c.inputs) \o (IF c.systematic = "none" THEN <<>> ELSE <<c.systematic>>)
      checked == ValidateInputs(source, c, declared, TRUE)
  IN IF c.collection \notin Names(s.objects) THEN FailedOn(<<"UndefinedObject", c.collection>>)
     ELSE Join("none", {checked, Typed("none", {Counter(source)}),
                        IF checked.errors # {} \/ c.systematic = "none" THEN Fine
                        ELSE LET last == Payloads[c.payload].inputs[Len(declared)]
                             IN Check(last.kind = "string", "InvalidExpression")})

(***************************************************************************)
(* The systematic axis                                                     *)
(***************************************************************************)
NominalVariant == <<"Nominal", "">>

RECURSIVE Flat(_)
Flat(seqs) == IF seqs = <<>> THEN <<>> ELSE Head(seqs) \o Flat(Tail(seqs))

WeightSystematics(s) == SelectSeq(s.systematics, LAMBDA x : x.kind = "weight")
SystematicFactors(s) == SelectSeq(s.sfs, LAMBDA c : c.systematic # "none")

AxisNames(s) == [i \in DOMAIN WeightSystematics(s) |-> WeightSystematics(s)[i].name]
                \o [i \in DOMAIN SystematicFactors(s) |-> SystematicFactors(s)[i].name]
                \o [i \in DOMAIN s.shapes |-> s.shapes[i].name]

\* variants in the order the generated Systematic::ALL uses
Axis(s) == <<NominalVariant>> \o
           Flat([i \in DOMAIN AxisNames(s) |-> << <<CamelOf[AxisNames(s)[i]], "Up">>,
                                                  <<CamelOf[AxisNames(s)[i]], "Down">> >>])

\* for the mutant runs: names are compared before they become identifiers
ValidateAxis_RawNames(s) ==
  LET names == AxisNames(s)
  IN Check(\A i, j \in DOMAIN names : i # j => names[i] # names[j], "InvalidExpression")

ValidateAxis(s) ==
  LET names == AxisNames(s)
  IN IF \E i \in DOMAIN names : names[i] \notin DOMAIN CamelOf THEN Failed("InvalidExpression")
     ELSE Check(\A i, j \in DOMAIN names : i # j => CamelOf[names[i]] # CamelOf[names[j]],
                "InvalidExpression")

HasWeightSystematic(s) == Len(WeightSystematics(s)) + Len(SystematicFactors(s)) > 0
HasShapeCorrection(s) == s.shapes # <<>>

\* the systematics of a parsed spec: nominal comes first when there is a variation
WithNominal(declared, shapes, sfs) ==
  LET varies == \/ shapes # <<>>
                \/ \E i \in DOMAIN sfs : sfs[i].systematic # "none"
                \/ \E i \in DOMAIN declared : declared[i].kind = "weight"
      hasNominal == \E i \in DOMAIN declared : declared[i].kind = "nominal"
  IN IF declared = <<>> \/ (varies /\ ~hasNominal)
     THEN <<[kind |-> "nominal", name |-> "nominal"]>> \o declared ELSE declared

(***************************************************************************)
(* The whole spec                                                          *)
(***************************************************************************)
UniqueOutputs(s) == Cardinality(Names(s.outputs)) = Len(s.outputs)

LumiBranches == {<<"event", "run">>, <<"event", "luminosityBlock">>}
ValidateLumi(s) == IF s.lumi.on THEN Join("none", {BranchOf(b, {"u32"}) : b \in LumiBranches})
                   ELSE Fine

ObjectChecks(s, o) ==
  {Typed("none", {Counter(o.source)})} \cup {ValidateCut(s, o.cuts[i]) : i \in DOMAIN o.cuts}

ValidateFlat(s) ==
  Join("none",
    {ValidateLumi(s), ValidateModels(s), Check(UniqueOutputs(s), "InvalidExpression"),
     ValidateAxis(s)}
    \cup UNION {ObjectChecks(s, s.objects[i]) : i \in DOMAIN s.objects}
    \cup {ValidateShape(s, s.shapes[i]) : i \in DOMAIN s.shapes}
    \cup {ValidateScaleFactor(s, s.sfs[i]) : i \in DOMAIN s.sfs}
    \cup {IF s.derived[i].kind = "pair" THEN ValidatePair(s, s.derived[i])
          ELSE ValidateCandidate(s, s.derived[i]) : i \in DOMAIN s.derived}
    \cup UNION {{ValidateRequirement(s, s.regions[i].require[j]) :
                 j \in DOMAIN s.regions[i].require} : i \in DOMAIN s.regions}
    \cup {ValidateExpr(s, s.outputs[i].expr) : i \in DOMAIN s.outputs}
    \cup {ValidateHistogram(s, s.histograms[i]) : i \in DOMAIN s.histograms})

\* the flat spec of one channel of a union
AsSpec(s, c) ==
  [s EXCEPT !.objects = c.objects, !.derived = c.derived, !.models = <<>>,
            !.regions = c.regions, !.outputs = c.outputs, !.channels = <<>>]

OutputSchema(outputs) == [i \in DOMAIN outputs |-> outputs[i].name]

ValidateUnion(s) ==
  Join("none",
    {Check(s.models = <<>>, "InvalidExpression"),
     Check(s.objects = <<>> /\ s.derived = <<>> /\ s.regions = <<>>, "InvalidExpression")}
    \cup {Check(s.channels[i].outputs # <<>>, "InvalidExpression") : i \in DOMAIN s.channels}
    \cup {Check(OutputSchema(s.channels[i].outputs) = OutputSchema(s.channels[1].outputs),
                "InvalidExpression") : i \in DOMAIN s.channels}
    \cup {ValidateFlat(AsSpec(s, s.channels[i])) : i \in DOMAIN s.channels})

\* each branch read, the counters too, has to have a type in the catalogue
ReadableTypes == {"vecf32", "veci32", "vecbool", "bool", "u32", "f32"}
ReadSchema(r) ==
  IF r.errors # {} THEN r
  ELSE Join("none", {r} \cup {BranchOf(b, ReadableTypes) : b \in r.reads})

Validate(s) == ReadSchema(IF s.channels = <<>> THEN ValidateFlat(s) ELSE ValidateUnion(s))
=============================================================================
