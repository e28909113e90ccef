----------------------------- MODULE KirProgram -----------------------------
(***************************************************************************)
(* The kernel IR of crates/nano-spec (kir.rs): what `lower_plan_to_kir`    *)
(* makes of an accepted spec, a straight-line block of statements that     *)
(* define numbered values, with one loop over the systematic axis when     *)
(* histogram weights vary; and what `verify` accepts.                      *)
(*                                                                         *)
(* A plan is [spec, reads]: the spec and its read branches.  A statement   *)
(* is a record whose field op is "let" (id, type, and the right-hand side  *)
(* rv with its argument arg), "require", "fill", "foreach" (item, body) or *)
(* "return".  The typed Core IR that lowering passes through (CoreIr)      *)
(* carries only the read branches to the block.                            *)
(***************************************************************************)
EXTENDS AnalysisSpec

Let(id, type, rv, arg) == [op |-> "let", id |-> id, type |-> type, rv |-> rv, arg |-> arg]
Require(id) == [op |-> "require", id |-> id]

Offsets(n, first) == [i \in 1 .. n |-> first + i - 1]
LetAll(seq, first, type, rv) ==
  [i \in DOMAIN seq |-> Let(first + i - 1, type, rv, seq[i])]

(***************************************************************************)
(* Derived objects in dependency order; fewer than all of them on a cycle  *)
(***************************************************************************)
Dependencies(d) == IF d.kind = "pair" THEN d.exclude ELSE {d.items[i] : i \in DOMAIN d.items}

RECURSIVE OrderDerived(_, _, _)
OrderDerived(all, ordered, pending) ==
  LET ready == {i \in DOMAIN pending :
                  (Dependencies(pending[i]) \cap Names(all)) \subseteq Names(ordered)}
      first == CHOOSE i \in ready : \A j \in ready : i <= j
  IN IF ready = {} THEN ordered
     ELSE OrderDerived(all, Append(ordered, pending[first]),
                       SubSeq(pending, 1, first - 1) \o SubSeq(pending, first + 1, Len(pending)))

OrderedDerived(s) == OrderDerived(s.derived, <<>>, s.derived)
Orderable(s) == Len(OrderedDerived(s)) = Len(s.derived)

(***************************************************************************)
(* The executable block                                                    *)
(***************************************************************************)
OutputExprType(e) ==
  CASE e.k \in {"count", "countWhere"} -> "int"
    [] e.k \in {"scalar", "all", "any", "eitherPairPt"} -> "bool"
    [] OTHER -> "float"

AllRequirements(s) == Flat([i \in DOMAIN s.regions |-> s.regions[i].require])

LoopsOverSystematics(s) ==
  HasWeightSystematic(s) /\ ~HasShapeCorrection(s) /\ s.histograms # <<>>

LumiBlock(s) == IF s.lumi.on THEN <<Let(0, "bool", "lumi", s.lumi.certified), Require(0)>> ELSE <<>>

FirstObject(s)  == IF s.lumi.on THEN 1 ELSE 0
FirstDerived(s) == FirstObject(s) + Len(s.objects)
FirstRequirement(s) == FirstDerived(s) + Len(s.derived)
FirstOutput(s) == FirstRequirement(s) + Len(AllRequirements(s))
SystematicId(s) == FirstOutput(s) + Len(s.outputs)

ObjectBlock(s) == LetAll(s.objects, FirstObject(s), "objectset", "select")
DerivedBlock(s) == LetAll(OrderedDerived(s), FirstDerived(s), "candidate", "derive")
RequirementBlock(s) ==
  LET first == FirstRequirement(s)
      reqs == AllRequirements(s)
  IN Flat([i \in DOMAIN reqs |-> <<Let(first + i - 1, "bool", "requirement", reqs[i]),
                                   Require(first + i - 1)>>])
OutputBlock(s) ==
  [i \in DOMAIN s.outputs |-> Let(FirstOutput(s) + i - 1, OutputExprType(s.outputs[i].expr),
                                  "output", s.outputs[i].expr)]

\* the weight of the loop follows the scale factor, if there is one; then
\* each histogram takes one value outside the loop and one inside
FactorId(s) == SystematicId(s) + 1
WeightId(s) == IF s.sfs = <<>> THEN SystematicId(s) + 1 ELSE SystematicId(s) + 2
\* for the mutant runs: the first histogram takes the id of the weight
HistogramId_Reused(s, h) == WeightId(s) + 2 * h - 2
HistogramId(s, h) == WeightId(s) + 2 * h - 1

HistogramBlock(s) ==
  [h \in DOMAIN s.histograms |-> Let(HistogramId(s, h), "histogram", "histogram", s.histograms[h].name)]

LoopBody(s) ==
  (IF s.sfs = <<>> THEN <<>> ELSE <<Let(FactorId(s), "float", "scaleFactor", SystematicId(s))>>)
  \o <<Let(WeightId(s), "weight", "weight", SystematicId(s))>>
  \o Flat([h \in DOMAIN s.histograms |->
             <<Let(HistogramId(s, h) + 1, OutputExprType(s.histograms[h].expr),
                   "histogramValue", s.histograms[h].expr),
               [op |-> "fill", histogram |-> HistogramId(s, h),
                value |-> HistogramId(s, h) + 1, weight |-> WeightId(s)]>>])

SystematicBlock(s) ==
  IF LoopsOverSystematics(s)
  THEN HistogramBlock(s) \o <<[op |-> "foreach", item |-> SystematicId(s), body |-> LoopBody(s)]>>
  ELSE <<>>

ReturnStmt(s) == [op |-> "return", values |-> Offsets(Len(s.outputs), FirstOutput(s))]

ExecutableBlock(s) ==
  LumiBlock(s) \o ObjectBlock(s) \o DerivedBlock(s) \o RequirementBlock(s) \o OutputBlock(s)
  \o SystematicBlock(s) \o <<ReturnStmt(s)>>

(***************************************************************************)
(* Verification: requirements                                              *)
(***************************************************************************)
\* "none" for an error
RequireObjectAttr(p, o, a) ==
  IF o \notin Names(p.spec.objects) THEN "none"
  ELSE LET b == <<SourceOf(p.spec, o), a>>
       IN IF b \in ModelOutputs(p.spec) THEN "dimensionless"
          ELSE IF b \in p.reads /\ Catalogue[b] \in NumericVectors THEN AttributeDimension(a)
          ELSE "none"

RequireDerivedAttr(p, o, a) ==
  CASE o \notin Names(p.spec.derived) -> "none"
    [] o \in Names(p.spec.derived) /\ a \in {"mass", "pt"} -> "momentum"
    [] o \in Names(p.spec.derived) /\ a = "min_delta_r" -> "dimensionless"
    [] OTHER -> "none"

RECURSIVE SelectedDimension(_, _, _)
SelectedDimension(p, o, e) ==
  CASE e.k = "attr" -> IF e.o = o THEN RequireObjectAttr(p, o, e.a) ELSE "none"
    [] e.k = "lit"  -> "dimensionless"
    [] e.k = "bin"  ->
         LET l == SelectedDimension(p, o, e.l)
             r == SelectedDimension(p, o, e.r)
         IN IF "none" \in {l, r} THEN "none" ELSE BinaryType(e.op, l, r)
    [] e.k \in {"abs", "sqrt"} -> SelectedDimension(p, o, e.x)
    [] OTHER -> "none"

VerifiedType(p, e) ==
  LET Predicate(t) == IF e.o \in Names(p.spec.objects) /\ SelectedDimension(p, e.o, e.p.lhs) # "none"
                      THEN t ELSE "none"
  IN CASE e.k = "scalar" -> IF <<"event", e.b>> \in p.reads /\ Catalogue[<<"event", e.b>>] = "bool"
                            THEN "bool" ELSE "none"
       [] e.k = "count"      -> IF e.o \in Names(p.spec.objects) THEN "count" ELSE "none"
       [] e.k = "countWhere" -> Predicate("count")
       [] e.k \in {"all", "any"} -> Predicate("bool")
       [] e.k \in {"sum", "leading"} -> RequireObjectAttr(p, e.o, e.a)
       [] e.k = "eitherPairPt" ->
            IF "none" \in {RequireObjectAttr(p, e.l, "pt"), RequireObjectAttr(p, e.r, "pt")}
            THEN "none" ELSE "bool"
       [] e.k \in {"closestMass", "otherMass"} ->
            IF {e.l, e.r} \subseteq Names(p.spec.derived) THEN "momentum" ELSE "none"
       [] e.k = "attr" -> IF e.o \in Names(p.spec.derived) THEN RequireDerivedAttr(p, e.o, e.a)
                          ELSE RequireObjectAttr(p, e.o, e.a)
       [] OTHER -> "none"

VerifyRequirement(p, c) ==
  LET t == VerifiedType(p, c.lhs)
      dimension == IF t = "momentum" THEN "momentum" ELSE "dimensionless"
  IN /\ t # "none"
     /\ UnitErrors(<<"requirement", c>>, dimension, c.rhs).errors = {}
     /\ t = "bool" => c.rhs.v \in {0, 1} /\ c.op \in {"eq", "ne"}

VerifyRequirements(p) ==
  \A i \in DOMAIN AllRequirements(p.spec) : VerifyRequirement(p, AllRequirements(p.spec)[i])

(***************************************************************************)
(* Verification: corrections and the block                                 *)
(***************************************************************************)
VerifyShapes(p) ==
  \A i \in DOMAIN p.spec.shapes :
    LET c == p.spec.shapes[i]
    IN /\ c.collection \in Names(p.spec.objects)
       /\ c.attr = "pt"
       /\ c.payload = "scale" \/ (/\ c.payload \in DOMAIN Payloads
                                  /\ InputNames(c.inputs) = InputNames(Payloads[c.payload].inputs))

VerifyFactors(p) ==
  \A i \in DOMAIN p.spec.sfs :
    LET c == p.spec.sfs[i]
    IN /\ c.collection \in Names(p.spec.objects)
       /\ c.payload \in DOMAIN Payloads
       /\ InputNames(c.inputs) \o (IF c.systematic = "none" THEN <<>> ELSE <<c.systematic>>)
            = InputNames(Payloads[c.payload].inputs)

LetsBefore(block, i) == {j \in 1 .. i - 1 : block[j].op = "let"}
IdsBefore(block, i) == {block[j].id : j \in LetsBefore(block, i)}
TypedBefore(block, i, type) == {block[j].id : j \in {k \in LetsBefore(block, i) : block[k].type = type}}

\* what statement i of a block uses is defined before it, or in outer, and
\* nothing is defined twice; item is the loop's systematic, if any
VerifyStmt(block, i, outer, items) ==
  LET st == block[i]
  IN CASE st.op = "let" ->
            /\ st.id \notin IdsBefore(block, i) \cup outer.all \cup items
            /\ st.rv \in {"scaleFactor", "weight"} => st.arg \in items
       [] st.op = "require" -> st.id \in TypedBefore(block, i, "bool")
       [] st.op = "return"  -> \A v \in DOMAIN st.values : st.values[v] \in IdsBefore(block, i)
       [] st.op = "fill"    ->
            /\ st.histogram \in TypedBefore(block, i, "histogram") \cup outer.histograms
            /\ st.value \in TypedBefore(block, i, "float") \cup TypedBefore(block, i, "int")
            /\ st.weight \in TypedBefore(block, i, "weight")
       [] st.op = "foreach" -> st.item \notin IdsBefore(block, i)

VerifyBlock(block) ==
  /\ \A i \in DOMAIN block : VerifyStmt(block, i, [all |-> {}, histograms |-> {}], {})
  /\ \A i \in DOMAIN block : block[i].op = "foreach" =>
       \A j \in DOMAIN block[i].body :
         VerifyStmt(block[i].body, j,
                    [all |-> IdsBefore(block, i), histograms |-> TypedBefore(block, i, "histogram")],
                    {block[i].item})

Verified(p) ==
  /\ VerifyRequirements(p)
  /\ VerifyShapes(p)
  /\ VerifyFactors(p)
  /\ VerifyBlock(ExecutableBlock(p.spec))

Lowers(p) == Orderable(p.spec) /\ Verified(p)
=============================================================================
