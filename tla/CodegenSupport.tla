--------------------------- MODULE CodegenSupport ---------------------------
(***************************************************************************)
(* What the code generator of crates/nano-spec (codegen.rs) accepts, which *)
(* attributes of an item the emitted kernel reads and which it keeps, and  *)
(* when the emitted source compiles.  p is a plan [spec, reads].           *)
(*                                                                         *)
(* Names are taken to be Rust identifiers that do not collide with those   *)
(* the emitter makes up.  Plans with models have another emitter, which is *)
(* not modelled.                                                           *)
(***************************************************************************)
EXTENDS KirProgram

RequirementExprs(s) == {AllRequirements(s)[i].lhs : i \in DOMAIN AllRequirements(s)}
OutputExprs(s) == {s.outputs[i].expr : i \in DOMAIN s.outputs}
HistogramExprs(s) == {s.histograms[i].expr : i \in DOMAIN s.histograms}
IsDerived(s, o) == o \in Names(s.derived)

(***************************************************************************)
(* Attributes read of each item, and kept of the selected ones             *)
(***************************************************************************)
RECURSIVE CutAttrNames(_)
CutAttrNames(e) ==
  CASE e.k = "attr" -> {e.a}
    [] e.k = "bin"  -> CutAttrNames(e.l) \cup CutAttrNames(e.r)
    [] e.k \in {"abs", "sqrt"} -> CutAttrNames(e.x)
    [] OTHER -> {}

RECURSIVE CollectSelected(_, _)
CollectSelected(e, o) ==
  CASE e.k \in {"attr", "sum", "leading"} -> IF e.o = o THEN {e.a} ELSE {}
    [] e.k = "bin" -> CollectSelected(e.l, o) \cup CollectSelected(e.r, o)
    [] e.k \in {"abs", "sqrt"} -> CollectSelected(e.x, o)
    [] e.k \in {"countWhere", "all", "any"} -> IF e.o = o THEN CollectSelected(e.p.lhs, o) ELSE {}
    [] e.k = "eitherPairPt" -> IF o \in {e.l, e.r} THEN {"pt"} ELSE {}
    [] OTHER -> {}

DeltaRFilters == {"pairDeltaR", "candMinDeltaR"}
FilterNeeds(filters) ==
  UNION {IF filters[i].lhs.k \in DeltaRFilters THEN {"eta", "phi"} ELSE {"pt"} : i \in DOMAIN filters}

DerivedNeeds(s, o) ==
  LET Uses(d) == IF d.kind = "pair" THEN d.object = o ELSE \E j \in DOMAIN d.items : d.items[j] = o
      Charge(d) == IF d.kind = "pair" /\ d.opposite THEN {"charge"} ELSE {}
      users == {i \in DOMAIN s.derived : Uses(s.derived[i])}
  IN UNION {FourVector \cup FilterNeeds(s.derived[i].filters) \cup Charge(s.derived[i]) : i \in users}

\* attributes given to scale factors; an input that is no branch of the
\* object is one of the event
FactorNeeds(p, o) ==
  LET From(c) == {c.inputs[j].from : j \in {k \in DOMAIN c.inputs : c.inputs[k].literal = "no"}}
      named == UNION {From(p.spec.sfs[i]) : i \in {k \in DOMAIN p.spec.sfs : p.spec.sfs[k].collection = o}}
  IN {a \in named : <<SourceOf(p.spec, o), a>> \in p.reads}

GenAttrs(p, o) ==
  UNION {CollectSelected(e, o) : e \in RequirementExprs(p.spec) \cup OutputExprs(p.spec)}
  \cup FactorNeeds(p, o) \cup DerivedNeeds(p.spec, o)

\* read before the cuts of the object are tried
GenReads(p, o) ==
  LET cuts == At(p.spec.objects, o).cuts
      corrected == {i \in DOMAIN p.spec.shapes : p.spec.shapes[i].collection = o}
  IN GenAttrs(p, o) \cup {p.spec.shapes[i].attr : i \in corrected}
     \cup UNION {CutAttrNames(cuts[i].lhs) : i \in DOMAIN cuts}

(***************************************************************************)
(* Expressions the generator supports                                      *)
(***************************************************************************)
AttrType(p, o, a) ==
  IF o \in Names(p.spec.objects) /\ <<SourceOf(p.spec, o), a>> \in p.reads
  THEN Catalogue[<<SourceOf(p.spec, o), a>>] ELSE "none"
F32Attr(p, o, a) == AttrType(p, o, a) = "vecf32"
SupportedAttr(p, o, a) == AttrType(p, o, a) \in {"vecf32", "veci32"}

RECURSIVE CutSupported(_, _, _)
CutSupported(p, o, e) ==
  CASE e.k = "attr" -> e.o = o /\ F32Attr(p, o, e.a)
    [] e.k = "lit"  -> TRUE
    [] e.k = "bin"  -> CutSupported(p, o, e.l) /\ CutSupported(p, o, e.r)
    [] e.k \in {"abs", "sqrt"} -> CutSupported(p, o, e.x)
    [] OTHER        -> FALSE

RECURSIVE SelectedSupported(_, _, _)
SelectedSupported(p, o, e) ==
  CASE e.k = "attr" -> e.o = o /\ SupportedAttr(p, o, e.a)
    [] e.k = "lit"  -> TRUE
    [] e.k = "bin"  -> SelectedSupported(p, o, e.l) /\ SelectedSupported(p, o, e.r)
    [] e.k \in {"abs", "sqrt"} -> SelectedSupported(p, o, e.x)
    [] OTHER        -> FALSE

DerivedAttrSupported(p, d, a) == IsDerived(p.spec, d) /\ a \in {"mass", "pt", "min_delta_r"}

\* bool_comparison_expr: a Boolean is compared with 0 or 1, for equality
BoolComparison(c) == c.op \in {"eq", "ne"} /\ c.rhs.v \in {0, 1}

RegionExprSupported(p, c) ==
  LET e == c.lhs
      Known(o) == o \in Names(p.spec.objects)
      Predicate == Known(e.o) /\ SelectedSupported(p, e.o, e.p.lhs)
  IN CASE e.k = "scalar"     -> /\ <<"event", e.b>> \in p.reads /\ Catalogue[<<"event", e.b>>] = "bool"
                                /\ BoolComparison(c)
       [] e.k = "count"      -> Known(e.o) /\ c.rhs.v >= 0
       [] e.k = "countWhere" -> Predicate /\ c.rhs.v >= 0
       [] e.k \in {"all", "any"}     -> Predicate /\ BoolComparison(c)
       [] e.k = "eitherPairPt"       -> /\ F32Attr(p, e.l, "pt") /\ F32Attr(p, e.r, "pt")
                                        /\ BoolComparison(c)
       [] e.k \in {"closestMass", "otherMass"} -> {e.l, e.r} \subseteq Names(p.spec.derived)
       [] e.k \in {"sum", "leading"} -> SupportedAttr(p, e.o, e.a)
       [] e.k = "attr"               -> DerivedAttrSupported(p, e.o, e.a)
       [] OTHER                      -> FALSE

OutputSupported(p, e) ==
  LET Known(o) == o \in Names(p.spec.objects)
  IN CASE e.k = "count" -> Known(e.o)
       [] e.k \in {"countWhere", "all", "any"} -> Known(e.o) /\ SelectedSupported(p, e.o, e.p.lhs)
       [] e.k = "sum"          -> SupportedAttr(p, e.o, e.a)
       [] e.k = "eitherPairPt" -> F32Attr(p, e.l, "pt") /\ F32Attr(p, e.r, "pt")
       [] e.k \in {"closestMass", "otherMass"} -> {e.l, e.r} \subseteq Names(p.spec.derived)
       [] e.k = "attr"         -> DerivedAttrSupported(p, e.o, e.a)
       [] e.k = "leading"      -> e.a = "pt" /\ F32Attr(p, e.o, e.a)
       [] OTHER                -> FALSE

OutputType(s, e) ==
  CASE e.k \in {"count", "countWhere"} -> "u32"
    [] e.k \in {"sum", "closestMass", "otherMass"} -> "f64"
    [] e.k = "attr" /\ IsDerived(s, e.o) -> "f64"
    [] e.k \in {"all", "any", "eitherPairPt"} -> "bool"
    [] e.k = "leading" -> "f32"
    [] OTHER -> "none"

\* histogram_fill_value_expr: what may be made an f64
HistogramSupported(p, e) ==
  /\ OutputType(p.spec, e) \in {"u32", "f32", "f64"}
  /\ e.k = "countWhere" => SelectedSupported(p, e.o, e.p.lhs)

PairSupported(p, d) ==
  /\ \A a \in FourVector : F32Attr(p, d.object, a)
  /\ d.opposite => AttrType(p, d.object, "charge") = "veci32"
  /\ \A i \in DOMAIN d.filters : d.filters[i].lhs.k \in {"pairDeltaR", "pairLeadingPt", "pairSubleadingPt"}
  /\ d.exclude \subseteq Names(p.spec.derived)

CandidateSupported(p, d) ==
  LET Item(x) == IF x \in Names(p.spec.objects) THEN \A a \in FourVector : F32Attr(p, x, a)
                 ELSE IsDerived(p.spec, x)
  IN /\ d.items # <<>>
     /\ \A i \in DOMAIN d.items : Item(d.items[i])
     /\ \A i \in DOMAIN d.filters :
          d.filters[i].lhs.k \in {"candMinDeltaR", "candLeadingPt", "candSubleadingPt"}

\* jes_input_value_expr: an input of a JES payload is an attribute of the item
JesSupported(p, c) ==
  c.payload # "scale" =>
    \A i \in DOMAIN c.inputs :
      /\ c.inputs[i].literal = "no"
      /\ AttrType(p, c.collection, c.inputs[i].from) \in {"vecf32", "veci32"}

Supported(p) ==
  LET s == p.spec
  IN /\ s.models = <<>> /\ s.channels = <<>>
     /\ \A i \in DOMAIN s.objects :
          LET o == s.objects[i]
          IN /\ \A j \in DOMAIN o.cuts : CutSupported(p, o.name, o.cuts[j].lhs)
             /\ \A a \in GenReads(p, o.name) : SupportedAttr(p, o.name, a)
     /\ \A i \in DOMAIN s.derived :
          IF s.derived[i].kind = "pair" THEN PairSupported(p, s.derived[i])
          ELSE CandidateSupported(p, s.derived[i])
     /\ \A i \in DOMAIN AllRequirements(s) : RegionExprSupported(p, AllRequirements(s)[i])
     /\ \A e \in OutputExprs(s) : OutputSupported(p, e)
     /\ \A e \in HistogramExprs(s) : HistogramSupported(p, e)
     /\ \A i \in DOMAIN s.shapes : JesSupported(p, s.shapes[i])
     /\ s.histograms # <<>> => s.regions # <<>>

(***************************************************************************)
(* Derived objects the regions need, and objects that are counted          *)
(***************************************************************************)
RECURSIVE DerivedIn(_, _)
DerivedIn(s, e) ==
  CASE e.k = "attr" -> {e.o} \cap Names(s.derived)
    [] e.k = "bin"  -> DerivedIn(s, e.l) \cup DerivedIn(s, e.r)
    [] e.k \in {"abs", "sqrt"} -> DerivedIn(s, e.x)
    [] e.k \in {"countWhere", "all", "any"} -> DerivedIn(s, e.p.lhs)
    [] e.k \in {"closestMass", "otherMass"} -> {e.l, e.r} \cap Names(s.derived)
    [] OTHER        -> {}
RegionDerived(s) == UNION {DerivedIn(s, e) : e \in RequirementExprs(s)}

RECURSIVE ExprCounts(_, _)
ExprCounts(e, o) ==
  CASE e.k \in {"count", "countWhere"} -> e.o = o
    [] e.k = "bin" -> ExprCounts(e.l, o) \/ ExprCounts(e.r, o)
    [] e.k \in {"abs", "sqrt"} -> ExprCounts(e.x, o)
    [] OTHER -> FALSE

\* otherwise the counter is emitted under a name nothing else uses
CountNeeded(s, o) ==
  \/ \E e \in OutputExprs(s) : e.k = "count" /\ e.o = o
  \/ \E e \in RequirementExprs(s) : ExprCounts(e, o)

(***************************************************************************)
(* The emitted source compiles: it names no variable or field it has not   *)
(* declared, at another type or before its value is unwrapped              *)
(***************************************************************************)
UsesSelected(e) ==
  CASE e.k \in {"countWhere", "all", "any", "sum", "leading"} -> {e.o}
    [] e.k = "eitherPairPt" -> {e.l, e.r}
    [] OTHER -> {}

Compiles(p) ==
  LET s == p.spec
      values == OutputExprs(s) \cup HistogramExprs(s)
      collections == {s.sfs[i].collection : i \in DOMAIN s.sfs}
      selected == UNION {UsesSelected(e) : e \in RequirementExprs(s) \cup values}
                  \cup (IF s.histograms = <<>> THEN {} ELSE collections)
  IN /\ \A o \in selected : GenAttrs(p, o) # {}
     /\ \A e \in HistogramExprs(s) :
          /\ \A o \in Names(s.objects) : CollectSelected(e, o) \subseteq GenAttrs(p, o)
          /\ e.k = "count" => CountNeeded(s, e.o)
          /\ e.k = "leading" => F32Attr(p, e.o, e.a)
     /\ \A e \in values : e.k \in {"closestMass", "otherMass"} => {e.l, e.r} \subseteq RegionDerived(s)
     /\ s.shapes # <<>> => s.histograms # <<>>

Generates(p) == Supported(p) /\ Lowers(p) /\ Compiles(p)

\* a union: the fields of a row have the types of the first channel's outputs
UnionGenerates(s, reads) ==
  LET Types(c) == [i \in DOMAIN c.outputs |-> OutputType(c, c.outputs[i].expr)]
  IN \A i \in DOMAIN s.channels :
       /\ Generates([spec |-> AsSpec(s, s.channels[i]), reads |-> reads])
       /\ Types(s.channels[i]) = Types(s.channels[1])
=============================================================================
