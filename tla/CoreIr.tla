------------------------------- MODULE CoreIr -------------------------------
(***************************************************************************)
(* The typed Core IR of crates/nano-spec (core.rs, and CoreLowerer in      *)
(* lib.rs): validation lowers an accepted spec to an arena of numbered     *)
(* nodes, each typed by a table of primitives and carrying its effects,    *)
(* and the branches a plan reads are taken from these effects.             *)
(*                                                                         *)
(* A node is [kind, type, effects]; its kind is a tuple that starts with   *)
(* the variant of ExprKind, and nodes refer to earlier ones by number.     *)
(* Types are those of the checks of AnalysisSpec ("momentum" and           *)
(* "dimensionless" for the quantities) with "int", "objectset",            *)
(* "candidate" and "tensor".  What lower_expr would do with an expression  *)
(* is one operator over an extended set of expressions: an operand that is *)
(* a reference or a quantity is written as an expression of its own kind.  *)
(* Effects are sets: the order in which they are found only orders the     *)
(* columns of the read schema, and is left out.                            *)
(***************************************************************************)
EXTENDS AnalysisSpec
LOCAL INSTANCE SequencesExt
LOCAL INSTANCE TLC

(***************************************************************************)
(* Types, effects and the primitives                                       *)
(***************************************************************************)
\* "none" for a type without a dimension
NumericDimension(t) ==
  CASE t \in Numeric -> t
    [] t = "int"     -> "dimensionless"
    [] OTHER         -> "none"

Reads(branch) == <<"reads", branch>>
RequiresModel(m) == <<"model", m>>
ProducesScore(branch) == <<"score", branch>>
RootDf103 == <<"compat", "RootDf103">>

ReadBranches(effects) == {e[2] : e \in {x \in effects : x[1] = "reads"}}

\* what each argument must be, and how the type of the call follows: fixed, or
\* that of argument 1 or 2, or the arithmetic or comparison of the dimensions
Prim(args, type) == [args |-> args, type |-> type]
Unary(type)      == Prim(<<"candidate">>, type)

ValuePrimitives ==
  [object       |-> Prim(<<>>, "objectset"),
   candidate    |-> Prim(<<>>, "candidate"),
   attr         |-> Prim(<<"objectset">>, "argument1"),
   derived_attr |-> Prim(<<"candidate">>, "argument1"),
   literal      |-> Prim(<<>>, "dimensionless"),
   count        |-> Prim(<<"objectset">>, "int"),
   count_where  |-> Prim(<<"objectset", "bool">>, "int"),
   sum          |-> Prim(<<"objectset", "numeric">>, "argument2"),
   all          |-> Prim(<<"objectset", "bool">>, "bool"),
   any          |-> Prim(<<"objectset", "bool">>, "bool"),
   abs          |-> Prim(<<"numeric">>, "argument1"),
   sqrt         |-> Prim(<<"numeric">>, "argument1")]
  @@ [op \in {"add", "sub", "mul", "div", "pow"} |-> Prim(<<"numeric", "numeric">>, "arithmetic")]
  @@ [op \in {"gt", "ge", "lt", "le", "eq", "ne"} |-> Prim(<<"anything", "anything">>, "compare")]

CandidatePrimitives ==
  [leading_pt     |-> Prim(<<"objectset">>, "momentum"),
   leading_attr   |-> Prim(<<"objectset", "numeric">>, "argument2"),
   pair           |-> Prim(<<"objectset">>, "candidate"),
   nearest_mass   |-> Prim(<<"objectset", "momentum">>, "candidate"),
   nearest_mass_truncated |-> Prim(<<"objectset", "momentum">>, "candidate"),
   closest_mass   |-> Prim(<<"candidate", "candidate", "momentum">>, "momentum"),
   other_mass     |-> Prim(<<"candidate", "candidate", "momentum">>, "momentum"),
   either_pair_pt |-> Prim(<<"objectset", "objectset", "momentum", "momentum">>, "bool"),
   exclude        |-> Prim(<<"objectset", "candidate">>, "objectset"),
   model          |-> Prim(<<"tensor">>, "tensor"),
   infer          |-> Prim(<<"tensor">>, "dimensionless")]
  @@ [p \in {"min_delta_r", "pair_delta_r"} |-> Unary("dimensionless")]
  @@ [p \in {"invariant_mass", "pair_leading_pt", "pair_subleading_pt",
             "candidate_leading_pt", "candidate_subleading_pt"} |-> Unary("momentum")]

Primitives == ValuePrimitives @@ CandidatePrimitives

Satisfies(type, constraint) ==
  CASE constraint = "anything" -> TRUE
    [] constraint = "numeric"  -> NumericDimension(type) # "none"
    [] OTHER                   -> type = constraint

\* combine is the one primitive of any arity, from 1
Accepts(p, types) ==
  IF p = "combine" THEN types # <<>>
  ELSE /\ Len(types) = Len(Primitives[p].args)
       /\ \A i \in DOMAIN types : Satisfies(types[i], Primitives[p].args[i])

\* a truth value compares with a truth value or a pure number
Comparable(l, r) ==
  LET Plain(t) == t = "bool" \/ NumericDimension(t) = "dimensionless"
  IN IF "bool" \in {l, r} THEN Plain(l) /\ Plain(r)
     ELSE NumericDimension(l) # "none" /\ NumericDimension(l) = NumericDimension(r)

RuleType(rule, types) ==
  CASE rule[1] = "argument1"  -> types[1]
    [] rule[1] = "argument2"  -> types[2]
    [] rule[1] = "arithmetic" -> BinaryType(rule[2], NumericDimension(types[1]), NumericDimension(types[2]))
    [] rule[1] = "compare"    -> IF Comparable(types[1], types[2]) THEN "bool" ELSE "none"
    [] OTHER                  -> rule[1]

\* the type of a call, or "none" when the registry refuses it
CallType(p, types) ==
  CASE ~Accepts(p, types) -> "none"
    [] Accepts(p, types) /\ p = "combine" -> "candidate"
    [] Accepts(p, types) /\ p # "combine" -> RuleType(<<Primitives[p].type, p>>, types)

CallEffects(p, effects) ==
  UNION {effects[i] : i \in DOMAIN effects}
  \cup (IF p = "nearest_mass_truncated" THEN {RootDf103} ELSE {})

(***************************************************************************)
(* The builder: its nodes and whether lowering pushed an error.  A step    *)
(* returns the builder and the number of its node, 0 for None.             *)
(***************************************************************************)
EmptyBuilder == [exprs |-> <<>>, failed |-> FALSE]

Push(b, kind, type, effects) ==
  [b  |-> [b EXCEPT !.exprs = Append(@, [kind |-> kind, type |-> type, effects |-> effects])],
   id |-> Len(b.exprs) + 1]
Refuse(b) == [b |-> [b EXCEPT !.failed = TRUE], id |-> 0]

\* a call of primitive p, or a comparison, over earlier nodes
Apply(b, kind, p, ids) ==
  LET types == [i \in DOMAIN ids |-> b.exprs[ids[i]].type]
      type == CallType(p, types)
  IN IF type = "none" THEN Refuse(b)
     ELSE Push(b, kind, type, CallEffects(p, [i \in DOMAIN ids |-> b.exprs[ids[i]].effects]))

(***************************************************************************)
(* Expressions                                                             *)
(***************************************************************************)
ObjectRef(o) == [k |-> "object", o |-> o]
CandidateRef(o) == [k |-> "candidate", o |-> o]
ThisCandidate == [k |-> "thisCandidate"]
QuantityNode(q) == [k |-> "quantity", q |-> q]
AttrRef(o, a) == [k |-> "attr", o |-> o, a |-> a]
Comparison(c) == [k |-> "compare", op |-> c.op, l |-> c.lhs, r |-> QuantityNode(c.rhs)]

\* the place of an object or derived object in the arena of objects
ObjectId(s, o) ==
  LET all == s.objects \o s.derived
  IN CHOOSE i \in DOMAIN all : all[i].name = o /\ \A j \in DOMAIN all : all[j].name = o => j <= i
Declared(s, o) == o \in Names(s.objects) \cup Names(s.derived)

DerivedAttributeDimension(a) ==
  CASE a \in {"mass", "pt"} -> "momentum"
    [] a \in {"min_delta_r", "dR", "dr"} -> "dimensionless"
    [] OTHER -> AttributeDimension(a)

\* for the mutant runs: a score counts as a branch that is read
AttrNode_ReadsScore(s, b, o, a) ==
  IF ~Declared(s, o) THEN Refuse(b)
  ELSE IF o \notin Names(s.objects)
  THEN Push(b, <<"derived_attr", ObjectId(s, o), a>>, DerivedAttributeDimension(a), {})
  ELSE LET branch == <<SourceOf(s, o), a>>
       IN Push(b, <<"attr", ObjectId(s, o), a, branch>>, AttributeDimension(a), {Reads(branch)})

AttrNode(s, b, o, a) ==
  IF ~Declared(s, o) THEN Refuse(b)
  ELSE IF o \notin Names(s.objects)
  THEN Push(b, <<"derived_attr", ObjectId(s, o), a>>, DerivedAttributeDimension(a), {})
  ELSE LET branch == <<SourceOf(s, o), a>>
           score == branch \in ModelOutputs(s)
       IN Push(b, <<"attr", ObjectId(s, o), a, branch>>,
               IF score THEN "dimensionless" ELSE AttributeDimension(a),
               IF score THEN {} ELSE {Reads(branch)})

\* the primitive of an expression that is a call, and its operands in order
PrimitiveOf ==
  [abs |-> "abs", sqrt |-> "sqrt", count |-> "count", countWhere |-> "count_where",
   sum |-> "sum", all |-> "all", any |-> "any", eitherPairPt |-> "either_pair_pt",
   closestMass |-> "closest_mass", otherMass |-> "other_mass", leading |-> "leading_attr",
   pairDeltaR |-> "pair_delta_r", pairLeadingPt |-> "pair_leading_pt",
   pairSubleadingPt |-> "pair_subleading_pt", candMinDeltaR |-> "min_delta_r",
   candLeadingPt |-> "candidate_leading_pt", candSubleadingPt |-> "candidate_subleading_pt",
   pair |-> "pair", nearest |-> "nearest_mass", truncated |-> "nearest_mass_truncated",
   combine |-> "combine"]

Operands(e) ==
  CASE e.k \in {"bin", "compare"} -> <<e.l, e.r>>
    [] e.k \in {"abs", "sqrt"}    -> <<e.x>>
    [] e.k \in {"count", "pair"}  -> <<ObjectRef(e.o)>>
    [] e.k \in {"countWhere", "all", "any"} -> <<ObjectRef(e.o), Comparison(e.p)>>
    [] e.k \in {"sum", "leading"} -> <<ObjectRef(e.o), AttrRef(e.o, e.a)>>
    [] e.k = "eitherPairPt"       -> <<ObjectRef(e.l), ObjectRef(e.r),
                                       QuantityNode(e.lead), QuantityNode(e.sub)>>
    [] e.k \in {"closestMass", "otherMass"}
                                  -> <<CandidateRef(e.l), CandidateRef(e.r), QuantityNode(e.t)>>
    [] e.k \in {"nearest", "truncated"} -> <<ObjectRef(e.o), QuantityNode(e.t)>>
    [] e.k = "combine"            -> e.items
    [] e.k \in FilterOnly         -> <<ThisCandidate>>

RECURSIVE LowerExpr(_, _, _)

\* one more operand, unless one before it failed
LowerOperand(r, n) == [b |-> n.b, ids |-> Append(r.ids, n.id)]
LowerOperands(s, b, operands) ==
  FoldLeft(LAMBDA r, e : IF 0 \in {r.ids[i] : i \in DOMAIN r.ids} THEN r
                         ELSE LowerOperand(r, LowerExpr(s, r.b, e)),
           [b |-> b, ids |-> <<>>], operands)

\* a call or a comparison of lowered operands
Result(kind, p, lowered) ==
  IF 0 \in {lowered.ids[i] : i \in DOMAIN lowered.ids} THEN [b |-> lowered.b, id |-> 0]
  ELSE Apply(lowered.b, <<kind, p, lowered.ids>>, p, lowered.ids)

LowerExpr(s, b, e) ==
  CASE e.k = "scalar"        -> Push(b, <<"scalar", e.b>>, "bool", {Reads(<<"event", e.b>>)})
    [] e.k = "lit"           -> Push(b, <<"literal", e.v>>, "dimensionless", {})
    [] e.k = "quantity"      -> Push(b, <<"quantity", e.q.v, e.q.u>>,
                                     IF e.q.u = "GeV" THEN "momentum" ELSE "dimensionless", {})
    [] e.k = "attr"          -> AttrNode(s, b, e.o, e.a)
    [] e.k \in {"object", "candidate"} ->
         IF Declared(s, e.o) THEN Push(b, <<"call", e.k, <<>>>>, Primitives[e.k].type, {}) ELSE Refuse(b)
    [] e.k = "thisCandidate" -> Push(b, <<"call", "candidate", <<>>>>, "candidate", {})
    [] OTHER                 ->
         Result(IF e.k = "compare" THEN "compare" ELSE "call",
                IF e.k \in {"bin", "compare"} THEN e.op ELSE PrimitiveOf[e.k],
                LowerOperands(s, b, Operands(e)))

(***************************************************************************)
(* The spec                                                                *)
(***************************************************************************)
\* the filters of a pair are lowered only when it selects the leading pair
DerivedRoots(s, d) ==
  LET filters == [i \in DOMAIN d.filters |-> Comparison(d.filters[i])]
      Item(x) == IF x \in Names(s.objects) THEN ObjectRef(x) ELSE CandidateRef(x)
  IN CASE d.kind = "candidate" ->
            <<[k |-> "combine", items |-> [i \in DOMAIN d.items |-> Item(d.items[i])]]>> \o filters
       [] d.kind = "pair" /\ d.select = "leading" -> <<[k |-> "pair", o |-> d.object]>> \o filters
       [] d.kind = "pair" /\ d.select # "leading" ->
            <<[k |-> d.select, o |-> d.object, t |-> d.target]>>

Cuts(seq) == [i \in DOMAIN seq |-> Comparison(seq[i])]

\* every expression of a spec, in the order of lower_spec
Roots(s) ==
  Flat([i \in DOMAIN s.objects |-> Cuts(s.objects[i].cuts)])
  \o Flat([i \in DOMAIN s.derived |-> DerivedRoots(s, s.derived[i])])
  \o Flat([i \in DOMAIN s.regions |-> Cuts(s.regions[i].require)])

\* lowers a sequence of expressions; the numbers of their nodes
LowerAll(s, b, exprs) ==
  FoldLeft(LAMBDA r, e : LowerOperand(r, LowerExpr(s, r.b, e)), [b |-> b, ids |-> <<>>], exprs)

Exprs(seq) == [i \in DOMAIN seq |-> seq[i].expr]
NamedIds(seq, ids) == [i \in DOMAIN seq |-> [name |-> seq[i].name, id |-> ids[i]]]

SourceOrNone(d) == IF "source" \in DOMAIN d THEN d.source ELSE "none"

CoreEffects(s, required, exprs) ==
  {Reads(r) : r \in required}
  \cup {RequiresModel(s.models[i].name) : i \in DOMAIN s.models}
  \cup {ProducesScore(s.models[i].output) : i \in DOMAIN s.models}
  \cup UNION {exprs[i].effects : i \in DOMAIN exprs}

\* the cuts, the outputs and the histograms are lowered in turn into one arena
BuildWithHistograms(s, required, outputs, hists) ==
  [objects    |-> [i \in DOMAIN (s.objects \o s.derived) |->
                     LET d == (s.objects \o s.derived)[i]
                     IN [name |-> d.name, source |-> SourceOrNone(d)]],
   regions    |-> [i \in DOMAIN s.regions |-> s.regions[i].name],
   exprs      |-> hists.b.exprs,
   outputs    |-> NamedIds(s.outputs, outputs.ids),
   histograms |-> NamedIds(s.histograms, hists.ids),
   effects    |-> CoreEffects(s, required, hists.b.exprs),
   failed     |-> hists.b.failed]
BuildWithOutputs(s, required, outputs) ==
  BuildWithHistograms(s, required, outputs, LowerAll(s, outputs.b, Exprs(s.histograms)))
BuildCore(s, required) ==
  BuildWithOutputs(s, required,
                   LowerAll(s, LowerAll(s, EmptyBuilder, Roots(s)).b, Exprs(s.outputs)))

RejectedCore == [objects |-> <<>>, regions |-> <<>>, exprs |-> <<>>, outputs |-> <<>>,
                 histograms |-> <<>>, effects |-> {}, failed |-> TRUE]

CoreOf(s, valid) == IF valid.errors # {} THEN RejectedCore ELSE BuildCore(s, valid.reads)
LowerFlat(s) == CoreOf(s, ValidateFlat(s))

\* the core of a union has the effects of its channels, and nothing else
UnionCore(cores) ==
  [RejectedCore EXCEPT !.effects = UNION {cores[i].effects : i \in DOMAIN cores},
                       !.failed = \E i \in DOMAIN cores : cores[i].failed]
LowerUnion(s) ==
  IF ValidateUnion(s).errors # {} THEN RejectedCore
  ELSE UnionCore([i \in DOMAIN s.channels |-> LowerFlat(AsSpec(s, s.channels[i]))])

LowerSpec(s) == IF s.channels = <<>> THEN LowerFlat(s) ELSE LowerUnion(s)

(***************************************************************************)
(* lower_to_kir: the nodes as the statements of a block, whose types       *)
(* verification derives again from those of earlier statements             *)
(***************************************************************************)
CoreVerifies(core) ==
  LET Type(i) == core.exprs[i].type
      Args(ids) == [i \in DOMAIN ids |-> Type(ids[i])]
      Defined(n, ids) == \A i \in DOMAIN ids : ids[i] \in 1 .. n - 1
  IN /\ \A n \in DOMAIN core.exprs :
          LET kind == core.exprs[n].kind
          IN kind[1] \in {"call", "compare"} =>
               Defined(n, kind[3]) /\ CallType(kind[2], Args(kind[3])) = Type(n)
     /\ \A i \in DOMAIN core.outputs : core.outputs[i].id \in DOMAIN core.exprs
=============================================================================
