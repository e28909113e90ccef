------------------------------ MODULE ExprText ------------------------------
(***************************************************************************)
(* The text of expressions, cuts and requirements in crates/nano-spec:     *)
(* how parse_expr and its neighbours in lib.rs read it, and how adl.rs     *)
(* writes it.                                                              *)
(*                                                                         *)
(* A text is a sequence of tokens: words, numbers and the marks below.     *)
(* Blanks are left out, and the name of a function touches its             *)
(* parenthesis, a sign its number.  The values of the numbers are those of *)
(* Number, and a token that is neither a number nor a mark is a word.      *)
(* Reading returns an expression of AnalysisSpec, a quantity or a          *)
(* comparison, or NoParse, whose variant is "error".                       *)
(***************************************************************************)
EXTENDS AnalysisSpec
LOCAL INSTANCE SequencesExt
LOCAL INSTANCE FiniteSetsExt
LOCAL INSTANCE TLC

CONSTANT Number  \* token -> value, for the numbers without a sign

CmpOf == (">=" :> "ge") @@ ("<=" :> "le") @@ ("==" :> "eq") @@ ("!=" :> "ne")
         @@ (">" :> "gt") @@ ("<" :> "lt")
ArithOf == ("+" :> "add") @@ ("-" :> "sub") @@ ("*" :> "mul") @@ ("/" :> "div") @@ ("^" :> "pow")
Precedence == ("+" :> 1) @@ ("-" :> 1) @@ ("*" :> 2) @@ ("/" :> 2) @@ ("^" :> 3)

Marks == DOMAIN CmpOf \cup DOMAIN ArithOf
         \cup {"(", ")", "[", "]", "{", "}", ",", ";", ":", ".", "="}

NoParse == [k |-> "error"]
Parsed(x) == x.k # "error"

\* validate_identifier: the text is one word
IsWord(t) == Len(t) = 1 /\ t[1] \notin Marks \cup DOMAIN Number

(***************************************************************************)
(* Parentheses                                                             *)
(***************************************************************************)
Round  == [open |-> {"("}, close |-> {")"}]
Square == [open |-> {"(", "["}, close |-> {")", "]"}]

\* how many brackets are open before token i, closing ones before it counted
Depth(t, i, brackets) ==
  Cardinality({j \in 1 .. i - 1 : t[j] \in brackets.open})
  - Cardinality({j \in 1 .. i - 1 : t[j] \in brackets.close})

\* the places outside brackets of one of some tokens
TopLevel(t, tokens, brackets) ==
  {i \in DOMAIN t : t[i] \in tokens /\ Depth(t, i, brackets) = 0}

\* the same seen from the right
TopLevelFromRight(t, tokens) ==
  {i \in DOMAIN t : t[i] \in tokens /\ Depth(t, Len(t) + 1, Round) = Depth(t, i + 1, Round)}

Before(t, i) == SubSeq(t, 1, i - 1)
After(t, i)  == SubSeq(t, i + 1, Len(t))
Inside(t)    == SubSeq(t, 2, Len(t) - 1)

SplitTop(t, separator, brackets) ==
  LET cuts  == SetToSortSeq(TopLevel(t, {separator}, brackets), <)
      ends  == Append(cuts, Len(t) + 1)
  IN [i \in DOMAIN ends |-> SubSeq(t, (IF i = 1 THEN 0 ELSE ends[i - 1]) + 1, ends[i] - 1)]

\* the first parenthesis is closed by nothing before the last token
Wrapped(t) ==
  /\ t # <<>> /\ t[1] = "(" /\ t[Len(t)] = ")"
  /\ \A i \in 2 .. Len(t) - 1 : t[i] = ")" => Depth(t, i + 1, Round) # 0

RECURSIVE StripParens(_)
StripParens(t) == IF Wrapped(t) THEN StripParens(Inside(t)) ELSE t

(***************************************************************************)
(* Quantities and comparisons                                              *)
(***************************************************************************)
IsNumber(t) == \/ Len(t) = 1 /\ t[1] \in DOMAIN Number
               \/ Len(t) = 2 /\ t[1] \in {"+", "-"} /\ t[2] \in DOMAIN Number
NumberValue(t) == IF t[1] = "-" THEN -Number[t[2]] ELSE Number[t[Len(t)]]

ParseQuantity(t) ==
  LET value == IF t # <<>> /\ t[Len(t)] = "GeV" THEN SubSeq(t, 1, Len(t) - 1) ELSE t
  IN IF ~IsNumber(value) THEN NoParse
     ELSE [k |-> "quantity", v |-> NumberValue(value), u |-> IF value = t THEN "one" ELSE "GeV"]
AsQuantity(q) == [v |-> q.v, u |-> q.u]

\* the first comparison outside parentheses with something on both sides
SplitComparison(t) ==
  LET places == {i \in TopLevel(t, DOMAIN CmpOf, Round) : i > 1 /\ i < Len(t)}
      i == Min(places)
  IN IF places = {} THEN NoParse
     ELSE [k |-> "split", lhs |-> Before(t, i), op |-> CmpOf[t[i]], rhs |-> After(t, i)]

(***************************************************************************)
(* Expressions.  default is the object that a bare name is an attribute    *)
(* of, or "none".                                                          *)
(***************************************************************************)
IsUnaryMinus(t, i) == t[i] = "-" /\ (i = 1 \/ t[i - 1] \in DOMAIN ArithOf \cup {"("})

\* the operators outside parentheses that can split a text, and of these the weakest
Splits(t, least) ==
  {i \in TopLevelFromRight(t, DOMAIN ArithOf) : ~IsUnaryMinus(t, i) /\ Precedence[t[i]] >= least}
Weakest(t, places) == {i \in places : \A j \in places : Precedence[t[i]] <= Precedence[t[j]]}

\* for the mutant runs: the leftmost operator of a precedence splits
FindOperator_Leftmost(t, least) ==
  Min(IF Splits(t, least) = {} THEN {0} ELSE Weakest(t, Splits(t, least)))

\* the rightmost operator of the lowest precedence, 0 if there is none
FindOperator(t, least) == Max({0} \cup Weakest(t, Splits(t, least)))

Functions == {"abs", "sqrt", "count", "sum", "all", "any", "either_pair_pt",
              "closest_mass", "other_mass"}
IsCall(t, f) == Len(t) > 2 /\ t[1] = f /\ t[2] = "(" /\ t[Len(t)] = ")"
Arguments(t) == SubSeq(t, 3, Len(t) - 1)

Keywords ==
  [w \in {"dR", "dr", "delta_r", "deltaR"} |-> "pairDeltaR"]
  @@ [w \in {"min_dR", "min_dr", "min_delta_r", "min_deltaR"} |-> "candMinDeltaR"]
  @@ ("leading_pt" :> "pairLeadingPt") @@ ("subleading_pt" :> "pairSubleadingPt")
  @@ ("candidate_leading_pt" :> "candLeadingPt") @@ ("candidate_subleading_pt" :> "candSubleadingPt")

\* o.a, split at the first dot
ParseAttr(t, kind) ==
  LET dots == {i \in DOMAIN t : t[i] = "."}
      i == Min(dots)
  IN IF dots # {} /\ IsWord(Before(t, i)) /\ IsWord(After(t, i))
     THEN [k |-> kind, o |-> t[1], a |-> t[3]] ELSE NoParse

\* a bare name: an attribute of the default object, or an event branch
ParseName(t, default) ==
  IF ~IsWord(t) THEN NoParse
  ELSE IF default # "none" THEN [k |-> "attr", o |-> default, a |-> t[1]]
  ELSE [k |-> "scalar", b |-> t[1]]

ParseLeading(t) ==
  LET u == After(t, 2)
  IN IF Len(u) = 4 /\ u[2] = ")" /\ u[3] = "." /\ IsWord(<<u[1]>>) /\ IsWord(<<u[4]>>)
     THEN [k |-> "leading", o |-> u[1], a |-> u[4]] ELSE NoParse

TwoWords(args) == IsWord(args[1]) /\ IsWord(args[2])

PairPt(args, lead, sub) ==
  IF Parsed(lead) /\ Parsed(sub)
  THEN [k |-> "eitherPairPt", l |-> args[1][1], r |-> args[2][1],
        lead |-> AsQuantity(lead), sub |-> AsQuantity(sub)]
  ELSE NoParse
ParsePairPt(args) ==
  IF Len(args) # 4 \/ ~TwoWords(args) THEN NoParse
  ELSE PairPt(args, ParseQuantity(args[3]), ParseQuantity(args[4]))

MassOrder(args, kind, target) ==
  IF Parsed(target) THEN [k |-> kind, l |-> args[1][1], r |-> args[2][1], t |-> AsQuantity(target)]
  ELSE NoParse
ParseMassOrder(args, kind) ==
  IF Len(args) # 3 \/ ~TwoWords(args) THEN NoParse ELSE MassOrder(args, kind, ParseQuantity(args[3]))

RECURSIVE ParseExpr(_, _, _)

\* a comparison with an expression on the left and a quantity on the right
CutOf(lhs, op, rhs) ==
  IF Parsed(lhs) /\ Parsed(rhs)
  THEN [k |-> "cut", c |-> [lhs |-> lhs, op |-> op, rhs |-> AsQuantity(rhs)]] ELSE NoParse
ParseSides(split, default) ==
  IF ~Parsed(split) THEN NoParse
  ELSE CutOf(ParseExpr(split.lhs, default, 0), split.op, ParseQuantity(split.rhs))
ParseComparison(t, default) == ParseSides(SplitComparison(t), default)

PredicateOf(kind, o, cut) == IF Parsed(cut) THEN [k |-> kind, o |-> o, p |-> cut.c] ELSE NoParse
ParsePredicate(inner, kind) ==
  IF Len(inner) > 1 /\ inner[2] = "," /\ IsWord(<<inner[1]>>)
  THEN PredicateOf(kind, inner[1], ParseComparison(After(inner, 2), inner[1])) ELSE NoParse

UnaryOf(f, x) == IF Parsed(x) THEN [k |-> f, x |-> x] ELSE NoParse

ParseCall(f, inner, args, default) ==
  CASE f \in {"abs", "sqrt"} -> UnaryOf(f, ParseExpr(inner, default, 0))
    [] f = "count" /\ Len(args) > 1 -> ParsePredicate(inner, "countWhere")
    [] f = "count" /\ Len(args) = 1 ->
         IF IsWord(inner) THEN [k |-> "count", o |-> inner[1]] ELSE NoParse
    [] f = "sum"            -> ParseAttr(inner, "sum")
    [] f \in {"all", "any"} -> ParsePredicate(inner, f)
    [] f = "either_pair_pt" -> ParsePairPt(args)
    [] f = "closest_mass"   -> ParseMassOrder(args, "closestMass")
    [] f = "other_mass"     -> ParseMassOrder(args, "otherMass")

\* an operand between operators, without parentheses around it
ParseOperand(t, default) ==
  CASE \E f \in Functions : IsCall(t, f) ->
         ParseCall(t[1], Arguments(t), SplitTop(Arguments(t), ",", Round), default)
    [] t[1] = "leading" /\ Len(t) > 1 /\ t[2] = "(" -> ParseLeading(t)
    [] IsNumber(t)                       -> [k |-> "lit", v |-> NumberValue(t)]
    [] Len(t) = 1 /\ t[1] \in DOMAIN Keywords -> [k |-> Keywords[t[1]]]
    [] OTHER -> IF "." \in {t[i] : i \in DOMAIN t} THEN ParseAttr(t, "attr")
                ELSE ParseName(t, default)

\* parse_expr_prec: operators of at least a precedence.  The left side of an
\* operator holds only stronger ones, the right side equal ones too.
BinaryOf(op, l, r) ==
  IF Parsed(l) /\ Parsed(r) THEN [k |-> "bin", op |-> op, l |-> l, r |-> r] ELSE NoParse
ParseAt(t, default, i) ==
  IF i = 0 THEN ParseOperand(t, default)
  ELSE BinaryOf(ArithOf[t[i]], ParseExpr(Before(t, i), default, Precedence[t[i]] + 1),
                ParseExpr(After(t, i), default, Precedence[t[i]]))
ParseStripped(t, default, least) ==
  IF t = <<>> THEN NoParse ELSE ParseAt(t, default, FindOperator(t, least))
ParseExpr(text, default, least) == ParseStripped(StripParens(text), default, least)

(***************************************************************************)
(* Cuts, filters and requirements                                          *)
(***************************************************************************)
CandidateKey ==
  [pairDeltaR |-> "candMinDeltaR", pairLeadingPt |-> "candLeadingPt",
   pairSubleadingPt |-> "candSubleadingPt"]

AsCandidateFilter(f) ==
  IF Parsed(f) /\ f.c.lhs.k \in DOMAIN CandidateKey
  THEN [f EXCEPT !.c.lhs = [k |-> CandidateKey[f.c.lhs.k]]] ELSE f
ParseCandidateFilter(t) == AsCandidateFilter(ParseComparison(t, "none"))

\* a call of a predicate, or a bare name, has to be true
IsTrue(e) == CutOf(e, "eq", [k |-> "quantity", v |-> 1, u |-> "one"])
ParseRequirement(t) ==
  CASE \E f \in {"all", "any", "either_pair_pt"} : IsCall(t, f) -> IsTrue(ParseExpr(t, "none", 0))
    [] IsWord(t) -> IsTrue([k |-> "scalar", b |-> t[1]])
    [] OTHER     -> ParseComparison(t, "none")

(***************************************************************************)
(* Writing                                                                 *)
(***************************************************************************)
TokenOf(f, x) == CHOOSE token \in DOMAIN f : f[token] = x
NumberText(v) == IF v < 0 THEN <<"-", TokenOf(Number, -v)>> ELSE <<TokenOf(Number, v)>>
QuantityText(q) == NumberText(q.v) \o (IF q.u = "GeV" THEN <<"GeV">> ELSE <<>>)

KeywordText ==
  [pairDeltaR |-> "delta_r", pairLeadingPt |-> "leading_pt", pairSubleadingPt |-> "subleading_pt",
   candMinDeltaR |-> "min_delta_r", candLeadingPt |-> "candidate_leading_pt",
   candSubleadingPt |-> "candidate_subleading_pt"]

RECURSIVE ExprToText(_)
\* for the mutant runs: operators are written without parentheses
ExprToText_Bare(e) == ExprToText(e.l) \o <<TokenOf(ArithOf, e.op)>> \o ExprToText(e.r)
BinaryToText(e) == <<"(">> \o ExprToText(e.l) \o <<TokenOf(ArithOf, e.op)>> \o ExprToText(e.r) \o <<")">>

CutToText(c) == ExprToText(c.lhs) \o <<TokenOf(CmpOf, c.op)>> \o QuantityText(c.rhs)

ExprToText(e) ==
  LET Call(f, inner) == <<f, "(">> \o inner \o <<")">>
      Mass(f) == Call(f, <<e.l, ",", e.r, ",">> \o QuantityText(e.t))
  IN CASE e.k = "scalar"  -> <<e.b>>
       [] e.k = "attr"    -> <<e.o, ".", e.a>>
       [] e.k = "lit"     -> NumberText(e.v)
       [] e.k = "bin"     -> BinaryToText(e)
       [] e.k \in {"abs", "sqrt"} -> Call(e.k, ExprToText(e.x))
       [] e.k = "count"   -> Call("count", <<e.o>>)
       [] e.k = "countWhere" -> Call("count", <<e.o, ",">> \o CutToText(e.p))
       [] e.k = "sum"     -> Call("sum", <<e.o, ".", e.a>>)
       [] e.k \in {"all", "any"} -> Call(e.k, <<e.o, ",">> \o CutToText(e.p))
       [] e.k = "eitherPairPt" -> Call("either_pair_pt", <<e.l, ",", e.r, ",">> \o QuantityText(e.lead)
                                                         \o <<",">> \o QuantityText(e.sub))
       [] e.k = "closestMass" -> Mass("closest_mass")
       [] e.k = "otherMass"   -> Mass("other_mass")
       [] e.k = "leading" -> Call("leading", <<e.o>>) \o <<".", e.a>>
       [] e.k \in FilterOnly -> <<KeywordText[e.k]>>
=============================================================================
