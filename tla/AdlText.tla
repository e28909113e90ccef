------------------------------ MODULE AdlText ------------------------------
(***************************************************************************)
(* The ADL surface of crates/nano-spec (adl.rs): its parser, which         *)
(* collects declarations into a surface spec and turns that into a typed   *)
(* one, and to_adl_string, which writes a typed spec.                      *)
(*                                                                         *)
(* A program is one sequence of tokens, without blanks and comments; a     *)
(* declaration ends with its block or with a semicolon outside brackets.   *)
(* The parser is the record p: whether it still reads, the surface spec so *)
(* far, the names of objects, derived objects and regions in the order of  *)
(* their declarations, and the aliases.                                    *)
(***************************************************************************)
EXTENDS SurfaceSpec
LOCAL INSTANCE SequencesExt
LOCAL INSTANCE FiniteSetsExt
LOCAL INSTANCE TLC

NoNames == [objects |-> <<>>, derived |-> <<>>, regions |-> <<>>]
NewParser == [ok |-> TRUE, analysis |-> FALSE, weight |-> FALSE, raw |-> EmptyRaw,
              order |-> NoNames, aliases |-> <<>>]
Fail(p) == [p EXCEPT !.ok = FALSE]

(***************************************************************************)
(* Statements                                                              *)
(***************************************************************************)
NonEmpty(texts) == SelectSeq(texts, LAMBDA t : t # <<>>)
Statements(body) == NonEmpty(SplitTop(body, ";", Square))
Items(t) == NonEmpty(SplitTop(t, ",", Square))
Keyed(t, keys) == Len(t) > 1 /\ t[1] \in keys

\* select a and b
Selected(t) == SplitTop(IF Keyed(t, {"select"}) THEN Tail(t) ELSE t, "and", Square)

\* for the mutant runs: the text of an alias is put in place without parentheses
ExpandAliases_Bare(aliases, t) ==
  Flat([i \in DOMAIN t |-> IF t[i] \in DOMAIN aliases /\ (i = Len(t) \/ t[i + 1] # "(")
                           THEN aliases[t[i]] ELSE <<t[i]>>])

\* each word that names an alias and is not called
ExpandAliases(aliases, t) ==
  Flat([i \in DOMAIN t |-> IF t[i] \in DOMAIN aliases /\ (i = Len(t) \/ t[i + 1] # "(")
                           THEN <<"(">> \o aliases[t[i]] \o <<")">> ELSE <<t[i]>>])

SelectedTexts(p, body) ==
  LET statements == Statements(body)
      texts == Flat([i \in DOMAIN statements |-> Selected(statements[i])])
  IN [i \in DOMAIN texts |-> ExpandAliases(p.aliases, texts[i])]

WordList(t) == IF All(Items(t), IsWord) THEN [i \in DOMAIN Items(t) |-> Items(t)[i][1]] ELSE <<>>

\* the texts after each of some keywords, which come in their order; a
\* keyword that is not there leaves an empty text
RECURSIVE Fields(_, _)
Fields(t, keys) ==
  IF t = <<>> \/ t[1] # Head(keys) THEN [i \in DOMAIN keys |-> <<>>]
  ELSE IF Len(keys) = 1 THEN <<Tail(t)>>
  ELSE LET next == {i \in 3 .. Len(t) : t[i] = keys[2]}
           end  == IF next = {} THEN Len(t) + 1 ELSE Min(next)
       IN <<SubSeq(t, 2, end - 1)>> \o Fields(SubSeq(t, end, Len(t)), Tail(keys))

(***************************************************************************)
(* Objects                                                                 *)
(***************************************************************************)
EmptyDerived == [kind |-> "pair", object |-> NotGiven, items |-> <<>>, constraints |-> <<>>,
                 filters |-> <<>>, selection |-> NotGiven, target |-> NoText, exclude |-> <<>>]
BadDerived == [EmptyDerived EXCEPT !.kind = "error"]

PairStatement(p, d, t) ==
  CASE t = <<"ossf">> -> [d EXCEPT !.constraints = @ \o <<"opposite_charge", "same_flavor">>]
    [] t \in {<<"opposite_charge">>, <<"same_flavor">>} -> [d EXCEPT !.constraints = Append(@, t[1])]
    [] t = <<"leading_pt">>            -> [d EXCEPT !.selection = "leading_pt"]
    [] Keyed(t, {"selection"}) /\ Len(t) = 2 -> [d EXCEPT !.selection = t[2]]
    [] Keyed(t, {"nearest_mass_truncated"}) ->
         [d EXCEPT !.selection = "nearest_mass_truncated", !.target = Tail(t)]
    [] Keyed(t, {"nearest_mass", "nearest"}) ->
         [d EXCEPT !.selection = "nearest_mass", !.target = Tail(t)]
    [] Keyed(t, {"exclude"}) /\ All(Items(Tail(t)), IsWord) ->
         [d EXCEPT !.exclude = @ \o WordList(Tail(t))]
    [] Keyed(t, {"filter", "select"}) ->
         [d EXCEPT !.filters = Append(@, ExpandAliases(p.aliases, Tail(t)))]
    [] OTHER -> BadDerived

CandidateStatement(p, d, t) ==
  IF Keyed(t, {"filter", "select"})
  THEN [d EXCEPT !.filters = Append(@, ExpandAliases(p.aliases, Tail(t)))] ELSE BadDerived

\* the statements of a derived object in turn, up to one that is not understood
Collect(p, start, body, Take(_, _, _)) ==
  FoldLeft(LAMBDA d, t : IF d.kind = "error" THEN d ELSE Take(p, d, t), start, Statements(body))

DerivedRaw(p, source, body) ==
  LET inner == Arguments(source)
      items == SplitTop(inner, ",", Square)
      Pair(t) == IF IsWord(t) THEN Collect(p, [EmptyDerived EXCEPT !.object = t[1]], body, PairStatement)
                 ELSE BadDerived
  IN CASE source[1] = "pair" -> Pair(inner)
       [] source[1] = "comb" -> IF Len(items) = 2 /\ items[2] = <<"2">> THEN Pair(items[1]) ELSE BadDerived
       [] source[1] \in {"combine", "candidate"} ->
            IF ~All(Items(inner), IsWord) THEN BadDerived
            ELSE Collect(p, [EmptyDerived EXCEPT !.kind = source[1], !.items = WordList(inner)],
                         body, CandidateStatement)

Known(p, n) == n \in DOMAIN p.raw.objects \cup DOMAIN p.raw.derived

ReadObject(p, n, source, body) ==
  LET derived == DerivedRaw(p, source, body)
  IN IF \E f \in {"pair", "comb", "combine", "candidate"} : IsCall(source, f)
     THEN IF derived.kind = "error" \/ Known(p, n) THEN Fail(p)
          ELSE [p EXCEPT !.raw.derived = (n :> derived) @@ @, !.order.derived = Append(@, n)]
     ELSE IF ~IsWord(source) \/ Known(p, n) THEN Fail(p)
          ELSE [p EXCEPT !.raw.objects = (n :> [source |-> source[1], cuts |-> SelectedTexts(p, body)]) @@ @,
                         !.order.objects = Append(@, n)]

ReadRegion(p, n, body) ==
  IF n \in DOMAIN p.raw.regions THEN Fail(p)
  ELSE [p EXCEPT !.raw.regions = (n :> SelectedTexts(p, body)) @@ @, !.order.regions = Append(@, n)]

(***************************************************************************)
(* Models and histograms                                                   *)
(***************************************************************************)
\* the statement of a block with a key, the last one if there are several
OfKey(statements, keys) ==
  LET places == {i \in DOMAIN statements : statements[i][1] \in keys}
  IN IF places = {} THEN <<>> ELSE Tail(statements[Max(places)])

ModelKeys == {{"inputs"}, {"output"}, {"batch"}, {"provider"}}
DTypeKeys == {"dtype", "output_dtype"}

ReadModel(p, n, body) ==
  LET s == Statements(body)
      Once(keys) == Cardinality({i \in DOMAIN s : s[i][1] \in keys})
      provider == OfKey(s, {"provider"})
      kind == IF Keyed(provider, {"kind"}) THEN Tail(provider) ELSE provider
  IN IF /\ All(s, LAMBDA t : Keyed(t, UNION ModelKeys \cup DTypeKeys))
        /\ \A keys \in ModelKeys : Once(keys) = 1
        /\ Once(DTypeKeys) <= 1
        /\ OfKey(s, DTypeKeys) \in {<<>>, <<"F32">>, <<"f32">>, <<"float">>, <<"Float">>}
        /\ WordList(OfKey(s, {"inputs"})) # <<>>
        /\ \A keys \in {{"output"}, {"batch"}} : IsWord(OfKey(s, keys))
        /\ IsWord(kind)
     THEN [p EXCEPT !.raw.models =
             Append(@, [name |-> n, inputs |-> WordList(OfKey(s, {"inputs"})),
                        output |-> OfKey(s, {"output"})[1], batch |-> OfKey(s, {"batch"})[1],
                        provider |-> kind[1], configured |-> FALSE])]
     ELSE Fail(p)

\* [a, b, ...]
IsList(t) == t # <<>> /\ t[1] = "[" /\ t[Len(t)] = "]"
Values(t) == IF Inside(t) = <<>> THEN <<>> ELSE SplitTop(Inside(t), ",", Square)
IsVector(t) == IsList(t) /\ All(Values(t), IsNumber)
Vector(t) == [i \in DOMAIN Values(t) |-> NumberValue(Values(t)[i])]

ReadHistogram(p, n, body) ==
  LET s == Statements(body)
      Value(key) == OfKey(s, {key})
      range == Tail(Value("range"))
      bins  == Tail(Value("bins"))
  IN IF /\ All(s, LAMBDA t : Keyed(t, {"expr", "bins", "range"}) /\ t[2] = "=")
        /\ \A key \in {"expr", "bins", "range"} : Value(key) # <<>>
        /\ IsNumber(bins) /\ bins[1] # "-"
        /\ IsVector(range) /\ Len(Values(range)) = 2
     THEN [p EXCEPT !.raw.histograms =
             Append(@, [name |-> n, text |-> ExpandAliases(p.aliases, Tail(Value("expr"))),
                        bins |-> NumberValue(bins), lo |-> Vector(range)[1], hi |-> Vector(range)[2]])]
     ELSE Fail(p)

(***************************************************************************)
(* Weights, systematics and corrections                                    *)
(***************************************************************************)
ReadWeight(p, t) ==
  IF p.weight \/ t = <<>> \/ t[1] # "nominal" \/ ~(Tail(t) = <<>> \/ IsVector(Tail(t))) THEN Fail(p)
  ELSE [p EXCEPT !.weight = TRUE, !.raw.nominal = IF Tail(t) = <<>> THEN <<>> ELSE Vector(Tail(t))]

ReadSystematic(p, n, t) ==
  LET f == Fields(t, <<"kind", "up", "down">>)
  IN IF ~IsWord(f[1]) \/ ~IsNumber(f[2]) \/ ~IsNumber(f[3]) THEN Fail(p)
     ELSE [p EXCEPT !.raw.systematic =
             Append(@, [name |-> n, kind |-> f[1][1], up |-> NumberValue(f[2]), down |-> NumberValue(f[3])])]

EmptyCorrection(n, kind) ==
  [name |-> n, kind |-> kind, collection |-> NotGiven, attr |-> NotGiven, payload |-> NotGiven,
   inputs |-> <<>>, systematic |-> NotGiven, nominal |-> 0, up |-> 0, down |-> 0]

FromInput(n, from)   == [name |-> n, from |-> from, literal |-> "no", value |-> 0]
\* a whole number is an integer, whatever was written
LiteralInput(n, token) == [name |-> n, from |-> NotGiven, literal |-> "int", value |-> Number[token]]

\* the rest of a jes or scale_factor correction, one keyword after another
RECURSIVE PayloadFields(_, _)
PayloadFields(c, t) ==
  LET Rest(d, n) == PayloadFields(d, After(t, n))
      Bad == [c EXCEPT !.kind = "error"]
      factor == c.kind = "scale_factor"
      f == Fields(SubSeq(t, 3, 8), <<"nominal", "up", "down">>)
  IN CASE t = <<>> -> c
       [] Keyed(t, {"correction"}) -> Rest([c EXCEPT !.payload = t[2]], 2)
       [] Keyed(t, {"collection"}) /\ IsWord(<<t[2]>>) -> Rest([c EXCEPT !.collection = t[2]], 2)
       [] Keyed(t, {"attr"}) /\ ~factor /\ IsWord(<<t[2]>>) -> Rest([c EXCEPT !.attr = t[2]], 2)
       [] Keyed(t, {"input"}) /\ Len(t) >= 4 /\ t[3] = "from" ->
            Rest([c EXCEPT !.inputs = Append(@, FromInput(t[2], t[4]))], 4)
       [] Keyed(t, {"input"}) /\ Len(t) >= 4 /\ t[3] = "value" /\ factor /\ t[4] \in DOMAIN Number ->
            Rest([c EXCEPT !.inputs = Append(@, LiteralInput(t[2], t[4]))], 4)
       [] Keyed(t, {"systematic"}) /\ factor /\ Len(t) >= 8 /\ All(f, IsNumber) ->
            Rest([c EXCEPT !.systematic = t[2], !.nominal = NumberValue(f[1]),
                           !.up = NumberValue(f[2]), !.down = NumberValue(f[3])], 8)
       [] OTHER -> Bad

ReadCorrection(p, n, t) ==
  LET kind == t[2]
      f == Fields(After(t, 2), <<"collection", "attr", "up", "down">>)
      c == PayloadFields(EmptyCorrection(n, kind), After(t, 2))
  IN CASE Len(t) < 2 \/ t[1] # "kind" -> Fail(p)
       [] Keyed(t, {"kind"}) /\ kind \in {"jes", "scale_factor"} ->
            IF c.kind = "error" \/ c.collection = NotGiven THEN Fail(p)
            ELSE [p EXCEPT !.raw.corrections = Append(@, c)]
       [] Keyed(t, {"kind"}) /\ kind \notin {"jes", "scale_factor"} ->
            IF ~IsWord(f[1]) \/ ~IsWord(f[2]) \/ ~IsNumber(f[3]) \/ ~IsNumber(f[4]) THEN Fail(p)
            ELSE [p EXCEPT !.raw.corrections =
                    Append(@, [EmptyCorrection(n, kind) EXCEPT
                                 !.collection = f[1][1], !.attr = f[2][1],
                                 !.up = NumberValue(f[3]), !.down = NumberValue(f[4])])]

(***************************************************************************)
(* Aliases and outputs                                                     *)
(***************************************************************************)
ReadAlias(p, n, t) ==
  IF n \in DOMAIN p.aliases \/ t = <<>> \/ t[1] # "=" THEN Fail(p)
  ELSE [p EXCEPT !.aliases = (n :> ExpandAliases(p.aliases, Tail(t))) @@ @]

\* a bare output takes the text of the alias of its name
ReadOutput(p, n, t) ==
  LET text == IF t = <<>> THEN p.aliases[n] ELSE ExpandAliases(p.aliases, Tail(t))
  IN IF \/ n \in {p.raw.outputs[i].name : i \in DOMAIN p.raw.outputs}
        \/ t = <<>> /\ n \notin DOMAIN p.aliases
        \/ t # <<>> /\ t[1] # "="
     THEN Fail(p)
     ELSE [p EXCEPT !.raw.outputs = Append(@, [name |-> n, text |-> text])]

(***************************************************************************)
(* The program                                                             *)
(***************************************************************************)
BlockWords == {"object", "model", "region", "histogram"}
Braces == [open |-> {"{"}, close |-> {"}"}]

\* where the first declaration of t ends, 0 if it does not
DeclarationEnd(t) ==
  LET ends == IF t[1] \in BlockWords
              THEN {i \in DOMAIN t : t[i] = "}" /\ Depth(t, i + 1, Braces) = 0}
              ELSE TopLevel(t, {";"}, Square)
  IN IF ends = {} THEN 0 ELSE Min(ends)

Read(p, d) ==
  LET n == d[2]
      open == Min({i \in DOMAIN d : d[i] = "{"})
      header == SubSeq(d, 3, open - 1)
      body == SubSeq(d, open + 1, Len(d) - 1)
      rest == SubSeq(d, 3, Len(d) - 1)
  IN CASE Len(d) < 3 \/ ~IsWord(<<d[2]>>)      -> Fail(p)
       [] d[1] = "analysis" -> IF p.analysis \/ ~Keyed(rest, {"year"}) THEN Fail(p)
                               ELSE [p EXCEPT !.analysis = TRUE]
       [] d[1] = "object"   -> IF Keyed(header, {":"}) THEN ReadObject(p, n, Tail(header), body) ELSE Fail(p)
       [] d[1] = "model"    -> IF header = <<>> THEN ReadModel(p, n, body) ELSE Fail(p)
       [] d[1] = "region"   -> IF header = <<>> THEN ReadRegion(p, n, body) ELSE Fail(p)
       [] d[1] = "histogram" -> IF header = <<>> THEN ReadHistogram(p, n, body) ELSE Fail(p)
       [] d[1] \in {"define", "alias"} -> ReadAlias(p, n, rest)
       [] d[1] = "output"   -> ReadOutput(p, n, rest)
       [] d[1] = "weight"   -> ReadWeight(p, SubSeq(d, 2, Len(d) - 1))
       [] d[1] = "systematic" -> ReadSystematic(p, n, rest)
       [] d[1] = "correction" -> ReadCorrection(p, n, rest)
       [] OTHER -> Fail(p)

RECURSIVE ReadAll(_, _)
ReadAll(p, t) ==
  IF t = <<>> \/ ~p.ok THEN p
  ELSE IF DeclarationEnd(t) = 0 THEN Fail(p)
  ELSE ReadAll(Read(p, SubSeq(t, 1, DeclarationEnd(t))), After(t, DeclarationEnd(t)))

\* definitions in the order of names
Reorder(defs, names) == [i \in DOMAIN names |-> LET n == names[i] IN CHOOSE d \in {defs[j] : j \in DOMAIN defs} : d.name = n]

\* for the mutant runs: derived objects stay in the order of the alphabet
DeclaredOrder_ObjectsOnly(s, order) ==
  [s EXCEPT !.objects = Reorder(@, order.objects), !.regions = Reorder(@, order.regions)]

DeclaredOrder(s, order) ==
  [s EXCEPT !.objects = Reorder(@, order.objects), !.derived = Reorder(@, order.derived),
            !.regions = Reorder(@, order.regions)]

Ordered(r, order) == IF Parsed(r) THEN [r EXCEPT !.spec = DeclaredOrder(@, order)] ELSE NoParse
ParseCollected(p) == IF p.ok /\ p.analysis THEN Ordered(ParseRaw(p.raw), p.order) ELSE NoParse
ParseAdl(t) == ParseCollected(ReadAll(NewParser, t))

(***************************************************************************)
(* Writing                                                                 *)
(***************************************************************************)
Joined(seq, Text(_)) ==
  Flat([i \in DOMAIN seq |-> (IF i = 1 THEN <<>> ELSE <<",">>) \o Text(seq[i])])
WordText(w) == <<w>>
EachText(seq, Text(_)) == Flat([i \in DOMAIN seq |-> Text(seq[i])])
Block(head, body) == head \o <<"{">> \o body \o <<"}">>
FilterText(f) == <<"filter">> \o CutToText(f) \o <<";">>

ObjectText(o) == Block(<<"object", o.name, ":", o.source>>,
                       EachText(o.cuts, LAMBDA c : CutToText(c) \o <<";">>))
ModelText(m) ==
  Block(<<"model", m.name>>,
        <<"inputs">> \o Joined(Sorted({TokenOf(BranchNamed, b) : b \in m.inputs}), WordText)
        \o <<";", "output", TokenOf(BranchNamed, m.output), ";", "batch", m.batch, ";",
             "provider", m.provider.kind, ";">>)

SelectionText(d) ==
  CASE d.select = "leading"   -> <<"selection", "leading_pt">>
    [] d.select = "nearest"   -> <<"nearest_mass">> \o QuantityText(d.target)
    [] d.select = "truncated" -> <<"nearest_mass_truncated">> \o QuantityText(d.target)

DerivedText(d) ==
  IF d.kind = "candidate"
  THEN Block(<<"object", d.name, ":", "combine", "(">> \o Joined(d.items, WordText) \o <<")">>,
             EachText(d.filters, FilterText))
  ELSE Block(<<"object", d.name, ":", "pair", "(", d.object, ")">>,
             (IF d.opposite THEN <<"opposite_charge", ";">> ELSE <<>>)
             \o SelectionText(d) \o <<";">>
             \o (IF d.exclude = {} THEN <<>>
                 ELSE <<"exclude">> \o Joined(Sorted(d.exclude), WordText) \o <<";">>)
             \o EachText(d.filters, FilterText))

RegionText(r) == Block(<<"region", r.name>>, EachText(r.require, LAMBDA c : CutToText(c) \o <<";">>))
HistogramText(h) ==
  Block(<<"histogram", h.name>>,
        <<"expr", "=">> \o ExprToText(h.expr) \o <<";", "bins", "=">> \o NumberText(h.bins)
        \o <<";", "range", "=", "[">> \o NumberText(h.lo) \o <<",">> \o NumberText(h.hi) \o <<"]", ";">>)

WeightText(s) == <<"weight", "nominal">>
                 \o (IF s.nominal = <<>> THEN <<>> ELSE <<"[">> \o Joined(s.nominal, NumberText) \o <<"]">>)
                 \o <<";">>
SystematicText(d) == <<"systematic", d.name, "kind", "weight", "up">> \o NumberText(d.up)
                     \o <<"down">> \o NumberText(d.down) \o <<";">>

InputText(i) == <<"input", i.name>>
                \o (IF i.literal = "no" THEN <<"from", i.from>> ELSE <<"value">> \o NumberText(i.value))
ShapeText(c) ==
  <<"correction", c.name, "kind">>
  \o (IF c.payload = "scale"
      THEN <<"scale", "collection", c.collection, "attr", c.attr, "up">> \o NumberText(c.up)
           \o <<"down">> \o NumberText(c.down)
      ELSE <<"jes", "correction", c.payload, "collection", c.collection, "attr", c.attr>>
           \o EachText(c.inputs, InputText))
  \o <<";">>
ScaleFactorText(c) ==
  <<"correction", c.name, "kind", "scale_factor", "correction", c.payload, "collection", c.collection>>
  \o EachText(c.inputs, InputText)
  \o (IF c.systematic = NotGiven THEN <<>>
      ELSE <<"systematic", c.systematic, "nominal">> \o NumberText(c.nominal) \o <<"up">> \o NumberText(c.up)
           \o <<"down">> \o NumberText(c.down))
  \o <<";">>

\* what to_adl_string panics on otherwise
Representable(s) ==
  /\ s.channels = <<>> /\ ~s.lumi.on
  /\ All(s.models, LAMBDA m : m.provider.kind \in Providers /\ ~m.provider.configured)
  /\ All(s.shapes, LAMBDA c : c.attr = "pt" /\ All(c.inputs, LAMBDA i : i.literal = "no"))
  /\ Len(WeightSystematics(s)) <= 1
  /\ \E i \in DOMAIN s.systematics : s.systematics[i].kind = "nominal"

ToAdl(s) ==
  <<"analysis", "demo", "year", "Run2018", ";">> \o WeightText(s)
  \o EachText(WeightSystematics(s), SystematicText)
  \o EachText(s.shapes, ShapeText) \o EachText(s.sfs, ScaleFactorText)
  \o EachText(s.objects, ObjectText) \o EachText(s.models, ModelText)
  \o EachText(s.derived, DerivedText) \o EachText(s.regions, RegionText)
  \o EachText(s.outputs, LAMBDA o : <<"output", o.name, "=">> \o ExprToText(o.expr) \o <<";">>)
  \o EachText(s.histograms, HistogramText)
=============================================================================
