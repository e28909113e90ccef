------------------------------ MODULE SpecRepair ------------------------------
(***************************************************************************)
(* crates/nano-review (lib.rs): the repair of a draft's text from the      *)
(* errors of its validation, and the semantic difference of two specs.     *)
(*                                                                         *)
(* A draft is a TOML text, taken here by lines: [at, line], where at is    *)
(* <<section, name, key>> and line holds the tokens of the value, with "|" *)
(* between the strings of a list.  The tables of an array are named by     *)
(* their place in it.  Comments are left out.                              *)
(***************************************************************************)
EXTENDS SurfaceSpec
LOCAL INSTANCE SequencesExt
LOCAL INSTANCE FiniteSetsExt

CONSTANTS
  Likeness(_, _),  \* of two names: 100 for equal ones, less by each letter to change
  MomentumWords,   \* the words that contain pt, mass or energy
  DigitWords       \* the words that contain a digit

(***************************************************************************)
(* The draft as a document                                                 *)
(***************************************************************************)
Texts(line) == IF line = <<>> THEN <<>> ELSE SplitTop(line, "|", Round)

Given(doc, at) == \E i \in DOMAIN doc : doc[i].at = at
Value(doc, at) == IF Given(doc, at) THEN doc[CHOOSE i \in DOMAIN doc : doc[i].at = at].line ELSE <<>>
Word(doc, at) == IF Given(doc, at) THEN Value(doc, at)[1] ELSE NotGiven
Words(doc, at) == [i \in DOMAIN Texts(Value(doc, at)) |-> Texts(Value(doc, at))[i][1]]
NamesOf(doc, section) == {doc[i].at[2] : i \in {j \in DOMAIN doc : doc[j].at[1] = section}}

\* no key is given twice, and none is missing that has no default
IsDocument(doc) ==
  /\ \A i, j \in DOMAIN doc : i # j => doc[i].at # doc[j].at
  /\ \A o \in NamesOf(doc, "objects") : Given(doc, <<"objects", o, "source">>)
  /\ \A d \in NamesOf(doc, "derived") : Given(doc, <<"derived", d, "kind">>)
  /\ \A section \in {"outputs", "histogram"} : \A n \in NamesOf(doc, section) :
       Given(doc, <<section, n, "name">>) /\ Given(doc, <<section, n, "expr">>)

RawDerived(doc, d) ==
  LET At3(key) == <<"derived", d, key>>
  IN [kind |-> Word(doc, At3("kind")), object |-> Word(doc, At3("object")),
      items |-> Words(doc, At3("items")), constraints |-> Words(doc, At3("constraints")),
      filters |-> Texts(Value(doc, At3("filters"))), selection |-> Word(doc, At3("selection")),
      target |-> Value(doc, At3("target")), exclude |-> Words(doc, At3("exclude"))]

\* the tables of an array in their order
Tables(doc, section) ==
  LET first == SelectSeq(doc, LAMBDA row : row.at[1] = section /\ row.at[3] = "name")
  IN [i \in DOMAIN first |-> first[i].at[2]]

RawOfDocument(doc) ==
  LET outputs == Tables(doc, "outputs")
      hists   == Tables(doc, "histogram")
      Expr(section, n) == Value(doc, <<section, n, "expr">>)
      Numbers(n, key) == LET words == Words(doc, <<"histogram", n, key>>)
                         IN [i \in DOMAIN words |-> Number[words[i]]]
  IN [EmptyRaw EXCEPT
        !.objects = [o \in NamesOf(doc, "objects") |->
                       [source |-> Word(doc, <<"objects", o, "source">>),
                        cuts   |-> Texts(Value(doc, <<"objects", o, "cuts">>))]],
        !.derived = [d \in NamesOf(doc, "derived") |-> RawDerived(doc, d)],
        !.regions = [r \in NamesOf(doc, "regions") |-> Texts(Value(doc, <<"regions", r, "require">>))],
        !.outputs = [i \in DOMAIN outputs |-> [name |-> Word(doc, <<"outputs", outputs[i], "name">>),
                                               text |-> Expr("outputs", outputs[i])]],
        !.histograms = [i \in DOMAIN hists |->
                          [name |-> Word(doc, <<"histogram", hists[i], "name">>),
                           text |-> Expr("histogram", hists[i]),
                           bins |-> Numbers(hists[i], "bins")[1],
                           lo |-> Numbers(hists[i], "range")[1], hi |-> Numbers(hists[i], "range")[2]]]]

\* parse_spec_auto: what is no TOML is no YAML and no JSON either
ParseSpec(doc) == IF IsDocument(doc) THEN ParseRaw(RawOfDocument(doc)) ELSE NoParse

\* what is known of a draft: its spec, its errors and the branches it reads; a
\* text that does not parse has one error, which nothing repairs
Judged(spec, v) == [spec |-> spec, errors |-> v.errors, reads |-> v.reads]
ValidateParsed(r) ==
  IF Parsed(r) THEN Judged(r.spec, Validate(r.spec))
  ELSE [spec |-> NoParse, errors |-> {<<"Parse">>}, reads |-> {}]
ParseAndValidate(doc) == ValidateParsed(ParseSpec(doc))

(***************************************************************************)
(* Suggestions                                                             *)
(***************************************************************************)
Spelled(branch) ==
  CASE branch[1] = "event" -> branch[2]
    [] branch[1] = "n"     -> "n" \o branch[2]
    [] OTHER               -> branch[1] \o "_" \o branch[2]

\* of candidates with their spellings the one most like a word; of equally like
\* ones, which the code puts in the order of the alphabet, any
Nearest(word, spelling) ==
  CHOOSE c \in DOMAIN spelling : \A d \in DOMAIN spelling : Likeness(word, spelling[c]) >= Likeness(word, spelling[d])

NearestBranch(b) == Nearest(Spelled(b), [c \in DOMAIN Catalogue |-> Spelled(c)])

NoSuggestion == [kind |-> "none", confidence |-> 0]
Rename(old, new, confidence) == [kind |-> "rename", old |-> old, new |-> new, confidence |-> confidence]

\* for the mutant runs: the attribute is replaced by the whole name of the branch
BranchSuggestion_WholeBranch(b) ==
  LET c == NearestBranch(b)
  IN Rename(b[2], Spelled(c), Likeness(Spelled(b), Spelled(c)))

\* in the collection that was meant only the attribute is replaced
BranchSuggestion(b) ==
  LET c == NearestBranch(b)
      confidence == Likeness(Spelled(b), Spelled(c))
  IN IF b[1] = c[1] /\ b[1] \notin {"n", "event"} THEN Rename(b[2], c[2], confidence)
     ELSE Rename(Spelled(b), Spelled(c), confidence)

ObjectSuggestion(spec, o) ==
  IF spec.objects = <<>> THEN NoSuggestion
  ELSE LET c == Nearest(o, [n \in Names(spec.objects) |-> n]) IN Rename(o, c, Likeness(o, c))

SuggestionFor(spec, error) ==
  CASE error[1] = "MissingBranch"   -> BranchSuggestion(error[2])
    [] error[1] = "MissingUnit"     -> [kind |-> "unit", place |-> error[2], confidence |-> 70]
    [] error[1] = "UndefinedObject" -> ObjectSuggestion(spec, error[2])
    [] OTHER                        -> NoSuggestion

Threshold == 60
\* the suggestions of one round that are confident enough to be applied, one
\* for each error except that one misspelt twice, or the same comparison twice in
\* the same kind of place, has one
SuggestRepairs(loaded) ==
  {s \in {SuggestionFor(loaded.spec, e) : e \in loaded.errors} : s.confidence >= Threshold}

(***************************************************************************)
(* Applying one                                                            *)
(***************************************************************************)
Renamed(word, old, new) == IF word = old THEN new ELSE word

\* every equal word of the text, the names of tables too
ReplaceIdentifier(doc, old, new) ==
  [i \in DOMAIN doc |->
     [at   |-> [doc[i].at EXCEPT ![2] = Renamed(@, old, new)],
      line |-> [j \in DOMAIN doc[i].line |-> Renamed(doc[i].line[j], old, new)]]]

\* a comparison is looked for in this order, and ">" is found in ">=" too
Operators == <<">=", "<=", "==", "!=", ">", "<">>
Spellings(op) == CASE op = ">" -> {">", ">="} [] op = "<" -> {"<", "<="} [] OTHER -> {op}

\* a line gets its unit after the first digits behind the first operator of
\* Operators that has any; an operator with a unit behind it ends the search
AddUnitToLine(line) ==
  LET First(op)  == Min({i \in DOMAIN line : line[i] \in Spellings(op)} \cup {Len(line) + 1})
      Behind(op, words) == {j \in First(op) + 1 .. Len(line) : line[j] \in words}
      Digits(op) == Behind(op, DOMAIN Number \cup DigitWords)
      decisive == {n \in DOMAIN Operators : Behind(Operators[n], {"GeV"}) \cup Digits(Operators[n]) # {}}
      op == Operators[Min(decisive)]
  IN IF decisive = {} \/ Behind(op, {"GeV"}) # {} THEN line
     ELSE InsertAt(line, Min(Digits(op)) + 1, "GeV")

AboutMomentum(line) == \E i \in DOMAIN line : line[i] \in MomentumWords

\* the first line about a momentum that takes a unit
AddMissingUnit(doc) ==
  LET lines == {i \in DOMAIN doc : AboutMomentum(doc[i].line) /\ AddUnitToLine(doc[i].line) # doc[i].line}
  IN IF lines = {} THEN doc ELSE [doc EXCEPT ![Min(lines)].line = AddUnitToLine(@)]

ApplyReplacement(doc, s) ==
  IF s.kind = "unit" THEN AddMissingUnit(doc) ELSE ReplaceIdentifier(doc, s.old, s.new)

(***************************************************************************)
(* The semantic difference of two accepted specs.  A change is what is     *)
(* listed: names added and removed, and names whose definitions differ.    *)
(***************************************************************************)
ByName(seq) == [n \in Names(seq) |-> seq[Max({i \in DOMAIN seq : seq[i].name = n})]]
DiffNames(a, b) == [added |-> b \ a, removed |-> a \ b]

\* for the mutant runs: cuts are told apart by what they cut on alone
CutKey_NoOperator(c) == c.lhs
CutKey(c) == <<c.lhs, c.op>>

\* of cuts with the same key the last one is compared
CutMap(cuts) ==
  [key \in {CutKey(cuts[i]) : i \in DOMAIN cuts} |->
     cuts[Max({i \in DOMAIN cuts : CutKey(cuts[i]) = key})].rhs]

\* of two functions from names
Difference(olds, news) ==
  <<DiffNames(DOMAIN olds, DOMAIN news),
    {n \in DOMAIN olds \cap DOMAIN news : olds[n] # news[n]}>>

DiffObjects(a, b) ==
  LET Cuts(objects) == [n \in Names(objects) |-> CutMap(ByName(objects)[n].cuts)]
  IN Difference(Cuts(a), Cuts(b))
DiffRegions(a, b) ==
  LET Requirements(regions) == [n \in Names(regions) |-> ByName(regions)[n].require]
  IN Difference(Requirements(a), Requirements(b))
DiffOutputs(a, b) ==
  LET Exprs(outputs) == [n \in Names(outputs) |-> ByName(outputs)[n].expr]
  IN Difference(Exprs(a), Exprs(b))
DiffModels(a, b) == Difference(ByName(a), ByName(b))

SemanticDiff(a, b, readsA, readsB) ==
  [objects |-> DiffObjects(a.objects, b.objects),
   regions |-> DiffRegions(a.regions, b.regions),
   outputs |-> DiffOutputs(a.outputs, b.outputs),
   models  |-> DiffModels(a.models, b.models),
   reads   |-> DiffNames(readsA, readsB)]
===============================================================================
