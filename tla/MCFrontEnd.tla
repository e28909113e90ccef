------------------------------ MODULE MCFrontEnd ------------------------------
(***************************************************************************)
(* Drafts, slips, edits, specs and their revisions for the front end.      *)
(* Five drafts: cuts, counts and leading values; four-lepton pairs and     *)
(* candidates; sums and predicates; one with an output named like a        *)
(* misspelt attribute and a pair named like an object; and one with two    *)
(* objects of each collection, pairs of both and histograms of either.     *)
(***************************************************************************)
EXTENDS FrontEnd, SpecExamples
LOCAL INSTANCE TLC
LOCAL INSTANCE SequencesExt

Line(section, name, key, line) == [at |-> <<section, name, key>>, line |-> line]
Output(n, name, expr) ==
  <<Line("outputs", n, "name", <<name>>), Line("outputs", n, "expr", expr)>>

Counts ==
  <<Line("objects", "mu", "source", <<"Mu">>),
    Line("objects", "mu", "cuts", <<"pt", ">=", "4", "GeV", "|", "abs", "(", "eta", ")", "<", "2">>),
    Line("objects", "jet", "source", <<"Jet">>),
    Line("regions", "sr", "require", <<"count", "(", "mu", ")", ">=", "1">>)>>
  \o Output("1", "n", <<"count", "(", "jet", ",", "pt", ">", "4", "GeV", ")">>)
  \o Output("2", "pt", <<"leading", "(", "mu", ")", ".", "pt">>)
  \o <<Line("histogram", "1", "name", <<"h1">>), Line("histogram", "1", "expr", <<"count", "(", "jet", ")">>),
       Line("histogram", "1", "bins", <<"2">>), Line("histogram", "1", "range", <<"0", "|", "10">>)>>

Leptons ==
  <<Line("objects", "mu", "source", <<"Mu">>),
    Line("derived", "z1", "kind", <<"pair">>), Line("derived", "z1", "object", <<"mu">>),
    Line("derived", "z1", "constraints", <<"opposite_charge">>),
    Line("derived", "z1", "filters", <<"leading_pt", ">=", "4", "GeV">>),
    Line("derived", "z1", "selection", <<"nearest_mass">>), Line("derived", "z1", "target", <<"9", "GeV">>),
    Line("derived", "z2", "kind", <<"pair">>), Line("derived", "z2", "object", <<"mu">>),
    Line("derived", "z2", "exclude", <<"z1">>), Line("derived", "z2", "filters", <<"dR", ">", "1">>),
    Line("derived", "h", "kind", <<"combine">>), Line("derived", "h", "items", <<"z1", "|", "z2">>),
    Line("derived", "h", "filters", <<"min_dR", ">", "1">>),
    Line("regions", "sr", "require", <<"z1", ".", "mass", ">", "4", "GeV", "|", "h", ".", "mass", ">=", "9", "GeV">>)>>
  \o Output("1", "m1", <<"closest_mass", "(", "z1", ",", "z2", ",", "9", "GeV", ")">>)

Totals ==
  <<Line("objects", "jet", "source", <<"Jet">>),
    Line("objects", "jet", "cuts", <<"pt", ">", "1", "GeV", "|", "pt", ">", "4", "GeV">>),
    Line("regions", "sr", "require", <<"any", "(", "jet", ",", "pt", ">", "4", "GeV", ")", "|", "HLT">>),
    Line("regions", "cr", "require", <<"sum", "(", "jet", ".", "pt", ")", "/", "leading", "(", "jet", ")", ".", "pt", ">=", "2">>),
    Line("regions", "tail", "require", <<"sum", "(", "jet", ".", "pt", ")", ">=", "9", "GeV">>)>>
  \o Output("1", "n", <<"sum", "(", "jet", ".", "pt", ")", "-", "2", "*", "leading", "(", "jet", ")", ".", "pt">>)

Named ==
  <<Line("objects", "mu", "source", <<"Mu">>), Line("objects", "mu", "cuts", <<"pt", ">", "4", "GeV">>),
    Line("derived", "mumu", "kind", <<"pair">>), Line("derived", "mumu", "object", <<"mu">>),
    Line("regions", "sr", "require", <<"mumu", ".", "mass", ">", "4", "GeV">>)>>
  \o Output("1", "pt1", <<"leading", "(", "mu", ")", ".", "pt">>)

Twins ==
  <<Line("objects", "loose", "source", <<"Mu">>), Line("objects", "loose", "cuts", <<"pt", ">", "4", "GeV">>),
    Line("objects", "tight", "source", <<"Mu">>), Line("objects", "tight", "cuts", <<"pt", ">", "9", "GeV">>),
    Line("objects", "jet", "source", <<"Jet">>), Line("objects", "jet", "cuts", <<"pt", ">", "4", "GeV">>),
    Line("objects", "tag", "source", <<"Jet">>), Line("objects", "tag", "cuts", <<"pt", ">", "9", "GeV">>),
    Line("derived", "z1", "kind", <<"pair">>), Line("derived", "z1", "object", <<"tight">>),
    Line("derived", "z1", "constraints", <<"opposite_charge">>),
    Line("derived", "z2", "kind", <<"pair">>), Line("derived", "z2", "object", <<"tight">>),
    Line("derived", "z2", "constraints", <<"opposite_charge">>), Line("derived", "z2", "exclude", <<"z1">>),
    Line("derived", "z2", "filters", <<"dR", ">", "1">>),
    Line("derived", "z2", "selection", <<"nearest_mass">>), Line("derived", "z2", "target", <<"9", "GeV">>),
    Line("regions", "sr", "require", <<"z1", ".", "mass", ">", "4", "GeV">>)>>
  \o Output("1", "n", <<"count", "(", "tight", ")">>)
  \o <<Line("histogram", "1", "name", <<"h1">>), Line("histogram", "1", "expr", <<"count", "(", "tight", ")">>),
       Line("histogram", "1", "bins", <<"2">>), Line("histogram", "1", "range", <<"0", "|", "10">>)>>

MCDocuments == {Counts, Leptons, Totals, Named, Twins}

MCSlipsOf == ("eta" :> {"etaa"}) @@ ("pt" :> {"pt1"}) @@ ("mu" :> {"muu"}) @@ ("jet" :> {"jett"})
             @@ ("Mu" :> {"Muo"}) @@ ("mumu" :> {"muu"}) @@ ("z1" :> {"zz1"})

MCEditsOf == ("4" :> {"1"}) @@ (">=" :> {">"}) @@ ("pt" :> {"eta"}) @@ ("z1" :> {"z2"}) @@ ("2" :> {"1"})
             @@ ("jet" :> {"mu"}) @@ ("9" :> {"10"}) @@ ("Jet" :> {"Mu"}) @@ ("leading_pt" :> {"subleading_pt"})
             @@ ("opposite_charge" :> {"same_flavor"}) @@ ("tight" :> {"loose"}) @@ ("nearest_mass" :> {"nearest_mass_truncated"})

\* by Levenshtein's distance, over the longer of the two; less than 60 is 0 here
MCLikeness(x, y) ==
  LET like == ("Mu_etaa" :> ("Mu_eta" :> 86)) @@ ("Jet_etaa" :> ("Jet_eta" :> 87 @@ "Jet_pt" :> 62))
              @@ ("Mu_pt1" :> ("Mu_pt" :> 83 @@ "Mu_eta" :> 67 @@ "Mu_phi" :> 67))
              @@ ("Jet_pt1" :> ("Jet_pt" :> 86 @@ "Jet_eta" :> 71 @@ "Jet_phi" :> 71))
              @@ ("Muo_pt" :> ("Mu_pt" :> 83)) @@ ("Muo_eta" :> ("Mu_eta" :> 86))
              @@ ("Muo_phi" :> ("Mu_phi" :> 86)) @@ ("Muo_mass" :> ("Mu_mass" :> 87 @@ "Tau_mass" :> 62 @@ "Jet_mass" :> 62))
              @@ ("nMuo" :> ("nMu" :> 75)) @@ ("muu" :> ("mu" :> 67)) @@ ("jett" :> ("jet" :> 75))
  IN IF x = y THEN 100
     ELSE IF x \in DOMAIN like /\ y \in DOMAIN like[x] THEN like[x][y] ELSE 0

MCMomentumWords == {"pt", "pt1", "mass", "leading_pt", "subleading_pt", "closest_mass", "nearest_mass"}
MCDigitWords == {"z1", "z2", "zz1", "pt1", "m1", "h1"}

MCNumber == ("0" :> 0) @@ ("1" :> 1) @@ ("2" :> 2) @@ ("3" :> 3) @@ ("4" :> 4) @@ ("8" :> 8)
            @@ ("9" :> 9) @@ ("10" :> 10) @@ ("12" :> 12) @@ ("13" :> 13) @@ ("15" :> 15)
MCAlphabet == <<"cr", "h", "h1", "h2", "jet", "jett", "loose", "m1", "mu", "mumu", "muu", "n", "sr",
                "tag", "tail", "tight", "z1", "z2", "zz1",
                "Mu_charge", "Mu_pt">>
MCBranchNamed == ("Mu_pt" :> <<"Mu", "pt">>) @@ ("Mu_charge" :> <<"Mu", "charge">>)
                 @@ ("Mu_score" :> <<"Mu", "score">>)

\* a score of a model, with its cut
Scored ==
  With([objects |-> <<Object("mu", "Mu", <<Cmp(Attr("mu", "score"), "gt", Num(0))>>)>>,
        models  |-> <<[name |-> "tagger", inputs |-> {<<"Mu", "pt">>, <<"Mu", "charge">>},
                       output |-> <<"Mu", "score">>, batch |-> "mu",
                       provider |-> [kind |-> "mock", configured |-> FALSE]]>>,
        outputs |-> <<Out("n", Lead("mu", "score"))>>])

\* derived objects that are declared against the order of the alphabet
Backwards == With([derived |-> <<Z2, Cand("h", <<"z1", "z2">>, <<>>), Z1>>, outputs |-> <<Out("m1", Other("z1", "z2"))>>])

\* two objects of one collection, with pairs, a combination and histograms of either
Families ==
  With([objects |-> <<Object("loose", "Mu", <<Cmp(Attr("loose", "pt"), "ge", GeV(4))>>),
                      Object("tight", "Mu", <<Cmp(Attr("tight", "pt"), "ge", GeV(9))>>), Jet>>,
        derived |-> <<[Z1 EXCEPT !.object = "tight"], [Z2 EXCEPT !.object = "tight"],
                      Cand("h", <<"z1", "z2">>, <<>>)>>,
        regions |-> <<[Some("tight") EXCEPT !.name = "cr"],
                      Region(<<Cmp(Attr("h", "mass"), "gt", GeV(4)), Cmp(Attr("z1", "mass"), "gt", GeV(4))>>)>>,
        outputs |-> <<Out("n", Count("tight")), Out("m1", Closest("z1", "z2"))>>,
        histograms |-> <<Hist("h1", CountWhere("tight", Cmp(Attr("tight", "eta"), "lt", Num(2)))),
                         Hist("h2", Other("z1", "z2"))>>])

MCSpecs == {Scored, Backwards, Families}
           \cup {Examples[n] : n \in {"counts", "weights", "late", "mixed", "shapes", "jes", "cand", "pairpt",
                                      "trigger", "union", "literal", "single"}}

(***************************************************************************)
(* Revisions: one part of a spec is changed                                *)
(***************************************************************************)
\* an expression about another object
RECURSIVE About(_, _)
About(o, e) ==
  CASE e.k \in {"count", "sum", "leading"} -> [e EXCEPT !.o = o]
    [] e.k \in {"countWhere", "any", "all"} -> [e EXCEPT !.o = o, !.p.lhs = About(o, @)]
    [] e.k = "attr" /\ e.o \notin {"h", "z1", "z2"} -> [e EXCEPT !.o = o]
    [] e.k = "eitherPairPt" -> [e EXCEPT !.l = o]
    [] e.k \in {"closestMass", "otherMass"} -> [e EXCEPT !.l = e.r, !.r = e.l]
    [] e.k \in {"bin"} -> [e EXCEPT !.l = About(o, @), !.r = About(o, @)]
    [] e.k \in {"abs", "sqrt"} -> [e EXCEPT !.x = About(o, @)]
    [] OTHER -> e

AboutOthers(s, row) == {[row EXCEPT !.expr = About(o, @)] : o \in Names(s.objects)}

\* a sequence with one of its members changed, without its first, or turned round
Changes(seq, Variants(_)) ==
  UNION {{[seq EXCEPT ![i] = v] : v \in Variants(seq[i])} : i \in DOMAIN seq}
  \cup (IF seq = <<>> THEN {} ELSE {Tail(seq), Reverse(seq)})

ObjectVariants(o) == {[o EXCEPT !.source = c] : c \in {"Mu", "Jet"}} \cup {[o EXCEPT !.cuts = <<>>]}
DerivedVariants(s, d) ==
  {[d EXCEPT !.object = o] : o \in IF d.kind = "pair" THEN Names(s.objects) ELSE {""}}
  \cup {[d EXCEPT !.opposite = d.kind = "pair" /\ ~@], [d EXCEPT !.exclude = {}], [d EXCEPT !.filters = <<>>],
        [d EXCEPT !.items = Reverse(@)]}
  \cup (IF d.select # "nearest" THEN {} ELSE {[d EXCEPT !.select = "truncated"], [d EXCEPT !.target = GeV(12)]})
RegionVariants(s, r) ==
  {[r EXCEPT !.require = <<>>]}
  \cup {[r EXCEPT !.require = [i \in DOMAIN @ |-> [@[i] EXCEPT !.lhs = About(o, @)]]] : o \in Names(s.objects)}
OtherInput(c) == [c EXCEPT !.inputs = [i \in DOMAIN @ |-> [@[i] EXCEPT !.from = "eta"]]]
ShapeVariants(c) == {IF c.payload = "scale" THEN [c EXCEPT !.up = @ + 1] ELSE OtherInput(c)}
FactorVariants(c) ==
  {OtherInput(c)} \cup (IF c.systematic = NotGiven THEN {} ELSE {[c EXCEPT !.up = @ + 1]})
SystematicVariants(x) == IF x.kind = "weight" THEN {[x EXCEPT !.up = @ + 1]} ELSE {}
ModelVariants(m) ==
  {[m EXCEPT !.batch = "Mu"], [m EXCEPT !.inputs = {<<"Mu", "pt">>}]}
  \cup {[m EXCEPT !.provider = [kind |-> k, configured |-> TRUE]] : k \in {"mock", "remote"}}
\* a requirement moves from the last region to the first
Moved(regions) ==
  LET n == Len(regions)
      last == regions[n].require
  IN IF n < 2 \/ last = <<>> THEN regions
     ELSE [regions EXCEPT ![1].require = Append(@, last[1]), ![n].require = Tail(@)]

Revised(s) ==
  {[s EXCEPT !.objects = v] : v \in Changes(s.objects, ObjectVariants)}
  \cup {[s EXCEPT !.derived = v] : v \in Changes(s.derived, LAMBDA d : DerivedVariants(s, d))}
  \cup {[s EXCEPT !.regions = v] :
        v \in {Moved(s.regions)} \cup Changes(s.regions, LAMBDA r : RegionVariants(s, r))}
  \cup {[s EXCEPT !.outputs = v] : v \in Changes(s.outputs, LAMBDA o : AboutOthers(s, o))}
  \cup {[s EXCEPT !.histograms = v] :
        v \in Changes(s.histograms, LAMBDA h : {[h EXCEPT !.bins = 3]} \cup AboutOthers(s, h))}
  \cup {[s EXCEPT !.nominal = v] : v \in {<<>>, <<3>>}}
  \cup {[s EXCEPT !.systematics = v] : v \in Changes(s.systematics, SystematicVariants)}
  \cup {[s EXCEPT !.shapes = v] : v \in Changes(s.shapes, ShapeVariants)}
  \cup {[s EXCEPT !.sfs = v] : v \in Changes(s.sfs, FactorVariants)}
  \cup {[s EXCEPT !.models = v] : v \in Changes(s.models, ModelVariants)}
  \cup {[s EXCEPT !.lumi = v] : v \in IF s.lumi.on THEN [on : {TRUE}, certified : {{1}, {2}, {1, 2}}] ELSE {s.lumi}}
  \cup {[s EXCEPT !.channels = v] : v \in Changes(s.channels, LAMBDA c : {[c EXCEPT !.regions = <<>>]})}

\* parsing puts the nominal variation back, and those of a weight after the others
Parsable(r) ==
  LET Weights(list) == SelectSeq(list, LAMBDA x : x.kind = "weight")
      Others(list) == SelectSeq(list, LAMBDA x : x.kind # "weight")
  IN [r EXCEPT !.systematics = WithNominal(Others(@) \o Weights(@), r.shapes, r.sfs)]
MCRevisionsOf(s) == {r \in {Parsable(v) : v \in Revised(s)} \ {s} : Validate(r).errors = {}}
===============================================================================
