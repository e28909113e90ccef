----------------------------- MODULE SpecExamples -----------------------------
(***************************************************************************)
(* Analysis specs to check crates/nano-spec with, and the catalogue they   *)
(* are validated against: small versions of the specs the repository ships *)
(* and fuzzes.  Counts and leading values, weights and scale factors,      *)
(* shape variations, pairs and four-lepton candidates, triggers and        *)
(* certified lumi sections, and unions; some are refused, each for one     *)
(* reason.                                                                 *)
(***************************************************************************)
EXTENDS AnalysisSpec
LOCAL INSTANCE TLC

GeV(v) == [v |-> v, u |-> "GeV"]
Num(v) == [v |-> v, u |-> "one"]
Cmp(lhs, op, rhs) == [lhs |-> lhs, op |-> op, rhs |-> rhs]
Attr(o, a) == [k |-> "attr", o |-> o, a |-> a]
Lead(o, a) == [k |-> "leading", o |-> o, a |-> a]
Total(o, a) == [k |-> "sum", o |-> o, a |-> a]
Count(o) == [k |-> "count", o |-> o]
CountWhere(o, p) == [k |-> "countWhere", o |-> o, p |-> p]
Exists(o, p) == [k |-> "any", o |-> o, p |-> p]
Every(o, p) == [k |-> "all", o |-> o, p |-> p]
Bin(op, l, r) == [k |-> "bin", op |-> op, l |-> l, r |-> r]
Size(x) == [k |-> "abs", x |-> x]
SquareRoot(x) == [k |-> "sqrt", x |-> x]
Lit(v) == [k |-> "lit", v |-> v]
Scalar(b) == [k |-> "scalar", b |-> b]
EitherPt(l, r, lead, sub) ==
  [k |-> "eitherPairPt", l |-> l, r |-> r, lead |-> GeV(lead), sub |-> GeV(sub)]
Closest(l, r) == [k |-> "closestMass", l |-> l, r |-> r, t |-> GeV(9)]
Other(l, r) == [k |-> "otherMass", l |-> l, r |-> r, t |-> GeV(9)]
Filter(k) == [k |-> k]

Object(o, source, cuts) == [name |-> o, source |-> source, cuts |-> cuts]
Mu == Object("mu", "Mu", <<>>)
HardMu == Object("mu", "Mu", <<Cmp(Attr("mu", "pt"), "ge", GeV(4))>>)
Jet == Object("jet", "Jet", <<Cmp(Size(Attr("jet", "eta")), "lt", Num(2))>>)
Pair(d, select, target, exclude, filters) ==
  [name |-> d, kind |-> "pair", object |-> "mu", select |-> select, target |-> GeV(target),
   opposite |-> TRUE, filters |-> filters, exclude |-> exclude, items |-> <<>>]
Cand(d, items, filters) ==
  [name |-> d, kind |-> "candidate", object |-> "", select |-> "", target |-> GeV(0),
   opposite |-> FALSE, filters |-> filters, exclude |-> {}, items |-> items]
Region(requirements) == [name |-> "sr", require |-> requirements]
Some(o) == Region(<<Cmp(Count(o), "ge", Num(1))>>)
Out(n, e) == [name |-> n, expr |-> e]
Hist(n, e) == [name |-> n, expr |-> e, bins |-> 2, lo |-> 0, hi |-> 10]
WeightSyst(n) == [kind |-> "weight", name |-> n, up |-> 3, down |-> 2]
Nominal == [kind |-> "nominal", name |-> "nominal"]
From(n) == [name |-> n, from |-> n, literal |-> "no", value |-> 0]
Sf(n, payload, inputs, systematic) ==
  LET Given(v) == IF systematic = "none" THEN 0 ELSE v
  IN [name |-> n, collection |-> "mu", payload |-> payload, inputs |-> inputs,
      systematic |-> systematic, up |-> Given(3), down |-> Given(2), nominal |-> Given(1)]
Shape(n, payload, a, inputs) ==
  LET Given(v) == IF payload = "scale" THEN v ELSE 0
  IN [name |-> n, collection |-> "mu", attr |-> a, payload |-> payload, inputs |-> inputs,
      up |-> Given(3), down |-> Given(2)]

Flatten == [objects |-> <<Mu>>, derived |-> <<>>, models |-> <<>>, regions |-> <<Some("mu")>>,
            outputs |-> <<Out("n", Count("mu"))>>, histograms |-> <<>>, nominal |-> <<>>,
            systematics |-> <<>>, shapes |-> <<>>, sfs |-> <<>>, channels |-> <<>>,
            lumi |-> [on |-> FALSE, certified |-> {}]]
With(changes) ==
  LET parsed == [f \in DOMAIN Flatten |-> IF f \in DOMAIN changes THEN changes[f] ELSE Flatten[f]]
  IN [parsed EXCEPT !.systematics = WithNominal(@, parsed.shapes, parsed.sfs)]

Z1 == Pair("z1", "nearest", 15, {}, <<Cmp(Filter("pairLeadingPt"), "ge", GeV(4))>>)
Z2 == Pair("z2", "leading", 0, {"z1"}, <<>>)
Channel(n, regions, candidates) ==
  [name |-> n, objects |-> <<Mu>>, derived |-> candidates, regions |-> regions,
   outputs |-> <<Out("n", Count("mu")), Out("pt", Lead("mu", "pt"))>>]

Examples == [
  counts |-> With([objects |-> <<HardMu, Jet>>,
                   outputs |-> <<Out("n", Count("mu")), Out("pt", Lead("mu", "pt")),
                                 Out("jets", CountWhere("jet", Cmp(Attr("jet", "pt"), "gt", GeV(4))))>>]),
  weights |-> With([objects |-> <<HardMu>>, nominal |-> <<2>>,
                    systematics |-> <<WeightSyst("muScale")>>,
                    sfs |-> <<Sf("id", "muSF", <<From("pt")>>, "none")>>,
                    outputs |-> <<Out("n", Count("mu")), Out("pt", Lead("mu", "pt"))>>,
                    histograms |-> <<Hist("h1", Count("mu")), Hist("h2", Lead("mu", "pt"))>>]),
  twoLeads |-> With([objects |-> <<HardMu, Jet>>, systematics |-> <<WeightSyst("muScale")>>,
                     histograms |-> <<Hist("h1", Lead("mu", "pt")), Hist("h2", Lead("jet", "pt"))>>,
                     outputs |-> <<Out("mu_pt", Lead("mu", "pt")), Out("jet_pt", Lead("jet", "pt"))>>]),
  late |-> With([regions |-> <<Region(<<>>)>>, systematics |-> <<WeightSyst("muScale")>>,
                 outputs |-> <<Out("n", Count("mu")), Out("pt", Lead("mu", "pt"))>>,
                 histograms |-> <<Hist("h1", Count("mu"))>>]),
  factors |-> With([sfs |-> <<Sf("sf", "muSFsyst", <<From("pt")>>, "syst"),
                              Sf("pile", "rhoSF", <<From("rho")>>, "none")>>,
                    histograms |-> <<Hist("h1", Count("mu"))>>]),
  mixed |-> With([systematics |-> <<WeightSyst("muScale")>>,
                  sfs |-> <<Sf("sf", "muSFsyst", <<From("pt")>>, "syst")>>,
                  histograms |-> <<Hist("h1", Count("mu"))>>]),
  shapes |-> With([objects |-> <<HardMu>>, shapes |-> <<Shape("jes", "scale", "pt", <<>>)>>,
                   derived |-> <<Pair("z1", "truncated", 13, {}, <<>>)>>,
                   outputs |-> <<Out("pt", Lead("mu", "pt")), Out("sum", Total("mu", "pt"))>>,
                   histograms |-> <<Hist("h1", Total("mu", "pt")), Hist("h2", Attr("z1", "mass"))>>]),
  jes |-> With([objects |-> <<HardMu>>, shapes |-> <<Shape("jes", "jes", "pt", <<From("pt")>>)>>,
                outputs |-> <<Out("sum", Total("mu", "pt"))>>,
                histograms |-> <<Hist("h1", Total("mu", "pt"))>>]),
  zz |-> With([derived |-> <<Z2, Cand("h", <<"z1", "z2">>, <<Cmp(Filter("candMinDeltaR"), "ge", Num(0))>>), Z1>>,
               regions |-> <<Region(<<Cmp(EitherPt("mu", "mu", 4, 0), "eq", Num(1))>>),
                             Region(<<Cmp(Attr("z2", "mass"), "gt", GeV(0)),
                                      Cmp(Closest("z1", "z2"), "ge", GeV(4))>>)>>,
               outputs |-> <<Out("m1", Closest("z1", "z2")), Out("m2", Other("z1", "z2")),
                             Out("m4", Attr("h", "mass"))>>]),
  cand |-> With([objects |-> <<Mu, Jet>>, derived |-> <<Cand("h", <<"mu", "mu", "jet">>, <<Cmp(Filter("candLeadingPt"), "ge", GeV(9))>>)>>,
                 histograms |-> <<Hist("h1", Count("mu")), Hist("h2", Attr("h", "pt"))>>]),
  pairpt |-> With([objects |-> <<Mu, Jet>>,
                   regions |-> <<Region(<<Cmp(EitherPt("mu", "jet", 4, 0), "eq", Num(1))>>)>>]),
  trigger |-> With([lumi |-> [on |-> TRUE, certified |-> {1}],
                    regions |-> <<Region(<<Cmp(Scalar("HLT"), "eq", Num(1)),
                                           Cmp(Every("mu", Cmp(Attr("mu", "pt"), "gt", GeV(1))), "eq", Num(1))>>)>>,
                    outputs |-> <<Out("any", Exists("mu", Cmp(Bin("mul", Lit(2), Bin("pow", Attr("mu", "pt"), Lit(1))), "gt", GeV(8)))),
                                  Out("plus", CountWhere("mu", Cmp(Attr("mu", "charge"), "gt", Num(0))))>>]),
  union |-> [With([channels |-> <<Channel("pair", <<Region(<<Cmp(Attr("z1", "mass"), "gt", GeV(0))>>)>>, <<Z1>>),
                                  Channel("one", <<Region(<<Cmp(Count("mu"), "le", Num(2))>>)>>, <<>>)>>])
             EXCEPT !.objects = <<>>, !.regions = <<>>, !.outputs = <<>>],
  cycle |-> With([derived |-> <<Z2, Pair("z1", "nearest", 12, {"z2"}, <<>>)>>]),
  literal |-> With([regions |-> <<Region(<<Cmp(Lit(1), "gt", Num(0))>>)>>]),
  single |-> With([regions |-> <<Region(<<Cmp(Attr("mu", "pt"), "gt", GeV(4))>>)>>]),
  massShape |-> With([shapes |-> <<Shape("jes", "scale", "mass", <<>>)>>]),
  wrongUnit |-> With([regions |-> <<Region(<<Cmp(Lead("mu", "pt"), "gt", Num(4))>>)>>]),
  noCounter |-> With([objects |-> <<Object("mu", "Tau", <<>>)>>]),
  noBranch |-> With([outputs |-> <<Out("sum", Total("mu", "dxy"))>>]),
  sameAxis |-> With([systematics |-> <<Nominal, WeightSyst("muScale"), WeightSyst("mu_scale")>>,
                     histograms |-> <<Hist("h1", Count("mu"))>>]),
  schema |-> [With([channels |-> <<Channel("one", <<>>, <<>>),
                                   [Channel("none", <<>>, <<>>) EXCEPT !.outputs = <<>>]>>])
              EXCEPT !.objects = <<>>, !.regions = <<>>, !.outputs = <<>>]]

MCCatalogue ==
  [b \in {"Mu", "Jet", "Tau"} \X FourVector |-> "vecf32"]
  @@ (<<"n", "Mu">> :> "u32") @@ (<<"n", "Jet">> :> "u32") @@ (<<"n", "Tau">> :> "unsupported")
  @@ (<<"Mu", "charge">> :> "veci32") @@ (<<"Mu", "tight">> :> "vecbool")
  @@ (<<"event", "HLT">> :> "bool") @@ (<<"event", "rho">> :> "f32")
  @@ (<<"event", "run">> :> "u32") @@ (<<"event", "luminosityBlock">> :> "u32")
Input(n, kind) == [name |-> n, kind |-> kind]
MCPayloads == [muSF     |-> [inputs |-> <<Input("pt", "real")>>, real |-> TRUE],
               muSFsyst |-> [inputs |-> <<Input("pt", "real"), Input("syst", "string")>>, real |-> TRUE],
               rhoSF    |-> [inputs |-> <<Input("rho", "real")>>, real |-> TRUE],
               jes      |-> [inputs |-> <<Input("pt", "real")>>, real |-> TRUE]]
MCCamelOf == [muScale |-> "MuScale", mu_scale |-> "MuScale", sf |-> "Sf", jes |-> "Jes"]
===============================================================================
