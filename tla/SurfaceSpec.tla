----------------------------- MODULE SurfaceSpec -----------------------------
(***************************************************************************)
(* A spec as its surface formats carry it (the Raw types of lib.rs in      *)
(* crates/nano-spec): what a TOML, YAML or JSON document deserialises to   *)
(* and what the ADL parser collects.  Expressions are still text.          *)
(* analysis_spec_from_raw turns one into a typed spec or refuses it.       *)
(*                                                                         *)
(* Objects, derived objects and regions are functions from their names,    *)
(* the maps of the code, and come out in the order of the alphabet.  The   *)
(* name and the year of the analysis are left out, and the file and the    *)
(* payload of a correction are one word.  Every value is a whole number.   *)
(***************************************************************************)
EXTENDS ExprText
LOCAL INSTANCE SequencesExt
LOCAL INSTANCE TLC

CONSTANTS
  Alphabet,     \* the words that can be names, in their order
  BranchNamed   \* the name of a branch of an object -> the branch

NotGiven == "none"   \* an optional word or text that is absent
NoText == <<>>

\* a surface spec with nothing in it
EmptyRaw ==
  [objects |-> <<>>, derived |-> <<>>, models |-> <<>>, lumi |-> [on |-> FALSE, certified |-> {}],
   regions |-> <<>>, outputs |-> <<>>, histograms |-> <<>>, nominal |-> <<>>,
   systematics |-> <<>>, systematic |-> <<>>, corrections |-> <<>>, channels |-> <<>>]

All(seq, Holds(_)) == \A i \in DOMAIN seq : Holds(seq[i])
Distinct(seq) == \A i, j \in DOMAIN seq : i # j => seq[i].name # seq[j].name
Sorted(names) == SelectSeq(Alphabet, LAMBDA n : n \in names)

(***************************************************************************)
(* What is refused before anything is parsed                               *)
(***************************************************************************)
ShapeKinds == {"scale", "jes"}
OfKinds(raw, kinds) == SelectSeq(raw.corrections, LAMBDA c : c.kind \in kinds)

NamesAreSound(part) ==
  /\ \A n \in DOMAIN part.objects \cup DOMAIN part.derived \cup DOMAIN part.regions : IsWord(<<n>>)
  /\ DOMAIN part.objects \cap DOMAIN part.derived = {}

ValidateRaw(raw) ==
  /\ NamesAreSound(raw)
  /\ Len(raw.systematic) <= 1
  /\ Distinct(raw.corrections)
  /\ Len(OfKinds(raw, ShapeKinds)) <= 1
  /\ Len(OfKinds(raw, {"scale_factor"})) <= 1
  /\ Distinct(raw.channels)
  /\ All(raw.channels, LAMBDA c : NamesAreSound(c))

(***************************************************************************)
(* Parts: whether one is well-formed, and what it becomes                  *)
(***************************************************************************)
CutsParse(texts, Parse(_)) == All(texts, LAMBDA t : Parsed(Parse(t)))
CutsOf(texts, Parse(_)) == [i \in DOMAIN texts |-> Parse(texts[i]).c]

ObjectParses(raw, n) == CutsParse(raw[n].cuts, LAMBDA t : ParseComparison(t, n))
ObjectDef(raw, n) ==
  [name |-> n, source |-> raw[n].source, cuts |-> CutsOf(raw[n].cuts, LAMBDA t : ParseComparison(t, n))]

ParsePairFilter(t) == ParseComparison(t, "none")

SelectionKey == [leading_pt |-> "leading", nearest_mass |-> "nearest", nearest_mass_truncated |-> "truncated"]
Selection(d) == IF d.selection = NotGiven THEN "leading_pt" ELSE d.selection
Target(d) == IF d.target = NoText THEN [v |-> 0, u |-> "GeV"] ELSE AsQuantity(ParseQuantity(d.target))

PairParses(d) ==
  /\ d.object # NotGiven
  /\ All(d.constraints, LAMBDA c : c \in {"opposite_charge", "same_flavor"})
  /\ CutsParse(d.filters, ParsePairFilter)
  /\ Selection(d) \in DOMAIN SelectionKey
  /\ IF Selection(d) = "leading_pt" THEN d.target = NoText
     ELSE d.target # NoText /\ Parsed(ParseQuantity(d.target))

CandidateParses(d) ==
  /\ d.object = NotGiven /\ d.selection = NotGiven /\ d.target = NoText /\ d.constraints = <<>>
  /\ CutsParse(d.filters, ParseCandidateFilter)

DerivedParses(d) ==
  \/ d.kind = "pair" /\ PairParses(d)
  \/ d.kind \in {"candidate", "combine"} /\ CandidateParses(d)

DerivedDef(n, d) ==
  IF d.kind = "pair"
  THEN [name |-> n, kind |-> "pair", object |-> d.object, select |-> SelectionKey[Selection(d)],
        target |-> Target(d), opposite |-> \E i \in DOMAIN d.constraints : d.constraints[i] = "opposite_charge",
        filters |-> CutsOf(d.filters, ParsePairFilter),
        exclude |-> {d.exclude[i] : i \in DOMAIN d.exclude}, items |-> <<>>]
  ELSE [name |-> n, kind |-> "candidate", object |-> "", select |-> "",
        target |-> [v |-> 0, u |-> "GeV"], opposite |-> FALSE,
        filters |-> CutsOf(d.filters, ParseCandidateFilter), exclude |-> {}, items |-> d.items]

RegionDef(raw, n) == [name |-> n, require |-> CutsOf(raw[n], ParseRequirement)]

ParseValue(t) == ParseExpr(t, "none", 0)
OutputDef(o) == [name |-> o.name, expr |-> ParseValue(o.text)]
HistogramDef(h) ==
  [name |-> h.name, expr |-> ParseValue(h.text), bins |-> h.bins, lo |-> h.lo, hi |-> h.hi]

Providers == {"mock", "inproc", "remote", "managed"}
ModelParses(m) == All(m.inputs, LAMBDA b : b \in DOMAIN BranchNamed) /\ m.output \in DOMAIN BranchNamed
ModelDef(m) ==
  [name |-> m.name, inputs |-> {BranchNamed[m.inputs[i]] : i \in DOMAIN m.inputs},
   output |-> BranchNamed[m.output], batch |-> m.batch,
   provider |-> [kind       |-> CASE m.provider = NotGiven   -> "mock"
                                  [] m.provider \in Providers -> m.provider
                                  [] OTHER                   -> "other",
                 configured |-> m.configured]]

(***************************************************************************)
(* Systematics and corrections                                             *)
(***************************************************************************)
GivenOnce(i) == (i.from = NotGiven) # (i.literal = "no")

CorrectionParses(c) ==
  \/ c.kind = "scale" /\ c.attr = "pt"
  \/ /\ c.kind = "jes" /\ c.attr = "pt" /\ c.payload # NotGiven /\ c.inputs # <<>>
     /\ All(c.inputs, LAMBDA i : GivenOnce(i) /\ i.from # NotGiven)
  \/ /\ c.kind = "scale_factor" /\ c.payload # NotGiven
     /\ c.inputs # <<>> \/ c.systematic # NotGiven
     /\ All(c.inputs, GivenOnce)

ShapeDef(c) ==
  [name |-> c.name, collection |-> c.collection, attr |-> c.attr,
   payload |-> IF c.kind = "scale" THEN "scale" ELSE c.payload,
   up |-> c.up, down |-> c.down, inputs |-> c.inputs]
ScaleFactorDef(c) ==
  [name |-> c.name, collection |-> c.collection, payload |-> c.payload, inputs |-> c.inputs,
   systematic |-> c.systematic, up |-> c.up, down |-> c.down, nominal |-> c.nominal]

SystematicDefs(raw) ==
  [i \in DOMAIN raw.systematics |-> [kind |-> "nominal", name |-> "nominal"]]
  \o [i \in DOMAIN raw.systematic |->
        [kind |-> "weight", name |-> raw.systematic[i].name,
         up |-> raw.systematic[i].up, down |-> raw.systematic[i].down]]

(***************************************************************************)
(* The whole                                                               *)
(***************************************************************************)
PartParses(part) ==
  /\ \A n \in DOMAIN part.objects : ObjectParses(part.objects, n)
  /\ \A n \in DOMAIN part.derived : DerivedParses(part.derived[n])
  /\ \A n \in DOMAIN part.regions : CutsParse(part.regions[n], ParseRequirement)
  /\ All(part.outputs, LAMBDA o : Parsed(ParseValue(o.text)))

RawParses(raw) ==
  /\ ValidateRaw(raw)
  /\ PartParses(raw)
  /\ All(raw.models, ModelParses)
  /\ All(raw.histograms, LAMBDA h : IsWord(<<h.name>>) /\ Parsed(ParseValue(h.text)))
  /\ All(raw.corrections, CorrectionParses)
  /\ All(raw.systematics, LAMBDA s : s \in {"nominal", "Nominal"})
  /\ All(raw.systematic, LAMBDA s : s.kind = "weight")
  /\ All(raw.channels, PartParses)

Each(seq, Def(_)) == [i \in DOMAIN seq |-> Def(seq[i])]

PartDefs(part) ==
  [objects |-> Each(Sorted(DOMAIN part.objects), LAMBDA n : ObjectDef(part.objects, n)),
   derived |-> Each(Sorted(DOMAIN part.derived), LAMBDA n : DerivedDef(n, part.derived[n])),
   regions |-> Each(Sorted(DOMAIN part.regions), LAMBDA n : RegionDef(part.regions, n)),
   outputs |-> Each(part.outputs, OutputDef)]

ChannelDef(c) == [name |-> c.name] @@ PartDefs(c)

Corrected(raw, shapes, sfs) ==
  [shapes |-> shapes, sfs |-> sfs, systematics |-> WithNominal(SystematicDefs(raw), shapes, sfs)]

SpecFromRaw(raw) ==
  PartDefs(raw)
  @@ Corrected(raw, Each(OfKinds(raw, ShapeKinds), ShapeDef),
               Each(OfKinds(raw, {"scale_factor"}), ScaleFactorDef))
  @@ [models     |-> Each(raw.models, ModelDef),
      histograms |-> Each(raw.histograms, HistogramDef),
      channels   |-> Each(raw.channels, ChannelDef),
      nominal    |-> raw.nominal, lumi |-> raw.lumi]

\* analysis_spec_from_raw
ParseRaw(raw) == IF RawParses(raw) THEN [k |-> "spec", spec |-> SpecFromRaw(raw)] ELSE NoParse
=============================================================================
