----------------------------- MODULE Certificate -----------------------------
(***************************************************************************)
(* The preservation certificate of crates/nano-spec (certificate.rs): what *)
(* `try_certify` writes down of a plan, a spec with the branches that      *)
(* validation resolved for it.  Certifying lowers the spec again, against  *)
(* a catalogue that holds nothing but these branches, and summarises the   *)
(* Core IR and the kernel IR it gets.                                      *)
(*                                                                         *)
(* The lists a certificate sorts by name are sets here, and its hashes are *)
(* the values they are computed from: two certificates are equal exactly   *)
(* when their serialised bodies are, which FNV-1a tells apart except for   *)
(* its collisions.                                                         *)
(***************************************************************************)
EXTENDS CoreIr, KirProgram

\* Core lowering against a catalogue that holds only some branches
Reduced(reads) == INSTANCE CoreIr WITH Catalogue <- [b \in reads |-> Catalogue[b]]

(***************************************************************************)
(* Branches, values, variations and corrections                            *)
(***************************************************************************)
\* the name of an event branch has no attribute part that a dimension follows
BranchDimension(b) ==
  CASE b[1] = "n"     -> "dimensionless"
    [] b[1] = "event" -> "none"
    [] OTHER          -> AttributeDimension(b[2])

BranchCertificates(reads) ==
  {[name |-> b, type |-> Catalogue[b], dimension |-> BranchDimension(b)] : b \in reads}

ValueCertificate(core, named) ==
  [name |-> named.name, type |-> core.exprs[named.id].type]

OutputCertificates(core) ==
  {ValueCertificate(core, core.outputs[i]) : i \in DOMAIN core.outputs}

HistogramCertificates(s, core) ==
  {LET h == At(s.histograms, core.histograms[i].name)
   IN [name |-> h.name, bins |-> h.bins, lo |-> h.lo, hi |-> h.hi,
       type |-> core.exprs[core.histograms[i].id].type] : i \in DOMAIN core.histograms}

Variation(name, direction, kind) == <<name, direction, kind>>
NominalVariation == Variation("Nominal", "", "nominal")

\* the declared systematics, without those of scale factors
DeclaredVariations(s) ==
  UNION {LET d == s.systematics[i]
         IN IF d.kind = "weight"
            THEN {Variation(d.name, dir, "weight") : dir \in {"up", "down"}}
            ELSE {NominalVariation} : i \in DOMAIN s.systematics}

AxisCertificate(s) ==
  LET all == DeclaredVariations(s)
             \cup {Variation(s.shapes[i].name, dir, "shape") :
                   i \in DOMAIN s.shapes, dir \in {"up", "down"}}
  IN IF all = {} THEN {NominalVariation} ELSE all

\* fixed factors for a scale, the names of the inputs of a payload otherwise
ShapeCertificate(c) ==
  [name |-> c.name, collection |-> c.collection, attr |-> c.attr, payload |-> c.payload,
   up     |-> IF c.payload = "scale" THEN c.up ELSE 0,
   down   |-> IF c.payload = "scale" THEN c.down ELSE 0,
   inputs |-> IF c.payload = "scale" THEN <<>> ELSE InputNames(c.inputs)]

ShapeCertificates(s) == {ShapeCertificate(s.shapes[i]) : i \in DOMAIN s.shapes}

WeightCertificates(s) ==
  LET weights == WeightSystematics(s)
  IN {[name |-> weights[i].name, up |-> weights[i].up, down |-> weights[i].down] :
      i \in DOMAIN weights}

ModelCertificates(s) ==
  {[model |-> s.models[i].name, output |-> s.models[i].output, batch |-> s.models[i].batch,
    inputs |-> s.models[i].inputs, provider |-> s.models[i].provider.kind] : i \in DOMAIN s.models}

(***************************************************************************)
(* The stages                                                              *)
(***************************************************************************)
\* for the mutant runs: expressions are written down by their types alone
CoreSummary_TypesOnly(s, core) ==
  [objects |-> core.objects, regions |-> core.regions,
   exprs   |-> [i \in DOMAIN core.exprs |-> core.exprs[i].type],
   outputs |-> core.outputs, histograms |-> core.histograms, effects |-> core.effects]

CoreSummary(s, core) ==
  [objects |-> core.objects, regions |-> core.regions,
   models  |-> [i \in DOMAIN s.models |-> <<s.models[i].name, s.models[i].output>>],
   exprs   |-> core.exprs, outputs |-> core.outputs, histograms |-> core.histograms,
   effects |-> core.effects]

\* a statement as it is written down: an object, derived object or histogram
\* is its name alone, a lumi mask the number of its runs
StatementText(st) ==
  CASE st.op = "let" /\ st.rv \in {"select", "derive"} -> <<"let", st.id, st.type, st.rv, st.arg.name>>
    [] st.op = "let" /\ st.rv = "lumi" -> <<"let", st.id, st.type, st.rv, Cardinality(st.arg)>>
    [] st.op = "let" /\ st.rv \notin {"select", "derive", "lumi"}
                                       -> <<"let", st.id, st.type, st.rv, st.arg>>
    [] st.op \in {"require", "fill", "return"} -> <<st.op, st>>
    [] st.op = "foreach"               -> <<"foreach", st.item>>

BlockStatements(block) ==
  Flat([i \in DOMAIN block |->
          <<StatementText(block[i])>>
          \o (IF block[i].op # "foreach" THEN <<>>
              ELSE [j \in DOMAIN block[i].body |-> StatementText(block[i].body[j])])])

HistogramsByDef(s) ==
  [i \in DOMAIN s.histograms |->
     LET h == s.histograms[i] IN [name |-> h.name, bins |-> h.bins, lo |-> h.lo, hi |-> h.hi]]

NameList(seq) == [i \in DOMAIN seq |-> seq[i].name]

\* the kernel IR of the plan, or of its Core IR when the plan does not lower
KirSummary(p, core) ==
  LET s == p.spec
  IN IF Lowers(p)
     THEN [reads |-> BranchCertificates(p.reads), objects |-> NameList(s.objects),
           derived |-> NameList(s.derived), regions |-> NameList(s.regions),
           outputs |-> NameList(s.outputs), histograms |-> HistogramsByDef(s),
           systematics |-> DeclaredVariations(s),
           shapes |-> [i \in DOMAIN s.shapes |-> ShapeCertificate(s.shapes[i])],
           statements |-> BlockStatements(ExecutableBlock(s))]
     ELSE [reads |-> {}, objects |-> NameList(s.objects), derived |-> <<>>,
           regions |-> core.regions, outputs |-> NameList(core.outputs),
           histograms |-> NameList(core.histograms),
           systematics |-> {NominalVariation}, shapes |-> <<>>,
           statements |-> <<core.exprs, core.outputs>>]

(***************************************************************************)
(* The certificate                                                         *)
(***************************************************************************)
\* for the mutant runs: only the branches of vector type are put into the
\* catalogue the plan is lowered against
PlanCore_VectorsOnly(p) ==
  Reduced({b \in p.reads : Catalogue[b] \in NumericVectors})!LowerSpec(p.spec)

PlanCore(p) == Reduced(p.reads)!LowerSpec(p.spec)

NoCertificate == [effects |-> "none"]

\* try_certify: none for a plan that no longer lowers to Core or kernel IR
CertifyCore(p, s, core) ==
  IF core.failed \/ ~CoreVerifies(core) THEN NoCertificate
  ELSE [required   |-> BranchCertificates(p.reads),
        outputs    |-> OutputCertificates(core),
        histograms |-> HistogramCertificates(s, core),
        axis       |-> AxisCertificate(s),
        shapes     |-> ShapeCertificates(s),
        weights    |-> WeightCertificates(s),
        models     |-> ModelCertificates(s),
        effects    |-> core.effects,
        stages     |-> [core |-> CoreSummary(s, core), kir |-> KirSummary(p, core)]]
Certify(p) == CertifyCore(p, p.spec, PlanCore(p))
=============================================================================
