---------------------------- MODULE SpecAgreement ----------------------------
(***************************************************************************)
(* What validation, lowering, the interpreter and the generated kernel of  *)
(* a plan promise each other (crates/nano-spec).                           *)
(***************************************************************************)
EXTENDS KirInterpreter, GeneratedKernel

TypeOK ==
  /\ name \in DOMAIN Plans /\ channel \in Channels(name) /\ filling \in BOOLEAN
  /\ \E i \in DOMAIN Axis(spec) : variant = Axis(spec)[i]
  /\ pc \in 0 .. Len(block) /\ lpc \in Nat /\ Len(loop) <= Len(Axis(spec))
  /\ DOMAIN selected \subseteq Names(spec.objects)
  /\ DOMAIN derived \subseteq Names(spec.derived)
  /\ outcome \in {"running", "row", "skipped", "rejected", "MissingBranch", "MissingObject",
                  "NotMaterialised", "InvalidExpression", "Unsupported", "LoopReturned",
                  "NoCandidate"}
  /\ Len(row) \in {0, Len(spec.outputs)}

Finished == outcome # "running"
gen == Generated(plan, event, variant, filling)

(***************************************************************************)
(* Where the two back ends are known to differ                             *)
(***************************************************************************)
\* either_pair_pt over an object whose pt nothing else makes the interpreter keep
UnreadPairPt(p) ==
  \E e \in RequirementExprs(p.spec) \cup OutputExprs(p.spec) :
    e.k = "eitherPairPt" /\ \E o \in {e.l, e.r} : "pt" \notin Materialised(p, o)

\* a histogram plan with an output or histogram value this event does not have
LateMissing(p, ev, v) ==
  LET sel == GenSelected(p, ev, v)
      der == GenDerived(p.spec, sel)
      Lacks(e) == \/ e.k = "leading" /\ sel[e.o] = <<>>
                  \/ e.k = "attr" /\ der[e.o] = None
  IN p.spec.histograms # <<>> /\ \E e \in OutputExprs(p.spec) \cup HistogramExprs(p.spec) : Lacks(e)

\* a declared weight systematic beside another weight variation
MixedWeights(p) ==
  WeightSystematics(p.spec) # <<>>
  /\ Len(WeightSystematics(p.spec)) + Len(SystematicFactors(p.spec)) > 1

\* two leading(...) values that share a variable of the emitted code
SharedLeading(p) ==
  LET unwraps == FillUnwraps(p.spec)
  IN \E i \in DOMAIN unwraps : Held(unwraps, unwraps[i].n) # unwraps[i].e

Gap == \/ UnreadPairPt(plan) \/ MixedWeights(plan) \/ SharedLeading(plan)
       \/ LateMissing(plan, event, variant)

(***************************************************************************)
(* Properties                                                              *)
(***************************************************************************)
\* The two back ends of a plan return the same row, or none, and make the same
\* fills with the same weights, in every event and for every variation
\* (docs/compiler-roadmap.md: interpret == compiled).
KernelsAgree ==
  Finished /\ Generates(plan) =>
    gen = [outcome |-> outcome, row |-> row, fills |-> fills]

\* The same, outside the four named gaps.
KernelsAgreeOutsideGaps == Finished => Gap \/ KernelsAgree

\* A plan the generator accepts never makes the interpreter fail: what one back
\* end supports (codegen's validate_supported_spec) the other evaluates, for
\* events that have every value asked of them.
SupportedNeverFails ==
  Finished /\ Generates(plan) /\ ~LateMissing(plan, event, variant)
    => outcome \in {"row", "skipped"}

\* The branches validation resolves are all an accepted plan ever reads: neither
\* the interpreter nor the generator, which decide anew what to keep of an item,
\* misses one.
ReadsSuffice == /\ outcome # "MissingBranch"
                /\ Finished /\ Generates(plan) => gen.outcome # "MissingBranch"

\* Verification of the KIR refuses an accepted plan only for what validation
\* leaves to it: a cycle of derived objects, a correction of an attribute other
\* than pt, a requirement that is no aggregate.
AcceptedLowers ==
  outcome = "rejected" =>
    \/ ~Orderable(spec)
    \/ \E i \in DOMAIN spec.shapes : spec.shapes[i].attr # "pt"
    \/ \E e \in RequirementExprs(spec) : e.k \in {"lit", "bin", "abs", "sqrt"}

\* An event that gives a row fills each histogram once for each variant of the
\* axis when only weights vary, and once, for the variant asked for, otherwise.
FilledOncePerVariant ==
  outcome = "row" /\ filling =>
    LET variants == IF LoopsOverSystematics(spec)
                    THEN {Axis(spec)[i] : i \in DOMAIN Axis(spec)} ELSE {variant}
        wanted == Names(spec.histograms) \X variants
    IN /\ {<<fills[i].h, fills[i].variant>> : i \in DOMAIN fills} = wanted
       /\ Len(fills) = Cardinality(wanted)

\* A pair shares no selected item with the pairs it excludes, in whatever order
\* the spec declares them (ordered_derived_objects, excluded_source_indices).
ExcludedDisjoint ==
  \A x, y \in DOMAIN derived :
    LET d == At(spec.derived, x)
    IN (d.kind = "pair" /\ y \in d.exclude /\ None \notin {derived[x], derived[y]}) =>
         {derived[x].constituents[i].index : i \in DOMAIN derived[x].constituents}
           \cap {derived[y].constituents[i].index : i \in DOMAIN derived[y].constituents} = {}

\* select = nearest: among all pairs that satisfy the constraints the one chosen
\* has the mass nearest to the target, and none is chosen only if there is none.
NearestIsNearest ==
  \A x \in DOMAIN derived :
    LET d == At(spec.derived, x)
    IN (d.kind = "pair" /\ d.select = "nearest") =>
         LET items == selected[d.object]
             valid == {ij \in (DOMAIN items) \X (DOMAIN items) :
                         ij[1] # ij[2] /\ ValidPair(d, derived, items[ij[1]], items[ij[2]])}
             Distance(ij) == Abs(Pairing(d, items[ij[1]], items[ij[2]]).mass - d.target.v)
         IN IF derived[x] = None THEN valid = {}
            ELSE \A ij \in valid : Abs(derived[x].mass - d.target.v) <= Distance(ij)

\* A union returns the rows its generated producer returns: those of the channels
\* that select the event, in their order.  Nothing one channel selected or derived
\* reaches the next.
UnionRows ==
  LET union == Plans[name]
      all == IF outcome = "row" THEN Append(rows, [channel |-> union.channels[channel].name, row |-> row])
             ELSE rows
  IN (/\ union.channels # <<>> /\ channel = Len(union.channels)
      /\ outcome \in {"row", "skipped"} /\ UnionGenerates(union, plan.reads))
     => all = GenUnionRows(union, plan.reads, event)
=============================================================================
