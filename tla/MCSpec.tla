-------------------------------- MODULE MCSpec --------------------------------
(***************************************************************************)
(* Plans and events for the two back ends of crates/nano-spec.  The plans  *)
(* are those of SpecExamples.  Momenta are squares, so that masses are     *)
(* integers.                                                               *)
(***************************************************************************)
EXTENDS SpecAgreement, SpecExamples

MCPlans == Examples

\* either_pair_pt over objects whose pt nothing else asks for
MCPairPtPlans == [pairpt |-> MCPlans.pairpt]

\* leading values of two objects, both histogrammed, and a weight systematic
MCTwoLeadPlans == [twoLeads |-> MCPlans.twoLeads]

MCFactor(payload, in) ==
  CASE payload = "muSF"     -> IF in[1] > 4 THEN 2 ELSE 1
    [] payload = "muSFsyst" -> in[2] * (IF in[1] > 4 THEN 2 ELSE 1)
    [] payload = "rhoSF"    -> in[1]
    [] payload = "jes"      -> IF in[1] > 4 THEN 1 ELSE 0

Particle(pt, eta, phi, charge) ==
  [pt |-> pt, eta |-> eta, phi |-> phi, charge |-> charge, mass |-> 0]
MuKinds == {Particle(4, 0, 0, 1), Particle(16, 0, 1, -1), Particle(4, 2, 1, -1), Particle(1, 2, 0, 1)}
Distinct(n) == {s \in [1 .. n -> MuKinds] : \A i, j \in 1 .. n : i # j => s[i] # s[j]}
FewMus == UNION {[1 .. n -> MuKinds] : n \in 0 .. 2}
ManyMus == Distinct(3) \cup Distinct(4)
Jets == {<<>>, <<Particle(9, 0, 1, 0), Particle(4, 2, 0, 0)>>, <<Particle(9, 0, 0, 0), Particle(4, 0, 1, 0)>>}

Ev(mus, jets, mc, lumi, hlt) ==
  [mc |-> mc, lumi |-> lumi, scalar |-> [HLT |-> hlt, rho |-> 5],
   coll |-> [Mu |-> mus, Jet |-> jets]]
MCEvents == {Ev(mus, jets, TRUE, 2, TRUE) : mus \in FewMus, jets \in Jets}
            \cup {Ev(mus, <<Particle(9, 0, 1, 0)>>, TRUE, 2, TRUE) : mus \in ManyMus}
            \cup {Ev(mus, <<>>, FALSE, lumi, hlt) :
                  mus \in [1 .. 1 -> MuKinds], lumi \in {1, 2}, hlt \in BOOLEAN}
\* events in which both have a leading value
MCLedEvents == {e \in MCEvents : e.coll.Jet # <<>> /\ \E i \in DOMAIN e.coll.Mu : e.coll.Mu[i].pt >= 4}
===============================================================================
