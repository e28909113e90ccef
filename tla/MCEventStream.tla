--------------------------- MODULE MCEventStream ----------------------------
(* Instances of EventStream for TLC: trees of six events with muons, whose  *)
(* branches are cut into baskets at different entries.                      *)
EXTENDS EventStream, TLC

Scalar(name, optional) == [name |-> name, counter |-> "none", optional |-> optional]
OfMuon(name, optional) == [name |-> name, counter |-> "nMuon", optional |-> optional]

MuonSpecs ==
  <<Scalar("run", FALSE), OfMuon("Muon_pt", FALSE), OfMuon("Muon_id", TRUE),
    Scalar("genWeight", TRUE)>>

Counts6 == [e \in 0 .. 5 |-> <<2, 0, 1, 3, 0, 1>>[e + 1]]

Data == {"run", "nMuon", "Muon_pt", "Muon_id"}
Starts(run, n, pt, id) ==
  ("run" :> run) @@ ("nMuon" :> n) @@ ("Muon_pt" :> pt) @@ ("Muon_id" :> id)

\* Aligned baskets; counter and branch cut apart; a simulated sample; a tree
\* that lacks the optional jagged branch's counter altogether.
Aligned ==
  [has |-> Data, entries |-> 6, counts |-> Counts6,
   starts |-> Starts(<<0, 3>>, <<0, 3>>, <<0, 3>>, <<0, 3>>)]
Staggered ==
  [has |-> Data, entries |-> 6, counts |-> Counts6,
   starts |-> Starts(<<0>>, <<0, 2, 5>>, <<0, 1, 4>>, <<0, 3>>)]
Simulated ==
  [has |-> Data \cup {"genWeight"}, entries |-> 6, counts |-> Counts6,
   starts |-> Starts(<<0, 5>>, <<0, 4>>, <<0>>, <<0, 2>>) @@ ("genWeight" :> <<0, 3>>)]
NoMuons ==
  [has |-> {"run"}, entries |-> 6, counts |-> Counts6, starts |-> ("run" :> <<0, 3>>)]

Trees == {Aligned, Staggered, Simulated}
TreesOneBroken == Trees \cup {NoMuons}

\* Every chunk of the tree, and a loop that runs until the iterator has no more.
Chunks == {<<s, e>> \in (0 .. 6) \X (0 .. 6) : s <= e} \cup {<<0, 9>>}
=============================================================================
