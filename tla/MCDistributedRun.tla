-------------------------- MODULE MCDistributedRun --------------------------
(* Small instances of DistributedRun for TLC.                              *)
EXTENDS DistributedRun

CONSTANTS f, g, pA, pB, muon

\* Plan pA reads f then g in chunks of two; plan pB reads g alone.
MCInputs == [p \in Plans |-> IF p = pA THEN <<f, g>> ELSE <<g>>]
MCChunkSize == [p \in Plans |-> 2]
OneEventChunks == [p \in Plans |-> 1]
OneKernel == [p \in Plans |-> muon]
\* f has one event, g two at first and none after its first edit.
MCEvents == [s \in Sources |-> [v \in 0 .. MaxVersion |-> IF s = f THEN 1 ELSE IF v = 0 THEN 2 ELSE 0]]

\* Bound: no local run while a job is under way or after it.
Apart == job # "none" => \A r \in Runners : phase[r] \notin {"planning", "running"}
=============================================================================
