-------------------------- MODULE MCWorkflowRerun --------------------------
(* Small instances of WorkflowRerun for TLC.                                *)
EXTENDS WorkflowRerun, WorkflowRefinement

CONSTANTS f, g, pA, pB, muon

MCInputs == [p \in Plans |-> IF p = pA THEN <<f, g>> ELSE <<g>>]
MCChunkSize == [p \in Plans |-> 2]
OneKernel == [p \in Plans |-> muon]
\* The edit of f takes two of its three events and so one of its two chunks;
\* the edit of g keeps its event.
ShrinkingEvents == [s \in Sources |-> [v \in 0 .. MaxVersion |-> IF s = f /\ v = 0 THEN 3 ELSE 1]]
===========================================================================
