------------------------ MODULE MCWorkflowExecutor ------------------------
(* Small instances of the executor for TLC.                                  *)
EXTENDS WorkflowRefinement

CONSTANTS f, g,        \* two input files
          pA, pB,      \* two plans
          muon, other  \* two kernels

\* Plan pA reads f then g in chunks of two; plan pB reads g alone.
MCInputs == [p \in Plans |-> IF p = pA THEN <<f, g>> ELSE <<g>>]
MCChunkSize == [p \in Plans |-> IF p = pA THEN 2 ELSE 0]

\* Both plans run the same kernel, or one each.
OneKernel == [p \in Plans |-> muon]
KernelPerPlan == [p \in Plans |-> IF p = pA THEN muon ELSE other]

\* One input for both plans: they differ in the kernel only.
SameInputs == [p \in Plans |-> <<f>>]
SameSize == [p \in Plans |-> 2]

\* f shrinks with its first edit; g keeps its one event.
ShrinkingEvents == [s \in Sources |-> [v \in 0 .. MaxVersion |-> IF s = f /\ v = 0 THEN 3 ELSE 1]]
\* No edit changes the number of events.
StableEvents == [s \in Sources |-> [v \in 0 .. MaxVersion |-> 1]]
===========================================================================
