---------------------------- MODULE WorkflowRerun ----------------------------
(***************************************************************************)
(* What a rerun may recompute.  WorkflowExecutor with two history variables: *)
(* which plan the last completed run had and the versions its inputs had    *)
(* all through that run.                                                   *)
(***************************************************************************)
EXTENDS WorkflowExecutor

VARIABLES
  settled,  \* [plan, at] of the last run that ended well and undisturbed, or None
  base      \* runner -> the versions its plan was last settled at, or None

rerunVars == <<vars, settled, base>>

RerunInit ==
  /\ Init
  /\ settled = None
  /\ base = [r \in Runners |-> None]

\* Any new run may rewrite the cache, so it takes the settled state over.
RerunBegin(r, p, m) ==
  /\ Begin(r, p, m)
  /\ base' = [base EXCEPT ![r] =
       IF settled # None /\ settled.plan = p THEN settled.at ELSE None]
  /\ settled' = None

RerunFinish(r) ==
  /\ Finish(r)
  /\ settled' = IF version = begun[r] THEN [plan |-> plan[r], at |-> version] ELSE None
  /\ base' = base

RerunNext ==
  \/ \E r \in Runners, p \in Plans, m \in Modes : RerunBegin(r, p, m)
  \/ \E r \in Runners : RerunFinish(r)
  \/ /\ \/ \E s \in Sources : Edit(s)
        \/ \E r \in Runners :
             \/ PlanSource(r) \/ Execute(r) \/ PlanFails(r)
             \/ \E n \in Nodes : NodeStep(r, n)
             \/ Fail(r) \/ Crash(r)
     /\ UNCHANGED <<settled, base>>

RerunSpec == RerunInit /\ [][RerunNext]_rerunVars
-----------------------------------------------------------------------------
\* The run ended well, no input changed while it lasted, and the edits since the
\* plan was settled kept the number of events of every input.
Undisturbed(r) ==
  /\ phase[r] = "ok" /\ base[r] # None /\ version = begun[r]
  /\ \A s \in Sources : Events[s][base[r][s]] = Events[s][begun[r][s]]

\* Re-running is a no-op when nothing changed (docs/orchestrator.md:165): the
\* report counts no executed map, no executed reduce and no executed sink.
RerunIsNoOp ==
  \A r \in Runners :
    Undisturbed(r) /\ base[r] = begun[r] => ran[r] = {}

\* Re-running a workflow after changing some files recomputes only the chunks of
\* those files and the merges above them (docs/orchestrator.md:84-85).
OnlyAffectedRecomputed ==
  \A r \in Runners : Undisturbed(r) =>
    \A n \in ran[r] \cap Slots :
      version[maps[r][n].source] # base[r][maps[r][n].source]

\* ... and the other half: what depends on a changed file is recomputed.
AffectedRecomputed ==
  \A r \in Runners : Undisturbed(r) =>
    \A n \in DOMAIN maps[r] :
      version[maps[r][n].source] # base[r][maps[r][n].source] => n \in ran[r]
=============================================================================
