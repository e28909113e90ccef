---------------------------- MODULE CachelessRun ----------------------------
(***************************************************************************)
(* What `Executor::run` promises its caller, with no cache in sight: a run  *)
(* returns what planning and reading the inputs at some moments between its *)
(* begin and its end gives, or it returns an error.  WorkflowExecutor       *)
(* implements this specification with its cache of artifacts.               *)
(***************************************************************************)
EXTENDS Integers, Sequences, SequencesExt

CONSTANTS Runners, Plans, Sources, KernelOf, Inputs, MaxVersion, None,
          SourceChunks(_, _, _)  \* the chunks of a source with n events, for a plan

CONSTANT Events

VARIABLES
  version,  \* content version of each source
  status,   \* runner -> "idle", "busy", "ok" or "failed"
  plan,     \* runner -> the plan it runs
  begun,    \* runner -> versions of the sources when the run began
  report    \* runner -> what the run returned, or None

vars == <<version, status, plan, begun, report>>

Init ==
  /\ version = [s \in Sources |-> 0]
  /\ status = [r \in Runners |-> "idle"]
  /\ plan = [r \in Runners |-> None]
  /\ begun = [r \in Runners |-> version]
  /\ report = [r \in Runners |-> None]

\* Versions source s has had since the run of r began.
During(r, s) == begun[r][s] .. version[s]

\* The chunks of plan p, each input read at the version `at` gives it.
ChunkList(p, at) ==
  FlattenSeq([i \in DOMAIN Inputs[p] |->
    SourceChunks(p, Inputs[p][i], Events[Inputs[p][i]][at[i]])])

\* Moments at which the planner may have read the inputs, one per input.
PlanningMoments(r) ==
  {at \in [DOMAIN Inputs[plan[r]] -> 0 .. MaxVersion] :
     \A i \in DOMAIN at : at[i] \in During(r, Inputs[plan[r]][i])}

\* A cacheless run may return these parts.
Answers(r, parts) ==
  /\ \E at \in PlanningMoments(r) :
       [i \in DOMAIN parts |-> parts[i].chunk] = ChunkList(plan[r], at)
  /\ \A i \in DOMAIN parts :
       /\ parts[i].kernel = KernelOf[plan[r]]
       /\ parts[i].version \in During(r, parts[i].chunk.source)

Edit(s) ==
  /\ version[s] < MaxVersion
  /\ version' = [version EXCEPT ![s] = @ + 1]
  /\ UNCHANGED <<status, plan, begun, report>>

Begin(r, p) ==
  /\ status[r] # "busy"
  /\ status' = [status EXCEPT ![r] = "busy"]
  /\ plan' = [plan EXCEPT ![r] = p]
  /\ begun' = [begun EXCEPT ![r] = version]
  /\ report' = [report EXCEPT ![r] = None]
  /\ UNCHANGED version

Return(r) ==
  /\ status[r] = "busy"
  /\ status' = [status EXCEPT ![r] = "ok"]
  /\ Answers(r, report'[r].parts)
  /\ report' = [report EXCEPT ![r] = report'[r]]
  /\ UNCHANGED <<version, plan, begun>>

GiveUp(r) ==
  /\ status[r] = "busy"
  /\ status' = [status EXCEPT ![r] = "failed"]
  /\ UNCHANGED <<version, plan, begun, report>>

Next ==
  \/ \E s \in Sources : Edit(s)
  \/ \E r \in Runners : (\E p \in Plans : Begin(r, p)) \/ Return(r) \/ GiveUp(r)

Spec == Init /\ [][Next]_vars
=============================================================================
