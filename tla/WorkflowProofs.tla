--------------------------- MODULE WorkflowProofs ---------------------------
(* Theorems about WorkflowExecutor, for every value of its constants.      *)
EXTENDS WorkflowExecutor, SequenceTheorems, WellFoundedInduction, TLAPS

HasOutput == {"computed", "opened", "written", "signing", "done"}

\* How far a node may be, given the rest of the run.
Shape ==
  /\ \A r \in Runners : phase[r] # "idle" => plan[r] \in Plans
  /\ \A r \in Runners : Len(maps[r]) <= MaxSlots
  /\ \A r \in Runners : phase[r] \in {"idle", "planning"} =>
       \A n \in Nodes : task[r][n] = "todo"
  /\ \A r \in Runners, n \in Nodes : task[r][n] # "todo" =>
       /\ n \in Slots => n \in DOMAIN maps[r]
       /\ n = ReduceNode => \A i \in DOMAIN maps[r] : task[r][i] = "done"
       /\ n = SinkNode => task[r][ReduceNode] = "done"
  /\ \A r \in Runners, n \in Nodes : task[r][n] # "todo" => key[r][n] # None
  /\ \A r \in Runners, n \in Nodes :
       task[r][n] \in HasOutput => output[r][n] # None
  /\ \A r \in Runners, n \in Nodes :
       task[r][n] = "hit" => artifact[n] # Missing

TypeInv == TypeOK /\ Shape

LEMMA ChunksOfType ==
  ASSUME NEW s \in Sources, NEW n \in Nat, NEW size \in Nat \ {0}
  PROVE  ChunksOf(s, n, size) \in Seq(Chunk)
<1> DEFINE k == (n + size - 1) \div size
           chunk(i) == [source |-> s, start |-> (i - 1) * size,
                        end |-> IF i * size <= n THEN i * size ELSE n]
<1>1. k \in Nat
  OBVIOUS
<1>2. ASSUME NEW i \in 1 .. k PROVE chunk(i) \in Chunk
  <2>1. i - 1 \in Nat /\ i \in Nat
    BY <1>1
  <2>2. (i - 1) * size \in Nat /\ i * size \in Nat
    BY <2>1
  <2> QED BY <2>2 DEF Chunk
<1>3. ChunksOf(s, n, size) = [i \in 1 .. k |-> chunk(i)]
  BY DEF ChunksOf
<1> HIDE DEF k, chunk
<1> QED BY <1>1, <1>2, <1>3

LEMMA InitTypeInv == Init => TypeInv
<1> SUFFICES ASSUME Init PROVE TypeInv
  OBVIOUS
<1> USE ParameterAssumption, SentinelAssumption
<1>1. TypeOK
  BY DEF Init, TypeOK, Torn, Nodes, Slots, Key, Output, TaskState
<1>2. Shape
  BY DEF Init, Shape, HasOutput, Nodes
<1> QED BY <1>1, <1>2 DEF TypeInv

LEMMA NodeKeyType ==
  ASSUME TypeInv, NEW r \in Runners, NEW n \in Nodes, Ready(r, n)
  PROVE  NodeKey(r, n) \in Key(n)
<1> USE ParameterAssumption DEF TypeInv
<1>1. CASE n \in Slots
  <2>1. n \in DOMAIN maps[r]
    BY <1>1 DEF Ready, Slots, ReduceNode, SinkNode
  <2>2. maps[r][n] \in Chunk
    BY <2>1 DEF TypeOK
  <2>3. Stamp(maps[r][n].source) \in Nat
    BY <2>2 DEF TypeOK, Stamp, Chunk
  <2> QED BY <1>1, <2>2, <2>3 DEF NodeKey, Key, MapKey
<1>2. CASE n \notin Slots
  <2>1. \A i \in DOMAIN maps[r] : task[r][i] = "done" /\ i \in Slots /\ i \in Nodes
    BY <1>2 DEF Ready, Shape, TypeOK, Slots, Nodes, ReduceNode, SinkNode
  <2>2. \A i \in DOMAIN maps[r] : key[r][i] \in MapKey
    BY <2>1 DEF Shape, TypeOK, Key
  <2>3. DOMAIN maps[r] = 1 .. Len(maps[r]) /\ Len(maps[r]) \in Nat
    BY DEF TypeOK
  <2>4. [i \in DOMAIN maps[r] |-> key[r][i]] \in Seq(MapKey)
    BY <2>2, <2>3
  <2> QED BY <1>2, <2>4 DEF NodeKey, Key, ReduceKey
<1> QED BY <1>1, <1>2

LEMMA NodeNumbers ==
  /\ ReduceNode \in Nodes /\ SinkNode \in Nodes /\ Slots \subseteq Nodes
  /\ ReduceNode \notin Slots /\ SinkNode \notin Slots /\ SinkNode # ReduceNode
BY ParameterAssumption DEF Nodes, Slots, ReduceNode, SinkNode

LEMMA FreshType ==
  ASSUME TypeInv, NEW r \in Runners, NEW n \in Nodes,
         phase[r] = "running", task[r][n] # "todo"
  PROVE  Fresh(r, n) \in Output(n)
<1> USE ParameterAssumption DEF TypeInv
<1>1. CASE n \in Slots
  <2>1. maps[r][n] \in Chunk
    BY <1>1 DEF TypeOK, Shape
  <2>2. version[maps[r][n].source] \in Nat
    BY <2>1 DEF TypeOK, Chunk
  <2>3. KernelOf[plan[r]] \in Kernels
    BY DEF Shape
  <2> QED BY <1>1, <2>1, <2>2, <2>3 DEF Fresh, Output, PartialOutput
<1>2. CASE n = ReduceNode
  <2>1. \A i \in DOMAIN maps[r] : task[r][i] = "done" /\ i \in Slots /\ i \in Nodes
    BY <1>2 DEF Shape, TypeOK, Slots, Nodes, ReduceNode, SinkNode
  <2>2. \A i \in DOMAIN maps[r] : output[r][i] \in PartialOutput
    BY <2>1 DEF Shape, TypeOK, Output, HasOutput
  <2>3. DOMAIN maps[r] = 1 .. Len(maps[r]) /\ Len(maps[r]) \in Nat
    BY DEF TypeOK
  <2>4. [i \in DOMAIN maps[r] |-> output[r][i]] \in Seq(PartialOutput)
    BY <2>2, <2>3
  <2>5. n \notin Slots
    BY <1>2 DEF Slots, ReduceNode
  <2> QED BY <1>2, <2>4, <2>5 DEF Fresh, Output, MergedOutput
<1>3. CASE n = SinkNode
  <2>1. task[r][ReduceNode] = "done"
    BY <1>3, NodeNumbers DEF Shape
  <2>2. output[r][ReduceNode] \in MergedOutput
    BY <2>1, NodeNumbers DEF Shape, TypeOK, Output, HasOutput
  <2> QED BY <1>3, <2>2, NodeNumbers DEF Fresh, Output
<1> QED BY <1>1, <1>2, <1>3 DEF Nodes, Slots, ReduceNode, SinkNode

LEMMA LoadType ==
  ASSUME TypeInv, NEW r \in Runners, NEW n \in Nodes, Load(r, n)
  PROVE  (IF n = SinkNode THEN output[r][ReduceNode] ELSE artifact[n]) \in Output(n)
<1> USE DEF TypeInv, Load, Advance
<1>1. CASE n = SinkNode
  <2>1. task[r][ReduceNode] = "done"
    BY <1>1, NodeNumbers DEF Shape
  <2>2. output[r][ReduceNode] \in MergedOutput
    BY <2>1, NodeNumbers DEF Shape, TypeOK, Output, HasOutput
  <2> QED BY <1>1, <2>2, NodeNumbers DEF Output
<1>2. CASE n # SinkNode
  BY <1>2 DEF Shape, TypeOK
<1> QED BY <1>1, <1>2

LEMMA NodeStepTypeInv ==
  ASSUME TypeInv, NEW r \in Runners, NEW n \in Nodes, NodeStep(r, n)
  PROVE  TypeInv'
<1> USE ParameterAssumption, SentinelAssumption
    DEF TypeInv, Advance, SameRun, disk
<1>1. CASE ComputeKey(r, n)
  <2>0. NodeKey(r, n) \in Key(n)
    BY <1>1, NodeKeyType DEF ComputeKey
  <2>1. TypeOK'
    BY <1>1, <2>0 DEF ComputeKey, TypeOK, TaskState, InProgress, Key
  <2>2. /\ task[r][n] = "todo" /\ Ready(r, n)
        /\ \A q \in Runners, m \in Nodes :
             task'[q][m] = IF q = r /\ m = n THEN "keyed" ELSE task[q][m]
    BY <1>1 DEF ComputeKey, TypeOK
  <2>3. n \in Slots => n \in DOMAIN maps[r]
    BY <2>2 DEF Ready, Slots, ReduceNode, SinkNode
  <2>4. \A q \in Runners : DOMAIN maps[q] \subseteq Slots
    BY DEF Shape, TypeOK, Slots
  <2>5. \A q \in Runners, m \in Nodes : task'[q][m] # "todo" =>
          /\ m \in Slots => m \in DOMAIN maps[q]
          /\ m = ReduceNode => \A i \in DOMAIN maps[q] : task'[q][i] = "done"
          /\ m = SinkNode => task'[q][ReduceNode] = "done"
    <3>1. ASSUME NEW q \in Runners, NEW m \in Nodes, task'[q][m] # "todo",
                 m # n \/ q # r
          PROVE  /\ m \in Slots => m \in DOMAIN maps[q]
                 /\ m = ReduceNode => \A i \in DOMAIN maps[q] : task'[q][i] = "done"
                 /\ m = SinkNode => task'[q][ReduceNode] = "done"
      <4>1. task[q][m] # "todo" /\ ReduceNode \in Nodes
            /\ DOMAIN maps[q] \subseteq Nodes
        BY <2>2, <2>4, <3>1 DEF Nodes, Slots, ReduceNode
      <4>2. \A k \in Nodes : task[q][k] = "done" => task'[q][k] = "done"
        BY <2>2
      <4> QED BY <4>1, <4>2 DEF Shape
    <3>2. /\ n = ReduceNode => \A i \in DOMAIN maps[r] : task'[r][i] = "done"
          /\ n = SinkNode => task'[r][ReduceNode] = "done"
      <4>1. ReduceNode \in Nodes /\ ReduceNode # SinkNode /\ ReduceNode \notin Slots
            /\ SinkNode \notin Slots
        BY DEF Nodes, Slots, ReduceNode, SinkNode
      <4>2. \A k \in Nodes : task[r][k] = "done" => task'[r][k] = "done"
        BY <2>2
      <4>3. \A i \in DOMAIN maps[r] : i \in Nodes
        BY <2>4 DEF Slots, Nodes
      <4> QED BY <2>2, <2>4, <4>1, <4>2, <4>3 DEF Ready
    <3> QED BY <2>3, <3>1, <3>2
  <2>6. \A q \in Runners, m \in Nodes :
          key'[q][m] = IF q = r /\ m = n THEN NodeKey(r, n) ELSE key[q][m]
    BY <1>1 DEF ComputeKey, TypeOK
  <2>7. NodeKey(r, n) # None
    BY <2>0 DEF Key
  <2>8. /\ phase' = phase /\ plan' = plan /\ maps' = maps
        /\ output' = output /\ artifact' = artifact /\ phase[r] = "running"
    BY <1>1 DEF ComputeKey
  <2>9. Shape'
    <3>1. \A q \in Runners, m \in Nodes : task'[q][m] # "todo" => key'[q][m] # None
      <4> TAKE q \in Runners, m \in Nodes
      <4>1. CASE q = r /\ m = n
        BY <4>1, <2>6, <2>7
      <4>2. CASE ~ (q = r /\ m = n)
        <5>1. task'[q][m] = task[q][m] /\ key'[q][m] = key[q][m]
          BY <4>2, <2>2, <2>6
        <5> QED BY <5>1 DEF Shape
      <4> QED BY <4>1, <4>2
    <3>2. \A q \in Runners, m \in Nodes :
            /\ task'[q][m] \in HasOutput => output'[q][m] # None
            /\ task'[q][m] = "hit" => artifact'[m] # Missing
      <4> TAKE q \in Runners, m \in Nodes
      <4>1. task'[q][m] = task[q][m] \/ task'[q][m] = "keyed"
        BY <2>2
      <4> QED BY <4>1, <2>8 DEF Shape, HasOutput
    <3>3. \A q \in Runners : phase'[q] \in {"idle", "planning"} =>
            \A m \in Nodes : task'[q][m] = "todo"
      <4> TAKE q \in Runners
      <4>1. CASE q = r
        BY <4>1, <2>8
      <4>2. CASE q # r
        BY <4>2, <2>2, <2>8 DEF Shape
      <4> QED BY <4>1, <4>2
    <3> QED BY <2>5, <2>8, <3>1, <3>2, <3>3 DEF Shape
  <2> QED BY <2>1, <2>9
<1>2. CASE CheckUnreadable(r, n)
  <2>1. TypeOK'
    BY <1>2 DEF CheckUnreadable, TypeOK, TaskState, InProgress
  <2>2. Shape'
    BY <1>2 DEF CheckUnreadable, TypeOK, Shape, HasOutput, TaskState, InProgress
  <2> QED BY <2>1, <2>2
<1>3. CASE CheckHit(r, n)
  <2>1. TypeOK'
    BY <1>3 DEF CheckHit, TypeOK, TaskState, InProgress
  <2>2. Shape'
    BY <1>3 DEF CheckHit, TypeOK, Shape, HasOutput, TaskState, InProgress, UpToDate
  <2> QED BY <2>1, <2>2
<1>4. CASE CheckMiss(r, n)
  <2>1. TypeOK'
    BY <1>4 DEF CheckMiss, TypeOK, TaskState, InProgress
  <2>2. Shape'
    BY <1>4 DEF CheckMiss, TypeOK, Shape, HasOutput, TaskState, InProgress
  <2> QED BY <2>1, <2>2
<1>5. CASE Load(r, n)
  <2>0. (IF n = SinkNode THEN output[r][ReduceNode] ELSE artifact[n]) \in Output(n)
    BY <1>5, LoadType
  <2>1. TypeOK'
    BY <1>5, <2>0 DEF Load, TypeOK, TaskState, InProgress, Output
  <2>2. Shape'
    BY <1>5, <2>0 DEF Load, TypeOK, Shape, HasOutput, TaskState, InProgress, Output
  <2> QED BY <2>1, <2>2
<1>6. CASE LoadUnreadable(r, n)
  <2>1. TypeOK'
    BY <1>6 DEF LoadUnreadable, TypeOK, TaskState, InProgress
  <2>2. Shape'
    BY <1>6 DEF LoadUnreadable, TypeOK, Shape, HasOutput, TaskState, InProgress
  <2> QED BY <2>1, <2>2
<1>7. CASE Compute(r, n)
  <2>0. Fresh(r, n) \in Output(n)
    BY <1>7, FreshType DEF Compute
  <2>1. TypeOK'
    BY <1>7, <2>0 DEF Compute, TypeOK, TaskState, InProgress, Output
  <2>2. Shape'
    BY <1>7, <2>0 DEF Compute, TypeOK, Shape, HasOutput, TaskState, InProgress, Output
  <2> QED BY <2>1, <2>2
<1>8. CASE ComputeFails(r, n)
  <2>1. TypeOK'
    BY <1>8 DEF ComputeFails, TypeOK, TaskState, InProgress
  <2>2. Shape'
    BY <1>8 DEF ComputeFails, TypeOK, Shape, HasOutput, TaskState, InProgress
  <2> QED BY <2>1, <2>2
<1>9. CASE OpenArtifact(r, n)
  <2>1. TypeOK'
    BY <1>9 DEF OpenArtifact, TypeOK, TaskState, InProgress, Torn
  <2>2. Shape'
    BY <1>9 DEF OpenArtifact, TypeOK, Shape, HasOutput, TaskState, InProgress
  <2> QED BY <2>1, <2>2
<1>10. CASE WriteArtifact(r, n)
  <2>0. output[r][n] \in Output(n)
    BY <1>10 DEF WriteArtifact, Shape, HasOutput, TypeOK
  <2>1. TypeOK'
    BY <1>10, <2>0 DEF WriteArtifact, TypeOK, TaskState, InProgress, Torn, Overwritten, Output
  <2>2. Shape'
    BY <1>10, <2>0 DEF WriteArtifact, TypeOK, Shape, HasOutput, TaskState, InProgress, Overwritten, Output
  <2> QED BY <2>1, <2>2
<1>11. CASE OpenManifest(r, n)
  <2>1. TypeOK'
    BY <1>11 DEF OpenManifest, TypeOK, TaskState, InProgress, Torn
  <2>2. Shape'
    BY <1>11 DEF OpenManifest, TypeOK, Shape, HasOutput, TaskState, InProgress
  <2> QED BY <2>1, <2>2
<1>12. CASE WriteManifest(r, n)
  <2>0. key[r][n] \in Key(n)
    BY <1>12 DEF WriteManifest, Shape, TypeOK
  <2>1. TypeOK'
    BY <1>12, <2>0 DEF WriteManifest, TypeOK, TaskState, InProgress, Torn, Overwritten, Key
  <2>2. Shape'
    BY <1>12, <2>0 DEF WriteManifest, TypeOK, Shape, HasOutput, TaskState, InProgress
  <2> QED BY <2>1, <2>2
<1> QED BY <1>1, <1>2, <1>3, <1>4, <1>5, <1>6, <1>7, <1>8, <1>9, <1>10, <1>11, <1>12 DEF NodeStep

LEMMA PlanSourceTypeInv ==
  ASSUME TypeInv, NEW r \in Runners, PlanSource(r)
  PROVE  TypeInv'
<1> USE ParameterAssumption, SentinelAssumption DEF TypeInv
<1> DEFINE s == Inputs[plan[r]][planned[r] + 1]
           more == ChunksOf(s, Events[s][version[s]], EffectiveSize(plan[r]))
<1>1. /\ plan[r] \in Plans
      /\ planned[r] + 1 \in 1 .. Len(Inputs[plan[r]])
  <2>1. phase[r] = "planning" /\ planned[r] < Len(Inputs[plan[r]])
    BY DEF PlanSource
  <2>2. plan[r] \in Plans
    BY <2>1 DEF Shape
  <2>3. Len(Inputs[plan[r]]) \in Nat /\ planned[r] \in Nat
    BY <2>2 DEF TypeOK
  <2> QED BY <2>1, <2>2, <2>3
<1>2. s \in Sources
  <2>1. Inputs[plan[r]] \in Seq(Sources)
    BY <1>1
  <2> QED BY <1>1, <2>1
<1>3. EffectiveSize(plan[r]) \in Nat \ {0}
  BY <1>1 DEF EffectiveSize
<1>4. Events[s][version[s]] \in Nat
  <2> HIDE DEF s
  <2>1. version[s] \in 0 .. MaxVersion
    BY <1>2 DEF TypeOK
  <2>2. Events[s] \in [0 .. MaxVersion -> Nat]
    BY <1>2
  <2> QED BY <2>1, <2>2
<1>5. more \in Seq(Chunk)
  <2> HIDE DEF s
  <2> QED BY <1>2, <1>3, <1>4, ChunksOfType
<1>6. /\ maps' = [maps EXCEPT ![r] = @ \o more]
      /\ planned' = [planned EXCEPT ![r] = @ + 1]
      /\ Len(maps[r]) + Len(more) <= MaxSlots /\ phase[r] = "planning"
      /\ UNCHANGED <<version, disk, phase, plan, mode, task, key, output, ran,
                     begun, runs, crashes>>
  BY DEF PlanSource
<1> HIDE DEF s, more
<1>7. maps[r] \o more \in Seq(Chunk) /\ Len(maps[r] \o more) <= MaxSlots
  <2>1. maps[r] \in Seq(Chunk)
    BY DEF TypeOK
  <2>2. maps[r] \o more \in Seq(Chunk)
    BY <1>5, <2>1, ConcatProperties
  <2>3. Len(maps[r] \o more) = Len(maps[r]) + Len(more)
    BY <1>5, <2>1, ConcatProperties
  <2> QED BY <1>6, <2>2, <2>3
<1>8. TypeOK'
  BY <1>6, <1>7 DEF TypeOK, disk
<1>9. Shape'
  <2>1. \A q \in Runners : Len(maps'[q]) <= MaxSlots
    BY <1>6, <1>7 DEF Shape, TypeOK
  <2>2. \A q \in Runners, n \in Nodes : task[q][n] # "todo" => maps'[q] = maps[q]
    BY <1>6 DEF Shape, TypeOK
  <2> QED BY <1>6, <2>1, <2>2 DEF Shape, disk
<1> QED BY <1>8, <1>9

LEMMA BeginTypeInv ==
  ASSUME TypeInv, NEW r \in Runners, NEW p \in Plans, NEW m \in Modes, Begin(r, p, m)
  PROVE  TypeInv'
<1> USE ParameterAssumption, SentinelAssumption DEF TypeInv, Begin, disk
<1>1. << >> \in Seq(Chunk) /\ Len(<< >>) = 0
  OBVIOUS
<1>2. TypeOK'
  BY <1>1 DEF TypeOK, TaskState
<1>3. Shape'
  BY <1>1 DEF Shape, TypeOK, HasOutput
<1> QED BY <1>2, <1>3

LEMMA PhaseTypeInv ==
  ASSUME TypeInv, NEW r \in Runners,
         Execute(r) \/ PlanFails(r) \/ Finish(r) \/ Fail(r) \/ Crash(r)
  PROVE  TypeInv'
<1>1. /\ phase' = [phase EXCEPT ![r] = phase'[r]]
      /\ phase'[r] \in {"running", "ok", "failed"}
      /\ phase[r] \in {"planning", "running"}
      /\ crashes' \in 0 .. MaxCrashes
  <2>1. CASE Execute(r) \/ PlanFails(r)
    BY <2>1 DEF TypeInv, TypeOK, Execute, PlanFails
  <2>2. CASE Finish(r) \/ Fail(r)
    BY <2>2 DEF TypeInv, TypeOK, Finish, Fail
  <2>3. CASE Crash(r)
    BY <2>3, ParameterAssumption DEF TypeInv, TypeOK, Crash
  <2> QED BY <2>1, <2>2, <2>3
<1>2. UNCHANGED <<version, disk, plan, mode, planned, maps, task, key, output,
                  ran, begun, runs>>
  BY DEF Execute, PlanFails, Finish, Fail, Crash
<1>3. TypeOK'
  BY <1>1, <1>2 DEF TypeInv, TypeOK, disk
<1>4. \A q \in Runners :
        /\ phase'[q] # "idle" => phase[q] # "idle"
        /\ phase'[q] \in {"idle", "planning"} => phase[q] \in {"idle", "planning"}
  BY <1>1 DEF TypeInv, TypeOK
<1>5. Shape'
  <2>1. /\ artifact' = artifact /\ plan' = plan /\ maps' = maps
        /\ task' = task /\ key' = key /\ output' = output
    BY <1>2 DEF disk
  <2> QED BY <1>4, <2>1 DEF TypeInv, Shape
<1> QED BY <1>3, <1>5 DEF TypeInv

LEMMA NextTypeInv == TypeInv /\ [Next]_vars => TypeInv'
<1> SUFFICES ASSUME TypeInv, [Next]_vars PROVE TypeInv'
  OBVIOUS
<1>1. ASSUME NEW s \in Sources, Edit(s) PROVE TypeInv'
  <2>1. TypeOK'
    <3>1. version' \in [Sources -> 0 .. MaxVersion]
      BY <1>1, ParameterAssumption DEF TypeInv, TypeOK, Edit
    <3>2. UNCHANGED <<disk, local, runs, crashes>>
      BY <1>1 DEF Edit
    <3> QED BY <3>1, <3>2 DEF TypeInv, TypeOK, disk, local
  <2>2. Shape'
    BY <1>1 DEF TypeInv, Shape, Edit, disk, local
  <2> QED BY <2>1, <2>2 DEF TypeInv
<1>2. ASSUME NEW r \in Runners, NEW p \in Plans, NEW m \in Modes, Begin(r, p, m)
      PROVE  TypeInv'
  BY <1>2, BeginTypeInv
<1>3. ASSUME NEW r \in Runners, RunnerStep(r) PROVE TypeInv'
  BY <1>3, PlanSourceTypeInv, NodeStepTypeInv, PhaseTypeInv DEF RunnerStep
<1>4. ASSUME NEW r \in Runners, Crash(r) PROVE TypeInv'
  BY <1>4, PhaseTypeInv
<1>5. CASE UNCHANGED vars
  BY <1>5 DEF TypeInv, TypeOK, Shape, vars, disk, local
<1> QED BY <1>1, <1>2, <1>3, <1>4, <1>5 DEF Next

\* Every variable keeps its type, whatever the plans, the runners sharing the
\* cache, the edits and the crashes: in particular a run never loads a missing
\* artifact, nor merges or publishes a node it has no output of (executor.rs).
THEOREM TypeCorrect == Spec => []TypeOK
<1>1. TypeInv => TypeOK
  BY DEF TypeInv
<1> QED BY InitTypeInv, NextTypeInv, <1>1, PTL DEF Spec
-----------------------------------------------------------------------------
(* What the proofs about the cache rest on.                                 *)

\* A step of one node leaves the others, and the files of the others, alone.
LEMMA OtherNodes ==
  ASSUME TypeInv, NEW r \in Runners, NEW n \in Nodes, NodeStep(r, n)
  PROVE  /\ version' = version /\ maps' = maps /\ begun' = begun /\ phase' = phase
         /\ phase[r] = "running" /\ task'[r][n] # "todo"
         /\ \A m \in Nodes \ {n} :
              /\ task'[r][m] = task[r][m] /\ key'[r][m] = key[r][m]
              /\ output'[r][m] = output[r][m]
              /\ artifact'[m] = artifact[m] /\ manifest'[m] = manifest[m]
         /\ ran'[r] \subseteq ran[r] \cup {n} /\ ran[r] \subseteq ran'[r]
         /\ n \in ran'[r] => n \in ran[r] \/ task'[r][n] = "done"
<1> USE DEF TypeInv, TypeOK, Advance, SameRun, disk
<1>1. CASE ComputeKey(r, n)
  BY <1>1 DEF ComputeKey
<1>2. CASE CheckUnreadable(r, n) \/ CheckHit(r, n) \/ CheckMiss(r, n)
  BY <1>2 DEF CheckUnreadable, CheckHit, CheckMiss
<1>3. CASE Load(r, n)
  BY <1>3 DEF Load
<1>4. CASE LoadUnreadable(r, n) \/ ComputeFails(r, n)
  BY <1>4 DEF LoadUnreadable, ComputeFails
<1>5. CASE Compute(r, n)
  BY <1>5 DEF Compute
<1>6. CASE OpenArtifact(r, n)
  BY <1>6 DEF OpenArtifact
<1>7. CASE WriteArtifact(r, n)
  BY <1>7 DEF WriteArtifact
<1>8. CASE OpenManifest(r, n)
  BY <1>8 DEF OpenManifest
<1>9. CASE WriteManifest(r, n)
  BY <1>9 DEF WriteManifest
<1> QED BY <1>1, <1>2, <1>3, <1>4, <1>5, <1>6, <1>7, <1>8, <1>9 DEF NodeStep

LEMMA DependenciesDone ==
  ASSUME TypeInv, NEW r \in Runners, NEW n \in Nodes \ Slots, task[r][n] # "todo"
  PROVE  /\ n = ReduceNode \/ n = SinkNode
         /\ ReduceNode \in Nodes \ Slots /\ SinkNode \in Nodes \ Slots
         /\ ReduceNode # SinkNode
         /\ DOMAIN maps[r] \subseteq Slots /\ Slots \subseteq Nodes
         /\ \A i \in DOMAIN maps[r] : task[r][i] = "done"
         /\ n = SinkNode => task[r][ReduceNode] = "done"
<1>1. /\ n = ReduceNode \/ n = SinkNode
      /\ ReduceNode \in Nodes \ Slots /\ SinkNode \in Nodes \ Slots
      /\ ReduceNode # SinkNode /\ Slots \subseteq Nodes
  <2>1. MaxSlots \in Nat
    BY ParameterAssumption
  <2>2. n \in Int /\ 1 <= n /\ n <= MaxSlots + 2 /\ ~ (1 <= n /\ n <= MaxSlots)
    BY <2>1 DEF Nodes, Slots
  <2> QED BY <2>1, <2>2 DEF Nodes, Slots, ReduceNode, SinkNode
<1>2. DOMAIN maps[r] \subseteq Slots
  <2>1. maps[r] \in Seq(Chunk) /\ Len(maps[r]) <= MaxSlots
    BY DEF TypeInv, TypeOK, Shape
  <2> QED BY <2>1, ParameterAssumption DEF Slots
<1>3. n = SinkNode => task[r][ReduceNode] = "done"
  BY DEF TypeInv, Shape
<1>4. \A i \in DOMAIN maps[r] : task[r][i] = "done"
  BY <1>1, <1>3 DEF TypeInv, Shape
<1> QED BY <1>1, <1>2, <1>3, <1>4

LEMMA LeastElement ==
  ASSUME NEW T, T \subseteq Nat, T # {}
  PROVE  \E x \in T : \A y \in T : x <= y
<1> DEFINE R == {ss \in Nat \X Nat : ss[1] < ss[2]}
<1>1. IsWellFoundedOn(R, Nat)
  BY NatLessThanWellFounded DEF OpToRel
<1>2. PICK x \in T : \A y \in T : ~ (<<y, x>> \in R)
  BY <1>1, WFMin
<1>3. \A y \in T : x <= y
  <2> SUFFICES ASSUME NEW y \in T, y < x PROVE FALSE
    OBVIOUS
  <2>1. <<y, x>> \in Nat \X Nat
    OBVIOUS
  <2>2. <<y, x>>[1] = y /\ <<y, x>>[2] = x
    OBVIOUS
  <2>3. <<y, x>> \in R
    BY <2>1, <2>2
  <2> QED BY <1>2, <2>3
<1> QED BY <1>3
=============================================================================
