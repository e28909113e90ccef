------------------------- MODULE WorkflowFreshProofs -------------------------
(* The cache of WorkflowExecutor never hands out a stale output, for every  *)
(* set of plans, inputs and edits, if runs follow one another (one runner), *)
(* every input is local, all plans use one kernel and either no run is      *)
(* killed or every run is of the same plan, over inputs that keep their     *)
(* number of events.  TLC finds a stale result when any of these is given   *)
(* up.  That the output file is what the report says needs no common        *)
(* kernel; that manifests tell the truth, one runner and no kills.  A later *)
(* part shows that the executor with its cache implements the run without   *)
(* one, step by step; the last is about several runners at once.            *)
EXTENDS WorkflowRefinement, WorkflowProofs

OneRunner == \A r1, r2 \in Runners : r1 = r2

OneAtATime == OneRunner /\ MaxCrashes = 0

\* Every run is planned alike: of the same plan, over inputs that keep their
\* number of events when their content is edited.
PlannedAlike ==
  /\ \A p1, p2 \in Plans : p1 = p2
  /\ \A s \in Sources : \A v, w \in 0 .. MaxVersion : Events[s][v] = Events[s][w]

Unchanging == PlannedAlike /\ Remote = {}

Orderly == OneRunner /\ (MaxCrashes = 0 \/ Unchanging)

Undisturbed ==
  /\ Orderly
  /\ Remote = {}
  /\ \A k1, k2 \in Kernels : k1 = k2

Writing == {"opened", "written", "signing"}

Bounds == \A r \in Runners, s \in Sources : begun[r][s] <= version[s]

\* A node's key was computed in this run from this run's map list.
KeyFits(r, n) ==
  IF n \in Slots
  THEN /\ key[r][n].chunk = maps[r][n]
       /\ maps[r][n].source \in Remote \/ begun[r][maps[r][n].source] <= key[r][n].stamp
       /\ key[r][n].stamp <= version[maps[r][n].source]
  ELSE key[r][n].inputs = [i \in DOMAIN maps[r] |-> key[r][i]]

KeysFit == \A r \in Runners, n \in Nodes : task[r][n] # "todo" => KeyFits(r, n)

OutputsFit ==
  \A r \in Runners, n \in Nodes :
    task[r][n] \in HasOutput => Describes(n, key[r][n], output[r][n])

HitsFit ==
  \A r \in Runners, n \in Nodes : task[r][n] = "hit" => manifest[n] = key[r][n]

\* What a run that is writing a node has put on disk so far.
WritesFit ==
  \A r \in Runners, n \in Nodes :
    /\ task[r][n] = "opened" => artifact[n] = Empty
    /\ task[r][n] \in {"written", "signing"} => artifact[n] = output[r][n]
    /\ task[r][n] = "signing" => manifest[n] = Empty

Settled(n) ==
  /\ manifest[n] \notin Torn
  /\ artifact[n] \notin Torn \cup {Missing}
  /\ Describes(n, manifest[n], artifact[n])

Signed(n) == manifest[n] \notin Torn \cup {Missing}

\* Some input of key k was stamped before it was at the versions `low`, and all
\* were when they had come no further than `high`.
StaleSince(n, k, low) ==
  IF n \in Slots THEN k.stamp < low[k.chunk.source]
  ELSE \E i \in DOMAIN k.inputs : k.inputs[i].stamp < low[k.inputs[i].chunk.source]
StampedBy(n, k, high) ==
  IF n \in Slots THEN k.stamp <= high[k.chunk.source]
  ELSE \A i \in DOMAIN k.inputs : k.inputs[i].stamp <= high[k.inputs[i].chunk.source]

\* What a killed run leaves behind where it was writing: a manifest that nobody can
\* read, or one of inputs that have been edited since, so that no run finds its key
\* in it.
Leftover(n) ==
  /\ MaxCrashes # 0
  /\ \/ manifest[n] \in Torn
     \/ \E r \in Runners : Signed(n) /\ StaleSince(n, manifest[n], begun[r])

DiskFits ==
  \A n \in Nodes :
    \/ \E r \in Runners : task[r][n] \in Writing
    \/ manifest[n] = Missing
    \/ Settled(n)
    \/ Leftover(n)

Quiet ==
  \A r \in Runners :
    /\ \A n \in Nodes : task[r][n] \in InProgress =>
         phase[r] = "running" \/ (phase[r] = "failed" /\ MaxCrashes # 0)
    /\ phase[r] = "ok" => task[r][SinkNode] = "done"

FreshInv ==
  TypeInv /\ Bounds /\ KeysFit /\ OutputsFit /\ HitsFit /\ WritesFit /\ DiskFits /\ Quiet

-----------------------------------------------------------------------------
\* With one runner, FreshInv is kept by a node's step if that node keeps it.
LEMMA OneNodeSuffices ==
  ASSUME FreshInv, OneRunner, NEW r \in Runners, NEW n \in Nodes, NodeStep(r, n),
         key'[r] = key[r] \/ task[r][n] = "todo",
         KeyFits(r, n)',
         task'[r][n] \in HasOutput => Describes(n, key'[r][n], output'[r][n]),
         task'[r][n] = "hit" => manifest'[n] = key'[r][n],
         task'[r][n] = "opened" => artifact'[n] = Empty,
         task'[r][n] \in {"written", "signing"} => artifact'[n] = output'[r][n],
         task'[r][n] = "signing" => manifest'[n] = Empty,
         task'[r][n] \in Writing \/ manifest'[n] = Missing \/ Settled(n)' \/ Leftover(n)'
  PROVE  FreshInv'
<1>1. TypeInv'
  BY NodeStepTypeInv DEF FreshInv
<1>2. /\ version' = version /\ maps' = maps /\ begun' = begun /\ phase' = phase
      /\ phase[r] = "running" /\ task'[r][n] # "todo"
  BY OtherNodes DEF FreshInv
<1>3. \A m \in Nodes \ {n} :
        /\ task'[r][m] = task[r][m] /\ key'[r][m] = key[r][m]
        /\ output'[r][m] = output[r][m]
        /\ artifact'[m] = artifact[m] /\ manifest'[m] = manifest[m]
  BY OtherNodes DEF FreshInv
<1>4. \A q \in Runners : q = r
  BY DEF OneRunner
<1>5. Bounds'
  BY <1>2 DEF FreshInv, Bounds
<1>6. ASSUME NEW m \in Nodes \ {n}, task'[r][m] # "todo"
      PROVE  KeyFits(r, m)'
  <2>1. KeyFits(r, m) /\ task[r][m] # "todo"
    BY <1>3, <1>6 DEF FreshInv, KeysFit
  <2>2. CASE m \in Slots
    BY <1>2, <1>3, <2>1, <2>2 DEF KeyFits
  <2>3. CASE m \notin Slots
    <3>1. \A i \in DOMAIN maps[r] : task[r][i] = "done" /\ i \in Nodes
      <4>1. m = ReduceNode \/ (m = SinkNode /\ task[r][ReduceNode] = "done"
                               /\ ReduceNode \in Nodes)
        BY <2>1, <2>3, ParameterAssumption
        DEF FreshInv, TypeInv, Shape, Nodes, Slots, ReduceNode, SinkNode
      <4>2. \A i \in DOMAIN maps[r] : i \in Nodes
        BY ParameterAssumption DEF FreshInv, TypeInv, Shape, TypeOK, Nodes
      <4> QED BY <2>1, <4>1, <4>2 DEF FreshInv, TypeInv, Shape
    <3>2. \A i \in DOMAIN maps[r] : key'[r][i] = key[r][i]
      BY <1>3, <3>1
    <3> QED BY <1>2, <1>3, <2>1, <2>3, <3>2 DEF KeyFits
  <2> QED BY <2>2, <2>3
<1>7. KeysFit'
  BY <1>4, <1>6 DEF KeysFit
<1>8. OutputsFit'
  <2>1. \A m \in Nodes \ {n} : task'[r][m] \in HasOutput =>
          Describes(m, key'[r][m], output'[r][m])
    BY <1>3 DEF FreshInv, OutputsFit
  <2> QED BY <1>4, <2>1 DEF OutputsFit
<1>9. HitsFit'
  <2>1. \A m \in Nodes \ {n} : task'[r][m] = "hit" => manifest'[m] = key'[r][m]
    BY <1>3 DEF FreshInv, HitsFit
  <2> QED BY <1>4, <2>1 DEF HitsFit
<1>10. WritesFit'
  <2>1. \A m \in Nodes \ {n} :
          /\ task'[r][m] = "opened" => artifact'[m] = Empty
          /\ task'[r][m] \in {"written", "signing"} => artifact'[m] = output'[r][m]
          /\ task'[r][m] = "signing" => manifest'[m] = Empty
    BY <1>3 DEF FreshInv, WritesFit
  <2> QED BY <1>4, <2>1 DEF WritesFit
<1>11. DiskFits'
  <2>1. ASSUME NEW m \in Nodes \ {n}
        PROVE  task'[r][m] \in Writing \/ manifest'[m] = Missing \/ Settled(m)' \/ Leftover(m)'
    BY <1>2, <1>3, <1>4 DEF FreshInv, DiskFits, Settled, Leftover, Signed
  <2> QED BY <1>4, <2>1 DEF DiskFits
<1>12. Quiet'
  BY <1>2, <1>4 DEF Quiet
<1> QED BY <1>1, <1>5, <1>7, <1>8, <1>9, <1>10, <1>11, <1>12 DEF FreshInv
-----------------------------------------------------------------------------

-----------------------------------------------------------------------------
(* A key of this run is of inputs no older than the run.                    *)

LEMMA MapKeyIsCurrent ==
  ASSUME FreshInv, NEW r \in Runners, NEW i \in Slots, task[r][i] # "todo"
  PROVE  /\ key[r][i] \in MapKey
         /\ key[r][i].chunk = maps[r][i] /\ i \in DOMAIN maps[r]
         /\ Remote = {} => begun[r][key[r][i].chunk.source] <= key[r][i].stamp
         /\ key[r][i].stamp <= version[key[r][i].chunk.source]
<1>1. i \in Nodes
  BY NodeNumbers
<1>2. key[r][i] \in MapKey /\ i \in DOMAIN maps[r]
  BY <1>1 DEF FreshInv, TypeInv, TypeOK, Shape, Key
<1>3. KeyFits(r, i)
  BY <1>1 DEF FreshInv, KeysFit
<1> QED BY <1>2, <1>3 DEF KeyFits

LEMMA MergedKeyIsCurrent ==
  ASSUME FreshInv, NEW r \in Runners, NEW n \in Nodes \ Slots, task[r][n] # "todo"
  PROVE  /\ key[r][n] \in ReduceKey
         /\ DOMAIN key[r][n].inputs = DOMAIN maps[r]
         /\ \A i \in DOMAIN maps[r] :
              /\ i \in Slots /\ task[r][i] = "done"
              /\ key[r][n].inputs[i] = key[r][i]
<1>1. key[r][n] \in ReduceKey
  BY DEF FreshInv, TypeInv, TypeOK, Shape, Key
<1>2. key[r][n].inputs = [i \in DOMAIN maps[r] |-> key[r][i]]
  BY DEF FreshInv, KeysFit, KeyFits
<1>3. \A i \in DOMAIN maps[r] : i \in Slots /\ task[r][i] = "done"
  BY DependenciesDone DEF FreshInv
<1> QED BY <1>1, <1>2, <1>3

LEMMA KeyIsCurrent ==
  ASSUME FreshInv, Remote = {}, NEW r \in Runners, NEW n \in Nodes, task[r][n] # "todo"
  PROVE  ~ StaleSince(n, key[r][n], begun[r])
<1>1. ASSUME NEW i \in Slots, task[r][i] # "todo"
      PROVE  ~ (key[r][i].stamp < begun[r][key[r][i].chunk.source])
  <2>1. /\ key[r][i] \in MapKey
        /\ begun[r][key[r][i].chunk.source] <= key[r][i].stamp
    BY <1>1, MapKeyIsCurrent
  <2>2. key[r][i].stamp \in Nat /\ begun[r][key[r][i].chunk.source] \in Nat
    <3>1. key[r][i].stamp \in Nat /\ key[r][i].chunk.source \in Sources
      BY <2>1 DEF MapKey, Chunk
    <3> QED BY <3>1 DEF FreshInv, TypeInv, TypeOK
  <2> QED BY ONLY <2>1, <2>2
<1>2. CASE n \in Slots
  BY <1>1, <1>2 DEF StaleSince
<1>3. CASE n \notin Slots
  <2>1. /\ DOMAIN key[r][n].inputs = DOMAIN maps[r]
        /\ \A i \in DOMAIN maps[r] :
             /\ i \in Slots /\ task[r][i] = "done"
             /\ key[r][n].inputs[i] = key[r][i]
    BY <1>3, MergedKeyIsCurrent
  <2> QED BY <1>1, <1>3, <2>1 DEF StaleSince
<1> QED BY <1>2, <1>3

\* So what a killed run leaves behind is never taken for this run's.
LEMMA HitIsCurrent ==
  ASSUME FreshInv, Orderly, NEW r \in Runners, NEW n \in Nodes, task[r][n] # "todo",
         manifest[n] = key[r][n]
  PROVE  ~ Leftover(n)
<1>1. manifest[n] \notin Torn
  BY SentinelAssumption DEF FreshInv, TypeInv, TypeOK, Shape, Key, Torn
<1>2. \A q \in Runners : q = r
  BY DEF Orderly, OneRunner
<1>3. MaxCrashes # 0 => Remote = {}
  BY DEF Orderly, Unchanging
<1>4. MaxCrashes # 0 => ~ StaleSince(n, manifest[n], begun[r])
  BY <1>3, KeyIsCurrent
<1> QED BY <1>1, <1>2, <1>4 DEF Leftover
-----------------------------------------------------------------------------

\* The reduce's output is described by the sink's key too.
LEMMA SinkOfReduce ==
  ASSUME FreshInv, NEW r \in Runners, task[r][SinkNode] # "todo"
  PROVE  Describes(SinkNode, key[r][SinkNode], output[r][ReduceNode])
<1> USE DEF FreshInv
<1>1. SinkNode \in Nodes \ Slots
  BY ParameterAssumption DEF Nodes, Slots, SinkNode
<1>2. /\ ReduceNode \in Nodes \ Slots /\ task[r][ReduceNode] = "done"
  BY <1>1, DependenciesDone
<1>3. key[r][SinkNode].inputs = key[r][ReduceNode].inputs
  BY <1>1, <1>2 DEF KeysFit, KeyFits
<1>4. Describes(ReduceNode, key[r][ReduceNode], output[r][ReduceNode])
  BY <1>2 DEF OutputsFit, HasOutput
<1> QED BY <1>1, <1>2, <1>3, <1>4 DEF Describes, DescribesMerged

LEMMA ComputeKeyFresh ==
  ASSUME FreshInv, OneRunner, NEW r \in Runners, NEW n \in Nodes, ComputeKey(r, n)
  PROVE  FreshInv'
<1> USE DEF FreshInv
<1>1. NodeStep(r, n)
  BY DEF NodeStep
<1>2. /\ task[r][n] = "todo" /\ task'[r][n] = "keyed" /\ Ready(r, n)
      /\ key'[r][n] = NodeKey(r, n)
      /\ maps' = maps /\ begun' = begun /\ version' = version
      /\ artifact' = artifact /\ manifest' = manifest
  BY DEF ComputeKey, Advance, SameRun, disk, TypeInv, TypeOK
<1>3. KeyFits(r, n)'
  <2>1. CASE n \in Slots
    <3>1. n \in DOMAIN maps[r]
      BY <1>2, <2>1, ParameterAssumption DEF Ready, Slots, ReduceNode, SinkNode
    <3>2. maps[r][n] \in Chunk
      BY <3>1 DEF TypeInv, TypeOK
    <3>3. maps[r][n].source \in Sources
      BY <3>2 DEF Chunk
    <3>4. NodeKey(r, n) = [chunk |-> maps[r][n], stamp |-> Stamp(maps[r][n].source)]
      BY <2>1 DEF NodeKey
    <3>5. /\ version[maps[r][n].source] \in Nat
          /\ begun[r][maps[r][n].source] <= version[maps[r][n].source]
      BY <3>3 DEF Bounds, TypeInv, TypeOK
    <3>6. /\ Stamp(maps[r][n].source) <= version[maps[r][n].source]
          /\ \/ maps[r][n].source \in Remote
             \/ begun[r][maps[r][n].source] <= Stamp(maps[r][n].source)
      BY <3>5 DEF Stamp
    <3> QED BY <1>2, <2>1, <3>4, <3>6 DEF KeyFits
  <2>2. CASE n \notin Slots
    <3>1. DOMAIN maps[r] \subseteq Nodes \ {n}
      BY <2>2, ParameterAssumption DEF TypeInv, TypeOK, Shape, Slots, Nodes
    <3>2. \A i \in DOMAIN maps[r] : key'[r][i] = key[r][i]
      BY <1>1, <3>1, OtherNodes
    <3> QED BY <1>2, <2>2, <3>2 DEF KeyFits, NodeKey
  <2> QED BY <2>1, <2>2
<1>4. manifest'[n] = Missing \/ Settled(n)' \/ Leftover(n)'
  BY <1>2 DEF DiskFits, Writing, Settled, Leftover, Signed, OneRunner
<1> QED BY <1>1, <1>2, <1>3, <1>4, OneNodeSuffices DEF HasOutput

LEMMA CheckFresh ==
  ASSUME FreshInv, OneRunner, NEW r \in Runners, NEW n \in Nodes,
         \/ CheckUnreadable(r, n) \/ CheckHit(r, n) \/ CheckMiss(r, n)
         \/ LoadUnreadable(r, n) \/ ComputeFails(r, n)
  PROVE  FreshInv'
<1> USE DEF FreshInv
<1>1. NodeStep(r, n)
  BY DEF NodeStep
<1>2. /\ task[r][n] \in {"keyed", "hit", "miss"}
      /\ task'[r][n] \in {"hit", "miss", "error"}
      /\ task'[r][n] = "hit" => manifest[n] = key[r][n]
      /\ key' = key /\ maps' = maps /\ begun' = begun /\ version' = version
      /\ artifact' = artifact /\ manifest' = manifest
  BY DEF CheckUnreadable, CheckHit, CheckMiss, LoadUnreadable, ComputeFails,
         UpToDate, Advance, SameRun, disk, TypeInv, TypeOK
<1>3. KeyFits(r, n)'
  BY <1>2 DEF KeysFit, KeyFits
<1>4. manifest'[n] = Missing \/ Settled(n)' \/ Leftover(n)'
  BY <1>2 DEF DiskFits, Writing, Settled, Leftover, Signed, OneRunner
<1> QED BY <1>1, <1>2, <1>3, <1>4, OneNodeSuffices DEF HasOutput

LEMMA LoadFresh ==
  ASSUME FreshInv, Orderly, NEW r \in Runners, NEW n \in Nodes, Load(r, n)
  PROVE  FreshInv'
<1> USE DEF FreshInv
<1>1. NodeStep(r, n)
  BY DEF NodeStep
<1>2. /\ task[r][n] = "hit" /\ task'[r][n] = "done"
      /\ output'[r][n] = IF n = SinkNode THEN output[r][ReduceNode] ELSE artifact[n]
      /\ key' = key /\ maps' = maps /\ begun' = begun /\ version' = version
      /\ artifact' = artifact /\ manifest' = manifest
  BY DEF Load, Advance, SameRun, disk, TypeInv, TypeOK
<1>3. KeyFits(r, n)'
  BY <1>2 DEF KeysFit, KeyFits
<1>4. manifest[n] = Missing \/ Settled(n)
  <2>1. ~ Leftover(n)
    BY <1>2, HitIsCurrent DEF HitsFit
  <2> QED BY <1>2, <2>1 DEF DiskFits, Writing, Orderly, OneRunner
<1>5. Describes(n, key'[r][n], output'[r][n])
  <2>1. CASE n = SinkNode
    BY <1>2, <2>1, SinkOfReduce
  <2>2. CASE n # SinkNode
    <3>1. manifest[n] = key[r][n]
      BY <1>2 DEF HitsFit
    <3>2. key[r][n] # Missing
      BY <1>2, SentinelAssumption DEF TypeInv, TypeOK, Shape, Key
    <3> QED BY <1>2, <1>4, <2>2, <3>1, <3>2 DEF Settled
  <2> QED BY <2>1, <2>2
<1>6. manifest'[n] = Missing \/ Settled(n)' \/ Leftover(n)'
  BY <1>2, <1>4 DEF Settled
<1> QED BY <1>1, <1>2, <1>3, <1>5, <1>6, OneNodeSuffices DEF Orderly

LEMMA ComputeFresh ==
  ASSUME FreshInv, OneRunner, NEW r \in Runners, NEW n \in Nodes, Compute(r, n)
  PROVE  FreshInv'
<1> USE DEF FreshInv
<1>1. NodeStep(r, n)
  BY DEF NodeStep
<1>2. /\ task[r][n] = "miss" /\ task'[r][n] = "computed"
      /\ output'[r][n] = Fresh(r, n)
      /\ key' = key /\ maps' = maps /\ begun' = begun /\ version' = version
      /\ artifact' = artifact /\ manifest' = manifest
  BY DEF Compute, Advance, SameRun, disk, TypeInv, TypeOK
<1>3. KeyFits(r, n) /\ KeyFits(r, n)'
  BY <1>2 DEF KeysFit, KeyFits
<1>4. manifest'[n] = Missing \/ Settled(n)' \/ Leftover(n)'
  BY <1>2 DEF DiskFits, Writing, Settled, Leftover, Signed, OneRunner
<1>5. Describes(n, key[r][n], Fresh(r, n))
  <2>1. CASE n \in Slots
    BY <1>3, <2>1 DEF KeyFits, Fresh, Describes, DescribesMap
  <2>2. CASE n = ReduceNode
    <3>1. n \in Nodes \ Slots
      BY <2>2, ParameterAssumption DEF Slots, ReduceNode
    <3>2. \A i \in DOMAIN maps[r] : i \in Slots /\ i \in Nodes /\ task[r][i] = "done"
      BY <1>2, <3>1, DependenciesDone
    <3>3. \A i \in DOMAIN maps[r] : DescribesMap(key[r][i], output[r][i])
      BY <3>2 DEF OutputsFit, HasOutput, Describes
    <3> QED BY <1>3, <2>2, <3>1, <3>3 DEF KeyFits, Fresh, Describes, DescribesMerged
  <2>3. CASE n = SinkNode
    <3>1. Fresh(r, n) = output[r][ReduceNode]
      BY <2>3, ParameterAssumption DEF Fresh, Slots, ReduceNode, SinkNode
    <3> QED BY <1>2, <2>3, <3>1, SinkOfReduce
  <2>4. n \in Slots \/ n = ReduceNode \/ n = SinkNode
    BY <1>2, DependenciesDone
  <2> QED BY <2>1, <2>2, <2>3, <2>4
<1> QED BY <1>1, <1>2, <1>3, <1>4, <1>5, OneNodeSuffices

LEMMA WriteFresh ==
  ASSUME FreshInv, OneRunner, NEW r \in Runners, NEW n \in Nodes,
         \/ OpenArtifact(r, n) \/ WriteArtifact(r, n)
         \/ OpenManifest(r, n) \/ WriteManifest(r, n)
  PROVE  FreshInv'
<1> USE DEF FreshInv
<1>1. NodeStep(r, n)
  BY DEF NodeStep
<1>2. /\ task[r][n] \in HasOutput \ {"done"} /\ task'[r][n] \in HasOutput
      /\ key' = key /\ output' = output
      /\ maps' = maps /\ begun' = begun /\ version' = version
  BY DEF OpenArtifact, WriteArtifact, OpenManifest, WriteManifest, Advance, SameRun,
         TypeInv, TypeOK, HasOutput
<1>3. KeyFits(r, n)'
  BY <1>2 DEF KeysFit, KeyFits, HasOutput
<1>4. Describes(n, key[r][n], output[r][n])
  BY <1>2 DEF OutputsFit
<1>5. CASE OpenArtifact(r, n)
  <2>1. task'[r][n] = "opened" /\ artifact'[n] = Empty
    BY <1>5 DEF OpenArtifact, Advance, TypeInv, TypeOK
  <2> QED BY <1>1, <1>2, <1>3, <1>4, <2>1, OneNodeSuffices DEF Writing
<1>6. CASE WriteArtifact(r, n)
  <2>1. task[r][n] = "opened" /\ task'[r][n] = "written"
    BY <1>6 DEF WriteArtifact, Advance, TypeInv, TypeOK
  <2>2. artifact[n] = Empty
    BY <2>1 DEF WritesFit
  <2>3. artifact'[n] = output[r][n]
    BY <1>6, <2>2 DEF WriteArtifact, Overwritten, TypeInv, TypeOK
  <2> QED BY <1>1, <1>2, <1>3, <1>4, <2>1, <2>3, OneNodeSuffices DEF Writing
<1>7. CASE OpenManifest(r, n)
  <2>1. /\ task[r][n] = "written" /\ task'[r][n] = "signing"
        /\ artifact' = artifact /\ manifest'[n] = Empty
    BY <1>7 DEF OpenManifest, Advance, TypeInv, TypeOK
  <2>2. artifact[n] = output[r][n]
    BY <2>1 DEF WritesFit
  <2> QED BY <1>1, <1>2, <1>3, <1>4, <2>1, <2>2, OneNodeSuffices DEF Writing
<1>8. CASE WriteManifest(r, n)
  <2>1. task[r][n] = "signing" /\ task'[r][n] = "done" /\ artifact' = artifact
    BY <1>8 DEF WriteManifest, Advance, TypeInv, TypeOK
  <2>2. artifact[n] = output[r][n] /\ manifest[n] = Empty
    BY <2>1 DEF WritesFit
  <2>3. manifest'[n] = key[r][n]
    BY <1>8, <2>2 DEF WriteManifest, Overwritten, TypeInv, TypeOK
  <2>4. key[r][n] \in Key(n) /\ output[r][n] \in Output(n)
    BY <1>2 DEF TypeInv, TypeOK, Shape, HasOutput
  <2>5. Settled(n)'
    BY <1>2, <1>4, <2>1, <2>2, <2>3, <2>4, SentinelAssumption
    DEF Settled, Torn, Key, Output
  <2> QED BY <1>1, <1>2, <1>3, <1>4, <2>1, <2>5, OneNodeSuffices
<1> QED BY <1>5, <1>6, <1>7, <1>8
-----------------------------------------------------------------------------

LEMMA InitFresh == Init => FreshInv
<1> SUFFICES ASSUME Init PROVE FreshInv
  OBVIOUS
<1>1. TypeInv
  BY InitTypeInv
<1>2. Bounds /\ Quiet
  BY DEF Init, Bounds, Quiet, InProgress, Nodes
<1>3. KeysFit /\ OutputsFit /\ HitsFit /\ WritesFit
  BY DEF Init, KeysFit, OutputsFit, HitsFit, WritesFit, HasOutput
<1>4. DiskFits
  BY DEF Init, DiskFits
<1> QED BY <1>1, <1>2, <1>3, <1>4 DEF FreshInv

LEMMA EditFresh ==
  ASSUME FreshInv, TypeInv', NEW s \in Sources, Edit(s)
  PROVE  FreshInv'
<1> USE DEF FreshInv
<1>1. /\ artifact' = artifact /\ manifest' = manifest /\ phase' = phase
      /\ maps' = maps /\ task' = task /\ key' = key /\ output' = output
      /\ begun' = begun
  BY DEF Edit, disk, local
<1>2. \A t \in Sources :
        version[t] \in Nat /\ version'[t] \in Nat /\ version[t] <= version'[t]
  BY DEF Edit, TypeInv, TypeOK
<1>3. Bounds'
  BY <1>1, <1>2 DEF Bounds, TypeInv, TypeOK
<1>4. ASSUME NEW r \in Runners, NEW n \in Nodes, task'[r][n] # "todo"
      PROVE  KeyFits(r, n)'
  <2>1. KeyFits(r, n)
    BY <1>1, <1>4 DEF KeysFit
  <2>2. CASE n \in Slots
    <3>1. maps[r][n] \in Chunk /\ key[r][n] \in MapKey
      BY <1>1, <1>4, <2>2, SentinelAssumption DEF TypeInv, TypeOK, Shape, Key
    <3>2. maps[r][n].source \in Sources /\ key[r][n].stamp \in Nat
      BY <3>1 DEF Chunk, MapKey
    <3> QED BY <1>1, <1>2, <2>1, <2>2, <3>2 DEF KeyFits
  <2>3. CASE n \notin Slots
    BY <1>1, <2>1, <2>3 DEF KeyFits
  <2> QED BY <2>2, <2>3
<1>5. KeysFit'
  BY <1>4 DEF KeysFit
<1>6. OutputsFit' /\ HitsFit' /\ WritesFit'
  BY <1>1 DEF OutputsFit, HitsFit, WritesFit
<1>7. DiskFits' /\ Quiet'
  BY <1>1 DEF DiskFits, Settled, Leftover, Signed, Quiet
<1> QED BY <1>3, <1>5, <1>6, <1>7

LEMMA PlanSourceFresh ==
  ASSUME FreshInv, TypeInv', OneRunner, NEW r \in Runners, PlanSource(r)
  PROVE  FreshInv'
<1> USE DEF FreshInv
<1>1. /\ \A q \in Runners : q = r
      /\ phase' = phase /\ phase[r] = "planning" /\ task' = task
      /\ begun' = begun /\ version' = version
      /\ artifact' = artifact /\ manifest' = manifest
  BY DEF PlanSource, OneRunner, disk
<1>2. \A n \in Nodes : task'[r][n] = "todo"
  BY <1>1 DEF TypeInv, Shape
<1>3. Bounds'
  BY <1>1 DEF Bounds
<1>4. KeysFit' /\ OutputsFit' /\ HitsFit' /\ WritesFit'
  BY <1>1, <1>2 DEF KeysFit, OutputsFit, HitsFit, WritesFit, HasOutput
<1>5. Quiet'
  BY <1>1, <1>2 DEF Quiet, InProgress
<1>6. DiskFits'
  BY <1>1 DEF DiskFits, Settled, Leftover, Signed
<1> QED BY <1>3, <1>4, <1>5, <1>6

LEMMA PhaseFresh ==
  ASSUME FreshInv, TypeInv', OneRunner, NEW r \in Runners,
         Execute(r) \/ PlanFails(r) \/ Finish(r) \/ Fail(r) \/ Crash(r)
  PROVE  FreshInv'
<1> USE DEF FreshInv
<1>1. /\ \A q \in Runners : q = r
      /\ version' = version /\ maps' = maps /\ task' = task /\ key' = key
      /\ output' = output /\ begun' = begun
      /\ artifact' = artifact /\ manifest' = manifest
  BY DEF Execute, PlanFails, Finish, Fail, Crash, OneRunner, disk
<1>2. Bounds' /\ KeysFit' /\ OutputsFit' /\ HitsFit' /\ WritesFit' /\ DiskFits'
  BY <1>1 DEF Bounds, KeysFit, KeyFits, OutputsFit, HitsFit, WritesFit, DiskFits, Settled,
     Leftover, Signed
<1>3. /\ \A n \in Nodes : task'[r][n] \in InProgress => 
           phase'[r] = "running" \/ (phase'[r] = "failed" /\ MaxCrashes # 0)
      /\ phase'[r] = "ok" => task'[r][SinkNode] = "done"
  <2>1. CASE Execute(r)
    BY <1>1, <2>1 DEF Execute, TypeInv, TypeOK
  <2>2. CASE PlanFails(r)
    BY <1>1, <2>2 DEF PlanFails, TypeInv, TypeOK, Shape, InProgress
  <2>3. CASE Finish(r)
    <3>1. task[r][SinkNode] = "done" /\ SinkNode \in Nodes \ Slots
      BY <2>3, ParameterAssumption DEF Finish, Nodes, Slots, SinkNode
    <3>2. /\ task[r][ReduceNode] = "done"
          /\ \A i \in DOMAIN maps[r] : task[r][i] = "done"
      BY <3>1, DependenciesDone
    <3>3. ASSUME NEW n \in Nodes PROVE task[r][n] \in {"todo", "done"}
      <4>1. CASE n \in Slots
        BY <3>2, <4>1 DEF TypeInv, Shape
      <4>2. CASE n \notin Slots
        BY <3>1, <3>2, <4>2, DependenciesDone
      <4> QED BY <4>1, <4>2
    <3> QED BY <1>1, <2>3, <3>1, <3>3 DEF InProgress
  <2>4. CASE Fail(r)
    BY <1>1, <2>4 DEF Fail, TypeInv, TypeOK
  <2>5. CASE Crash(r)
    <3>1. phase[r] \in {"planning", "running"} /\ phase'[r] = "failed" /\ MaxCrashes # 0
      BY <2>5 DEF Crash, TypeInv, TypeOK
    <3> QED BY <1>1, <3>1
  <2> QED BY <2>1, <2>2, <2>3, <2>4, <2>5
<1>4. Quiet'
  BY <1>1, <1>3 DEF Quiet
<1> QED BY <1>2, <1>4

-----------------------------------------------------------------------------
(* The planner: what is planned are the chunks of some moment.               *)

\* The first k inputs of plan p, each read at some version from `low` to `high`,
\* have been cut into the chunks m.
PlannedFrom(p, k, m, low, high) ==
  \E at \in [1 .. k -> 0 .. MaxVersion], S \in [0 .. k -> Seq(Chunk)] :
    /\ S[0] = << >>
    /\ S[k] = m
    /\ \A j \in 1 .. k :
         LET s == Inputs[p][j]
         IN /\ S[j] = S[j - 1] \o PlanChunks(p, s, Events[s][at[j]])
            /\ low[s] <= at[j] /\ at[j] <= high[s]

PlansFit ==
  \A r \in Runners : phase[r] \in {"planning", "running"} =>
    /\ planned[r] <= Len(Inputs[plan[r]])
    /\ phase[r] = "running" => planned[r] = Len(Inputs[plan[r]])
    /\ PlannedFrom(plan[r], planned[r], maps[r], begun[r], version)

-----------------------------------------------------------------------------
(* The chunks of a plan, input by input, are those of its flattened list.   *)

LEMMA FlattenIsLast ==
  ASSUME NEW n \in Nat, NEW seqs, seqs \in Seq(Seq(Chunk)), Len(seqs) = n,
         NEW S \in [0 .. n -> Seq(Chunk)], S[0] = << >>,
         \A j \in 1 .. n : S[j] = S[j - 1] \o seqs[j]
  PROVE  Abstract!FlattenSeq(seqs) = S[n]
<1>1. CASE n = 0
  BY <1>1 DEF Abstract!FlattenSeq
<1>2. CASE n # 0
  <2> DEFINE body(f, i) == IF i = 1 THEN seqs[i] ELSE f[i - 1] \o seqs[i]
             IsFlatten(f) == f = [i \in 1 .. Len(seqs) |-> body(f, i)]
             last == CHOOSE f : IsFlatten(f)
             F == [i \in 1 .. n |-> S[i]]
  <2>1. Abstract!FlattenSeq(seqs) = last[Len(seqs)]
    BY <1>2 DEF Abstract!FlattenSeq
  <2>2. \A i \in 1 .. n : seqs[i] \in Seq(Chunk)
    OBVIOUS
  <2>3. S[1] = seqs[1]
    <3>1. 1 \in 1 .. n /\ 1 - 1 = 0
      BY <1>2
    <3>2. S[1] = S[0] \o seqs[1]
      BY <3>1
    <3>3. seqs[1] \in Seq(Chunk)
      BY <2>2, <3>1
    <3>4. << >> \o seqs[1] = seqs[1]
      BY ONLY <3>3, ConcatEmptySeq
    <3> QED BY <3>2, <3>4
  <2>4. ASSUME NEW i \in 1 .. n, i # 1
        PROVE  i - 1 \in 1 .. n /\ i - 1 < i /\ S[i] = S[i - 1] \o seqs[i]
    <3>1. n \in Nat /\ i \in 1 .. n /\ i # 1
      BY <2>4
    <3>2. i - 1 \in 1 .. n /\ i - 1 < i
      BY ONLY <3>1
    <3>3. S[i] = S[i - 1] \o seqs[i]
      BY <3>1
    <3> QED BY <3>2, <3>3
  <2>5. ASSUME NEW i \in 1 .. n PROVE F[i] = body(F, i)
    BY <2>3, <2>4
  <2>6. IsFlatten(F)
    <3>1. F = [i \in 1 .. Len(seqs) |-> F[i]]
      OBVIOUS
    <3> HIDE DEF F, body
    <3> QED BY <2>5, <3>1
  <2>7. IsFlatten(last)
    <3> HIDE DEF F, IsFlatten
    <3> QED BY <2>6
  <2>8. ASSUME NEW i \in 1 .. n PROVE last[i] = body(last, i)
    <3> HIDE DEF last, body
    <3> QED BY <2>7
  <2> HIDE DEF last
  <2> DEFINE Bad == {i \in 1 .. n : last[i] # S[i]}
  <2>9. Bad = {}
    <3> SUFFICES ASSUME Bad # {} PROVE FALSE
      OBVIOUS
    <3>1. Bad \subseteq Nat
      OBVIOUS
    <3>2. PICK i \in Bad : \A j \in Bad : i <= j
      <4> HIDE DEF Bad
      <4> QED BY <3>1, LeastElement
    <3>3. i \in 1 .. n /\ last[i] # S[i]
      OBVIOUS
    <3>4. CASE i = 1
      BY <2>3, <2>8, <3>3, <3>4
    <3>5. CASE i # 1
      <4>1. i - 1 \in 1 .. n /\ i - 1 < i /\ S[i] = S[i - 1] \o seqs[i]
        BY <2>4, <3>3, <3>5
      <4>2. last[i - 1] = S[i - 1]
        BY <3>2, <3>3, <4>1
      <4>3. last[i] = last[i - 1] \o seqs[i]
        BY <2>8, <3>3, <3>5
      <4> QED BY <3>3, <4>1, <4>2, <4>3
    <3> QED BY <3>4, <3>5
  <2>10. n \in 1 .. n
    BY <1>2
  <2> QED BY <2>1, <2>9, <2>10
<1> QED BY <1>1, <1>2
-----------------------------------------------------------------------------
(* What is planned could be planned at one moment per input.                *)

LEMMA NothingPlanned == \A p, low, high : PlannedFrom(p, 0, << >>, low, high)
<1> SUFFICES ASSUME NEW p, NEW low, NEW high PROVE PlannedFrom(p, 0, << >>, low, high)
  OBVIOUS
<1> DEFINE at == [j \in 1 .. 0 |-> 0]
           S == [j \in 0 .. 0 |-> << >>]
<1>1. 1 .. 0 = {}
  OBVIOUS
<1>2. S \in [0 .. 0 -> Seq(Chunk)] /\ S[0] = << >>
  OBVIOUS
<1>3. at \in [1 .. 0 -> 0 .. MaxVersion]
  BY <1>1
<1> QED BY <1>1, <1>2, <1>3 DEF PlannedFrom

LEMMA OnePlannedMore ==
  ASSUME NEW p, NEW k \in Nat, NEW m, NEW low, NEW high, PlannedFrom(p, k, m, low, high),
         NEW s, s = Inputs[p][k + 1], NEW v \in 0 .. MaxVersion,
         low[s] <= v, v <= high[s],
         NEW more \in Seq(Chunk), more = PlanChunks(p, s, Events[s][v])
  PROVE  PlannedFrom(p, k + 1, m \o more, low, high)
<1> DEFINE Cut(j, w) == PlanChunks(p, Inputs[p][j], Events[Inputs[p][j]][w])
           Seen(j, w) == low[Inputs[p][j]] <= w /\ w <= high[Inputs[p][j]]
<1>1. PICK at \in [1 .. k -> 0 .. MaxVersion], S \in [0 .. k -> Seq(Chunk)] :
        /\ S[0] = << >> /\ S[k] = m
        /\ \A j \in 1 .. k : S[j] = S[j - 1] \o Cut(j, at[j]) /\ Seen(j, at[j])
  BY DEF PlannedFrom
<1>2. more = Cut(k + 1, v) /\ Seen(k + 1, v)
  OBVIOUS
<1> HIDE DEF Cut, Seen
<1> DEFINE at2 == [j \in 1 .. k + 1 |-> IF j = k + 1 THEN v ELSE at[j]]
           T == [j \in 0 .. k + 1 |-> IF j = k + 1 THEN m \o more ELSE S[j]]
<1>3. m \in Seq(Chunk) /\ m \o more \in Seq(Chunk)
  BY <1>1, ConcatProperties
<1>4. T \in [0 .. k + 1 -> Seq(Chunk)] /\ at2 \in [1 .. k + 1 -> 0 .. MaxVersion]
  <2>1. \A j \in 0 .. k + 1 : j = k + 1 \/ j \in 0 .. k
    OBVIOUS
  <2>2. \A j \in 1 .. k + 1 : j = k + 1 \/ j \in 1 .. k
    OBVIOUS
  <2> QED BY <1>1, <1>3, <2>1, <2>2
<1>5. 0 \in 0 .. k + 1 /\ 0 # k + 1 /\ k + 1 \in 0 .. k + 1 /\ k \in 0 .. k + 1 /\ k # k + 1
      /\ k + 1 \in 1 .. k + 1
  OBVIOUS
<1>6. T[0] = << >> /\ T[k + 1] = m \o more /\ T[k] = S[k] /\ at2[k + 1] = v
  BY <1>1, <1>5
<1>7. ASSUME NEW j \in 1 .. k + 1 PROVE T[j] = T[j - 1] \o Cut(j, at2[j]) /\ Seen(j, at2[j])
  <2>1. CASE j = k + 1
    <3>1. j - 1 = k
      BY <2>1
    <3> HIDE DEF T, at2
    <3> QED BY <1>1, <1>2, <1>6, <2>1, <3>1
  <2>2. CASE j # k + 1
    <3>1. j \in 1 .. k /\ j - 1 \in 0 .. k /\ j - 1 # k + 1
      BY <2>2
    <3>2. j \in 0 .. k + 1 /\ j - 1 \in 0 .. k + 1
      OBVIOUS
    <3>3. T[j] = S[j] /\ T[j - 1] = S[j - 1] /\ at2[j] = at[j]
      BY ONLY <2>2, <3>1, <3>2, j \in 1 .. k + 1
    <3> HIDE DEF T, at2
    <3> QED BY <1>1, <3>1, <3>3
  <2> QED BY <2>1, <2>2
<1> HIDE DEF T, at2
<1> QED BY <1>4, <1>6, <1>7 DEF PlannedFrom, Cut, Seen

\* The moments at which the inputs were read stay between the run's begin and now.
LEMMA PlannedLater ==
  ASSUME NEW p, Inputs[p] \in Seq(Sources), NEW k \in Nat, k <= Len(Inputs[p]), NEW m, NEW low,
         NEW high \in [Sources -> Nat], NEW later \in [Sources -> Nat],
         \A s \in Sources : high[s] <= later[s],
         PlannedFrom(p, k, m, low, high)
  PROVE  PlannedFrom(p, k, m, low, later)
<1>1. PICK at \in [1 .. k -> 0 .. MaxVersion], S \in [0 .. k -> Seq(Chunk)] :
        /\ S[0] = << >> /\ S[k] = m
        /\ \A j \in 1 .. k :
             LET s == Inputs[p][j]
             IN /\ S[j] = S[j - 1] \o PlanChunks(p, s, Events[s][at[j]])
                /\ low[s] <= at[j] /\ at[j] <= high[s]
  BY DEF PlannedFrom
<1>2. ASSUME NEW j \in 1 .. k PROVE at[j] <= later[Inputs[p][j]]
  <2>1. Len(Inputs[p]) \in Nat /\ j \in 1 .. Len(Inputs[p])
    OBVIOUS
  <2>2. Inputs[p][j] \in Sources
    BY <2>1
  <2>n. at[j] \in 0 .. MaxVersion
    OBVIOUS
  <2>3. at[j] \in Nat
    BY ONLY <2>n
  <2>5. at[j] <= high[Inputs[p][j]]
    BY <1>1
  <2>4. high[Inputs[p][j]] \in Nat /\ later[Inputs[p][j]] \in Nat
        /\ high[Inputs[p][j]] <= later[Inputs[p][j]]
    BY <2>2
  <2> QED BY ONLY <2>3, <2>4, <2>5
<1>3. \A j \in 1 .. k :
        LET s == Inputs[p][j]
        IN /\ S[j] = S[j - 1] \o PlanChunks(p, s, Events[s][at[j]])
           /\ low[s] <= at[j] /\ at[j] <= later[s]
  BY <1>1, <1>2
<1> QED BY ONLY <1>1, <1>3, at \in [1 .. k -> 0 .. MaxVersion], S \in [0 .. k -> Seq(Chunk)]
        DEF PlannedFrom

\* The chunks of a plan that is complete are a cacheless run's.
LEMMA PlannedIsChunkList ==
  ASSUME NEW p \in Plans, NEW m, NEW low, NEW high,
         PlannedFrom(p, Len(Inputs[p]), m, low, high)
  PROVE  \E at \in [DOMAIN Inputs[p] -> 0 .. MaxVersion] :
           /\ \A i \in DOMAIN at : low[Inputs[p][i]] <= at[i] /\ at[i] <= high[Inputs[p][i]]
           /\ m = Abstract!ChunkList(p, at)
<1> DEFINE k == Len(Inputs[p])
           Cut(j, w) == PlanChunks(p, Inputs[p][j], Events[Inputs[p][j]][w])
<1>1. PICK at \in [1 .. k -> 0 .. MaxVersion], S \in [0 .. k -> Seq(Chunk)] :
        /\ S[0] = << >> /\ S[k] = m
        /\ \A j \in 1 .. k :
             /\ S[j] = S[j - 1] \o Cut(j, at[j])
             /\ low[Inputs[p][j]] <= at[j] /\ at[j] <= high[Inputs[p][j]]
  BY DEF PlannedFrom
<1>2. Inputs[p] \in Seq(Sources) /\ k \in Nat /\ DOMAIN Inputs[p] = 1 .. k
  BY ParameterAssumption
<1>3. ASSUME NEW j \in 1 .. k PROVE Cut(j, at[j]) \in Seq(Chunk)
  <2>1. Inputs[p][j] \in Sources
    BY <1>2
  <2>2. at[j] \in 0 .. MaxVersion
    OBVIOUS
  <2>3. Events[Inputs[p][j]][at[j]] \in Nat
    BY <2>1, <2>2, ParameterAssumption
  <2>4. EffectiveSize(p) \in Nat \ {0}
    BY ParameterAssumption DEF EffectiveSize
  <2> QED BY <2>1, <2>3, <2>4, ChunksOfType DEF PlanChunks
<1> DEFINE seqs == [j \in DOMAIN Inputs[p] |-> Cut(j, at[j])]
<1>4. Abstract!ChunkList(p, at) = Abstract!FlattenSeq(seqs)
  BY DEF Abstract!ChunkList
<1> HIDE DEF Cut
<1>5. seqs \in Seq(Seq(Chunk)) /\ Len(seqs) = k
  <2> HIDE DEF k
  <2> QED BY <1>2, <1>3
<1>6. \A j \in 1 .. k : S[j] = S[j - 1] \o seqs[j]
  BY <1>1, <1>2
<1> HIDE DEF seqs, k
<1>7. Abstract!FlattenSeq(seqs) = S[k]
  BY <1>1, <1>2, <1>5, <1>6, FlattenIsLast
<1> QED BY <1>1, <1>2, <1>4, <1>7
LEMMA SamePlan ==
  ASSUME NEW r \in Runners, NEW n \in Nodes, NodeStep(r, n)
  PROVE  SameRun /\ phase[r] = "running"
BY DEF NodeStep, ComputeKey, CheckUnreadable, CheckHit, CheckMiss, Load, LoadUnreadable,
   Compute, ComputeFails, OpenArtifact, WriteArtifact, OpenManifest, WriteManifest, Advance

\* Where a node's step takes an output and an artifact from.
LEMMA OutputEffect ==
  ASSUME TypeInv, NEW r \in Runners, NEW n \in Nodes, NodeStep(r, n)
  PROVE  /\ version' = version
         /\ \A m \in Nodes : \/ artifact'[m] = artifact[m]
                             \/ artifact'[m] \in Torn
                             \/ /\ m = n /\ artifact'[m] = output[r][m]
                                /\ output[r][m] # None
         /\ \A q \in Runners, m \in Nodes :
              \/ output'[q][m] = output[q][m]
              \/ /\ q = r /\ m = n
                 /\ \/ Load(r, n)
                    \/ Compute(r, n)
<1> USE DEF TypeInv, TypeOK, Advance, SameRun, disk
<1>1. CASE \/ ComputeKey(r, n) \/ CheckUnreadable(r, n) \/ CheckHit(r, n) \/ CheckMiss(r, n)
           \/ LoadUnreadable(r, n) \/ ComputeFails(r, n)
           \/ OpenManifest(r, n) \/ WriteManifest(r, n)
  BY <1>1 DEF ComputeKey, CheckUnreadable, CheckHit, CheckMiss, LoadUnreadable, ComputeFails,
     OpenManifest, WriteManifest
<1>2. CASE Load(r, n) \/ Compute(r, n)
  BY <1>2 DEF Load, Compute
<1>3. CASE OpenArtifact(r, n)
  BY <1>3 DEF OpenArtifact, Torn
<1>4. CASE WriteArtifact(r, n)
  <2>1. output[r][n] # None
    BY <1>4 DEF WriteArtifact, Shape, HasOutput
  <2> QED BY <1>4, <2>1 DEF WriteArtifact, Overwritten, Torn
<1> QED BY <1>1, <1>2, <1>3, <1>4 DEF NodeStep

LEMMA EditPlans ==
  ASSUME TypeInv, PlansFit, NEW t \in Sources, Edit(t)
  PROVE  PlansFit'
<1>1. /\ phase' = phase /\ plan' = plan /\ planned' = planned /\ maps' = maps
      /\ begun' = begun
  BY DEF Edit, local
<1>2. /\ version \in [Sources -> Nat] /\ version' \in [Sources -> Nat]
      /\ \A s \in Sources : version[s] <= version'[s]
  BY DEF Edit, TypeInv, TypeOK
<1>3. ASSUME NEW r \in Runners, phase[r] \in {"planning", "running"}
      PROVE  PlannedFrom(plan[r], planned[r], maps[r], begun[r], version')
  <2>1. plan[r] \in Plans /\ Inputs[plan[r]] \in Seq(Sources) /\ planned[r] \in Nat
    BY <1>3, ParameterAssumption DEF TypeInv, TypeOK, Shape
  <2>2. /\ planned[r] <= Len(Inputs[plan[r]])
        /\ PlannedFrom(plan[r], planned[r], maps[r], begun[r], version)
    BY <1>3 DEF PlansFit
  <2>3. PICK p \in Plans, k \in Nat, m \in {maps[r]}, low \in {begun[r]},
             high \in [Sources -> Nat], later \in [Sources -> Nat] :
          /\ p = plan[r] /\ k = planned[r] /\ m = maps[r] /\ low = begun[r]
          /\ high = version /\ later = version'
    BY <1>2, <2>1
  <2>4. Inputs[p] \in Seq(Sources) /\ k <= Len(Inputs[p]) /\ PlannedFrom(p, k, m, low, high)
    BY <2>1, <2>2, <2>3
  <2>5. \A s \in Sources : high[s] <= later[s]
    BY <1>2, <2>3
  <2>6. PlannedFrom(p, k, m, low, later)
    BY <2>4, <2>5, PlannedLater
  <2> QED BY <2>3, <2>6
<1> QED BY <1>1, <1>3 DEF PlansFit

LEMMA PlanSourcePlans ==
  ASSUME TypeInv, Bounds, PlansFit, NEW r \in Runners, PlanSource(r)
  PROVE  PlansFit'
<1> DEFINE s == Inputs[plan[r]][planned[r] + 1]
           more == ChunksOf(s, Events[s][version[s]], EffectiveSize(plan[r]))
<1>1. /\ phase[r] = "planning" /\ planned[r] < Len(Inputs[plan[r]])
      /\ maps'[r] = maps[r] \o more /\ planned'[r] = planned[r] + 1
      /\ phase' = phase /\ plan' = plan /\ begun' = begun /\ version' = version
  BY DEF PlanSource, TypeInv, TypeOK
<1>2. plan[r] \in Plans /\ Inputs[plan[r]] \in Seq(Sources) /\ planned[r] \in Nat
  <2>1. plan[r] \in Plans
    BY <1>1 DEF TypeInv, Shape
  <2>2. planned[r] \in Nat
    BY DEF TypeInv, TypeOK
  <2> QED BY <2>1, <2>2, ParameterAssumption
<1>3. s \in Sources /\ planned[r] + 1 <= Len(Inputs[plan[r]])
  <2>1. Len(Inputs[plan[r]]) \in Nat
    BY <1>2
  <2>2. planned[r] + 1 \in 1 .. Len(Inputs[plan[r]]) /\ planned[r] + 1 <= Len(Inputs[plan[r]])
    <3>1. PICK k \in Nat, len \in Nat : k = planned[r] /\ len = Len(Inputs[plan[r]])
      BY <1>2, <2>1
    <3>2. k < len
      BY <1>1, <3>1
    <3>3. k + 1 \in 1 .. len /\ k + 1 <= len
      BY ONLY <3>2, k \in Nat, len \in Nat
    <3> QED BY <3>1, <3>3
  <2> QED BY <1>2, <2>2
<1>4. /\ version[s] \in 0 .. MaxVersion /\ version[s] <= version[s]
      /\ begun[r][s] <= version[s]
  BY <1>3 DEF TypeInv, TypeOK, Bounds
<1>5. more \in Seq(Chunk)
  <2>1. Events[s][version[s]] \in Nat
    BY <1>3, <1>4, ParameterAssumption
  <2>2. EffectiveSize(plan[r]) \in Nat \ {0}
    BY <1>2, ParameterAssumption DEF EffectiveSize
  <2> QED BY <1>3, <2>1, <2>2, ChunksOfType
<1>6. PlannedFrom(plan[r], planned[r], maps[r], begun[r], version)
  BY <1>1 DEF PlansFit
<1>7. PlannedFrom(plan[r], planned[r] + 1, maps[r] \o more, begun[r], version)
  <2>1. PICK p \in Plans, k \in Nat, m \in {maps[r]}, low \in {begun[r]}, high \in {version},
             t \in Sources, v \in 0 .. MaxVersion, c \in Seq(Chunk) :
          /\ p = plan[r] /\ k = planned[r] /\ m = maps[r] /\ low = begun[r] /\ high = version
          /\ t = s /\ v = version[s] /\ c = more
    <3> HIDE DEF s, more
    <3> QED BY <1>2, <1>3, <1>4, <1>5
  <2>2. PlannedFrom(p, k, m, low, high)
    BY <1>6, <2>1
  <2>3. t = Inputs[p][k + 1] /\ c = PlanChunks(p, t, Events[t][v])
    BY <2>1 DEF PlanChunks
  <2>4. low[t] <= v /\ v <= high[t]
    BY <1>4, <2>1
  <2>5. PlannedFrom(p, k + 1, m \o c, low, high)
    BY ONLY <2>2, <2>3, <2>4, OnePlannedMore, k \in Nat, v \in 0 .. MaxVersion, c \in Seq(Chunk)
  <2> QED BY <2>1, <2>5
<1> HIDE DEF more, s
<1>8. \A q \in Runners \ {r} : maps'[q] = maps[q] /\ planned'[q] = planned[q]
  <2>1. \E x, y : /\ maps' = [maps EXCEPT ![r] = x]
                  /\ planned' = [planned EXCEPT ![r] = y]
    BY DEF PlanSource
  <2> QED BY <2>1 DEF TypeInv, TypeOK
<1> QED BY <1>1, <1>3, <1>7, <1>8 DEF PlansFit

-----------------------------------------------------------------------------
(* Runs that may be killed: every run has the same chunks, so a node is      *)
(* computed again only when its inputs have been edited.                     *)

\* The chunks of plan p, at whatever versions its inputs are read.
TheChunks(p) == Abstract!ChunkList(p, [i \in DOMAIN Inputs[p] |-> 0])

\* Key k is one of node n when the map nodes are m.
KeyCut(n, k, m) ==
  IF n \in Slots THEN k.chunk = m[n]
  ELSE DOMAIN k.inputs = DOMAIN m /\ \A i \in DOMAIN m : k.inputs[i].chunk = m[i]

\* Key j is of an earlier content of an input of key k.
Precedes(n, j, k) ==
  IF n \in Slots THEN j.chunk = k.chunk /\ j.stamp < k.stamp
  ELSE \E i \in DOMAIN j.inputs \cap DOMAIN k.inputs :
         j.inputs[i].chunk = k.inputs[i].chunk /\ j.inputs[i].stamp < k.inputs[i].stamp

\* There is an artifact beside every manifest.
Accompanied == \A n \in Nodes : manifest[n] # Missing => artifact[n] # Missing

ManifestsCut ==
  \A n \in Nodes : Signed(n) => \A p \in Plans : KeyCut(n, manifest[n], TheChunks(p))

ManifestsPast ==
  /\ \A n \in Nodes : Signed(n) => StampedBy(n, manifest[n], version)
  /\ \A r \in Runners, n \in Nodes :
       task[r][n] \in {"todo", "keyed"} /\ Signed(n) => StampedBy(n, manifest[n], begun[r])

\* A manifest that a run is about to replace precedes the run's.
Replaces ==
  \A r \in Runners, n \in Nodes :
    task[r][n] \in {"miss", "computed", "opened", "written"} =>
      manifest[n] = Missing \/ (Signed(n) /\ Precedes(n, manifest[n], key[r][n]))

KeysCut ==
  \A r \in Runners, n \in Nodes : task[r][n] # "todo" =>
    \A p \in Plans : KeyCut(n, key[r][n], TheChunks(p))

KillsFit ==
  MaxCrashes # 0 => Accompanied /\ ManifestsCut /\ ManifestsPast /\ Replaces /\ KeysCut

CacheInv == FreshInv /\ PlansFit /\ KillsFit
-----------------------------------------------------------------------------
(* Keys and the versions of the inputs.                                     *)

LEMMA KeyParts ==
  ASSUME NEW n, NEW k \in Key(n)
  PROVE  /\ n \in Slots => k.stamp \in Nat /\ k.chunk.source \in Sources
         /\ n \notin Slots => \A i \in DOMAIN k.inputs :
              k.inputs[i].stamp \in Nat /\ k.inputs[i].chunk.source \in Sources
<1>1. \A j \in MapKey : j.stamp \in Nat /\ j.chunk.source \in Sources
  BY DEF MapKey, Chunk
<1>2. n \notin Slots => \A i \in DOMAIN k.inputs : k.inputs[i] \in MapKey
  BY DEF Key, ReduceKey
<1> QED BY <1>1, <1>2 DEF Key

LEMMA StaleLater ==
  ASSUME NEW n, NEW k \in Key(n), NEW low \in [Sources -> Nat], NEW high \in [Sources -> Nat],
         \A s \in Sources : low[s] <= high[s], StaleSince(n, k, low)
  PROVE  StaleSince(n, k, high)
<1>1. ASSUME NEW v \in Nat, NEW s \in Sources, v < low[s] PROVE v < high[s]
  <2>1. low[s] \in Nat /\ high[s] \in Nat /\ low[s] <= high[s]
    OBVIOUS
  <2> QED BY <1>1, <2>1
<1> QED BY <1>1, KeyParts DEF StaleSince

LEMMA StampedLater ==
  ASSUME NEW n, NEW k \in Key(n), NEW low \in [Sources -> Nat], NEW high \in [Sources -> Nat],
         \A s \in Sources : low[s] <= high[s], StampedBy(n, k, low)
  PROVE  StampedBy(n, k, high)
<1>1. ASSUME NEW v \in Nat, NEW s \in Sources, v <= low[s] PROVE v <= high[s]
  <2>1. low[s] \in Nat /\ high[s] \in Nat /\ low[s] <= high[s]
    OBVIOUS
  <2> QED BY <1>1, <2>1
<1> QED BY <1>1, KeyParts DEF StampedBy

LEMMA PrecedesIsStale ==
  ASSUME NEW n, NEW j \in Key(n), NEW k \in Key(n), NEW high \in [Sources -> Nat],
         Precedes(n, j, k), StampedBy(n, k, high)
  PROVE  StaleSince(n, j, high)
<1>1. ASSUME NEW v \in Nat, NEW w \in Nat, NEW s \in Sources, v < w, w <= high[s]
      PROVE  v < high[s]
  <2>1. high[s] \in Nat
    OBVIOUS
  <2> QED BY <1>1, <2>1
<1> QED BY <1>1, KeyParts DEF StaleSince, StampedBy, Precedes

\* Two keys of one node, of which the first is of versions up to `low` and the
\* second of versions from `low`, differ only if the first precedes the second.
LEMMA OtherPrecedes ==
  ASSUME NEW n \in Nodes, NEW j \in Key(n), NEW k \in Key(n), NEW m, NEW low \in [Sources -> Nat],
         KeyCut(n, j, m), KeyCut(n, k, m),
         StampedBy(n, j, low), ~ StaleSince(n, k, low), j # k
  PROVE  Precedes(n, j, k)
<1>1. ASSUME NEW a \in MapKey, NEW b \in MapKey, a.chunk = b.chunk, a # b,
             a.stamp <= low[a.chunk.source], ~ (b.stamp < low[b.chunk.source])
      PROVE  a.stamp < b.stamp
  <2>1. a.stamp \in Nat /\ b.stamp \in Nat /\ a.chunk.source \in Sources
    BY DEF MapKey, Chunk
  <2>2. low[a.chunk.source] \in Nat
    BY <2>1
  <2>3. a.stamp # b.stamp
    BY <1>1 DEF MapKey
  <2> QED BY <1>1, <2>1, <2>2, <2>3
<1>2. CASE n \in Slots
  BY <1>1, <1>2 DEF Key, KeyCut, StampedBy, StaleSince, Precedes
<1>3. CASE n \notin Slots
  <2>1. /\ j \in ReduceKey /\ k \in ReduceKey /\ DOMAIN j.inputs = DOMAIN k.inputs
        /\ \A i \in DOMAIN j.inputs : j.inputs[i].chunk = k.inputs[i].chunk
        /\ \A i \in DOMAIN j.inputs : j.inputs[i] \in MapKey /\ k.inputs[i] \in MapKey
    BY <1>3 DEF Key, KeyCut, ReduceKey
  <2>2. j.inputs # k.inputs
    BY <2>1 DEF ReduceKey
  <2>3. PICK i \in DOMAIN j.inputs : j.inputs[i] # k.inputs[i]
    <3>1. j.inputs \in Seq(MapKey) /\ k.inputs \in Seq(MapKey)
      BY <2>1 DEF ReduceKey
    <3>2. j.inputs = [i \in DOMAIN j.inputs |-> j.inputs[i]]
      BY <3>1
    <3>3. k.inputs = [i \in DOMAIN k.inputs |-> k.inputs[i]]
      BY <3>1
    <3> QED BY <2>1, <2>2, <3>2, <3>3
  <2>4. /\ j.inputs[i].stamp <= low[j.inputs[i].chunk.source]
        /\ ~ (k.inputs[i].stamp < low[k.inputs[i].chunk.source])
    BY <1>3, <2>1 DEF StampedBy, StaleSince
  <2>5. j.inputs[i].stamp < k.inputs[i].stamp
    BY <1>1, <2>1, <2>3, <2>4
  <2> QED BY <1>3, <2>1, <2>5 DEF Precedes
<1> QED BY <1>2, <1>3

LEMMA Versions ==
  ASSUME FreshInv, NEW r \in Runners
  PROVE  /\ version \in [Sources -> Nat] /\ begun[r] \in [Sources -> Nat]
         /\ \A s \in Sources : begun[r][s] <= version[s]
BY DEF FreshInv, TypeInv, TypeOK, Bounds

LEMMA SignedKey ==
  ASSUME TypeInv, NEW n \in Nodes, Signed(n)
  PROVE  manifest[n] \in Key(n)
BY DEF TypeInv, TypeOK, Signed
-----------------------------------------------------------------------------
(* A run's keys.                                                            *)

LEMMA OneChunkList ==
  ASSUME PlannedAlike, NEW p \in Plans, NEW m, NEW low, NEW high,
         PlannedFrom(p, Len(Inputs[p]), m, low, high)
  PROVE  m = TheChunks(p)
<1>1. PICK at \in [DOMAIN Inputs[p] -> 0 .. MaxVersion] : m = Abstract!ChunkList(p, at)
  BY PlannedIsChunkList, Zenon
<1> DEFINE none == [i \in DOMAIN Inputs[p] |-> 0]
<1>2. ASSUME NEW i \in DOMAIN Inputs[p]
      PROVE  Events[Inputs[p][i]][at[i]] = Events[Inputs[p][i]][none[i]]
  <2>1. Inputs[p][i] \in Sources
    BY ParameterAssumption
  <2>2. at[i] \in 0 .. MaxVersion /\ none[i] \in 0 .. MaxVersion
    BY ParameterAssumption
  <2> QED BY <2>1, <2>2 DEF PlannedAlike
<1> HIDE DEF none
<1>3. Abstract!ChunkList(p, at) = Abstract!ChunkList(p, none)
  BY <1>2 DEF Abstract!ChunkList
<1> QED BY <1>1, <1>3 DEF TheChunks, none

LEMMA NewKeyIsCut ==
  ASSUME Unchanging, FreshInv, PlansFit, NEW r \in Runners, NEW n \in Nodes, NEW p \in Plans,
         Ready(r, n)
  PROVE  KeyCut(n, NodeKey(r, n), TheChunks(p))
<1>1. maps[r] = TheChunks(p)
  <2>1. plan[r] = p /\ phase[r] = "running"
    BY DEF Ready, Unchanging, PlannedAlike, FreshInv, TypeInv, Shape
  <2>2. PlannedFrom(p, Len(Inputs[p]), maps[r], begun[r], version)
    BY <2>1 DEF PlansFit
  <2>3. PICK m \in {maps[r]}, low \in {begun[r]}, high \in {version} :
          m = maps[r] /\ low = begun[r] /\ high = version
    OBVIOUS
  <2> QED BY <2>2, <2>3, OneChunkList DEF Unchanging
<1>2. CASE n \in Slots
  BY <1>1, <1>2 DEF KeyCut, NodeKey
<1>3. CASE n \notin Slots
  <2>1. \A i \in DOMAIN maps[r] : i \in Slots /\ task[r][i] = "done"
    <3>1. \A i \in DOMAIN maps[r] : i \in Slots
      BY ParameterAssumption DEF FreshInv, TypeInv, TypeOK, Shape, Slots
    <3>2. n = ReduceNode \/ (n = SinkNode /\ task[r][ReduceNode] = "done")
      BY <1>3, <3>1 DEF Ready
    <3>3. \A i \in DOMAIN maps[r] : task[r][i] = "done"
      BY <1>3, <3>1, <3>2, NodeNumbers DEF Ready, FreshInv, TypeInv, Shape
    <3> QED BY <3>1, <3>3
  <2>2. \A i \in DOMAIN maps[r] : key[r][i].chunk = maps[r][i]
    BY <2>1, MapKeyIsCurrent
  <2> QED BY <1>1, <1>3, <2>2 DEF KeyCut, NodeKey
<1> QED BY <1>2, <1>3

LEMMA KeyIsPast ==
  ASSUME FreshInv, NEW r \in Runners, NEW n \in Nodes, task[r][n] # "todo"
  PROVE  key[r][n] \in Key(n) /\ StampedBy(n, key[r][n], version)
<1>1. ASSUME NEW i \in Slots, task[r][i] # "todo"
      PROVE  key[r][i] \in MapKey /\ key[r][i].stamp <= version[key[r][i].chunk.source]
  BY <1>1, MapKeyIsCurrent
<1>2. CASE n \in Slots
  BY <1>1, <1>2 DEF StampedBy, Key
<1>3. CASE n \notin Slots
  <2>1. /\ key[r][n] \in ReduceKey
        /\ DOMAIN key[r][n].inputs = DOMAIN maps[r]
        /\ \A i \in DOMAIN maps[r] :
             /\ i \in Slots /\ task[r][i] = "done"
             /\ key[r][n].inputs[i] = key[r][i]
    BY <1>3, MergedKeyIsCurrent
  <2> QED BY <1>1, <1>3, <2>1 DEF StampedBy, Key
<1> QED BY <1>2, <1>3

\* A manifest that was signed before the run, and is not the run's, precedes it.
LEMMA MissPrecedes ==
  ASSUME MaxCrashes # 0, Orderly, CacheInv, NEW r \in Runners, NEW n \in Nodes,
         task[r][n] # "todo",
         Signed(n), StampedBy(n, manifest[n], begun[r]), manifest[n] # key[r][n]
  PROVE  Precedes(n, manifest[n], key[r][n])
<1>0. Unchanging /\ FreshInv /\ ManifestsCut /\ KeysCut
  BY DEF Orderly, CacheInv, KillsFit
<1>1. PICK p \in Plans : plan[r] = p
  BY <1>0 DEF FreshInv, TypeInv, Shape
<1>2. KeyCut(n, manifest[n], TheChunks(p)) /\ KeyCut(n, key[r][n], TheChunks(p))
  BY <1>0 DEF ManifestsCut, KeysCut
<1>3. manifest[n] \in Key(n) /\ key[r][n] \in Key(n)
  BY <1>0, SignedKey, KeyIsPast DEF FreshInv
<1>4. ~ StaleSince(n, key[r][n], begun[r])
  BY <1>0, KeyIsCurrent DEF Unchanging
<1>5. begun[r] \in [Sources -> Nat]
  BY <1>0, Versions
<1> QED BY <1>2, <1>3, <1>4, <1>5, OtherPrecedes
-----------------------------------------------------------------------------
(* The steps.                                                               *)

LEMMA OneNodeKills ==
  ASSUME MaxCrashes # 0, OneRunner, FreshInv, KillsFit,
         NEW r \in Runners, NEW n \in Nodes, NodeStep(r, n),
         manifest'[n] # Missing => artifact'[n] # Missing,
         Signed(n)' => \A p \in Plans : KeyCut(n, manifest'[n], TheChunks(p)),
         Signed(n)' => StampedBy(n, manifest'[n], version),
         task'[r][n] \in {"todo", "keyed"} /\ Signed(n)' => StampedBy(n, manifest'[n], begun[r]),
         task'[r][n] \in {"miss", "computed", "opened", "written"} =>
           manifest'[n] = Missing \/ (Signed(n)' /\ Precedes(n, manifest'[n], key'[r][n])),
         \A p \in Plans : KeyCut(n, key'[r][n], TheChunks(p))
  PROVE  KillsFit'
<1>1. /\ version' = version /\ begun' = begun
      /\ \A m \in Nodes \ {n} :
           /\ task'[r][m] = task[r][m] /\ key'[r][m] = key[r][m]
           /\ artifact'[m] = artifact[m] /\ manifest'[m] = manifest[m]
  BY OtherNodes DEF FreshInv
<1>2. \A q \in Runners : q = r
  BY DEF OneRunner
<1>3. Accompanied'
  BY <1>1 DEF KillsFit, Accompanied
<1>4. ManifestsCut'
  BY <1>1 DEF KillsFit, ManifestsCut, Signed
<1>5. ManifestsPast'
  BY <1>1, <1>2 DEF KillsFit, ManifestsPast, Signed
<1>6. Replaces'
  BY <1>1, <1>2 DEF KillsFit, Replaces, Signed
<1>7. KeysCut'
  BY <1>1, <1>2 DEF KillsFit, KeysCut
<1> QED BY <1>3, <1>4, <1>5, <1>6, <1>7 DEF KillsFit

LEMMA NodeStepKills ==
  ASSUME Orderly, CacheInv, NEW r \in Runners, NEW n \in Nodes, NodeStep(r, n)
  PROVE  KillsFit'
<1> SUFFICES ASSUME MaxCrashes # 0 PROVE KillsFit'
  BY DEF KillsFit
<1> USE DEF CacheInv
<1>0. OneRunner /\ Unchanging
  BY DEF Orderly
<1>t. /\ phase[r] = "running" /\ version' = version /\ begun' = begun
  BY SamePlan DEF SameRun
<1>u. /\ manifest[n] # Missing => artifact[n] # Missing
      /\ Signed(n) => \A p \in Plans : KeyCut(n, manifest[n], TheChunks(p))
      /\ Signed(n) => StampedBy(n, manifest[n], version)
      /\ task[r][n] \in {"todo", "keyed"} /\ Signed(n) => StampedBy(n, manifest[n], begun[r])
      /\ task[r][n] \in {"miss", "computed", "opened", "written"} =>
           manifest[n] = Missing \/ (Signed(n) /\ Precedes(n, manifest[n], key[r][n]))
  BY DEF KillsFit, Accompanied, ManifestsCut, ManifestsPast, Replaces
<1>k. \A p \in Plans : KeyCut(n, key'[r][n], TheChunks(p))
  <2>1. CASE ComputeKey(r, n)
    <3>1. key'[r][n] = NodeKey(r, n) /\ Ready(r, n)
      BY <2>1 DEF ComputeKey, FreshInv, TypeInv, TypeOK
    <3> QED BY <1>0, <3>1, NewKeyIsCut
  <2>2. CASE ~ ComputeKey(r, n)
    <3>1. key' = key /\ task[r][n] # "todo"
      BY <2>2 DEF NodeStep, CheckUnreadable, CheckHit, CheckMiss, Load, LoadUnreadable, Compute,
         ComputeFails, OpenArtifact, WriteArtifact, OpenManifest, WriteManifest, Advance
    <3> QED BY <3>1 DEF KillsFit, KeysCut
  <2> QED BY <2>1, <2>2
<1>1. CASE \/ ComputeKey(r, n) \/ CheckUnreadable(r, n) \/ CheckHit(r, n)
           \/ Load(r, n) \/ LoadUnreadable(r, n) \/ ComputeFails(r, n)
  <2>1. /\ artifact' = artifact /\ manifest' = manifest
        /\ \/ task[r][n] = "todo" /\ task'[r][n] = "keyed"
           \/ task'[r][n] \in {"hit", "done", "error"}
    BY <1>1 DEF ComputeKey, CheckUnreadable, CheckHit, Load, LoadUnreadable, ComputeFails,
       Advance, SameRun, disk, FreshInv, TypeInv, TypeOK
  <2>2. Signed(n)' <=> Signed(n)
    BY <2>1 DEF Signed
  <2> QED BY <1>0, <1>u, <1>k, <2>1, <2>2, OneNodeKills
<1>2. CASE CheckMiss(r, n)
  <2>1. /\ artifact' = artifact /\ manifest' = manifest /\ key' = key
        /\ task[r][n] = "keyed" /\ task'[r][n] = "miss"
        /\ manifest[n] \notin Torn /\ ~ UpToDate(r, n)
    BY <1>2 DEF CheckMiss, Advance, SameRun, disk, FreshInv, TypeInv, TypeOK
  <2>2. Signed(n)' <=> Signed(n)
    BY <2>1 DEF Signed
  <2>3. ASSUME manifest[n] # Missing PROVE Signed(n) /\ Precedes(n, manifest[n], key[r][n])
    <3>1. Signed(n) /\ manifest[n] # key[r][n]
      BY <1>u, <2>1, <2>3 DEF Signed, UpToDate
    <3> QED BY <1>t, <1>u, <2>1, <3>1, MissPrecedes
  <2> QED BY <1>0, <1>u, <1>k, <2>1, <2>2, <2>3, OneNodeKills
<1>3. CASE Compute(r, n) \/ OpenArtifact(r, n) \/ WriteArtifact(r, n)
  <2>1. /\ manifest' = manifest /\ key' = key
        /\ task[r][n] \in {"miss", "computed", "opened"}
        /\ task'[r][n] \in {"computed", "opened", "written"}
    BY <1>3 DEF Compute, OpenArtifact, WriteArtifact, Advance, SameRun, disk,
       FreshInv, TypeInv, TypeOK
  <2>2. Signed(n)' <=> Signed(n)
    BY <2>1 DEF Signed
  <2>3. manifest'[n] # Missing => artifact'[n] # Missing
    <3>1. \/ artifact'[n] = artifact[n] \/ artifact'[n] \in Torn
          \/ artifact'[n] = output[r][n] /\ output[r][n] # None
      BY OutputEffect DEF FreshInv
    <3>2. \A m \in Nodes : output[r][m] # None => output[r][m] # Missing
      BY SentinelAssumption DEF FreshInv, TypeInv, TypeOK, Output
    <3> QED BY <1>u, <2>1, <3>1, <3>2, SentinelAssumption DEF Torn
  <2> QED BY <1>0, <1>u, <1>k, <2>1, <2>2, <2>3, OneNodeKills
<1>4. CASE OpenManifest(r, n) \/ WriteManifest(r, n)
  <2>1. /\ artifact' = artifact /\ key' = key
        /\ task[r][n] \in {"written", "signing"}
        /\ task'[r][n] \in {"signing", "done"}
    BY <1>4 DEF OpenManifest, WriteManifest, Advance, SameRun, FreshInv, TypeInv, TypeOK
  <2>2. artifact'[n] # Missing
    <3>1. artifact[n] = output[r][n]
      BY <2>1 DEF FreshInv, WritesFit
    <3>2. output[r][n] \in Output(n)
      BY <2>1 DEF FreshInv, TypeInv, TypeOK, Shape, HasOutput
    <3> QED BY <2>1, <3>1, <3>2, SentinelAssumption DEF Output
  <2>3. manifest'[n] = Empty \/ manifest'[n] = key[r][n]
    <3>1. CASE OpenManifest(r, n)
      BY <3>1 DEF OpenManifest, FreshInv, TypeInv, TypeOK
    <3>2. CASE WriteManifest(r, n)
      <4>1. manifest[n] = Empty
        BY <3>2 DEF WriteManifest, Advance, FreshInv, WritesFit
      <4> QED BY <3>2, <4>1 DEF WriteManifest, Overwritten, FreshInv, TypeInv, TypeOK
    <3> QED BY <1>4, <3>1, <3>2
  <2>4. \A p \in Plans : KeyCut(n, key[r][n], TheChunks(p))
    BY <1>k, <2>1
  <2>5. StampedBy(n, key[r][n], version)
    BY <2>1, KeyIsPast
  <2>6. Signed(n)' => manifest'[n] = key[r][n]
    BY <2>3 DEF Signed, Torn
  <2> QED BY <1>0, <2>1, <2>2, <1>k, <2>4, <2>5, <2>6, OneNodeKills
<1> QED BY <1>1, <1>2, <1>3, <1>4 DEF NodeStep

\* At the next begin, what a killed run left stays left, and what it was writing,
\* or was about to write, is left.
LEMMA LeftoverStays ==
  ASSUME FreshInv, OneRunner, NEW r \in Runners, NEW p \in Plans, NEW m \in Modes,
         Begin(r, p, m), NEW n \in Nodes
  PROVE  /\ Leftover(n) => Leftover(n)'
         /\ MaxCrashes # 0 /\ Signed(n) /\ StaleSince(n, manifest[n], version) => Leftover(n)'
<1>1. /\ \A q \in Runners : q = r
      /\ begun'[r] = version /\ manifest' = manifest
  BY DEF Begin, OneRunner, disk, FreshInv, TypeInv, TypeOK
<1>2. /\ version \in [Sources -> Nat] /\ begun[r] \in [Sources -> Nat]
      /\ \A s \in Sources : begun[r][s] <= version[s]
  BY Versions
<1>3. ASSUME Signed(n), StaleSince(n, manifest[n], begun[r])
      PROVE  StaleSince(n, manifest[n], version)
  BY <1>2, <1>3, SignedKey, StaleLater DEF FreshInv
<1> QED BY <1>1, <1>3 DEF Leftover, Signed

LEMMA WrittenIsLeft ==
  ASSUME FreshInv, OneRunner, KillsFit, NEW r \in Runners, NEW p \in Plans, NEW m \in Modes,
         Begin(r, p, m), NEW n \in Nodes,
         task[r][n] \in {"miss", "computed", "opened", "written", "signing"}
  PROVE  MaxCrashes # 0 /\ (manifest[n] # Missing => Leftover(n)')
<1>1. phase[r] # "running" /\ manifest' = manifest
  BY DEF Begin, disk
<1>2. MaxCrashes # 0 /\ task[r][n] # "todo"
  BY <1>1 DEF FreshInv, Quiet, InProgress
<1>3. CASE task[r][n] = "signing"
  <2>1. manifest[n] = Empty
    BY <1>3 DEF FreshInv, WritesFit
  <2> QED BY <1>1, <1>2, <2>1 DEF Leftover, Torn
<1>4. CASE task[r][n] # "signing"
  <2>1. manifest[n] = Missing \/ (Signed(n) /\ Precedes(n, manifest[n], key[r][n]))
    BY <1>2, <1>4 DEF KillsFit, Replaces
  <2>2. key[r][n] \in Key(n) /\ StampedBy(n, key[r][n], version)
    BY <1>2, KeyIsPast
  <2>3. ASSUME Signed(n), Precedes(n, manifest[n], key[r][n])
        PROVE  StaleSince(n, manifest[n], version)
    <3>1. version \in [Sources -> Nat]
      BY Versions
    <3> QED BY <2>2, <2>3, <3>1, SignedKey, PrecedesIsStale DEF FreshInv
  <2> QED BY <1>2, <2>1, <2>3, LeftoverStays
<1> QED BY <1>3, <1>4

LEMMA BeginLeaves ==
  ASSUME FreshInv, OneRunner, KillsFit, NEW r \in Runners, NEW p \in Plans, NEW m \in Modes,
         Begin(r, p, m), NEW n \in Nodes
  PROVE  manifest[n] = Missing \/ Settled(n) \/ Leftover(n)'
<1>1. \A q \in Runners : q = r
  BY DEF OneRunner
<1>2. CASE task[r][n] \notin Writing
  <2>1. manifest[n] = Missing \/ Settled(n) \/ Leftover(n)
    BY <1>1, <1>2 DEF FreshInv, DiskFits
  <2> QED BY <2>1, LeftoverStays
<1>3. CASE task[r][n] \in Writing
  BY <1>3, WrittenIsLeft DEF Writing
<1> QED BY <1>2, <1>3

LEMMA BeginFresh ==
  ASSUME FreshInv, TypeInv', OneRunner, KillsFit, NEW r \in Runners, NEW p \in Plans,
         NEW m \in Modes, Begin(r, p, m)
  PROVE  FreshInv'
<1>1. /\ \A q \in Runners : q = r
      /\ phase'[r] = "planning"
      /\ \A n \in Nodes : task'[r][n] = "todo"
      /\ begun'[r] = version /\ version' = version
      /\ artifact' = artifact /\ manifest' = manifest
  BY DEF Begin, OneRunner, disk, FreshInv, TypeInv, TypeOK
<1>2. Bounds'
  BY <1>1 DEF Bounds, FreshInv, TypeInv, TypeOK
<1>3. KeysFit' /\ OutputsFit' /\ HitsFit' /\ WritesFit'
  BY <1>1 DEF KeysFit, OutputsFit, HitsFit, WritesFit, HasOutput
<1>4. Quiet'
  BY <1>1 DEF Quiet, InProgress
<1>5. \A n \in Nodes : manifest[n] = Missing \/ Settled(n) \/ Leftover(n)'
  BY BeginLeaves
<1>6. DiskFits'
  BY <1>1, <1>5 DEF DiskFits, Settled
<1> QED BY <1>2, <1>3, <1>4, <1>6 DEF FreshInv

LEMMA BeginKills ==
  ASSUME FreshInv, OneRunner, KillsFit, NEW r \in Runners, NEW p \in Plans, NEW m \in Modes,
         Begin(r, p, m)
  PROVE  KillsFit'
<1>1. /\ \A q \in Runners : q = r
      /\ \A n \in Nodes : task'[r][n] = "todo"
      /\ begun'[r] = version /\ version' = version
      /\ artifact' = artifact /\ manifest' = manifest
  BY DEF Begin, OneRunner, disk, FreshInv, TypeInv, TypeOK
<1>2. MaxCrashes # 0 => Accompanied' /\ ManifestsCut' /\ ManifestsPast' /\ Replaces' /\ KeysCut'
  BY <1>1 DEF KillsFit, Accompanied, ManifestsCut, ManifestsPast, Replaces, KeysCut, Signed
<1> QED BY <1>2 DEF KillsFit

LEMMA EditKills ==
  ASSUME FreshInv, KillsFit, NEW s \in Sources, Edit(s)
  PROVE  KillsFit'
<1>1. /\ artifact' = artifact /\ manifest' = manifest /\ task' = task /\ key' = key
      /\ begun' = begun
  BY DEF Edit, disk, local
<1>2. /\ version \in [Sources -> Nat] /\ version' \in [Sources -> Nat]
      /\ \A t \in Sources : version[t] <= version'[t]
  BY DEF Edit, FreshInv, TypeInv, TypeOK
<1>3. ASSUME NEW n \in Nodes, Signed(n), StampedBy(n, manifest[n], version)
      PROVE  StampedBy(n, manifest[n], version')
  BY <1>2, <1>3, SignedKey, StampedLater DEF FreshInv
<1>4. ManifestsPast => ManifestsPast'
  BY <1>1, <1>3 DEF ManifestsPast, Signed
<1> QED BY <1>1, <1>4 DEF KillsFit, Accompanied, ManifestsCut, Replaces, KeysCut, Signed

LEMMA SameKills ==
  ASSUME KillsFit, UNCHANGED <<version, artifact, manifest, task, key, begun>>
  PROVE  KillsFit'
BY DEF KillsFit, Accompanied, ManifestsCut, ManifestsPast, Replaces, KeysCut, Signed
-----------------------------------------------------------------------------
(* The invariant of the cache.                                              *)

LEMMA InitCache == Init => CacheInv
<1> SUFFICES ASSUME Init PROVE CacheInv
  OBVIOUS
<1>1. PlansFit
  BY DEF Init, PlansFit
<1>2. \A n \in Nodes : manifest[n] = Missing /\ ~ Signed(n)
  BY DEF Init, Signed
<1>3. Replaces /\ KeysCut
  BY DEF Init, Replaces, KeysCut
<1>4. KillsFit
  BY <1>2, <1>3 DEF KillsFit, Accompanied, ManifestsCut, ManifestsPast
<1> QED BY <1>1, <1>4, InitFresh DEF CacheInv

LEMMA NextCache == Orderly /\ CacheInv /\ [Next]_vars => CacheInv'
<1> SUFFICES ASSUME Orderly, CacheInv, [Next]_vars PROVE CacheInv'
  OBVIOUS
<1> USE DEF CacheInv
<1>0. OneRunner
  BY DEF Orderly
<1>t. TypeInv /\ TypeInv'
  BY NextTypeInv DEF FreshInv
<1>1. ASSUME NEW s \in Sources, Edit(s) PROVE CacheInv'
  BY <1>1, <1>t, EditFresh, EditPlans, EditKills
<1>2. ASSUME NEW r \in Runners, NEW p \in Plans, NEW m \in Modes, Begin(r, p, m)
      PROVE  CacheInv'
  <2>1. /\ phase'[r] = "planning" /\ planned'[r] = 0 /\ maps'[r] = << >> /\ plan'[r] = p
    BY <1>2, <1>t DEF Begin, TypeInv, TypeOK
  <2>2. 0 <= Len(Inputs[p])
    BY ParameterAssumption
  <2>3. PlansFit'
    BY <1>0, <2>1, <2>2, NothingPlanned DEF PlansFit, OneRunner
  <2> QED BY <1>0, <1>2, <1>t, <2>3, BeginFresh, BeginKills
<1>3. ASSUME NEW r \in Runners, PlanSource(r) PROVE CacheInv'
  <2>1. UNCHANGED <<version, artifact, manifest, task, key, begun>>
    BY <1>3 DEF PlanSource, disk
  <2>2. Bounds
    BY DEF FreshInv
  <2> QED BY <1>0, <1>3, <1>t, <2>1, <2>2, PlanSourceFresh, PlanSourcePlans, SameKills
<1>4. ASSUME NEW r \in Runners, Execute(r) \/ PlanFails(r) \/ Finish(r) \/ Fail(r) \/ Crash(r)
      PROVE  CacheInv'
  <2>1. /\ UNCHANGED <<version, artifact, manifest, task, key, begun>>
        /\ plan' = plan /\ planned' = planned /\ maps' = maps
    BY <1>4 DEF Execute, PlanFails, Finish, Fail, Crash, disk
  <2>2. \/ /\ phase[r] = "planning" /\ phase'[r] = "running"
           /\ planned[r] = Len(Inputs[plan[r]])
        \/ phase'[r] \in {"ok", "failed"}
    BY <1>4, <1>t DEF Execute, PlanFails, Finish, Fail, Crash, TypeInv, TypeOK
  <2>3. PlansFit'
    BY <1>0, <2>1, <2>2 DEF PlansFit, OneRunner
  <2> QED BY <1>0, <1>4, <1>t, <2>1, <2>3, PhaseFresh, SameKills
<1>5. ASSUME NEW r \in Runners, NEW n \in Nodes, NodeStep(r, n) PROVE CacheInv'
  <2>1. SameRun
    BY <1>5, SamePlan
  <2>2. PlansFit'
    BY <2>1 DEF SameRun, PlansFit
  <2>3. FreshInv'
    BY <1>0, <1>5, ComputeKeyFresh, CheckFresh, LoadFresh, ComputeFresh, WriteFresh DEF NodeStep
  <2> QED BY <1>5, <2>2, <2>3, NodeStepKills
<1>6. CASE UNCHANGED vars
  <2>1. FreshInv'
    BY <1>6, <1>t DEF FreshInv, Bounds, KeysFit, KeyFits, OutputsFit, HitsFit, WritesFit,
       DiskFits, Settled, Leftover, Signed, Quiet, vars, disk, local
  <2>2. PlansFit'
    BY <1>6 DEF vars, local, PlansFit
  <2>3. UNCHANGED <<version, artifact, manifest, task, key, begun>>
    BY <1>6 DEF vars, disk, local
  <2> QED BY <2>1, <2>2, <2>3, SameKills
<1>7. ASSUME NEW r \in Runners, RunnerStep(r) PROVE CacheInv'
  BY <1>3, <1>4, <1>5, <1>7 DEF RunnerStep
<1> QED BY <1>1, <1>2, <1>4, <1>6, <1>7 DEF Next

LEMMA CacheInvariant == Orderly => (Spec => []CacheInv)
<1> SUFFICES ASSUME Orderly PROVE Spec => []CacheInv
  OBVIOUS
<1>1. CacheInv /\ [Next]_vars => CacheInv'
  BY NextCache
<1> QED BY InitCache, <1>1, PTL DEF Spec

\* A run that has come to its end holds each chunk of its plan once, in order.
LEMMA DoneIsFresh ==
  ASSUME Undisturbed, FreshInv, NEW r \in Runners, task[r][SinkNode] = "done"
  PROVE  LET parts == output[r][SinkNode].parts
         IN /\ DOMAIN parts = DOMAIN maps[r]
            /\ \A i \in DOMAIN maps[r] :
                 /\ parts[i].chunk = maps[r][i]
                 /\ parts[i].kernel = KernelOf[plan[r]]
                 /\ parts[i].version >= begun[r][maps[r][i].source]
<1> DEFINE parts == output[r][SinkNode].parts
<1> USE DEF FreshInv
<1>1. task[r][SinkNode] = "done" /\ SinkNode \in Nodes \ Slots
  BY ParameterAssumption DEF Nodes, Slots, SinkNode
<1>2. DescribesMerged(key[r][SinkNode], output[r][SinkNode])
  BY <1>1 DEF OutputsFit, HasOutput, Describes
<1>3. key[r][SinkNode].inputs = [i \in DOMAIN maps[r] |-> key[r][i]]
  BY <1>1 DEF KeysFit, KeyFits
<1>4. DOMAIN parts = DOMAIN maps[r]
  BY <1>2, <1>3 DEF DescribesMerged
<1>5. output[r][SinkNode] \in MergedOutput
  BY <1>1 DEF TypeInv, TypeOK, Shape, HasOutput, Output
<1>6. ASSUME NEW i \in DOMAIN maps[r]
      PROVE  /\ parts[i].chunk = maps[r][i]
             /\ parts[i].kernel = KernelOf[plan[r]]
             /\ parts[i].version >= begun[r][maps[r][i].source]
  <2>1. DescribesMap(key[r][i], parts[i])
    BY <1>2, <1>3 DEF DescribesMerged
  <2>2. i \in Slots /\ i \in Nodes /\ task[r][i] = "done"
    BY <1>1, DependenciesDone
  <2>3. KeyFits(r, i)
    BY <2>2 DEF KeysFit
  <2>4. parts[i] \in PartialOutput
    BY <1>4, <1>5 DEF MergedOutput
  <2>5. KernelOf[plan[r]] \in Kernels
    <3>1. phase[r] # "idle"
      BY <1>1 DEF TypeInv, Shape
    <3> QED BY <3>1, ParameterAssumption DEF TypeInv, Shape
  <2>6. parts[i].kernel = KernelOf[plan[r]]
    BY <2>4, <2>5 DEF PartialOutput, Undisturbed
  <2>7. /\ maps[r][i].source \in Sources /\ key[r][i].stamp \in Nat
        /\ parts[i].version \in Nat
    <3>1. maps[r][i] \in Chunk
      BY DEF TypeInv, TypeOK
    <3>2. key[r][i] \in MapKey
      BY <2>2, SentinelAssumption DEF TypeInv, TypeOK, Shape, Key
    <3> QED BY <2>4, <3>1, <3>2 DEF Chunk, MapKey, PartialOutput
  <2>8. begun[r][maps[r][i].source] \in Nat
    BY <2>7 DEF TypeInv, TypeOK
  <2> HIDE DEF parts
  <2>9. begun[r][maps[r][i].source] <= key[r][i].stamp
    BY <2>2, <2>3 DEF KeyFits, Undisturbed
  <2> QED BY <2>1, <2>2, <2>3, <2>6, <2>7, <2>8, <2>9 DEF DescribesMap, KeyFits
<1> QED BY <1>4, <1>6

LEMMA FreshInvGivesResult ==
  ASSUME Undisturbed, FreshInv
  PROVE  FreshResult
<1>1. \A r \in Runners : phase[r] = "ok" => task[r][SinkNode] = "done"
  BY DEF FreshInv, Quiet
<1> QED BY <1>1, DoneIsFresh DEF FreshResult

\* Undisturbed runs over one cache directory, however the inputs are edited, of
\* however many plans if none is killed, of one plan over inputs of constant length
\* whichever are killed: a run that returns Ok reports every chunk of its plan, in
\* order, from content no older than the run (executor.rs run_map, run_reduce,
\* run_reduce_parallel, run_sink; provenance.rs).
THEOREM NeverStale == Undisturbed => (Spec => []FreshResult)
<1> SUFFICES ASSUME Undisturbed PROVE Spec => []FreshResult
  OBVIOUS
<1>1. CacheInv => FreshResult
  BY FreshInvGivesResult DEF CacheInv
<1>2. Orderly
  BY DEF Undisturbed
<1> QED BY CacheInvariant, <1>1, <1>2, PTL

\* Runs that follow one another, of any plans and kernels over any inputs, leave
\* every manifest describing the artifact beside it, unless a run is
\* writing the pair (write_manifest follows the artifact's write).
THEOREM ManifestsTellTheTruth == OneAtATime => (Spec => []CacheCoherent)
<1> SUFFICES ASSUME OneAtATime PROVE Spec => []CacheCoherent
  OBVIOUS
<1>1. CacheInv => CacheCoherent
  BY DEF CacheInv, FreshInv, DiskFits, Leftover, Settled, Quiet, CacheCoherent, BeingWritten,
     Writing, InProgress, OneAtATime
<1>2. Orderly
  BY DEF OneAtATime, Orderly
<1> QED BY CacheInvariant, <1>1, <1>2, PTL

-----------------------------------------------------------------------------
(* The output file and the report.                                          *)

\* The two merged files on disk are those of one run.
DiskAgrees ==
  manifest[SinkNode] = manifest[ReduceNode] /\ artifact[SinkNode] = artifact[ReduceNode]

\* No run finds its key in the sink's manifest: a killed run left it so, or left
\* behind it a merged file that is another.
SinkIsLeft ==
  /\ MaxCrashes # 0
  /\ manifest[SinkNode] # Missing => Leftover(SinkNode)

\* The sink's manifest has the run's key only as long as the merged file is still
\* the one the sink was written from.
SinkFits ==
  \A r \in Runners :
    /\ task[r][ReduceNode] \in {"todo", "keyed", "hit", "error"} => DiskAgrees \/ SinkIsLeft
    /\ task[r][ReduceNode] \in {"miss", "computed", "opened", "written", "signing"} =>
         manifest[SinkNode] # key[r][ReduceNode]
    /\ task[r][ReduceNode] = "done" =>
         /\ manifest[ReduceNode] = key[r][ReduceNode]
         /\ artifact[ReduceNode] = output[r][ReduceNode]
         /\ task[r][SinkNode] = "error" => SinkIsLeft
         /\ task[r][SinkNode] \in {"todo", "keyed"} =>
              DiskAgrees \/ manifest[SinkNode] # key[r][ReduceNode]
         /\ task[r][SinkNode] \in {"hit", "done"} => DiskAgrees
         /\ task[r][SinkNode] \in HasOutput => output[r][SinkNode] = output[r][ReduceNode]
    /\ phase[r] # "running" => DiskAgrees \/ MaxCrashes # 0

PublishedInv == CacheInv /\ SinkFits

LEMMA MergedNodes ==
  ASSUME FreshInv, NEW r \in Runners
  PROVE  /\ ReduceNode \in Nodes /\ SinkNode \in Nodes /\ ReduceNode # SinkNode
         /\ ReduceNode \notin Slots /\ SinkNode \notin Slots
         /\ task[r][SinkNode] # "todo" =>
              /\ task[r][ReduceNode] = "done"
              /\ key[r][SinkNode] = key[r][ReduceNode]
         /\ task[r][ReduceNode] # "todo" => key[r][ReduceNode] # Missing
<1>1. /\ ReduceNode \in Nodes \ Slots /\ SinkNode \in Nodes \ Slots /\ ReduceNode # SinkNode
  BY NodeNumbers
<1>2. ASSUME task[r][SinkNode] # "todo"
      PROVE  task[r][ReduceNode] = "done" /\ key[r][SinkNode] = key[r][ReduceNode]
  <2>1. task[r][ReduceNode] = "done"
    BY <1>1, <1>2, DependenciesDone DEF FreshInv
  <2>2. key[r][SinkNode].inputs = key[r][ReduceNode].inputs
    BY <1>1, <1>2, <2>1 DEF FreshInv, KeysFit, KeyFits
  <2>3. key[r][SinkNode] \in ReduceKey /\ key[r][ReduceNode] \in ReduceKey
    BY <1>1, <1>2, <2>1, SentinelAssumption DEF FreshInv, TypeInv, TypeOK, Shape, Key
  <2> QED BY <2>1, <2>2, <2>3 DEF ReduceKey
<1>3. task[r][ReduceNode] # "todo" => key[r][ReduceNode] # Missing
  BY <1>1, SentinelAssumption DEF FreshInv, TypeInv, TypeOK, Shape, Key
<1> QED BY <1>1, <1>2, <1>3

\* A run's merged key is not what a killed run left in the sink's manifest.
LEMMA LeftIsNotKey ==
  ASSUME FreshInv, Orderly, NEW r \in Runners, task[r][ReduceNode] # "todo", SinkIsLeft
  PROVE  manifest[SinkNode] # key[r][ReduceNode]
<1>1. /\ ReduceNode \in Nodes \ Slots /\ SinkNode \in Nodes \ Slots
      /\ key[r][ReduceNode] # Missing
  BY MergedNodes
<1>2. key[r][ReduceNode] \notin Torn
  BY <1>1, SentinelAssumption DEF FreshInv, TypeInv, TypeOK, Shape, Key, Torn
<1>3. Remote = {} /\ \A q \in Runners : q = r
  BY DEF SinkIsLeft, Orderly, OneRunner, Unchanging, PlannedAlike
<1>4. ~ StaleSince(ReduceNode, key[r][ReduceNode], begun[r])
  BY <1>1, <1>3, KeyIsCurrent
<1>5. ~ StaleSince(SinkNode, key[r][ReduceNode], begun[r])
  BY <1>1, <1>4 DEF StaleSince
<1> QED BY <1>1, <1>2, <1>3, <1>5 DEF SinkIsLeft, Leftover

\* A node's step keeps SinkFits if it does so for the run it belongs to.
LEMMA NodeStepFits ==
  ASSUME PublishedInv, Orderly, NEW r \in Runners, NEW n \in Nodes, NodeStep(r, n)
  PROVE  SinkFits'
<1> USE DEF PublishedInv, CacheInv
<1>1. \A q \in Runners : q = r
  BY DEF Orderly, OneRunner
<1>2. /\ ReduceNode \in Nodes /\ SinkNode \in Nodes /\ ReduceNode # SinkNode
      /\ ReduceNode \notin Slots /\ SinkNode \notin Slots
      /\ task[r][SinkNode] # "todo" =>
           /\ task[r][ReduceNode] = "done"
           /\ key[r][SinkNode] = key[r][ReduceNode]
      /\ task[r][ReduceNode] # "todo" => key[r][ReduceNode] # Missing
  BY MergedNodes
<1>3. /\ phase' = phase /\ phase[r] = "running" /\ begun' = begun
      /\ \A m \in Nodes \ {n} :
           /\ task'[r][m] = task[r][m] /\ key'[r][m] = key[r][m]
           /\ output'[r][m] = output[r][m]
           /\ artifact'[m] = artifact[m] /\ manifest'[m] = manifest[m]
  BY OtherNodes DEF FreshInv
<1>s. manifest'[SinkNode] = manifest[SinkNode] => (SinkIsLeft' <=> SinkIsLeft)
  BY <1>3 DEF SinkIsLeft, Leftover, Signed
<1>4. CASE n # ReduceNode /\ n # SinkNode
  <2>1. SinkIsLeft' <=> SinkIsLeft
    BY <1>2, <1>3, <1>4, <1>s
  <2> QED BY <1>1, <1>2, <1>3, <1>4, <2>1 DEF SinkFits, DiskAgrees
<1>5. CASE n = ReduceNode
  <2> DEFINE R == ReduceNode
  <2>1. /\ task'[r][SinkNode] = task[r][SinkNode] /\ key'[r][SinkNode] = key[r][SinkNode]
        /\ output'[r][SinkNode] = output[r][SinkNode]
        /\ artifact'[SinkNode] = artifact[SinkNode] /\ manifest'[SinkNode] = manifest[SinkNode]
        /\ task[r][R] # "done" => task[r][SinkNode] = "todo"
        /\ SinkIsLeft' <=> SinkIsLeft
    BY <1>2, <1>3, <1>5, <1>s
  <2>2. CASE ComputeKey(r, R) \/ CheckUnreadable(r, R) \/ CheckHit(r, R) \/ LoadUnreadable(r, R)
    <3>1. /\ artifact' = artifact /\ manifest' = manifest
          /\ task[r][R] \in {"todo", "keyed", "hit"} /\ task'[r][R] \in {"keyed", "hit", "error"}
      BY <2>2, <1>2 DEF ComputeKey, CheckUnreadable, CheckHit, LoadUnreadable, Advance, SameRun,
        disk, FreshInv, TypeInv, TypeOK
    <3>2. DiskAgrees \/ SinkIsLeft
      BY <3>1 DEF SinkFits
    <3> QED BY <1>1, <1>3, <2>1, <3>1, <3>2 DEF SinkFits, DiskAgrees
  <2>3. CASE CheckMiss(r, R)
    <3>1. /\ artifact' = artifact /\ manifest' = manifest /\ key' = key
          /\ task[r][R] = "keyed" /\ task'[r][R] = "miss" /\ ~ UpToDate(r, R)
      BY <2>3, <1>2 DEF CheckMiss, Advance, SameRun, disk, FreshInv, TypeInv, TypeOK
    <3>2. DiskAgrees \/ SinkIsLeft
      BY <3>1 DEF SinkFits
    <3>3. manifest[R] # key[r][R]
      <4>1. manifest[R] = Missing \/ Settled(R) \/ Leftover(R)
        BY <1>1, <1>2, <3>1 DEF FreshInv, DiskFits, Writing
      <4>2. manifest[R] = key[r][R] => ~ Leftover(R)
        BY <1>2, <3>1, HitIsCurrent
      <4> QED BY <1>2, <3>1, <4>1, <4>2 DEF UpToDate, Settled
    <3>4. manifest'[SinkNode] # key'[r][R]
      BY <3>1, <3>2, <3>3, LeftIsNotKey DEF DiskAgrees
    <3> QED BY <1>1, <1>3, <3>1, <3>4 DEF SinkFits
  <2>4. CASE Load(r, R)
    <3>1. /\ artifact' = artifact /\ manifest' = manifest /\ key' = key
          /\ task[r][R] = "hit" /\ task'[r][R] = "done"
          /\ output'[r][R] = artifact[R]
      BY <2>4, <1>2 DEF Load, Advance, SameRun, disk, FreshInv, TypeInv, TypeOK
    <3>2. /\ DiskAgrees \/ manifest[SinkNode] # key[r][R]
          /\ manifest[R] = key[r][R]
      BY <1>2, <3>1, LeftIsNotKey DEF SinkFits, FreshInv, HitsFit
    <3>3. /\ DiskAgrees' \/ manifest'[SinkNode] # key'[r][R]
          /\ manifest'[R] = key'[r][R] /\ artifact'[R] = output'[r][R]
      BY <3>1, <3>2 DEF DiskAgrees
    <3>4. task'[r][SinkNode] = "todo"
      BY <2>1, <3>1
    <3> QED BY <1>1, <1>3, <3>1, <3>3, <3>4 DEF SinkFits, HasOutput
  <2>5. CASE Compute(r, R) \/ OpenArtifact(r, R) \/ WriteArtifact(r, R) \/ OpenManifest(r, R)
    <3>1. /\ key' = key
          /\ task[r][R] \in {"miss", "computed", "opened", "written"}
          /\ task'[r][R] \in {"computed", "opened", "written", "signing"}
      BY <2>5, <1>2 DEF Compute, OpenArtifact, WriteArtifact, OpenManifest, Advance, SameRun,
        FreshInv, TypeInv, TypeOK
    <3>2. manifest'[SinkNode] # key'[r][R]
      BY <2>1, <3>1 DEF SinkFits
    <3> QED BY <1>1, <1>3, <3>1, <3>2 DEF SinkFits
  <2>6. CASE WriteManifest(r, R)
    <3>1. /\ key' = key /\ output' = output /\ artifact' = artifact
          /\ task[r][R] = "signing" /\ task'[r][R] = "done"
          /\ manifest'[R] \in Overwritten(manifest[R], key[r][R])
      BY <2>6, <1>2 DEF WriteManifest, Advance, SameRun, FreshInv, TypeInv, TypeOK
    <3>2. artifact[R] = output[r][R] /\ manifest[R] = Empty
      BY <1>2, <3>1 DEF FreshInv, WritesFit
    <3>3. manifest'[R] = key'[r][R] /\ artifact'[R] = output'[r][R]
      BY <3>1, <3>2 DEF Overwritten
    <3>4. manifest'[SinkNode] # key'[r][R]
      BY <2>1, <3>1 DEF SinkFits
    <3>5. task'[r][SinkNode] = "todo"
      BY <2>1, <3>1
    <3> QED BY <1>1, <1>3, <3>1, <3>3, <3>4, <3>5 DEF SinkFits, HasOutput
  <2>7. CASE ComputeFails(r, R)
    BY <1>2, <2>7 DEF ComputeFails
  <2> QED BY <1>5, <2>2, <2>3, <2>4, <2>5, <2>6, <2>7 DEF NodeStep
<1>6. CASE n = SinkNode
  <2> DEFINE S == SinkNode
  <2>0. \/ task[r][S] = "todo" /\ task'[r][S] = "keyed"
        \/ task[r][S] # "todo"
    BY <1>6, <1>2 DEF NodeStep, ComputeKey, CheckUnreadable, CheckHit, CheckMiss, Load,
      LoadUnreadable, Compute, ComputeFails, OpenArtifact, WriteArtifact, OpenManifest,
      WriteManifest, Advance, FreshInv, TypeInv, TypeOK
  <2>1. /\ task'[r][ReduceNode] = task[r][ReduceNode] /\ task[r][ReduceNode] = "done"
        /\ key'[r][ReduceNode] = key[r][ReduceNode]
        /\ output'[r][ReduceNode] = output[r][ReduceNode]
        /\ artifact'[ReduceNode] = artifact[ReduceNode]
        /\ manifest'[ReduceNode] = manifest[ReduceNode]
    <3>1. CASE task[r][S] # "todo"
      BY <1>2, <1>3, <1>6, <3>1
    <3>2. CASE task[r][S] = "todo"
      <4>1. ComputeKey(r, S)
        BY <1>6, <3>2, <1>2 DEF NodeStep, CheckUnreadable, CheckHit, CheckMiss, Load,
          LoadUnreadable, Compute, ComputeFails, OpenArtifact, WriteArtifact, OpenManifest,
          WriteManifest, Advance
      <4>2. task[r][ReduceNode] = "done"
        <5>1. DOMAIN maps[r] \subseteq Slots
          BY ParameterAssumption DEF FreshInv, TypeInv, TypeOK, Shape, Slots
        <5> QED BY <1>2, <4>1, <5>1 DEF ComputeKey, Ready
      <4> QED BY <1>2, <1>3, <1>6, <4>2
    <3> QED BY <3>1, <3>2
  <2>2. manifest[ReduceNode] = key[r][ReduceNode] /\ artifact[ReduceNode] = output[r][ReduceNode]
    BY <2>1 DEF SinkFits
  <2>3. CASE ComputeKey(r, S) \/ CheckUnreadable(r, S) \/ CheckHit(r, S) \/ CheckMiss(r, S)
    <3>1. /\ artifact' = artifact /\ manifest' = manifest /\ output' = output
          /\ \/ task[r][S] = "todo" /\ task'[r][S] = "keyed"
             \/ task[r][S] = "keyed" /\ task'[r][S] = "hit" /\ manifest[S] = key[r][S]
             \/ task[r][S] = "keyed" /\ task'[r][S] = "miss"
             \/ task[r][S] = "keyed" /\ task'[r][S] = "error" /\ manifest[S] \in Torn
      BY <2>3, <1>2 DEF ComputeKey, CheckUnreadable, CheckHit, CheckMiss, UpToDate, Advance,
        SameRun, disk, FreshInv, TypeInv, TypeOK
    <3>2. DiskAgrees \/ manifest[S] # key[r][ReduceNode]
      BY <2>1, <3>1 DEF SinkFits
    <3>3. task[r][S] = "keyed" /\ manifest[S] \in Torn => SinkIsLeft
      <4>1. ASSUME task[r][S] = "keyed"
            PROVE  manifest[S] = Missing \/ Settled(S) \/ Leftover(S)
        BY <1>1, <1>2, <4>1 DEF FreshInv, DiskFits, Writing
      <4> QED BY <4>1, SentinelAssumption DEF Settled, Torn, Leftover, SinkIsLeft
    <3>4. task'[r][S] = "hit" => DiskAgrees
      BY <1>2, <3>1, <3>2, <3>3
    <3>5. DiskAgrees => DiskAgrees'
      BY <3>1 DEF DiskAgrees
    <3>6. /\ task'[r][S] \in {"keyed", "hit", "miss", "error"}
          /\ task'[r][S] = "error" => SinkIsLeft'
      BY <1>s, <3>1, <3>3
    <3> QED BY <1>1, <1>3, <2>1, <2>2, <3>1, <3>2, <3>4, <3>5, <3>6 DEF SinkFits, HasOutput
  <2>4. CASE Load(r, S)
    <3>1. /\ artifact' = artifact /\ manifest' = manifest
          /\ task[r][S] = "hit" /\ task'[r][S] = "done"
          /\ output'[r][S] = output[r][ReduceNode]
      BY <2>4, <1>2 DEF Load, Advance, SameRun, disk, FreshInv, TypeInv, TypeOK
    <3>2. DiskAgrees /\ DiskAgrees'
      BY <2>1, <3>1 DEF SinkFits, DiskAgrees
    <3> QED BY <1>1, <1>3, <2>1, <2>2, <3>1, <3>2 DEF SinkFits
  <2>5. CASE Compute(r, S) \/ OpenArtifact(r, S) \/ WriteArtifact(r, S) \/ OpenManifest(r, S)
    <3>1. /\ task[r][S] \in {"miss", "computed", "opened", "written"}
          /\ task'[r][S] \in {"computed", "opened", "written", "signing"}
          /\ \/ task[r][S] = "miss" /\ output'[r][S] = Fresh(r, S)
             \/ task[r][S] \in HasOutput /\ output'[r][S] = output[r][S]
      BY <2>5, <1>2 DEF Compute, OpenArtifact, WriteArtifact, OpenManifest, Advance, SameRun,
        FreshInv, TypeInv, TypeOK, HasOutput
    <3>2. Fresh(r, S) = output[r][ReduceNode]
      BY <1>2 DEF Fresh
    <3>3. output'[r][S] = output'[r][ReduceNode]
      BY <2>1, <3>1, <3>2 DEF SinkFits
    <3> QED BY <1>1, <1>3, <2>1, <2>2, <3>1, <3>3 DEF SinkFits
  <2>6. CASE WriteManifest(r, S)
    <3>1. /\ output' = output /\ artifact' = artifact
          /\ task[r][S] = "signing" /\ task'[r][S] = "done"
          /\ manifest'[S] \in Overwritten(manifest[S], key[r][S])
      BY <2>6, <1>2 DEF WriteManifest, Advance, SameRun, FreshInv, TypeInv, TypeOK
    <3>2. artifact[S] = output[r][S] /\ manifest[S] = Empty
      BY <1>2, <3>1 DEF FreshInv, WritesFit
    <3>3. output[r][S] = output[r][ReduceNode]
      BY <2>1, <3>1 DEF SinkFits, HasOutput
    <3>4. manifest'[S] = key[r][ReduceNode]
      BY <1>2, <3>1, <3>2 DEF Overwritten
    <3>5. DiskAgrees'
      BY <2>1, <2>2, <3>1, <3>2, <3>3, <3>4 DEF DiskAgrees
    <3> QED BY <1>1, <1>3, <2>1, <2>2, <3>1, <3>3, <3>5 DEF SinkFits
  <2>7. CASE LoadUnreadable(r, S) \/ ComputeFails(r, S)
    BY <1>2, <2>7 DEF LoadUnreadable, ComputeFails
  <2> QED BY <1>6, <2>3, <2>4, <2>5, <2>6, <2>7 DEF NodeStep
<1> QED BY <1>4, <1>5, <1>6

LEMMA InitPublished == Init => PublishedInv
<1> SUFFICES ASSUME Init PROVE PublishedInv
  OBVIOUS
<1>1. CacheInv
  BY InitCache
<1>2. SinkFits
  BY NodeNumbers DEF Init, SinkFits, DiskAgrees
<1> QED BY <1>1, <1>2 DEF PublishedInv

\* The same of the sink's manifest and the merged key.
LEMMA SinkPrecedes ==
  ASSUME MaxCrashes # 0, Orderly, CacheInv, NEW r \in Runners,
         task[r][ReduceNode] # "todo", task[r][SinkNode] \in {"todo", "keyed"},
         Signed(SinkNode), manifest[SinkNode] # key[r][ReduceNode]
  PROVE  Precedes(SinkNode, manifest[SinkNode], key[r][ReduceNode])
<1>0. Unchanging /\ FreshInv /\ ManifestsCut /\ KeysCut /\ ManifestsPast
  BY DEF Orderly, CacheInv, KillsFit
<1>n. ReduceNode \in Nodes \ Slots /\ SinkNode \in Nodes \ Slots
  BY NodeNumbers
<1>1. PICK p \in Plans : plan[r] = p
  BY <1>0, <1>n DEF FreshInv, TypeInv, Shape
<1>2. /\ KeyCut(SinkNode, manifest[SinkNode], TheChunks(p))
      /\ KeyCut(SinkNode, key[r][ReduceNode], TheChunks(p))
  BY <1>0, <1>n DEF ManifestsCut, KeysCut, KeyCut
<1>3. manifest[SinkNode] \in Key(SinkNode) /\ key[r][ReduceNode] \in Key(SinkNode)
  BY <1>0, <1>n, SignedKey, KeyIsPast DEF FreshInv, Key
<1>4. ~ StaleSince(SinkNode, key[r][ReduceNode], begun[r])
  <2>1. ~ StaleSince(ReduceNode, key[r][ReduceNode], begun[r])
    BY <1>0, <1>n, KeyIsCurrent DEF Unchanging
  <2> QED BY <1>n, <2>1 DEF StaleSince
<1>5. begun[r] \in [Sources -> Nat] /\ StampedBy(SinkNode, manifest[SinkNode], begun[r])
  BY <1>0, <1>n, Versions DEF ManifestsPast
<1> QED BY <1>n, <1>2, <1>3, <1>4, <1>5, OtherPrecedes

\* When a run begins after one that was killed, the two merged files agree, or what
\* the sink's manifest has is no run's key any more.
LEMMA BeginPublished ==
  ASSUME PublishedInv, Orderly, NEW r \in Runners, NEW p \in Plans, NEW m \in Modes,
         Begin(r, p, m)
  PROVE  SinkFits'
<1> USE DEF PublishedInv, CacheInv
<1> DEFINE R == ReduceNode
           S == SinkNode
<1>1. /\ \A q \in Runners : q = r
      /\ artifact' = artifact /\ manifest' = manifest /\ phase[r] # "running"
      /\ \A n \in Nodes : task'[r][n] = "todo"
  BY DEF Begin, Orderly, OneRunner, disk, FreshInv, TypeInv, TypeOK
<1>2. /\ OneRunner /\ R \in Nodes \ Slots /\ S \in Nodes \ Slots
      /\ task[r][S] # "todo" => task[r][R] = "done"
  BY MergedNodes DEF Orderly
<1>3. DiskAgrees => DiskAgrees'
  BY <1>1 DEF DiskAgrees
<1>4. SinkIsLeft => SinkIsLeft'
  <2>1. Leftover(S) => Leftover(S)'
    BY <1>2, LeftoverStays
  <2> QED BY <1>1, <2>1 DEF SinkIsLeft
<1>5. ASSUME MaxCrashes # 0, task[r][R] # "todo", manifest[S] # key[r][R],
             task[r][S] \in {"todo", "keyed"}
      PROVE  SinkIsLeft'
  <2>1. ASSUME Signed(S) PROVE Leftover(S)'
    <3>1. Precedes(S, manifest[S], key[r][R])
      BY <1>2, <1>5, <2>1, SinkPrecedes
    <3>2. key[r][R] \in Key(R) /\ StampedBy(R, key[r][R], version)
      BY <1>2, <1>5, KeyIsPast
    <3>3. key[r][R] \in Key(S) /\ StampedBy(S, key[r][R], version)
      BY <1>2, <3>2 DEF Key, StampedBy
    <3>4. version \in [Sources -> Nat]
      BY Versions
    <3>5. StaleSince(S, manifest[S], version)
      BY <1>2, <2>1, <3>1, <3>3, <3>4, SignedKey, PrecedesIsStale DEF FreshInv
    <3> QED BY <1>2, <1>5, <2>1, <3>5, LeftoverStays
  <2>2. manifest[S] \in Torn => Leftover(S)'
    BY <1>1, <1>5 DEF Leftover
  <2> QED BY <1>1, <1>5, <2>1, <2>2 DEF SinkIsLeft, Signed
<1>6. DiskAgrees \/ SinkIsLeft'
  <2>1. CASE MaxCrashes = 0
    BY <1>1, <2>1 DEF SinkFits
  <2>2. CASE MaxCrashes # 0
    <3>1. task[r][R] \in TaskState /\ task[r][S] \in TaskState
      BY <1>2 DEF FreshInv, TypeInv, TypeOK
    <3>2. CASE task[r][R] \in {"todo", "keyed", "hit", "error"}
      BY <1>4, <3>2 DEF SinkFits
    <3>3. CASE task[r][R] \in {"miss", "computed", "opened", "written", "signing"}
      BY <1>2, <1>5, <2>2, <3>3 DEF SinkFits
    <3>4. CASE task[r][R] = "done"
      <4>1. CASE task[r][S] \in {"todo", "keyed"}
        BY <1>5, <2>2, <3>4, <4>1 DEF SinkFits
      <4>2. CASE task[r][S] \in {"miss", "computed", "opened", "written", "signing"}
        BY <1>1, <1>2, <4>2, WrittenIsLeft DEF SinkIsLeft
      <4>3. CASE task[r][S] \in {"hit", "done", "error"}
        BY <1>4, <3>4, <4>3 DEF SinkFits
      <4> QED BY <3>1, <4>1, <4>2, <4>3 DEF TaskState, InProgress
    <3> QED BY <3>1, <3>2, <3>3, <3>4 DEF TaskState, InProgress
  <2> QED BY <2>1, <2>2
<1> HIDE DEF R, S
<1>7. task'[r][ReduceNode] = "todo"
  BY <1>1, <1>2 DEF R
<1> QED BY <1>1, <1>3, <1>6, <1>7 DEF SinkFits, SinkIsLeft

LEMMA NextPublished == Orderly /\ PublishedInv /\ [Next]_vars => PublishedInv'
<1> SUFFICES ASSUME Orderly, PublishedInv, [Next]_vars PROVE PublishedInv'
  OBVIOUS
<1> USE DEF PublishedInv, CacheInv
<1>0. OneRunner /\ \A r1, r2 \in Runners : r1 = r2
  BY DEF Orderly, OneRunner
<1>1. CacheInv'
  BY NextCache
<1>n. ReduceNode \in Nodes /\ SinkNode \in Nodes
  BY NodeNumbers
<1>2. ASSUME NEW s \in Sources, Edit(s) PROVE SinkFits'
  BY <1>2 DEF Edit, SinkFits, DiskAgrees, SinkIsLeft, Leftover, Signed, disk, local
<1>3. ASSUME NEW r \in Runners, NEW p \in Plans, NEW m \in Modes, Begin(r, p, m)
      PROVE  SinkFits'
  BY <1>0, <1>3, BeginPublished
<1>4. ASSUME NEW r \in Runners, PlanSource(r) \/ Execute(r) \/ PlanFails(r)
      PROVE  SinkFits'
  <2>1. /\ \A q \in Runners : q = r
        /\ artifact' = artifact /\ manifest' = manifest /\ task' = task
        /\ phase[r] = "planning" /\ begun' = begun
    BY <1>0, <1>4 DEF PlanSource, Execute, PlanFails, disk
  <2>2. task[r][ReduceNode] = "todo"
    BY <1>n, <2>1 DEF FreshInv, TypeInv, Shape
  <2>3. DiskAgrees' \/ SinkIsLeft'
    BY <2>1, <2>2 DEF SinkFits, DiskAgrees, SinkIsLeft, Leftover, Signed
  <2> QED BY <2>1, <2>2, <2>3 DEF SinkFits, SinkIsLeft
<1>5. ASSUME NEW r \in Runners, Finish(r) \/ Fail(r) \/ Crash(r) PROVE SinkFits'
  <2>1. /\ \A q \in Runners : q = r
        /\ artifact' = artifact /\ manifest' = manifest /\ task' = task /\ key' = key
        /\ output' = output /\ begun' = begun
    BY <1>0, <1>5 DEF Finish, Fail, Crash, disk
  <2>2. ASSUME MaxCrashes = 0 PROVE DiskAgrees
    <3>1. CASE Finish(r)
      <4>1. task[r][SinkNode] = "done"
        BY <3>1 DEF Finish
      <4>2. task[r][ReduceNode] = "done"
        BY <4>1, MergedNodes
      <4> QED BY <4>1, <4>2 DEF SinkFits
    <3>2. CASE Fail(r)
      <4>1. /\ task[r][ReduceNode] \notin InProgress /\ task[r][SinkNode] \notin InProgress
            /\ \E n \in Nodes : task[r][n] = "error"
        BY <3>2, <1>n DEF Fail
      <4>2. CASE task[r][ReduceNode] = "done"
        <5>1. \A n \in Slots : task[r][n] # "error"
          <6>1. \A n \in Slots : task[r][n] # "todo" => n \in DOMAIN maps[r]
            BY NodeNumbers DEF FreshInv, TypeInv, Shape
          <6>2. \A i \in DOMAIN maps[r] : task[r][i] = "done"
            BY <4>2, <1>n DEF FreshInv, TypeInv, Shape
          <6> QED BY <6>1, <6>2
        <5>2. task[r][SinkNode] # "error"
          BY <2>2, <4>2 DEF SinkFits, SinkIsLeft
        <5>3. \A n \in Nodes : n \in Slots \/ n = ReduceNode \/ n = SinkNode
          BY ParameterAssumption DEF Nodes, Slots, ReduceNode, SinkNode
        <5> QED BY <4>1, <4>2, <5>1, <5>2, <5>3
      <4>3. CASE task[r][ReduceNode] # "done"
        <5>1. task[r][ReduceNode] \in TaskState
          BY <1>n DEF FreshInv, TypeInv, TypeOK
        <5>2. task[r][ReduceNode] \in {"todo", "error"}
          BY <4>1, <4>3, <5>1 DEF TaskState
        <5> QED BY <2>2, <5>2 DEF SinkFits, SinkIsLeft
      <4> QED BY <4>2, <4>3
    <3>3. ~ Crash(r)
      BY <2>2 DEF Crash, FreshInv, TypeInv, TypeOK
    <3> QED BY <1>5, <3>1, <3>2, <3>3
  <2>3. MaxCrashes \in Nat
    BY ParameterAssumption
  <2> QED BY <2>1, <2>2, <2>3 DEF SinkFits, DiskAgrees, SinkIsLeft, Leftover, Signed
<1>6. ASSUME NEW r \in Runners, Crash(r) PROVE SinkFits'
  BY <1>5, <1>6
<1>7. ASSUME UNCHANGED vars PROVE SinkFits'
  BY <1>7 DEF SinkFits, DiskAgrees, SinkIsLeft, Leftover, Signed, vars, disk, local
<1>8. ASSUME NEW r \in Runners, NEW n \in Nodes, NodeStep(r, n) PROVE SinkFits'
  BY <1>8, NodeStepFits
<1>9. ASSUME NEW r \in Runners, RunnerStep(r) PROVE SinkFits'
  BY <1>4, <1>5, <1>8, <1>9 DEF RunnerStep
<1>10. SinkFits'
  BY <1>2, <1>3, <1>6, <1>7, <1>9 DEF Next
<1> QED BY <1>1, <1>10

\* When runs follow one another, of whatever plans if none is killed, of one plan over
\* local inputs of constant length whichever are killed, a run that returns
\* Ok leaves in the output file what it reports, though a sink that is skipped
\* looks neither at the file nor at what the reduce has just merged (run_sink).
THEOREM OutputIsReported == Orderly => (Spec => []PublishedIsReported)
<1> SUFFICES ASSUME Orderly PROVE Spec => []PublishedIsReported
  OBVIOUS
<1>1. PublishedInv /\ [Next]_vars => PublishedInv'
  BY NextPublished
<1>2. PublishedInv => PublishedIsReported
  <2> SUFFICES ASSUME PublishedInv, NEW r \in Runners, phase[r] = "ok"
               PROVE  artifact[SinkNode] = output[r][SinkNode]
    BY DEF PublishedIsReported
  <2>1. task[r][SinkNode] = "done"
    BY DEF PublishedInv, CacheInv, FreshInv, Quiet
  <2>2. task[r][ReduceNode] = "done"
    BY <2>1, MergedNodes DEF PublishedInv, CacheInv
  <2> QED BY <2>1, <2>2 DEF PublishedInv, SinkFits, DiskAgrees, HasOutput
<1> QED BY InitPublished, <1>1, <1>2, PTL DEF Spec
-----------------------------------------------------------------------------
(* The refinement: no output was computed from a version that is still to    *)
(* come.                                                                    *)

\* An output was not computed from a version that is still to come.
Past(n, out) ==
  IF n \in Slots THEN out.version <= version[out.chunk.source]
  ELSE \A i \in DOMAIN out.parts : out.parts[i].version <= version[out.parts[i].chunk.source]

OutputsPast ==
  /\ \A n \in Nodes : artifact[n] \notin Torn \cup {Missing} => Past(n, artifact[n])
  /\ \A r \in Runners, n \in Nodes : output[r][n] # None => Past(n, output[r][n])

RefineInv == CacheInv /\ OutputsPast
-----------------------------------------------------------------------------
(* No output is from the future.                                            *)

\* What a merged output says of its parts does not depend on the node that has it.
LEMMA SinkPast ==
  ASSUME NEW out, Past(ReduceNode, out)
  PROVE  Past(SinkNode, out)
BY NodeNumbers DEF Past

LEMMA FreshPast ==
  ASSUME TypeInv, OutputsPast, NEW r \in Runners, NEW n \in Nodes, Compute(r, n)
  PROVE  Past(n, Fresh(r, n))
<1>1. task[r][n] = "miss"
  BY DEF Compute, Advance
<1>2. CASE n \in Slots
  <2>1. maps[r][n] \in Chunk
    BY <1>1, <1>2 DEF TypeInv, TypeOK, Shape
  <2>2. version[maps[r][n].source] \in Nat
    BY <2>1 DEF TypeInv, TypeOK, Chunk
  <2> QED BY <1>2, <2>2 DEF Past, Fresh
<1>3. CASE n \notin Slots
  <2>1. /\ n = ReduceNode \/ n = SinkNode
        /\ ReduceNode \in Nodes \ Slots /\ SinkNode \in Nodes \ Slots
        /\ ReduceNode # SinkNode
        /\ DOMAIN maps[r] \subseteq Slots /\ Slots \subseteq Nodes
        /\ \A i \in DOMAIN maps[r] : task[r][i] = "done"
        /\ n = SinkNode => task[r][ReduceNode] = "done"
    BY <1>1, <1>3, DependenciesDone
  <2>2. CASE n = ReduceNode
    <3>1. \A i \in DOMAIN maps[r] : output[r][i] # None
      BY <2>1 DEF TypeInv, Shape, HasOutput
    <3>2. \A i \in DOMAIN maps[r] : Past(i, output[r][i])
      BY <2>1, <3>1 DEF OutputsPast
    <3> QED BY <1>3, <2>1, <2>2, <3>2 DEF Past, Fresh
  <2>3. CASE n = SinkNode
    <3>1. output[r][ReduceNode] # None
      BY <2>1, <2>3 DEF TypeInv, Shape, HasOutput
    <3>2. Past(ReduceNode, output[r][ReduceNode])
      BY <2>1, <3>1 DEF OutputsPast
    <3> QED BY <1>3, <2>1, <2>3, <3>2, SinkPast DEF Fresh
  <2> QED BY <2>1, <2>2, <2>3
<1> QED BY <1>2, <1>3

LEMMA LoadedPast ==
  ASSUME TypeInv, OutputsPast, NEW r \in Runners, NEW n \in Nodes, Load(r, n)
  PROVE  Past(n, IF n = SinkNode THEN output[r][ReduceNode] ELSE artifact[n])
<1>1. task[r][n] = "hit"
  BY DEF Load, Advance
<1>2. CASE n = SinkNode
  <2>1. task[r][ReduceNode] = "done" /\ ReduceNode \in Nodes
    BY <1>1, <1>2, NodeNumbers DEF TypeInv, Shape
  <2>2. output[r][ReduceNode] # None
    BY <2>1 DEF TypeInv, Shape, HasOutput
  <2> QED BY <1>2, <2>1, <2>2, SinkPast DEF OutputsPast
<1>3. CASE n # SinkNode
  <2>1. artifact[n] \notin Torn \cup {Missing}
    BY <1>1, <1>3 DEF Load, TypeInv, Shape
  <2> QED BY <1>3, <2>1 DEF OutputsPast
<1> QED BY <1>2, <1>3

LEMMA NodeStepPast ==
  ASSUME TypeInv, OutputsPast, NEW r \in Runners, NEW n \in Nodes, NodeStep(r, n)
  PROVE  OutputsPast'
<1>1. version' = version
  BY OutputEffect
<1>2. \A out : \A m \in Nodes : Past(m, out)' <=> Past(m, out)
  BY <1>1 DEF Past
<1>3. ASSUME NEW m \in Nodes, artifact'[m] \notin Torn \cup {Missing}
      PROVE  Past(m, artifact'[m])
  <2>1. \/ artifact'[m] = artifact[m]
        \/ artifact'[m] = output[r][m] /\ output[r][m] # None
    BY <1>3, OutputEffect
  <2> QED BY <1>3, <2>1 DEF OutputsPast
<1>4. ASSUME NEW q \in Runners, NEW m \in Nodes, output'[q][m] # None
      PROVE  Past(m, output'[q][m])
  <2>1. CASE output'[q][m] = output[q][m]
    BY <1>4, <2>1 DEF OutputsPast
  <2>2. CASE q = r /\ m = n /\ Load(r, n)
    <3>1. output'[r][n] = IF n = SinkNode THEN output[r][ReduceNode] ELSE artifact[n]
      BY <2>2 DEF Load, TypeInv, TypeOK
    <3> QED BY <2>2, <3>1, LoadedPast
  <2>3. CASE q = r /\ m = n /\ Compute(r, n)
    <3>1. output'[r][n] = Fresh(r, n)
      BY <2>3 DEF Compute, TypeInv, TypeOK
    <3> QED BY <2>3, <3>1, FreshPast
  <2> QED BY <2>1, <2>2, <2>3, OutputEffect
<1> QED BY <1>2, <1>3, <1>4 DEF OutputsPast

LEMMA EditPast ==
  ASSUME TypeInv, OutputsPast, NEW s \in Sources, Edit(s)
  PROVE  OutputsPast'
<1>1. \A t \in Sources :
        version[t] \in Nat /\ version'[t] \in Nat /\ version[t] <= version'[t]
  BY DEF Edit, TypeInv, TypeOK
<1>2. artifact' = artifact /\ output' = output
  BY DEF Edit, disk, local
<1>3. ASSUME NEW out \in PartialOutput, out.version <= version[out.chunk.source]
      PROVE  out.version <= version'[out.chunk.source]
  <2>1. out.version \in Nat /\ out.chunk.source \in Sources
    BY DEF PartialOutput, Chunk
  <2> QED BY <1>1, <1>3, <2>1
<1>4. ASSUME NEW n \in Nodes, NEW out \in Output(n), Past(n, out) PROVE Past(n, out)'
  <2>1. CASE n \in Slots
    BY <1>3, <1>4, <2>1 DEF Past, Output
  <2>2. CASE n \notin Slots
    <3>1. \A i \in DOMAIN out.parts : out.parts[i] \in PartialOutput
      BY <2>2 DEF Output, MergedOutput
    <3> QED BY <1>3, <1>4, <2>2, <3>1 DEF Past
  <2> QED BY <2>1, <2>2
<1>5. ASSUME NEW n \in Nodes, artifact[n] \notin Torn \cup {Missing} PROVE Past(n, artifact[n])'
  BY <1>2, <1>4, <1>5 DEF OutputsPast, TypeInv, TypeOK
<1>6. ASSUME NEW r \in Runners, NEW n \in Nodes, output[r][n] # None PROVE Past(n, output[r][n])'
  BY <1>2, <1>4, <1>6 DEF OutputsPast, TypeInv, TypeOK
<1> QED BY <1>2, <1>5, <1>6 DEF OutputsPast

LEMMA QuietPast ==
  ASSUME OutputsPast, version' = version, artifact' = artifact,
         \A r \in Runners, n \in Nodes : output'[r][n] = output[r][n] \/ output'[r][n] = None
  PROVE  OutputsPast'
<1>1. \A out : \A m \in Nodes : Past(m, out)' <=> Past(m, out)
  BY DEF Past
<1> QED BY <1>1 DEF OutputsPast
-----------------------------------------------------------------------------
(* The invariant.                                                           *)

LEMMA InitRefine == Init => RefineInv
<1> SUFFICES ASSUME Init PROVE RefineInv
  OBVIOUS
<1>1. OutputsPast
  BY DEF Init, OutputsPast
<1> QED BY <1>1, InitCache DEF RefineInv

LEMMA NextRefine == Orderly /\ RefineInv /\ [Next]_vars => RefineInv'
<1> SUFFICES ASSUME Orderly, RefineInv, [Next]_vars PROVE RefineInv'
  OBVIOUS
<1> USE DEF RefineInv
<1>0. CacheInv'
  BY NextCache
<1>t. TypeInv /\ TypeInv' /\ \A r1, r2 \in Runners : r1 = r2
  BY <1>0 DEF CacheInv, FreshInv, Orderly, OneRunner
<1>1. ASSUME NEW s \in Sources, Edit(s) PROVE OutputsPast'
  BY <1>1, <1>t, EditPast
<1>2. ASSUME NEW r \in Runners, NEW p \in Plans, NEW m \in Modes, Begin(r, p, m)
      PROVE  OutputsPast'
  <2>1. /\ version' = version /\ artifact' = artifact
        /\ \A n \in Nodes : output'[r][n] = None
    BY <1>2, <1>t DEF Begin, disk, TypeInv, TypeOK
  <2> QED BY <1>t, <2>1, QuietPast
<1>3. ASSUME NEW r \in Runners,
             \/ PlanSource(r) \/ Execute(r) \/ PlanFails(r) \/ Finish(r) \/ Fail(r) \/ Crash(r)
      PROVE  OutputsPast'
  <2>1. version' = version /\ artifact' = artifact /\ output' = output
    BY <1>3 DEF PlanSource, Execute, PlanFails, Finish, Fail, Crash, disk
  <2> QED BY <2>1, QuietPast
<1>4. ASSUME NEW r \in Runners, NEW n \in Nodes, NodeStep(r, n) PROVE OutputsPast'
  BY <1>4, <1>t, NodeStepPast
<1>5. ASSUME UNCHANGED vars PROVE OutputsPast'
  <2>1. version' = version /\ artifact' = artifact /\ output' = output
    BY <1>5 DEF vars, disk, local
  <2> QED BY <2>1, QuietPast
<1>6. ASSUME NEW r \in Runners, RunnerStep(r) PROVE OutputsPast'
  BY <1>3, <1>4, <1>6 DEF RunnerStep
<1>7. ASSUME NEW r \in Runners, Crash(r) PROVE OutputsPast'
  BY <1>3, <1>7
<1>8. OutputsPast'
  BY <1>1, <1>2, <1>5, <1>6, <1>7 DEF Next
<1> QED BY <1>0, <1>8
-----------------------------------------------------------------------------
(* The simulation: what a run returns, the cacheless run may return.        *)

LEMMA ReportIsAnswer ==
  ASSUME Undisturbed, RefineInv, NEW r \in Runners, Finish(r)
  PROVE  Abstract!Answers(r, output[r][SinkNode].parts)
<1> DEFINE parts == output[r][SinkNode].parts
<1> USE DEF RefineInv, CacheInv
<1>1. phase[r] = "running" /\ task[r][SinkNode] = "done"
  BY DEF Finish
<1>2. /\ DOMAIN parts = DOMAIN maps[r]
      /\ \A i \in DOMAIN maps[r] :
           /\ parts[i].chunk = maps[r][i]
           /\ parts[i].kernel = KernelOf[plan[r]]
           /\ parts[i].version >= begun[r][maps[r][i].source]
  BY <1>1, DoneIsFresh
<1>3. plan[r] \in Plans /\ PlannedFrom(plan[r], Len(Inputs[plan[r]]), maps[r], begun[r], version)
  BY <1>1 DEF PlansFit, FreshInv, TypeInv, Shape
<1>4. SinkNode \in Nodes \ Slots /\ output[r][SinkNode] \in MergedOutput
      /\ output[r][SinkNode] # None
  BY <1>1, NodeNumbers DEF FreshInv, TypeInv, TypeOK, Shape, HasOutput, Output
<1>5. \A i \in DOMAIN parts : parts[i].version <= version[parts[i].chunk.source]
  BY <1>4 DEF OutputsPast, Past
<1>6. maps[r] \in Seq(Chunk) /\ \A i \in DOMAIN parts : parts[i] \in PartialOutput
  BY <1>4 DEF MergedOutput, FreshInv, TypeInv, TypeOK
<1>7. /\ version \in [Sources -> 0 .. MaxVersion] /\ begun[r] \in [Sources -> 0 .. MaxVersion]
  BY DEF FreshInv, TypeInv, TypeOK
<1> HIDE DEF parts
<1>8. [i \in DOMAIN parts |-> parts[i].chunk] = maps[r]
  BY <1>2, <1>6
<1>9. \E at \in Abstract!PlanningMoments(r) :
        [i \in DOMAIN parts |-> parts[i].chunk] = Abstract!ChunkList(plan[r], at)
  <2>1. PICK p \in Plans, m \in {maps[r]}, low \in {begun[r]}, high \in {version} :
          p = plan[r] /\ m = maps[r] /\ low = begun[r] /\ high = version
    BY <1>3
  <2>2. PICK at \in [DOMAIN Inputs[p] -> 0 .. MaxVersion] :
          /\ \A i \in DOMAIN at : low[Inputs[p][i]] <= at[i] /\ at[i] <= high[Inputs[p][i]]
          /\ m = Abstract!ChunkList(p, at)
    <3>1. PlannedFrom(p, Len(Inputs[p]), m, low, high)
      BY <1>3, <2>1
    <3> QED BY <3>1, PlannedIsChunkList, Zenon
  <2>3. ASSUME NEW i \in DOMAIN at PROVE at[i] \in Abstract!During(r, Inputs[p][i])
    <3>1. Inputs[p] \in Seq(Sources) /\ i \in DOMAIN Inputs[p]
      BY <2>2, ParameterAssumption
    <3>2. Inputs[p][i] \in Sources
      BY <3>1
    <3>3. /\ begun[r][Inputs[p][i]] \in Nat /\ version[Inputs[p][i]] \in Nat /\ at[i] \in Int
          /\ begun[r][Inputs[p][i]] <= at[i] /\ at[i] <= version[Inputs[p][i]]
      <4>1. at[i] \in 0 .. MaxVersion /\ MaxVersion \in Nat
        BY <3>1, ParameterAssumption
      <4>2. begun[r][Inputs[p][i]] \in 0 .. MaxVersion /\ version[Inputs[p][i]] \in 0 .. MaxVersion
        BY <1>7, <3>2
      <4>3. begun[r][Inputs[p][i]] <= at[i] /\ at[i] <= version[Inputs[p][i]]
        BY <2>1, <2>2
      <4> QED BY <4>1, <4>2, <4>3
    <3> QED BY <3>3 DEF Abstract!During
  <2>4. at \in Abstract!PlanningMoments(r)
    BY <2>1, <2>2, <2>3 DEF Abstract!PlanningMoments
  <2> QED BY <1>8, <2>1, <2>2, <2>4
<1>10. ASSUME NEW i \in DOMAIN parts
       PROVE  /\ parts[i].kernel = KernelOf[plan[r]]
              /\ parts[i].version \in Abstract!During(r, parts[i].chunk.source)
  <2>1. parts[i].chunk \in Chunk /\ parts[i].version \in Nat
    BY <1>6 DEF PartialOutput
  <2>2. parts[i].chunk.source \in Sources
    BY <2>1 DEF Chunk
  <2>3. begun[r][parts[i].chunk.source] \in Nat /\ version[parts[i].chunk.source] \in Nat
    BY <1>7, <2>2
  <2>4. /\ begun[r][parts[i].chunk.source] <= parts[i].version
        /\ parts[i].version <= version[parts[i].chunk.source]
    <3>1. parts[i].version >= begun[r][parts[i].chunk.source]
      BY <1>2
    <3>2. parts[i].version <= version[parts[i].chunk.source]
      BY <1>5
    <3> QED BY ONLY <2>1, <2>3, <3>1, <3>2
  <2> QED BY <1>2, <2>1, <2>3, <2>4 DEF Abstract!During
<1> QED BY <1>9, <1>10 DEF Abstract!Answers, parts

LEMMA InitSimulates == Init => Abstract!Init
BY DEF Init, Abstract!Init

LEMMA FinishReturns ==
  ASSUME Undisturbed, RefineInv, NEW r \in Runners, Finish(r)
  PROVE  Abstract!Return(r)
<1>1. /\ phase \in [Runners -> {"idle", "planning", "running", "ok", "failed"}]
      /\ phase[r] = "running" /\ phase' = [phase EXCEPT ![r] = "ok"]
      /\ version' = version /\ plan' = plan /\ begun' = begun /\ output' = output
  BY DEF Finish, RefineInv, CacheInv, FreshInv, TypeInv, TypeOK
<1>2. \A q \in Runners : phase'[q] = IF q = r THEN "ok" ELSE phase[q]
  BY <1>1
<1>3. Abstract!Answers(r, output[r][SinkNode].parts)
  BY ReportIsAnswer
<1> QED BY <1>1, <1>2, <1>3 DEF Abstract!Return

LEMMA NextSimulates ==
  Undisturbed /\ RefineInv /\ [Next]_vars => [Abstract!Next]_(Abstract!vars)
<1> SUFFICES ASSUME Undisturbed, RefineInv, [Next]_vars
             PROVE  [Abstract!Next]_(Abstract!vars)
  OBVIOUS
<1>t. /\ TypeOK
      /\ phase \in [Runners -> {"idle", "planning", "running", "ok", "failed"}]
      /\ \A r1, r2 \in Runners : r1 = r2
  BY DEF RefineInv, CacheInv, FreshInv, TypeInv, TypeOK, Undisturbed, Orderly, OneRunner
<1>1. ASSUME NEW s \in Sources, Edit(s) PROVE Abstract!Edit(s)
  <2>1. phase' = phase /\ plan' = plan /\ begun' = begun /\ output' = output
    BY <1>1 DEF Edit, local
  <2> QED BY <1>1, <2>1 DEF Edit, Abstract!Edit
<1>2. ASSUME NEW r \in Runners, NEW p \in Plans, NEW m \in Modes, Begin(r, p, m)
      PROVE  Abstract!Begin(r, p)
  <2>1. /\ phase[r] \notin {"planning", "running"} /\ phase' = [phase EXCEPT ![r] = "planning"]
        /\ plan' = [plan EXCEPT ![r] = p] /\ begun' = [begun EXCEPT ![r] = version]
        /\ version' = version
    BY <1>2 DEF Begin
  <2>2. \A q \in Runners : q = r /\ phase'[q] = "planning"
    BY <1>t, <2>1
  <2> DEFINE status == [q \in Runners |->
                         IF phase[q] \in {"planning", "running"} THEN "busy" ELSE phase[q]]
             report == [q \in Runners |-> IF phase[q] = "ok" THEN output[q][SinkNode] ELSE None]
  <2>3. status[r] # "busy" /\ status' = [status EXCEPT ![r] = "busy"]
    BY <1>t, <2>1, <2>2
  <2>4. report' = [report EXCEPT ![r] = None]
    BY <2>2
  <2> QED BY <2>1, <2>3, <2>4 DEF Abstract!Begin
<1>3. ASSUME NEW r \in Runners, Finish(r) PROVE Abstract!Return(r)
  BY <1>3, FinishReturns
<1>4. ASSUME NEW r \in Runners, PlanFails(r) \/ Fail(r) \/ Crash(r) PROVE Abstract!GiveUp(r)
  <2>1. /\ phase[r] \in {"planning", "running"} /\ phase' = [phase EXCEPT ![r] = "failed"]
        /\ version' = version /\ plan' = plan /\ begun' = begun /\ output' = output
    BY <1>4 DEF PlanFails, Fail, Crash
  <2>2. \A q \in Runners : q = r /\ phase'[q] = "failed"
    BY <1>t, <2>1
  <2> QED BY <2>1, <2>2 DEF Abstract!GiveUp
<1>5. ASSUME NEW r \in Runners, PlanSource(r) \/ Execute(r) PROVE UNCHANGED Abstract!vars
  <2>1. /\ phase[r] \in {"planning", "running"} /\ phase'[r] \in {"planning", "running"}
        /\ version' = version /\ plan' = plan /\ begun' = begun
    BY <1>5, <1>t DEF PlanSource, Execute
  <2>2. \A q \in Runners : q = r
    BY <1>t
  <2> QED BY <2>1, <2>2 DEF Abstract!vars
<1>6. ASSUME NEW r \in Runners, NEW n \in Nodes, NodeStep(r, n) PROVE UNCHANGED Abstract!vars
  <2>1. /\ version' = version /\ phase' = phase /\ plan' = plan /\ begun' = begun
        /\ phase[r] = "running"
    BY <1>6, SamePlan DEF SameRun
  <2>2. \A q \in Runners : q = r
    BY <1>t
  <2> QED BY <2>1, <2>2 DEF Abstract!vars
<1>7. CASE UNCHANGED vars
  BY <1>7 DEF vars, local, Abstract!vars
<1> QED BY <1>1, <1>2, <1>3, <1>4, <1>5, <1>6, <1>7 DEF Next, RunnerStep, Abstract!Next

\* Undisturbed runs over one cache directory, whatever the edits, of whatever plans if
\* none is killed, of one plan over inputs of constant length whichever are killed:
\* what a run returns with the cache, a run that reads every input and computes every
\* chunk anew between the same begin and end could have returned (Executor::run).
THEOREM CacheIsNeverSeen == Undisturbed => (Spec => CacheIsInvisible)
<1> SUFFICES ASSUME Undisturbed PROVE Spec => CacheIsInvisible
  OBVIOUS
<1>1. Init => RefineInv /\ Abstract!Init
  BY InitRefine, InitSimulates
<1>2. RefineInv /\ [Next]_vars => RefineInv'
  BY NextRefine DEF Undisturbed
<1>3. RefineInv /\ [Next]_vars => [Abstract!Next]_(Abstract!vars)
  BY NextSimulates
<1> QED BY <1>1, <1>2, <1>3, PTL DEF Spec, CacheIsInvisible, Abstract!Spec
-----------------------------------------------------------------------------
(* Several runners of one plan.  Each may truncate the file another is        *)
(* writing or reading; but whatever is whole on disk is the node's output, of *)
(* some version of its input, and so no key is needed to tell.                *)

\* The part of chunk c, by plan p's kernel.
IsPart(p, out, c) == out.chunk = c /\ out.kernel = KernelOf[p]

\* An output of node n of plan p, with no chunk missing.
Whole(n, p, out) ==
  IF n \in Slots
  THEN n \in DOMAIN TheChunks(p) /\ IsPart(p, out, TheChunks(p)[n])
  ELSE /\ DOMAIN out.parts = DOMAIN TheChunks(p)
       /\ \A i \in DOMAIN TheChunks(p) : IsPart(p, out.parts[i], TheChunks(p)[i])

FilesWhole ==
  \A n \in Nodes, p \in Plans :
    artifact[n] \in Torn \cup {Missing} \/ Whole(n, p, artifact[n])

OutputsWhole ==
  \A r \in Runners, n \in Nodes, p \in Plans :
    output[r][n] = None \/ Whole(n, p, output[r][n])

ReportsEnded ==
  \A r \in Runners : phase[r] = "ok" =>
    task[r][SinkNode] = "done" /\ maps[r] = TheChunks(plan[r])

SharedInv == TypeInv /\ Bounds /\ PlansFit /\ FilesWhole /\ OutputsWhole /\ ReportsEnded

\* A run that returns Ok reports every chunk of its plan once, in order, by the
\* plan's kernel: FreshResult without the age of what was read.
CompleteResult ==
  \A r \in Runners : phase[r] = "ok" =>
    LET parts == output[r][SinkNode].parts
    IN /\ DOMAIN parts = DOMAIN maps[r]
       /\ \A i \in DOMAIN maps[r] : IsPart(plan[r], parts[i], maps[r][i])

LEMMA RunningChunks ==
  ASSUME PlannedAlike, TypeInv, PlansFit, NEW r \in Runners, phase[r] = "running"
  PROVE  plan[r] \in Plans /\ maps[r] = TheChunks(plan[r])
<1>1. plan[r] \in Plans
  BY DEF TypeInv, Shape
<1>2. PlannedFrom(plan[r], Len(Inputs[plan[r]]), maps[r], begun[r], version)
  BY DEF PlansFit
<1>3. PICK p \in {plan[r]}, m \in {maps[r]}, low \in {begun[r]}, high \in {version} :
        p = plan[r] /\ m = maps[r] /\ low = begun[r] /\ high = version
  OBVIOUS
<1> QED BY <1>1, <1>2, <1>3, OneChunkList

\* What a node computes or loads from whole outputs and files is whole.
LEMMA NewOutputWhole ==
  ASSUME PlannedAlike, SharedInv, NEW r \in Runners, NEW n \in Nodes, NEW p \in Plans,
         Load(r, n) \/ Compute(r, n)
  PROVE  Whole(n, p, output'[r][n])
<1> USE DEF SharedInv
<1>1. /\ phase[r] = "running" /\ task[r][n] \in {"hit", "miss"} /\ p = plan[r]
      /\ maps[r] = TheChunks(p)
  <2>1. phase[r] = "running" /\ task[r][n] \in {"hit", "miss"}
    BY DEF Load, Compute, Advance
  <2> QED BY <2>1, RunningChunks DEF PlannedAlike
<1>2. ASSUME n \notin Slots
      PROVE  /\ n = ReduceNode \/ n = SinkNode
             /\ \A i \in DOMAIN maps[r] :
                  i \in Slots /\ i \in Nodes /\ IsPart(p, output[r][i], maps[r][i])
  <2>1. /\ n = ReduceNode \/ n = SinkNode
        /\ \A i \in DOMAIN maps[r] : i \in Slots /\ i \in Nodes /\ task[r][i] = "done"
    BY <1>1, <1>2, DependenciesDone
  <2>2. \A i \in DOMAIN maps[r] : output[r][i] # None
    BY <2>1 DEF TypeInv, Shape, HasOutput
  <2> QED BY <1>1, <2>1, <2>2 DEF OutputsWhole, Whole
<1>3. ASSUME n = SinkNode PROVE Whole(n, p, output[r][ReduceNode])
  <2>1. output[r][ReduceNode] # None
    BY <1>1, <1>3, NodeNumbers DEF TypeInv, Shape, HasOutput
  <2> QED BY <1>3, <2>1, NodeNumbers DEF OutputsWhole, Whole
<1>4. CASE Load(r, n)
  <2>1. output'[r][n] = IF n = SinkNode THEN output[r][ReduceNode] ELSE artifact[n]
    BY <1>4 DEF Load, TypeInv, TypeOK
  <2>2. n # SinkNode => artifact[n] \notin Torn \cup {Missing}
    BY <1>1, <1>4 DEF Load, Advance, TypeInv, Shape
  <2> QED BY <1>3, <2>1, <2>2 DEF FilesWhole
<1>5. CASE Compute(r, n)
  <2>1. output'[r][n] = Fresh(r, n)
    BY <1>5 DEF Compute, TypeInv, TypeOK
  <2>2. CASE n \in Slots
    <3>1. n \in DOMAIN maps[r]
      BY <1>1, <2>2 DEF TypeInv, Shape
    <3> QED BY <1>1, <2>1, <2>2, <3>1 DEF Fresh, Whole, IsPart
  <2>3. CASE n = ReduceNode
    BY <1>1, <1>2, <2>1, <2>3, NodeNumbers DEF Fresh, Whole
  <2>4. CASE n = SinkNode
    BY <1>3, <2>1, <2>4, NodeNumbers DEF Fresh
  <2> QED BY <1>2, <2>2, <2>3, <2>4
<1> QED BY <1>4, <1>5

LEMMA NodeStepShared ==
  ASSUME PlannedAlike, SharedInv, NEW r \in Runners, NEW n \in Nodes, NodeStep(r, n)
  PROVE  SharedInv'
<1> USE DEF SharedInv
<1>1. TypeInv'
  BY NodeStepTypeInv
<1>2. SameRun /\ phase[r] = "running"
  BY SamePlan
<1>3. PlansFit' /\ Bounds'
  BY <1>2 DEF SameRun, PlansFit, Bounds
<1>4. FilesWhole'
  <2>1. \A m \in Nodes : \/ artifact'[m] = artifact[m]
                         \/ artifact'[m] \in Torn
                         \/ artifact'[m] = output[r][m] /\ output[r][m] # None
    BY OutputEffect
  <2> QED BY <2>1 DEF FilesWhole, OutputsWhole
<1>5. OutputsWhole'
  <2>1. \A q \in Runners, m \in Nodes :
          output'[q][m] = output[q][m] \/ (q = r /\ m = n /\ (Load(r, n) \/ Compute(r, n)))
    BY OutputEffect
  <2> QED BY <2>1, NewOutputWhole DEF OutputsWhole
<1>6. ReportsEnded'
  <2>1. ASSUME NEW q \in Runners, phase'[q] = "ok"
        PROVE  phase[q] = "ok" /\ task'[q] = task[q] /\ plan'[q] = plan[q] /\ maps'[q] = maps[q]
    <3>1. phase[q] = "ok" /\ plan'[q] = plan[q] /\ maps'[q] = maps[q] /\ q # r
      BY <1>2, <2>1 DEF SameRun
    <3>2. task'[q] = task[q]
      BY <3>1 DEF NodeStep, ComputeKey, CheckUnreadable, CheckHit, CheckMiss, Load,
         LoadUnreadable, Compute, ComputeFails, OpenArtifact, WriteArtifact, OpenManifest,
         WriteManifest, Advance, TypeInv, TypeOK
    <3> QED BY <3>1, <3>2
  <2> QED BY <2>1 DEF ReportsEnded
<1> QED BY <1>1, <1>3, <1>4, <1>5, <1>6

LEMMA PhaseShared ==
  ASSUME PlannedAlike, SharedInv, NEW r \in Runners,
         Execute(r) \/ PlanFails(r) \/ Finish(r) \/ Fail(r) \/ Crash(r)
  PROVE  SharedInv'
<1> USE DEF SharedInv
<1>1. TypeInv'
  BY PhaseTypeInv
<1>2. /\ UNCHANGED <<version, artifact, plan, planned, maps, task, output, begun>>
      /\ \A q \in Runners \ {r} : phase'[q] = phase[q]
  BY DEF Execute, PlanFails, Finish, Fail, Crash, disk, TypeInv, TypeOK
<1>3. \/ /\ phase[r] = "planning" /\ phase'[r] = "running"
         /\ planned[r] = Len(Inputs[plan[r]])
      \/ /\ phase[r] = "running" /\ phase'[r] = "ok" /\ task[r][SinkNode] = "done"
      \/ phase'[r] = "failed"
  BY DEF Execute, PlanFails, Finish, Fail, Crash, TypeInv, TypeOK
<1>4. PlansFit' /\ Bounds' /\ FilesWhole' /\ OutputsWhole'
  <2>1. PlansFit'
    BY <1>2, <1>3 DEF PlansFit
  <2> QED BY <1>2, <2>1 DEF Bounds, FilesWhole, OutputsWhole
<1>5. ReportsEnded'
  BY <1>2, <1>3, RunningChunks DEF ReportsEnded
<1> QED BY <1>1, <1>4, <1>5

LEMMA BeginShared ==
  ASSUME SharedInv, NEW r \in Runners, NEW p \in Plans, NEW m \in Modes, Begin(r, p, m)
  PROVE  SharedInv'
<1> USE DEF SharedInv
<1>1. TypeInv'
  BY BeginTypeInv
<1>2. /\ version' = version /\ artifact' = artifact
      /\ phase'[r] = "planning" /\ planned'[r] = 0 /\ maps'[r] = << >> /\ plan'[r] = p
      /\ begun'[r] = version
      /\ \A n \in Nodes : output'[r][n] = None
      /\ \A q \in Runners \ {r} :
           /\ phase'[q] = phase[q] /\ planned'[q] = planned[q] /\ maps'[q] = maps[q]
           /\ plan'[q] = plan[q] /\ begun'[q] = begun[q]
           /\ task'[q] = task[q] /\ output'[q] = output[q]
  BY DEF Begin, disk, TypeInv, TypeOK
<1>3. Bounds'
  <2>1. \A s \in Sources : version[s] <= version[s]
    BY DEF TypeInv, TypeOK
  <2> QED BY <1>2, <2>1 DEF Bounds
<1>4. PlansFit'
  <2>1. 0 <= Len(Inputs[p])
    BY ParameterAssumption
  <2> QED BY <1>2, <2>1, NothingPlanned DEF PlansFit
<1>5. FilesWhole' /\ OutputsWhole'
  BY <1>2 DEF FilesWhole, OutputsWhole
<1>6. ReportsEnded'
  BY <1>2 DEF ReportsEnded
<1> QED BY <1>1, <1>3, <1>4, <1>5, <1>6

LEMMA NextShared == PlannedAlike /\ SharedInv /\ [Next]_vars => SharedInv'
<1> SUFFICES ASSUME PlannedAlike, SharedInv, [Next]_vars PROVE SharedInv'
  OBVIOUS
<1> USE DEF SharedInv
<1>t. TypeInv'
  BY NextTypeInv
<1>1. ASSUME NEW s \in Sources, Edit(s) PROVE SharedInv'
  <2>1. UNCHANGED <<artifact, phase, plan, planned, maps, task, output, begun>>
    BY <1>1 DEF Edit, disk, local
  <2>2. Bounds'
    BY <1>1, <2>1 DEF Edit, Bounds, TypeInv, TypeOK
  <2>3. PlansFit'
    BY <1>1, EditPlans
  <2> QED BY <1>t, <2>1, <2>2, <2>3 DEF FilesWhole, OutputsWhole, ReportsEnded
<1>2. ASSUME NEW r \in Runners, PlanSource(r) PROVE SharedInv'
  <2>1. /\ UNCHANGED <<version, artifact, phase, plan, task, output, begun>>
        /\ phase[r] = "planning" /\ \A q \in Runners \ {r} : maps'[q] = maps[q]
    BY <1>2 DEF PlanSource, disk, TypeInv, TypeOK
  <2>2. PlansFit'
    BY <1>2, PlanSourcePlans
  <2> QED BY <1>t, <2>1, <2>2 DEF Bounds, FilesWhole, OutputsWhole, ReportsEnded
<1>3. ASSUME NEW r \in Runners, RunnerStep(r) PROVE SharedInv'
  BY <1>2, <1>3, NodeStepShared, PhaseShared DEF RunnerStep
<1>4. CASE UNCHANGED vars
  <2>1. UNCHANGED <<version, artifact, phase, plan, planned, maps, task, output, begun>>
    BY <1>4 DEF vars, disk, local
  <2> QED BY <1>t, <2>1 DEF Bounds, PlansFit, FilesWhole, OutputsWhole, ReportsEnded
<1> QED BY <1>1, <1>3, <1>4, BeginShared, PhaseShared DEF Next

LEMMA InitShared == Init => SharedInv
<1> SUFFICES ASSUME Init PROVE SharedInv
  OBVIOUS
<1>1. Bounds
  BY ParameterAssumption DEF Init, Bounds
<1>2. PlansFit /\ FilesWhole /\ OutputsWhole /\ ReportsEnded
  BY DEF Init, PlansFit, FilesWhole, OutputsWhole, ReportsEnded
<1> QED BY <1>1, <1>2, InitTypeInv DEF SharedInv

LEMMA SharedInvGivesResult ==
  ASSUME SharedInv
  PROVE  CompleteResult
<1> SUFFICES ASSUME NEW r \in Runners, phase[r] = "ok"
             PROVE  /\ DOMAIN output[r][SinkNode].parts = DOMAIN maps[r]
                    /\ \A i \in DOMAIN maps[r] :
                         IsPart(plan[r], output[r][SinkNode].parts[i], maps[r][i])
  BY DEF CompleteResult
<1>1. plan[r] \in Plans /\ task[r][SinkNode] = "done" /\ maps[r] = TheChunks(plan[r])
  BY DEF SharedInv, TypeInv, Shape, ReportsEnded
<1>2. output[r][SinkNode] # None
  BY <1>1, NodeNumbers DEF SharedInv, TypeInv, Shape, HasOutput
<1> QED BY <1>1, <1>2, NodeNumbers DEF SharedInv, OutputsWhole, Whole

LEMMA SharedInvariant == PlannedAlike => (Spec => []SharedInv)
<1> SUFFICES ASSUME PlannedAlike PROVE Spec => []SharedInv
  OBVIOUS
<1>1. SharedInv /\ [Next]_vars => SharedInv'
  BY NextShared
<1> QED BY InitShared, <1>1, PTL DEF Spec

\* Any number of processes run one plan over one cache directory at the same
\* time, each killed at any step, while inputs are edited at constant length:
\* what a run reports has every chunk of the plan once and in order, by its
\* kernel, whatever another process is doing to the files (executor.rs run_map,
\* run_reduce, run_sink; read_json refuses a file that does not parse).
THEOREM SharedRunsComplete == PlannedAlike => (Spec => []CompleteResult)
<1> SUFFICES ASSUME PlannedAlike PROVE Spec => []CompleteResult
  OBVIOUS
<1>1. SharedInv => CompleteResult
  BY SharedInvGivesResult
<1> QED BY SharedInvariant, <1>1, PTL

\* The same processes over inputs that nobody edits: no report is stale either.
\* With an edit one may be, as nothing locks the cache directory.
THEOREM SharedRunsFresh == PlannedAlike /\ MaxVersion = 0 => (Spec => []FreshResult)
<1> SUFFICES ASSUME PlannedAlike, MaxVersion = 0 PROVE Spec => []FreshResult
  OBVIOUS
<1>1. SharedInv => FreshResult
  <2> SUFFICES ASSUME SharedInv, NEW r \in Runners, phase[r] = "ok"
               PROVE  LET parts == output[r][SinkNode].parts
                      IN /\ DOMAIN parts = DOMAIN maps[r]
                         /\ \A i \in DOMAIN maps[r] :
                              /\ parts[i].chunk = maps[r][i]
                              /\ parts[i].kernel = KernelOf[plan[r]]
                              /\ parts[i].version >= begun[r][maps[r][i].source]
    BY DEF FreshResult
  <2> DEFINE parts == output[r][SinkNode].parts
  <2>1. /\ DOMAIN parts = DOMAIN maps[r]
        /\ \A i \in DOMAIN maps[r] : IsPart(plan[r], parts[i], maps[r][i])
    BY SharedInvGivesResult DEF CompleteResult
  <2>2. output[r][SinkNode] \in MergedOutput
    <3>1. task[r][SinkNode] = "done"
      BY DEF SharedInv, ReportsEnded
    <3> QED BY <3>1, NodeNumbers DEF SharedInv, TypeInv, TypeOK, Shape, HasOutput, Output
  <2>3. ASSUME NEW i \in DOMAIN maps[r]
        PROVE  parts[i].version >= begun[r][maps[r][i].source]
    <3>1. parts[i].version \in Nat
      <4>1. parts \in Seq(PartialOutput) /\ i \in DOMAIN parts
        BY <2>1, <2>2 DEF MergedOutput
      <4> HIDE DEF parts
      <4>2. parts[i] \in PartialOutput
        BY <4>1
      <4> QED BY <4>2 DEF PartialOutput
    <3>2. maps[r][i].source \in Sources
      <4>1. maps[r] \in Seq(Chunk)
        BY DEF SharedInv, TypeInv, TypeOK
      <4> HIDE DEF parts
      <4>2. maps[r][i] \in Chunk
        BY <4>1
      <4> QED BY <4>2 DEF Chunk
    <3>3. begun[r][maps[r][i].source] = 0
      BY <3>2 DEF SharedInv, TypeInv, TypeOK
    <3> HIDE DEF parts
    <3> QED BY <3>1, <3>3
  <2> QED BY <2>1, <2>3 DEF IsPart
<1> QED BY SharedInvariant, <1>1, PTL
=============================================================================
