------------------------ MODULE WorkflowRerunProofs ------------------------
(* What WorkflowRerun says of a rerun holds for every set of plans, inputs, *)
(* kernels and edits, and whatever runs are killed, if runs follow one      *)
(* another (one runner).                                                    *)
EXTENDS WorkflowRerun, WorkflowProofs

OneRunner == \A r1, r2 \in Runners : r1 = r2

Busy == {"planning", "running", "ok"}
Versions == [Sources -> 0 .. MaxVersion]

\* The planner, going through the first k inputs of plan p at versions `at`,
\* has cut them into the chunks m.
IsPlanned(p, at, k, m) ==
  \E S \in [0 .. k -> Seq(Chunk)] :
    /\ S[0] = << >>
    /\ S[k] = m
    /\ \A j \in 1 .. k :
         LET s == Inputs[p][j]
         IN S[j] = S[j - 1] \o ChunksOf(s, Events[s][at[s]], EffectiveSize(p))

\* The key of a node when the map nodes are m and the inputs are at versions `at`.
StampAt(at, s) == IF s \in Remote THEN 0 ELSE at[s]
KeyAt(m, at, n) ==
  IF n \in Slots
  THEN [chunk |-> m[n], stamp |-> StampAt(at, m[n].source)]
  ELSE [inputs |-> [i \in DOMAIN m |->
                      [chunk |-> m[i], stamp |-> StampAt(at, m[i].source)]]]
NodesOf(m) == DOMAIN m \cup {ReduceNode, SinkNode}
-----------------------------------------------------------------------------
\* A node's key was computed in this run from this run's map list.
KeyIsOwn(r, n) ==
  IF n \in Slots
  THEN LET s == maps[r][n].source
       IN /\ key[r][n].chunk = maps[r][n]
          /\ s \in Remote => key[r][n].stamp = 0
          /\ s \notin Remote => begun[r][s] <= key[r][n].stamp /\ key[r][n].stamp <= version[s]
  ELSE key[r][n].inputs = [i \in DOMAIN maps[r] |-> key[r][i]]

\* What the run that has come to node n knows of the node's two files.
OnDisk(r, n) ==
  /\ task[r][n] = "hit" => manifest[n] = key[r][n]
  /\ task[r][n] \in {"written", "signing", "done"} => artifact[n] # Missing
  /\ task[r][n] = "signing" => manifest[n] = Empty
  /\ task[r][n] = "done" => manifest[n] = key[r][n]

RunFits(r, n) ==
  /\ task[r][n] # "todo" => KeyIsOwn(r, n)
  /\ OnDisk(r, n)
  /\ n \in ran[r] => task[r][n] = "done"

\* Until the run writes node n its manifest holds the key b; it is executed if,
\* and only if, the run's key is another.
NodeFits(r, n, b) ==
  /\ task[r][n] \in {"todo", "keyed", "hit", "miss", "computed"} =>
       manifest[n] = b /\ artifact[n] # Missing
  /\ task[r][n] \in {"miss", "computed", "opened", "written", "signing"} \/ n \in ran[r] =>
       key[r][n] # b
  /\ task[r][n] = "hit" \/ (task[r][n] = "done" /\ n \notin ran[r]) => key[r][n] = b
-----------------------------------------------------------------------------
RerunTypeOK ==
  /\ settled = None \/ (settled.plan \in Plans /\ settled.at \in Versions)
  /\ base \in [Runners -> Versions \cup {None}]

Began == \A r \in Runners, s \in Sources : begun[r][s] <= version[s]

PlansFit ==
  \A r \in Runners : phase[r] \in Busy =>
    /\ plan[r] \in Plans
    /\ planned[r] <= Len(Inputs[plan[r]])
    /\ phase[r] # "planning" => planned[r] = Len(Inputs[plan[r]])
    /\ version = begun[r] => IsPlanned(plan[r], begun[r], planned[r], maps[r])

RunsFit == \A r \in Runners, n \in Nodes : RunFits(r, n)

EndsFit == \A r \in Runners : phase[r] = "ok" => task[r][SinkNode] = "done"

\* The settled plan is that of the last run, and the disk is as that run left it.
SettledFits ==
  settled # None =>
    \A r \in Runners :
      /\ phase[r] = "ok" /\ plan[r] = settled.plan
      /\ IsPlanned(settled.plan, settled.at, Len(Inputs[settled.plan]), maps[r])
      /\ \A n \in NodesOf(maps[r]) :
           manifest[n] = KeyAt(maps[r], settled.at, n) /\ artifact[n] # Missing

\* A run whose plan was settled before it began finds the disk of that plan, node
\* by node until it writes the node itself.
RerunFits(r) ==
  base[r] # None /\ phase[r] \in Busy =>
    \E m \in Seq(Chunk) :
      /\ Len(m) <= MaxSlots
      /\ IsPlanned(plan[r], base[r], Len(Inputs[plan[r]]), m)
      /\ \A n \in NodesOf(m) : NodeFits(r, n, KeyAt(m, base[r], n))

RerunInv ==
  /\ TypeInv /\ RerunTypeOK /\ Began /\ PlansFit /\ RunsFit /\ EndsFit /\ SettledFits
  /\ \A r \in Runners : RerunFits(r)

-----------------------------------------------------------------------------
(* Planning the same inputs twice.                                         *)

LEMMA PlannedNothing == \A p, at : IsPlanned(p, at, 0, << >>)
<1> SUFFICES ASSUME NEW p, NEW at PROVE IsPlanned(p, at, 0, << >>)
  OBVIOUS
<1> DEFINE S == [j \in 0 .. 0 |-> << >>]
<1>1. S \in [0 .. 0 -> Seq(Chunk)] /\ S[0] = << >>
  OBVIOUS
<1>2. 1 .. 0 = {}
  OBVIOUS
<1> QED BY <1>1, <1>2 DEF IsPlanned

LEMMA PlannedMore ==
  ASSUME NEW p, NEW at, NEW k \in Nat, NEW m, IsPlanned(p, at, k, m),
         NEW more \in Seq(Chunk),
         more = ChunksOf(Inputs[p][k + 1], Events[Inputs[p][k + 1]][at[Inputs[p][k + 1]]],
                         EffectiveSize(p))
  PROVE  IsPlanned(p, at, k + 1, m \o more)
<1> DEFINE Cut(j) == ChunksOf(Inputs[p][j], Events[Inputs[p][j]][at[Inputs[p][j]]],
                              EffectiveSize(p))
<1>1. PICK S \in [0 .. k -> Seq(Chunk)] :
        S[0] = << >> /\ S[k] = m /\ \A j \in 1 .. k : S[j] = S[j - 1] \o Cut(j)
  BY DEF IsPlanned
<1>2. more = Cut(k + 1)
  OBVIOUS
<1> HIDE DEF Cut
<1> DEFINE T == [j \in 0 .. k + 1 |-> IF j = k + 1 THEN m \o more ELSE S[j]]
<1>3. m \in Seq(Chunk) /\ m \o more \in Seq(Chunk)
  BY <1>1, ConcatProperties
<1>4. T \in [0 .. k + 1 -> Seq(Chunk)]
  <2>1. \A j \in 0 .. k + 1 : j = k + 1 \/ j \in 0 .. k
    OBVIOUS
  <2> QED BY <1>1, <1>3, <2>1
<1>n. 0 \in 0 .. k + 1 /\ 0 # k + 1 /\ k + 1 \in 0 .. k + 1 /\ k \in 0 .. k + 1 /\ k # k + 1
  OBVIOUS
<1>5. T[0] = << >> /\ T[k + 1] = m \o more /\ T[k] = S[k]
  BY <1>1, <1>n
<1>6. ASSUME NEW j \in 1 .. k + 1 PROVE T[j] = T[j - 1] \o Cut(j)
  <2>1. CASE j = k + 1
    <3>1. T[j] = m \o more /\ T[j - 1] = S[k]
      <4>1. j - 1 = k
        BY <2>1
      <4> QED BY <1>5, <2>1, <4>1
    <3> QED BY <1>1, <1>2, <2>1, <3>1
  <2>2. CASE j # k + 1
    <3>1. j \in 1 .. k /\ j \in 0 .. k /\ j - 1 \in 0 .. k /\ j - 1 # k + 1
      BY <2>2
    <3>n. j \in 0 .. k + 1 /\ j - 1 \in 0 .. k + 1
      OBVIOUS
    <3>2. T[j] = S[j] /\ T[j - 1] = S[j - 1]
      BY ONLY <2>2, <3>1, <3>n
    <3> QED BY <1>1, <3>1, <3>2
  <2> QED BY <2>1, <2>2
<1> HIDE DEF T
<1> QED BY <1>4, <1>5, <1>6 DEF IsPlanned, Cut

\* Two plans of the same inputs agree if every input has as many events in both.
LEMMA PlannedAgree ==
  ASSUME NEW p \in Plans, NEW k \in Nat, k <= Len(Inputs[p]),
         NEW at1, NEW at2, \A s \in Sources : Events[s][at1[s]] = Events[s][at2[s]],
         NEW m1, IsPlanned(p, at1, k, m1), NEW m2, IsPlanned(p, at2, k, m2)
  PROVE  m1 = m2
<1> DEFINE Cut(at, j) == ChunksOf(Inputs[p][j], Events[Inputs[p][j]][at[Inputs[p][j]]],
                                  EffectiveSize(p))
<1>1. PICK S \in [0 .. k -> Seq(Chunk)] :
        S[0] = << >> /\ S[k] = m1 /\ \A j \in 1 .. k : S[j] = S[j - 1] \o Cut(at1, j)
  BY DEF IsPlanned
<1>2. PICK T \in [0 .. k -> Seq(Chunk)] :
        T[0] = << >> /\ T[k] = m2 /\ \A j \in 1 .. k : T[j] = T[j - 1] \o Cut(at2, j)
  BY DEF IsPlanned
<1>3. ASSUME NEW j \in 1 .. k PROVE Cut(at1, j) = Cut(at2, j)
  <2>1. Inputs[p] \in Seq(Sources)
    BY ParameterAssumption
  <2>2. Len(Inputs[p]) \in Nat /\ j \in 1 .. Len(Inputs[p])
    BY <2>1
  <2>3. Inputs[p][j] \in Sources
    BY <2>1, <2>2
  <2> QED BY <2>3
<1> HIDE DEF Cut
<1> DEFINE Bad == {j \in 0 .. k : S[j] # T[j]}
<1>4. CASE Bad = {}
  <2>1. k \in 0 .. k
    OBVIOUS
  <2> QED BY <1>1, <1>2, <1>4, <2>1
<1>5. CASE Bad # {}
  <2>n. Bad \subseteq Nat
    OBVIOUS
  <2>1. PICK j \in Bad : \A i \in Bad : j <= i
    <3> HIDE DEF Bad
    <3> QED BY <1>5, <2>n, LeastElement
  <2>2. j \in 1 .. k /\ j - 1 \in 0 .. k /\ ~ (j <= j - 1)
    BY <1>1, <1>2, <2>1
  <2>3. S[j - 1] = T[j - 1]
    BY <2>1, <2>2
  <2> QED BY <1>1, <1>2, <1>3, <2>1, <2>2, <2>3
<1> QED BY <1>4, <1>5

-----------------------------------------------------------------------------
(* One node's step.                                                        *)

\* What a step of node n does to its task and to its two files.
LEMMA NodeEffect ==
  ASSUME TypeInv, NEW r \in Runners, NEW n \in Nodes, NodeStep(r, n)
  PROVE  \/ /\ Ready(r, n) /\ task[r][n] = "todo" /\ task'[r][n] = "keyed"
            /\ key'[r][n] = NodeKey(r, n) /\ ran'[r] = ran[r]
            /\ manifest'[n] = manifest[n] /\ artifact'[n] = artifact[n]
         \/ /\ key'[r] = key[r] /\ ran'[r] = ran[r]
            /\ manifest'[n] = manifest[n] /\ artifact'[n] = artifact[n]
            /\ \/ task[r][n] = "keyed" /\ task'[r][n] = "hit" /\ UpToDate(r, n)
               \/ task[r][n] = "keyed" /\ task'[r][n] = "miss" /\ ~ UpToDate(r, n)
               \/ task[r][n] = "hit" /\ task'[r][n] = "done"
               \/ task[r][n] = "miss" /\ task'[r][n] = "computed"
               \/ task[r][n] \in {"keyed", "hit", "miss"} /\ task'[r][n] = "error"
         \/ /\ key'[r] = key[r] /\ ran'[r] = ran[r] /\ manifest'[n] = manifest[n]
            /\ \/ task[r][n] = "computed" /\ task'[r][n] = "opened"
               \/ task[r][n] = "opened" /\ task'[r][n] = "written" /\ artifact'[n] # Missing
         \/ /\ key'[r] = key[r] /\ ran'[r] = ran[r] /\ artifact'[n] = artifact[n]
            /\ task[r][n] = "written" /\ task'[r][n] = "signing" /\ manifest'[n] = Empty
         \/ /\ key'[r] = key[r] /\ ran'[r] = ran[r] \cup {n} /\ artifact'[n] = artifact[n]
            /\ task[r][n] = "signing" /\ task'[r][n] = "done"
            /\ manifest'[n] \in Overwritten(manifest[n], key[r][n])
<1> USE DEF TypeInv, TypeOK, Advance, SameRun, disk
<1>1. CASE ComputeKey(r, n)
  BY <1>1 DEF ComputeKey
<1>2. CASE CheckHit(r, n) \/ CheckMiss(r, n)
  BY <1>2 DEF CheckHit, CheckMiss
<1>3. CASE CheckUnreadable(r, n) \/ LoadUnreadable(r, n) \/ ComputeFails(r, n)
  BY <1>3 DEF CheckUnreadable, LoadUnreadable, ComputeFails
<1>4. CASE Load(r, n) \/ Compute(r, n)
  BY <1>4 DEF Load, Compute
<1>5. CASE OpenArtifact(r, n)
  BY <1>5 DEF OpenArtifact
<1>6. CASE WriteArtifact(r, n)
  <2>1. output[r][n] # Missing /\ Garbled # Missing
    BY <1>6, SentinelAssumption DEF WriteArtifact, Output
  <2>2. artifact'[n] \in Overwritten(artifact[n], output[r][n])
    BY <1>6 DEF WriteArtifact
  <2>3. artifact'[n] # Missing
    BY <2>1, <2>2 DEF Overwritten
  <2> QED BY <1>6, <2>3 DEF WriteArtifact
<1>7. CASE OpenManifest(r, n)
  BY <1>7 DEF OpenManifest
<1>8. CASE WriteManifest(r, n)
  BY <1>8 DEF WriteManifest
<1> QED BY <1>1, <1>2, <1>3, <1>4, <1>5, <1>6, <1>7, <1>8 DEF NodeStep

LEMMA NodeFitsKept ==
  ASSUME TypeInv, NEW r \in Runners, NEW n \in Nodes, NodeStep(r, n), RunFits(r, n),
         NEW b, NodeFits(r, n, b)
  PROVE  NodeFits(r, n, b)'
<1>1. n \in ran[r] => task[r][n] = "done"
  BY DEF RunFits
<1>2. task[r][n] \in TaskState
  BY DEF TypeInv, TypeOK
<1>3. key'[r] = key[r] => key'[r][n] = key[r][n]
  OBVIOUS
<1> QED BY <1>1, <1>2, <1>3, NodeEffect DEF NodeFits, UpToDate

LEMMA OtherFitsKept ==
  ASSUME TypeInv, NEW r \in Runners, NEW n \in Nodes, NodeStep(r, n),
         NEW k \in Nodes \ {n}, NEW b, NodeFits(r, k, b)
  PROVE  NodeFits(r, k, b)'
BY OtherNodes DEF NodeFits

LEMMA OwnKeyKept ==
  ASSUME RerunInv, NEW r \in Runners, NEW n \in Nodes, NodeStep(r, n)
  PROVE  KeyIsOwn(r, n)'
<1> USE DEF RerunInv
<1>1. /\ version' = version /\ maps' = maps /\ begun' = begun
      /\ phase[r] = "running"
  BY OtherNodes
<1>2. CASE task[r][n] # "todo"
  <2>1. KeyIsOwn(r, n) /\ key'[r] = key[r]
    BY <1>2, NodeEffect DEF RunsFit, RunFits
  <2> QED BY <1>1, <2>1 DEF KeyIsOwn
<1>3. CASE task[r][n] = "todo"
  <2>1. key'[r][n] = NodeKey(r, n) /\ Ready(r, n)
    BY <1>3, NodeEffect
  <2>2. CASE n \in Slots
    <3>1. n \in DOMAIN maps[r]
      BY <2>1, <2>2, NodeNumbers DEF Ready
    <3>2. maps[r][n].source \in Sources
      <4>1. maps[r][n] \in Chunk
        BY <3>1 DEF TypeInv, TypeOK
      <4> QED BY <4>1 DEF Chunk
    <3>3. version[maps[r][n].source] \in Nat
          /\ begun[r][maps[r][n].source] <= version[maps[r][n].source]
      BY <3>2 DEF TypeInv, TypeOK, Began
    <3> QED BY <1>1, <2>1, <2>2, <3>3 DEF KeyIsOwn, NodeKey, Stamp
  <2>3. CASE n \notin Slots
    <3>1. DOMAIN maps[r] \subseteq Nodes \ {n}
      BY <2>3, ParameterAssumption DEF TypeInv, TypeOK, Shape, Slots, Nodes
    <3>2. \A i \in DOMAIN maps[r] : key'[r][i] = key[r][i]
      BY <3>1, OtherNodes
    <3> QED BY <1>1, <2>1, <2>3, <3>2 DEF KeyIsOwn, NodeKey
  <2> QED BY <2>2, <2>3
<1> QED BY <1>2, <1>3

LEMMA NodeRunFits ==
  ASSUME RerunInv, NEW r \in Runners, NEW n \in Nodes, NodeStep(r, n)
  PROVE  \A k \in Nodes : RunFits(r, k)'
<1> USE DEF RerunInv
<1>1. /\ version' = version /\ maps' = maps /\ begun' = begun
      /\ \A k \in Nodes \ {n} :
           /\ task'[r][k] = task[r][k] /\ key'[r][k] = key[r][k]
           /\ artifact'[k] = artifact[k] /\ manifest'[k] = manifest[k]
      /\ ran'[r] \subseteq ran[r] \cup {n}
  BY OtherNodes
<1>2. RunFits(r, n) /\ task[r][n] \in TaskState
  BY DEF RunsFit, TypeInv, TypeOK
<1>3. OnDisk(r, n)'
  <2>1. task[r][n] = "hit" => artifact[n] # Missing
    BY DEF TypeInv, Shape
  <2>2. key'[r] = key[r] => key'[r][n] = key[r][n]
    OBVIOUS
  <2>3. OnDisk(r, n)
    BY <1>2 DEF RunFits
  <2>4. task[r][n] = "hit" => manifest[n] = key[r][n]
    BY <2>3 DEF OnDisk
  <2>5. task'[r][n] = "hit" => manifest'[n] = key'[r][n]
    BY <1>2, <2>2, <2>4, NodeEffect DEF UpToDate
  <2>6. task'[r][n] \in {"written", "signing", "done"} => artifact'[n] # Missing
    BY <1>2, <2>1, <2>3, NodeEffect DEF OnDisk
  <2>7. task'[r][n] = "signing" => manifest'[n] = Empty
    BY <1>2, <2>3, NodeEffect DEF OnDisk
  <2>8. task'[r][n] = "done" => manifest'[n] = key'[r][n]
    BY <1>2, <2>2, <2>3, NodeEffect DEF OnDisk, Overwritten
  <2> QED BY <2>5, <2>6, <2>7, <2>8 DEF OnDisk
<1>4. n \in ran'[r] => task'[r][n] = "done"
  BY <1>2, NodeEffect DEF RunFits
<1>5. RunFits(r, n)'
  BY <1>3, <1>4, OwnKeyKept DEF RunFits
<1>6. ASSUME NEW k \in Nodes \ {n} PROVE RunFits(r, k)'
  <2>1. RunFits(r, k)
    BY DEF RunsFit
  <2>2. OnDisk(r, k)' /\ (k \in ran'[r] => task'[r][k] = "done")
    BY <1>1, <2>1 DEF RunFits, OnDisk
  <2>3. ASSUME task'[r][k] # "todo" PROVE KeyIsOwn(r, k)'
    <3>1. KeyIsOwn(r, k) /\ task[r][k] # "todo"
      BY <1>1, <2>1, <2>3 DEF RunFits
    <3>2. CASE k \in Slots
      BY <1>1, <3>1, <3>2 DEF KeyIsOwn
    <3>3. CASE k \notin Slots
      <4>1. \A i \in DOMAIN maps[r] : task[r][i] = "done" /\ i \in Nodes
        BY <3>1, <3>3, DependenciesDone
      <4>2. task[r][n] # "done"
        BY NodeEffect
      <4>3. \A i \in DOMAIN maps[r] : key'[r][i] = key[r][i]
        BY <1>1, <4>1, <4>2
      <4> QED BY <1>1, <3>1, <3>3, <4>3 DEF KeyIsOwn
    <3> QED BY <3>2, <3>3
  <2> QED BY <2>2, <2>3 DEF RunFits
<1> QED BY <1>5, <1>6

-----------------------------------------------------------------------------
(* The steps of the whole system.                                          *)

LEMMA InitRerun == RerunInit => RerunInv
<1> SUFFICES ASSUME RerunInit PROVE RerunInv
  OBVIOUS
<1>1. Init /\ settled = None /\ base = [r \in Runners |-> None]
  BY DEF RerunInit
<1>2. TypeInv
  BY <1>1, InitTypeInv
<1>3. RerunTypeOK /\ SettledFits /\ \A r \in Runners : RerunFits(r)
  BY <1>1 DEF RerunTypeOK, SettledFits, RerunFits
<1>4. Began /\ PlansFit /\ EndsFit
  BY <1>1 DEF Init, Began, PlansFit, EndsFit, Busy
<1>5. RunsFit
  BY <1>1 DEF Init, RunsFit, RunFits, OnDisk
<1> QED BY <1>2, <1>3, <1>4, <1>5 DEF RerunInv

\* The nodes of a plan that fits the slots are nodes.
LEMMA PlanNodes ==
  ASSUME NEW m \in Seq(Chunk), Len(m) <= MaxSlots
  PROVE  NodesOf(m) \subseteq Nodes /\ DOMAIN m \subseteq Slots
<1>1. Len(m) \in Nat /\ DOMAIN m = 1 .. Len(m) /\ MaxSlots \in Nat
  BY ParameterAssumption
<1>2. DOMAIN m \subseteq Slots
  BY <1>1 DEF Slots
<1> QED BY <1>2, NodeNumbers DEF NodesOf

LEMMA NodeStepRerun ==
  ASSUME RerunInv, OneRunner, NEW r \in Runners, NEW n \in Nodes, NodeStep(r, n),
         UNCHANGED <<settled, base>>
  PROVE  RerunInv'
<1> USE DEF RerunInv
<1>1. TypeInv'
  BY NodeStepTypeInv
<1>2. \A q \in Runners : q = r
  BY DEF OneRunner
<1>3. /\ version' = version /\ maps' = maps /\ begun' = begun /\ phase' = phase
      /\ phase[r] = "running"
  BY OtherNodes
<1>4. plan' = plan /\ planned' = planned
  BY DEF NodeStep, ComputeKey, CheckUnreadable, CheckHit, CheckMiss, Load, LoadUnreadable,
     Compute, ComputeFails, OpenArtifact, WriteArtifact, OpenManifest, WriteManifest, SameRun
<1>5. RerunTypeOK' /\ Began' /\ PlansFit'
  BY <1>3, <1>4 DEF RerunTypeOK, Began, PlansFit
<1>6. RunsFit'
  BY <1>2, NodeRunFits DEF RunsFit
<1>7. EndsFit' /\ SettledFits'
  BY <1>2, <1>3 DEF EndsFit, SettledFits
<1>8. ASSUME base[r] # None PROVE RerunFits(r)'
  <2>1. PICK m \in Seq(Chunk) :
          /\ Len(m) <= MaxSlots
          /\ IsPlanned(plan[r], base[r], Len(Inputs[plan[r]]), m)
          /\ \A k \in NodesOf(m) : NodeFits(r, k, KeyAt(m, base[r], k))
    BY <1>3, <1>8 DEF RerunFits, Busy
  <2>2. PICK at : at = base[r]
    OBVIOUS
  <2>3. NodesOf(m) \subseteq Nodes
    BY <2>1, PlanNodes
  <2>4. ASSUME NEW k \in NodesOf(m) PROVE NodeFits(r, k, KeyAt(m, at, k))'
    <3>1. k \in Nodes /\ NodeFits(r, k, KeyAt(m, at, k))
      BY <2>1, <2>2, <2>3
    <3>2. PICK b : b = KeyAt(m, at, k)
      OBVIOUS
    <3>3. NodeFits(r, k, b)'
      <4>1. CASE k = n
        BY <3>1, <3>2, <4>1, NodeFitsKept DEF RunsFit
      <4>2. CASE k # n
        BY <3>1, <3>2, <4>2, OtherFitsKept
      <4> QED BY <4>1, <4>2
    <3> QED BY <3>2, <3>3
  <2>5. base'[r] = at
    BY <2>2
  <2> QED BY <1>4, <2>1, <2>2, <2>4, <2>5 DEF RerunFits
<1>9. \A q \in Runners : RerunFits(q)'
  BY <1>2, <1>8 DEF RerunFits
<1> QED BY <1>1, <1>5, <1>6, <1>7, <1>9

LEMMA EditRerun ==
  ASSUME RerunInv, NEW s \in Sources, Edit(s), UNCHANGED <<settled, base>>
  PROVE  RerunInv'
<1> USE DEF RerunInv
<1>1. TypeInv'
  BY NextTypeInv DEF Next
<1>2. /\ artifact' = artifact /\ manifest' = manifest /\ phase' = phase /\ plan' = plan
      /\ planned' = planned /\ maps' = maps /\ task' = task /\ key' = key /\ ran' = ran
      /\ begun' = begun
  BY DEF Edit, disk, local
<1>3. /\ version'[s] = version[s] + 1
      /\ \A t \in Sources :
           version[t] \in Nat /\ version'[t] \in Nat /\ version[t] <= version'[t]
  BY DEF Edit, TypeInv, TypeOK
<1>4. \A r \in Runners, t \in Sources : begun[r][t] \in Nat
  BY DEF TypeInv, TypeOK
<1>5. Began'
  BY <1>2, <1>3, <1>4 DEF Began
<1>6. \A r \in Runners : version' # begun'[r]
  BY <1>2, <1>3, <1>4 DEF Began
<1>7. RerunTypeOK' /\ EndsFit' /\ SettledFits' /\ \A r \in Runners : RerunFits(r)'
  BY <1>2 DEF RerunTypeOK, EndsFit, SettledFits, RerunFits, NodeFits
<1>8. PlansFit'
  BY <1>2, <1>6 DEF PlansFit
<1>9. RunsFit'
  <2>1. ASSUME NEW r \in Runners, NEW n \in Nodes, task[r][n] # "todo"
        PROVE  KeyIsOwn(r, n)'
    <3>1. KeyIsOwn(r, n)
      BY <2>1 DEF RunsFit, RunFits
    <3>2. CASE n \in Slots
      <4>1. maps[r][n] \in Chunk /\ key[r][n] \in MapKey
        BY <2>1, <3>2, SentinelAssumption DEF TypeInv, TypeOK, Shape, Key
      <4>2. maps[r][n].source \in Sources /\ key[r][n].stamp \in Nat
        BY <4>1 DEF Chunk, MapKey
      <4> QED BY <1>2, <1>3, <3>1, <3>2, <4>2 DEF KeyIsOwn
    <3>3. CASE n \notin Slots
      BY <1>2, <3>1, <3>3 DEF KeyIsOwn
    <3> QED BY <3>2, <3>3
  <2> QED BY <1>2, <2>1 DEF RunsFit, RunFits, OnDisk
<1> QED BY <1>1, <1>5, <1>7, <1>8, <1>9

LEMMA BeginRerun ==
  ASSUME RerunInv, OneRunner, NEW r \in Runners, NEW p \in Plans, NEW x \in Modes,
         RerunBegin(r, p, x)
  PROVE  RerunInv'
<1> USE DEF RerunInv
<1>1. TypeInv'
  BY BeginTypeInv DEF RerunBegin
<1>2. \A q \in Runners : q = r
  BY DEF OneRunner
<1>3. /\ artifact' = artifact /\ manifest' = manifest /\ version' = version
      /\ phase'[r] = "planning" /\ plan'[r] = p /\ planned'[r] = 0 /\ maps'[r] = << >>
      /\ begun'[r] = version /\ ran'[r] = {} /\ \A n \in Nodes : task'[r][n] = "todo"
      /\ settled' = None
      /\ base'[r] = IF settled # None /\ settled.plan = p THEN settled.at ELSE None
  BY DEF RerunBegin, Begin, disk, TypeInv, TypeOK, RerunTypeOK
<1>4. RerunTypeOK'
  <2>1. base'[r] \in Versions \cup {None}
    BY <1>3 DEF RerunTypeOK
  <2> QED BY <1>2, <1>3, <2>1 DEF RerunBegin, RerunTypeOK
<1>5. Began' /\ EndsFit' /\ SettledFits'
  BY <1>2, <1>3 DEF Began, EndsFit, SettledFits, TypeInv, TypeOK
<1>6. PlansFit'
  <2>1. 0 <= Len(Inputs[p])
    BY ParameterAssumption
  <2> QED BY <1>2, <1>3, <2>1, PlannedNothing DEF PlansFit
<1>7. RunsFit'
  BY <1>2, <1>3 DEF RunsFit, RunFits, OnDisk
<1>8. ASSUME base'[r] # None PROVE RerunFits(r)'
  <2>1. settled # None /\ settled.plan = p /\ base'[r] = settled.at
    BY <1>3, <1>8
  <2>2. PICK m \in Seq(Chunk) : m = maps[r] /\ Len(m) <= MaxSlots
    BY DEF TypeInv, TypeOK, Shape
  <2>3. PICK at : at = settled.at
    OBVIOUS
  <2>4. /\ IsPlanned(p, at, Len(Inputs[p]), m)
        /\ \A n \in NodesOf(m) : manifest[n] = KeyAt(m, at, n) /\ artifact[n] # Missing
    BY <2>1, <2>2, <2>3 DEF SettledFits
  <2>5. NodesOf(m) \subseteq Nodes
    BY <2>2, PlanNodes
  <2>6. base'[r] = at
    BY <2>1, <2>3
  <2>7. ASSUME NEW n \in NodesOf(m) PROVE NodeFits(r, n, KeyAt(m, at, n))'
    <3>1. PICK b : b = KeyAt(m, at, n)
      OBVIOUS
    <3>2. NodeFits(r, n, b)'
      BY <1>3, <2>4, <2>5, <3>1 DEF NodeFits
    <3> QED BY <3>1, <3>2
  <2> QED BY <1>3, <2>2, <2>4, <2>6, <2>7 DEF RerunFits
<1>9. \A q \in Runners : RerunFits(q)'
  BY <1>2, <1>8 DEF RerunFits
<1> QED BY <1>1, <1>4, <1>5, <1>6, <1>7, <1>9

LEMMA PlanSourceRerun ==
  ASSUME RerunInv, OneRunner, NEW r \in Runners, PlanSource(r), UNCHANGED <<settled, base>>
  PROVE  RerunInv'
<1> USE DEF RerunInv
<1> DEFINE s == Inputs[plan[r]][planned[r] + 1]
           more == ChunksOf(s, Events[s][version[s]], EffectiveSize(plan[r]))
<1>1. TypeInv'
  BY PlanSourceTypeInv
<1>2. \A q \in Runners : q = r
  BY DEF OneRunner
<1>3. /\ artifact' = artifact /\ manifest' = manifest /\ version' = version
      /\ phase' = phase /\ phase[r] = "planning" /\ plan' = plan /\ task' = task
      /\ key' = key /\ ran' = ran /\ begun' = begun
      /\ planned[r] < Len(Inputs[plan[r]])
      /\ planned'[r] = planned[r] + 1 /\ maps'[r] = maps[r] \o more
  BY DEF PlanSource, disk, TypeInv, TypeOK
<1>4. plan[r] \in Plans /\ planned[r] \in Nat /\ Len(Inputs[plan[r]]) \in Nat
  <2>1. plan[r] \in Plans
    BY <1>3 DEF TypeInv, Shape
  <2> QED BY <2>1, ParameterAssumption DEF TypeInv, TypeOK
<1>5. more \in Seq(Chunk)
  <2>n. planned[r] < Len(Inputs[plan[r]])
    BY <1>3
  <2>0. planned[r] + 1 \in 1 .. Len(Inputs[plan[r]])
    BY ONLY <1>4, <2>n
  <2>1. Inputs[plan[r]] \in Seq(Sources) /\ planned[r] + 1 \in 1 .. Len(Inputs[plan[r]])
    BY <1>4, <2>0, ParameterAssumption
  <2>2. s \in Sources
    BY <2>1
  <2>3. Events[s][version[s]] \in Nat
    <3> HIDE DEF s
    <3>1. version[s] \in 0 .. MaxVersion /\ Events[s] \in [0 .. MaxVersion -> Nat]
      BY <2>2, ParameterAssumption DEF TypeInv, TypeOK
    <3> QED BY <3>1
  <2>4. EffectiveSize(plan[r]) \in Nat \ {0}
    BY <1>4, ParameterAssumption DEF EffectiveSize
  <2> HIDE DEF s
  <2> QED BY <2>2, <2>3, <2>4, ChunksOfType
<1>6. version = begun[r] => IsPlanned(plan[r], begun[r], planned[r] + 1, maps[r] \o more)
  <2> SUFFICES ASSUME version = begun[r]
               PROVE  IsPlanned(plan[r], begun[r], planned[r] + 1, maps[r] \o more)
    OBVIOUS
  <2>1. IsPlanned(plan[r], begun[r], planned[r], maps[r])
    BY <1>3 DEF PlansFit, Busy
  <2>2. more = ChunksOf(s, Events[s][begun[r][s]], EffectiveSize(plan[r]))
    OBVIOUS
  <2> QED BY <1>4, <1>5, <2>1, <2>2, PlannedMore
<1> HIDE DEF s, more
<1>7. PlansFit'
  <2>1. planned[r] + 1 <= Len(Inputs[plan[r]])
    BY <1>3, <1>4
  <2> QED BY <1>2, <1>3, <1>4, <1>6, <2>1 DEF PlansFit
<1>8. RerunTypeOK' /\ Began' /\ EndsFit' /\ SettledFits'
  BY <1>2, <1>3 DEF RerunTypeOK, Began, EndsFit, SettledFits
<1>9. RunsFit'
  <2>1. \A n \in Nodes : task[r][n] = "todo"
    BY <1>3 DEF TypeInv, Shape
  <2> QED BY <1>2, <1>3, <2>1 DEF RunsFit, RunFits, OnDisk
<1>10. \A q \in Runners : RerunFits(q)'
  BY <1>2, <1>3 DEF RerunFits, NodeFits
<1> QED BY <1>1, <1>7, <1>8, <1>9, <1>10

LEMMA PhaseRerun ==
  ASSUME RerunInv, OneRunner, NEW r \in Runners, UNCHANGED <<settled, base>>,
         Execute(r) \/ PlanFails(r) \/ Fail(r) \/ Crash(r)
  PROVE  RerunInv'
<1> USE DEF RerunInv
<1>1. TypeInv'
  BY PhaseTypeInv
<1>2. \A q \in Runners : q = r
  BY DEF OneRunner
<1>3. /\ artifact' = artifact /\ manifest' = manifest /\ version' = version
      /\ plan' = plan /\ planned' = planned /\ maps' = maps /\ task' = task
      /\ key' = key /\ ran' = ran /\ begun' = begun
      /\ phase[r] \in {"planning", "running"}
  BY DEF Execute, PlanFails, Fail, Crash, disk
<1>4. \/ phase'[r] = "failed"
      \/ phase'[r] = "running" /\ planned[r] = Len(Inputs[plan[r]])
  BY DEF Execute, PlanFails, Fail, Crash, TypeInv, TypeOK
<1>5. PlansFit'
  BY <1>2, <1>3, <1>4 DEF PlansFit, Busy
<1>6. RerunTypeOK' /\ Began' /\ EndsFit' /\ SettledFits'
  BY <1>2, <1>3, <1>4 DEF RerunTypeOK, Began, EndsFit, SettledFits
<1>7. RunsFit'
  BY <1>3 DEF RunsFit, RunFits, KeyIsOwn, OnDisk
<1>8. \A q \in Runners : RerunFits(q)'
  BY <1>2, <1>3, <1>4 DEF RerunFits, NodeFits, Busy
<1> QED BY <1>1, <1>5, <1>6, <1>7, <1>8

-----------------------------------------------------------------------------
(* The end of a run.                                                       *)

\* When no input has changed since the run began, the run's keys are those of the
\* versions it began with.
LEMMA KeysOfRun ==
  ASSUME RerunInv, NEW r \in Runners, version = begun[r],
         task[r][SinkNode] = "done"
  PROVE  /\ maps[r] \in Seq(Chunk) /\ Len(maps[r]) <= MaxSlots
         /\ \A n \in NodesOf(maps[r]) :
              /\ n \in Nodes /\ task[r][n] = "done"
              /\ key[r][n] = KeyAt(maps[r], begun[r], n)
<1> USE DEF RerunInv
<1>1. maps[r] \in Seq(Chunk) /\ Len(maps[r]) <= MaxSlots
  BY DEF TypeInv, TypeOK, Shape
<1>2. NodesOf(maps[r]) \subseteq Nodes /\ DOMAIN maps[r] \subseteq Slots
  BY <1>1, PlanNodes
<1>3. \A n \in NodesOf(maps[r]) : task[r][n] = "done"
  BY NodeNumbers, DependenciesDone DEF NodesOf
<1>4. ASSUME NEW n \in DOMAIN maps[r]
      PROVE  key[r][n] = [chunk |-> maps[r][n], stamp |-> StampAt(begun[r], maps[r][n].source)]
  <2>1. n \in Slots /\ n \in Nodes /\ task[r][n] = "done"
    BY <1>2, <1>3 DEF NodesOf
  <2>2. KeyIsOwn(r, n)
    BY <2>1 DEF RunsFit, RunFits
  <2>3. key[r][n] \in MapKey /\ maps[r][n] \in Chunk
    BY <1>1, <2>1, SentinelAssumption DEF TypeInv, TypeOK, Shape, Key
  <2>4. /\ key[r][n].stamp \in Nat /\ maps[r][n].source \in Sources
        /\ key[r][n] = [chunk |-> key[r][n].chunk, stamp |-> key[r][n].stamp]
    BY <2>3 DEF MapKey, Chunk
  <2>5. version[maps[r][n].source] \in Nat
    BY <2>4 DEF TypeInv, TypeOK
  <2>6. key[r][n].stamp = StampAt(begun[r], maps[r][n].source)
    <3>1. CASE maps[r][n].source \in Remote
      BY <2>1, <2>2, <3>1 DEF KeyIsOwn, StampAt
    <3>2. CASE maps[r][n].source \notin Remote
      <4>1. /\ begun[r][maps[r][n].source] <= key[r][n].stamp
            /\ key[r][n].stamp <= version[maps[r][n].source]
            /\ begun[r][maps[r][n].source] = version[maps[r][n].source]
        BY <2>1, <2>2, <3>2 DEF KeyIsOwn
      <4>2. key[r][n].stamp = begun[r][maps[r][n].source]
        BY <2>4, <2>5, <4>1
      <4> QED BY <3>2, <4>2 DEF StampAt
    <3> QED BY <3>1, <3>2
  <2>7. key[r][n].chunk = maps[r][n]
    BY <2>1, <2>2 DEF KeyIsOwn
  <2> QED BY <2>4, <2>6, <2>7
<1>5. ASSUME NEW n \in {ReduceNode, SinkNode}
      PROVE  key[r][n] = KeyAt(maps[r], begun[r], n)
  <2>1. n \in Nodes /\ n \notin Slots /\ task[r][n] = "done"
    BY <1>3, NodeNumbers DEF NodesOf
  <2>2. key[r][n].inputs = [i \in DOMAIN maps[r] |-> key[r][i]]
    BY <2>1 DEF RunsFit, RunFits, KeyIsOwn
  <2>3. key[r][n] \in ReduceKey
    BY <2>1, SentinelAssumption DEF TypeInv, TypeOK, Shape, Key
  <2>4. key[r][n] = [inputs |-> key[r][n].inputs]
    BY <2>3 DEF ReduceKey
  <2> QED BY <1>4, <2>1, <2>2, <2>4 DEF KeyAt
<1>6. ASSUME NEW n \in NodesOf(maps[r]) PROVE key[r][n] = KeyAt(maps[r], begun[r], n)
  BY <1>2, <1>4, <1>5 DEF NodesOf, KeyAt
<1> QED BY <1>1, <1>2, <1>3, <1>6

LEMMA FinishRerun ==
  ASSUME RerunInv, OneRunner, NEW r \in Runners, RerunFinish(r)
  PROVE  RerunInv'
<1> USE DEF RerunInv
<1>1. TypeInv'
  BY PhaseTypeInv DEF RerunFinish
<1>2. \A q \in Runners : q = r
  BY DEF OneRunner
<1>3. /\ artifact' = artifact /\ manifest' = manifest /\ version' = version
      /\ plan' = plan /\ planned' = planned /\ maps' = maps /\ task' = task
      /\ key' = key /\ ran' = ran /\ begun' = begun /\ base' = base
      /\ phase[r] = "running" /\ phase'[r] = "ok" /\ task[r][SinkNode] = "done"
      /\ settled' = IF version = begun[r] THEN [plan |-> plan[r], at |-> version] ELSE None
  BY DEF RerunFinish, Finish, disk, TypeInv, TypeOK
<1>4. plan[r] \in Plans /\ version \in Versions
  BY <1>3 DEF TypeInv, TypeOK, Shape, Versions
<1>5. RerunTypeOK' /\ Began' /\ EndsFit'
  BY <1>2, <1>3, <1>4 DEF RerunTypeOK, Began, EndsFit
<1>6. PlansFit'
  BY <1>2, <1>3 DEF PlansFit, Busy
<1>7. RunsFit'
  BY <1>3 DEF RunsFit, RunFits, KeyIsOwn, OnDisk
<1>8. SettledFits'
  <2> SUFFICES ASSUME version = begun[r]
               PROVE  /\ IsPlanned(plan[r], begun[r], Len(Inputs[plan[r]]), maps[r])
                      /\ \A n \in NodesOf(maps[r]) :
                           manifest[n] = KeyAt(maps[r], begun[r], n) /\ artifact[n] # Missing
    BY <1>2, <1>3 DEF SettledFits
  <2>1. IsPlanned(plan[r], begun[r], Len(Inputs[plan[r]]), maps[r])
    BY <1>3 DEF PlansFit, Busy
  <2>2. \A n \in NodesOf(maps[r]) :
          n \in Nodes /\ task[r][n] = "done" /\ key[r][n] = KeyAt(maps[r], begun[r], n)
    BY <1>3, KeysOfRun
  <2>3. \A n \in NodesOf(maps[r]) : manifest[n] = key[r][n] /\ artifact[n] # Missing
    BY <2>2 DEF RunsFit, RunFits, OnDisk
  <2> QED BY <2>1, <2>2, <2>3
<1>9. \A q \in Runners : RerunFits(q)'
  BY <1>2, <1>3 DEF RerunFits, NodeFits, Busy
<1> QED BY <1>1, <1>5, <1>6, <1>7, <1>8, <1>9

LEMMA NextRerun == OneRunner /\ RerunInv /\ [RerunNext]_rerunVars => RerunInv'
<1> SUFFICES ASSUME OneRunner, RerunInv, [RerunNext]_rerunVars PROVE RerunInv'
  OBVIOUS
<1>1. CASE UNCHANGED rerunVars
  <2>1. UNCHANGED vars /\ settled' = settled /\ base' = base
    BY <1>1 DEF rerunVars
  <2>2. TypeInv'
    BY <2>1, NextTypeInv DEF RerunInv
  <2>3. /\ version' = version /\ artifact' = artifact /\ manifest' = manifest
        /\ phase' = phase /\ plan' = plan /\ planned' = planned /\ maps' = maps
        /\ task' = task /\ key' = key /\ ran' = ran /\ begun' = begun
    BY <2>1 DEF vars, disk, local
  <2>4. RerunTypeOK' /\ Began' /\ PlansFit' /\ EndsFit' /\ SettledFits'
    BY <2>1, <2>3 DEF RerunInv, RerunTypeOK, Began, PlansFit, EndsFit, SettledFits
  <2>5. RunsFit' /\ \A r \in Runners : RerunFits(r)'
    BY <2>1, <2>3 DEF RerunInv, RunsFit, RunFits, KeyIsOwn, OnDisk, RerunFits, NodeFits
  <2> QED BY <2>2, <2>4, <2>5 DEF RerunInv
<1> QED BY <1>1, BeginRerun, FinishRerun, EditRerun, PlanSourceRerun, PhaseRerun, NodeStepRerun
        DEF RerunNext

LEMMA RerunInvariant == OneRunner => (RerunSpec => []RerunInv)
<1> SUFFICES ASSUME OneRunner PROVE RerunSpec => []RerunInv
  OBVIOUS
<1>1. RerunInv /\ [RerunNext]_rerunVars => RerunInv'
  BY NextRerun
<1> QED BY InitRerun, <1>1, PTL DEF RerunSpec
-----------------------------------------------------------------------------
\* In an undisturbed rerun each node's key is that of the versions it began with, and
\* the node was executed if, and only if, that is not the key of the settled plan.
LEMMA ExecutedIfChanged ==
  ASSUME RerunInv, NEW r \in Runners, Undisturbed(r)
  PROVE  /\ ran[r] \subseteq NodesOf(maps[r])
         /\ DOMAIN maps[r] \subseteq Slots
         /\ \A n \in NodesOf(maps[r]) :
              n \in ran[r] <=> KeyAt(maps[r], begun[r], n) # KeyAt(maps[r], base[r], n)
<1> USE DEF RerunInv
<1>1. /\ phase[r] = "ok" /\ base[r] # None /\ version = begun[r]
      /\ \A s \in Sources : Events[s][base[r][s]] = Events[s][begun[r][s]]
      /\ task[r][SinkNode] = "done"
  BY DEF Undisturbed, EndsFit
<1>2. PICK m \in Seq(Chunk) :
        /\ Len(m) <= MaxSlots
        /\ IsPlanned(plan[r], base[r], Len(Inputs[plan[r]]), m)
        /\ \A n \in NodesOf(m) : NodeFits(r, n, KeyAt(m, base[r], n))
  BY <1>1 DEF RerunFits, Busy
<1>3. plan[r] \in Plans /\ IsPlanned(plan[r], begun[r], Len(Inputs[plan[r]]), maps[r])
  BY <1>1 DEF PlansFit, Busy
<1>4. Len(Inputs[plan[r]]) \in Nat /\ Len(Inputs[plan[r]]) <= Len(Inputs[plan[r]])
  BY <1>3, ParameterAssumption
<1>5. m = maps[r]
  <2>0. base[r] \in Versions /\ begun[r] \in Versions
    BY <1>1 DEF RerunTypeOK, TypeInv, TypeOK, Versions
  <2>1. PICK p \in Plans, k \in Nat, at1 \in Versions, at2 \in Versions :
          p = plan[r] /\ k = Len(Inputs[plan[r]]) /\ at1 = base[r] /\ at2 = begun[r]
    BY <1>3, <1>4, <2>0
  <2>2. IsPlanned(p, at1, k, m) /\ IsPlanned(p, at2, k, maps[r])
    BY <1>2, <1>3, <2>1
  <2>3. \A s \in Sources : Events[s][at1[s]] = Events[s][at2[s]]
    BY <1>1, <2>1
  <2>4. k <= Len(Inputs[p])
    BY <1>4, <2>1
  <2> QED BY <2>2, <2>3, <2>4, PlannedAgree
<1>6. /\ maps[r] \in Seq(Chunk) /\ Len(maps[r]) <= MaxSlots
      /\ \A n \in NodesOf(maps[r]) :
           task[r][n] = "done" /\ key[r][n] = KeyAt(maps[r], begun[r], n)
  BY <1>1, KeysOfRun
<1>7. ran[r] \subseteq NodesOf(maps[r])
  <2>1. ASSUME NEW n \in ran[r] PROVE n \in NodesOf(maps[r])
    <3>1. n \in Nodes
      BY DEF TypeInv, TypeOK
    <3>2. task[r][n] = "done"
      BY <3>1 DEF RunsFit, RunFits
    <3>3. n \in Slots => n \in DOMAIN maps[r]
      BY <3>1, <3>2 DEF TypeInv, Shape
    <3>4. n \notin Slots => n \in {ReduceNode, SinkNode}
      BY <3>1, <3>2, DependenciesDone
    <3> QED BY <3>3, <3>4 DEF NodesOf
  <2> QED BY <2>1
<1>8. DOMAIN maps[r] \subseteq Slots
  BY <1>6, PlanNodes
<1>9. ASSUME NEW n \in NodesOf(maps[r])
      PROVE  n \in ran[r] <=> KeyAt(maps[r], begun[r], n) # KeyAt(maps[r], base[r], n)
  BY <1>2, <1>5, <1>6 DEF NodeFits
<1> QED BY <1>7, <1>8, <1>9

\* Re-running a plan right after a run of it that settled executes nothing at all, no
\* map, no reduce and no sink, when no input changed before it or while it lasted,
\* whatever runs of whatever plans came before and were killed (manifest_matches).
THEOREM NothingRunsTwice == OneRunner => (RerunSpec => []RerunIsNoOp)
<1> SUFFICES ASSUME OneRunner PROVE RerunSpec => []RerunIsNoOp
  OBVIOUS
<1>1. RerunInv => RerunIsNoOp
  <2> SUFFICES ASSUME RerunInv, NEW r \in Runners, Undisturbed(r), base[r] = begun[r]
               PROVE  ran[r] = {}
    BY DEF RerunIsNoOp
  <2> QED BY ExecutedIfChanged
<1> QED BY RerunInvariant, <1>1, PTL

\* A rerun executes only the maps of inputs that changed since the plan was settled;
\* a map of any other input is read back (map_key, run_map).
THEOREM OnlyChangedRun == OneRunner => (RerunSpec => []OnlyAffectedRecomputed)
<1> SUFFICES ASSUME OneRunner PROVE RerunSpec => []OnlyAffectedRecomputed
  OBVIOUS
<1>1. RerunInv => OnlyAffectedRecomputed
  <2> SUFFICES ASSUME RerunInv, NEW r \in Runners, Undisturbed(r),
                      NEW n \in ran[r] \cap Slots
               PROVE  version[maps[r][n].source] # base[r][maps[r][n].source]
    BY DEF OnlyAffectedRecomputed
  <2>1. n \in NodesOf(maps[r])
    BY ExecutedIfChanged
  <2>2. KeyAt(maps[r], begun[r], n) # KeyAt(maps[r], base[r], n)
    BY <2>1, ExecutedIfChanged
  <2>3. begun[r][maps[r][n].source] # base[r][maps[r][n].source]
    BY <2>2 DEF KeyAt, StampAt
  <2> QED BY <2>3 DEF Undisturbed
<1> QED BY RerunInvariant, <1>1, PTL

\* ... and executes all of those, if no input is a URL, whose key says nothing of its
\* content (map_key).
THEOREM ChangedAllRun ==
  OneRunner /\ Remote = {} => (RerunSpec => []AffectedRecomputed)
<1> SUFFICES ASSUME OneRunner, Remote = {} PROVE RerunSpec => []AffectedRecomputed
  OBVIOUS
<1>1. RerunInv => AffectedRecomputed
  <2> SUFFICES ASSUME RerunInv, NEW r \in Runners, Undisturbed(r), NEW n \in DOMAIN maps[r],
                      version[maps[r][n].source] # base[r][maps[r][n].source]
               PROVE  n \in ran[r]
    BY DEF AffectedRecomputed
  <2>1. n \in Slots /\ n \in NodesOf(maps[r])
    BY ExecutedIfChanged DEF NodesOf
  <2>2. version = begun[r]
    BY DEF Undisturbed
  <2>3. KeyAt(maps[r], begun[r], n).stamp # KeyAt(maps[r], base[r], n).stamp
    BY <2>1, <2>2 DEF KeyAt, StampAt
  <2> QED BY <2>1, <2>3, ExecutedIfChanged
<1> QED BY RerunInvariant, <1>1, PTL
=============================================================================
