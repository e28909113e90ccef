------------------------- MODULE DistributedProofs -------------------------
(* Theorems about DistributedRun, for every graph, every number of workers *)
(* lost and every interleaving of their processes.                         *)
EXTENDS DistributedRun, WorkflowProofs

Active == {"running", "merging"}

\* The scheduler merges what it has waited for, and reads no node twice.
Schedule ==
  /\ submitted = None => job = "none"
  /\ \A t \in {graph, submitted} : t # None => Len(t.chunks) <= MaxSlots
  /\ job \in Active => \A n \in returned :
       wanted[n] # 0 /\ process[n][wanted[n]] = "written"
  /\ job = "running" => parts = << >> /\ merge = "reading"
  /\ job = "merging" =>
       /\ returned = DOMAIN submitted.chunks
       /\ submitted.chunks # << >>
       /\ merge = "reading" => Len(parts) < Len(submitted.chunks)

\* A run-chunk process knows its chunk.
Assigned ==
  \A n \in Slots, a \in Attempts : process[n][a] \in Alive => partial[n][a] # None

DistInv == TypeInv /\ DistTypeOK /\ Schedule /\ Assigned

\* What MergedIsFresh needs of the surroundings: nobody plans or runs in the
\* cache directory while a job is under way, and a job starts when the processes
\* of the one before have ended.
Alone == job \in Active => \A r \in Runners : phase[r] \notin {"planning", "running"}
Drained == \A n \in Slots, a \in Attempts : process[n][a] \notin Alive

\* Output of this job for map node n: its chunk, by its kernel, and not stale.
OfJob(n, p) ==
  /\ n \in DOMAIN submitted.chunks
  /\ p.chunk = submitted.chunks[n]
  /\ p.kernel = KernelOf[submitted.plan]
FreshPart(n, p) == OfJob(n, p) /\ p.version >= jobBegun[p.chunk.source]

Began == \A s \in Sources : jobBegun[s] <= version[s]
ProcessesFit ==
  \A n \in Slots, a \in Attempts :
    /\ process[n][a] \in Alive => OfJob(n, partial[n][a])
    /\ process[n][a] \in Alive \ {"running"} => FreshPart(n, partial[n][a])
FilesFit ==
  job \in Active =>
    \A n \in Slots :
      wanted[n] # 0 /\ process[n][wanted[n]] = "written" =>
        artifact[n] \in Torn \/ FreshPart(n, artifact[n])
PartsFit ==
  /\ job \in {"merging", "ok"} =>
       /\ Len(parts) <= Len(submitted.chunks)
       /\ \A i \in DOMAIN parts : FreshPart(i, parts[i])
       /\ merge # "reading" => Len(parts) = Len(submitted.chunks)
  /\ job = "ok" => merge # "reading"

MergeInv == DistInv /\ Began /\ ProcessesFit /\ FilesFit /\ PartsFit

-----------------------------------------------------------------------------
LEMMA DistNumbers ==
  /\ MaxSlots \in Nat /\ MaxVersion \in Nat /\ MaxRuns \in Nat
  /\ MaxJobs \in Nat /\ MaxAttempts \in Nat \ {0}
BY ParameterAssumption, DistributedAssumption

LEMMA InitDist == DistInit => DistInv
<1> SUFFICES ASSUME DistInit PROVE DistInv
  OBVIOUS
<1>1. TypeInv
  BY InitTypeInv DEF DistInit
<1>2. version = [s \in Sources |-> 0] /\ artifact = [n \in Nodes |-> Missing]
  BY DEF DistInit, Init
<1>3. DistTypeOK
  <2>1. jobBegun \in [Sources -> 0 .. MaxVersion] /\ jobs \in 0 .. MaxJobs
    BY <1>2, DistNumbers DEF DistInit
  <2>2. wanted \in [Slots -> 0 .. MaxAttempts] /\ attempts \in [Slots -> 0 .. MaxAttempts]
    BY DistNumbers DEF DistInit
  <2>3. /\ process \in [Slots -> [Attempts -> Alive \cup {"off", "written", "dead"}]]
        /\ partial \in [Slots -> [Attempts -> PartialOutput \cup {None}]]
    BY DEF DistInit
  <2>4. artifact[ReduceNode] \in Torn \cup {Missing} \cup MergedOutput
    BY <1>2, NodeNumbers
  <2>5. << >> \in Seq(PartialOutput)
    OBVIOUS
  <2> QED BY <2>1, <2>2, <2>3, <2>4, <2>5 DEF DistInit, DistTypeOK
<1>4. Schedule
  BY DEF DistInit, Schedule, Active
<1>5. Assigned
  BY DEF DistInit, Assigned, Alive
<1> QED BY <1>1, <1>3, <1>4, <1>5 DEF DistInv
-----------------------------------------------------------------------------
(* Steps and the types of the executor's own variables.                    *)

\* A file that takes a value of its node's kind, or is torn, disturbs nothing.
LEMMA FileTypeInv ==
  ASSUME TypeInv, NEW n \in Nodes, NEW c \in Torn \cup Output(n),
         artifact' = [artifact EXCEPT ![n] = c],
         UNCHANGED <<version, manifest, local, runs, crashes>>
  PROVE  TypeInv'
<1>1. /\ version' = version /\ manifest' = manifest /\ phase' = phase /\ plan' = plan
      /\ mode' = mode /\ planned' = planned /\ maps' = maps /\ task' = task
      /\ key' = key /\ output' = output /\ ran' = ran /\ begun' = begun
      /\ runs' = runs /\ crashes' = crashes
  BY DEF local
<1>2. c # Missing
  BY SentinelAssumption DEF Torn, Output
<1>3. \A m \in Nodes : artifact'[m] = IF m = n THEN c ELSE artifact[m]
  BY DEF TypeInv, TypeOK
<1>4. c \in Torn \cup {Missing} \cup PartialOutput \cup MergedOutput
  BY DEF Output
<1>5. TypeOK'
  BY <1>1, <1>3, <1>4 DEF TypeInv, TypeOK, Output
<1>6. Shape'
  BY <1>1, <1>2, <1>3 DEF TypeInv, Shape
<1> QED BY <1>5, <1>6 DEF TypeInv

LEMMA ExportTypeInv ==
  ASSUME TypeInv, NEW r \in Runners, Export(r)
  PROVE  TypeInv'
<1>1. /\ phase[r] = "planning" /\ phase' = [phase EXCEPT ![r] = "idle"]
      /\ artifact' = artifact
      /\ version' = version /\ manifest' = manifest /\ plan' = plan
      /\ mode' = mode /\ planned' = planned /\ maps' = maps /\ task' = task
      /\ key' = key /\ output' = output /\ ran' = ran /\ begun' = begun
      /\ runs' = runs /\ crashes' = crashes
  BY DEF Export, files, runner
<1>2. TypeOK'
  BY <1>1 DEF TypeInv, TypeOK
<1>3. Shape'
  BY <1>1 DEF TypeInv, TypeOK, Shape
<1> QED BY <1>2, <1>3 DEF TypeInv

LEMMA RunLocalTypeInv ==
  ASSUME DistInv, NEW r \in Runners, NEW m \in Modes, RunLocal(r, m)
  PROVE  TypeInv'
<1> USE ParameterAssumption, SentinelAssumption
<1>1. /\ graph.plan \in Plans /\ graph.chunks \in Seq(Chunk) /\ Len(graph.chunks) <= MaxSlots
  BY DEF RunLocal, DistInv, DistTypeOK, Schedule
<1>2. Len(Inputs[graph.plan]) \in Nat
  BY <1>1
<1>3. /\ artifact' = artifact /\ version' = version /\ manifest' = manifest
      /\ crashes' = crashes /\ runs' = runs + 1 /\ runs < MaxRuns
      /\ phase' = [phase EXCEPT ![r] = "running"]
      /\ plan' = [plan EXCEPT ![r] = graph.plan]
      /\ mode' = [mode EXCEPT ![r] = m]
      /\ planned' = [planned EXCEPT ![r] = Len(Inputs[graph.plan])]
      /\ maps' = [maps EXCEPT ![r] = graph.chunks]
      /\ task' = [task EXCEPT ![r] = [n \in Nodes |-> "todo"]]
      /\ key' = [key EXCEPT ![r] = [n \in Nodes |-> None]]
      /\ output' = [output EXCEPT ![r] = [n \in Nodes |-> None]]
      /\ ran' = [ran EXCEPT ![r] = {}]
      /\ begun' = [begun EXCEPT ![r] = version]
  BY DEF RunLocal, files
<1>4. TypeOK'
  BY <1>1, <1>2, <1>3 DEF DistInv, TypeInv, TypeOK, TaskState
<1>5. Shape'
  BY <1>1, <1>3 DEF DistInv, TypeInv, TypeOK, Shape, HasOutput
<1> QED BY <1>4, <1>5 DEF TypeInv

\* Steps that concern neither the job nor its processes.
LEMMA QuietDistInv ==
  ASSUME DistInv, TypeInv',
         graph' = graph \/ (graph'.plan \in Plans /\ graph'.chunks \in Seq(Chunk)
                            /\ Len(graph'.chunks) <= MaxSlots),
         UNCHANGED <<submitted, job, jobs, jobBegun, tasks, returned, parts, merge>>
  PROVE  DistInv'
<1>1. /\ submitted' = submitted /\ job' = job /\ jobs' = jobs /\ jobBegun' = jobBegun
      /\ wanted' = wanted /\ attempts' = attempts /\ process' = process
      /\ partial' = partial /\ returned' = returned /\ parts' = parts /\ merge' = merge
  BY DEF tasks
<1>2. artifact'[ReduceNode] \in Torn \cup {Missing} \cup MergedOutput
  BY NodeNumbers DEF TypeInv, TypeOK, Output
<1>3. DistTypeOK'
  BY <1>1, <1>2 DEF DistInv, DistTypeOK
<1>4. Schedule'
  BY <1>1 DEF DistInv, Schedule
<1>5. Assigned'
  BY <1>1 DEF DistInv, Assigned
<1> QED BY <1>3, <1>4, <1>5 DEF DistInv

LEMMA NextDistInv ==
  ASSUME DistInv, Next,
         UNCHANGED <<graph, submitted, job, jobs, jobBegun, tasks, returned, parts, merge>>
  PROVE  DistInv'
<1>1. TypeInv'
  BY NextTypeInv DEF DistInv
<1> QED BY <1>1, QuietDistInv

LEMMA ExportDistInv ==
  ASSUME DistInv, NEW r \in Runners, Export(r)
  PROVE  DistInv'
<1>1. TypeInv'
  BY ExportTypeInv DEF DistInv
<1>2. /\ phase[r] = "planning" /\ graph' = [plan |-> plan[r], chunks |-> maps[r]]
      /\ UNCHANGED <<submitted, job, jobs, jobBegun, tasks, returned, parts, merge>>
  BY DEF Export, tasks
<1>3. plan[r] \in Plans /\ maps[r] \in Seq(Chunk) /\ Len(maps[r]) <= MaxSlots
  BY <1>2 DEF DistInv, TypeInv, TypeOK, Shape
<1> QED BY <1>1, <1>2, <1>3, QuietDistInv

LEMMA RunLocalDistInv ==
  ASSUME DistInv, NEW r \in Runners, NEW m \in Modes, RunLocal(r, m)
  PROVE  DistInv'
<1>1. TypeInv'
  BY RunLocalTypeInv
<1>2. UNCHANGED <<graph, submitted, job, jobs, jobBegun, tasks, returned, parts, merge>>
  BY DEF RunLocal, tasks
<1> QED BY <1>1, <1>2, QuietDistInv

LEMMA VarsTypeInv ==
  ASSUME TypeInv, UNCHANGED vars
  PROVE  TypeInv'
BY NextTypeInv

LEMMA SubmitDistInv ==
  ASSUME DistInv, Submit
  PROVE  DistInv'
<1>1. TypeInv'
  BY VarsTypeInv DEF DistInv, Submit
<1>2. /\ version' = version /\ artifact' = artifact /\ graph' = graph
      /\ attempts' = attempts /\ process' = process /\ partial' = partial
  BY DEF Submit, vars, disk
<1>3. /\ graph # None /\ submitted' = graph /\ job' = "running" /\ jobs' = jobs + 1
      /\ jobs < MaxJobs /\ jobBegun' = version /\ wanted' = [n \in Slots |-> 0]
      /\ returned' = {} /\ parts' = << >> /\ merge' = "reading"
  BY DEF Submit
<1>4. << >> \in Seq(PartialOutput)
  OBVIOUS
<1>5. DistTypeOK'
  <2>1. jobs' \in 0 .. MaxJobs
    BY <1>3, DistNumbers DEF DistInv, DistTypeOK
  <2>2. version \in [Sources -> 0 .. MaxVersion]
    BY DEF DistInv, TypeInv, TypeOK
  <2>3. wanted' \in [Slots -> 0 .. MaxAttempts]
    BY <1>3, DistNumbers
  <2> QED BY <1>2, <1>3, <1>4, <2>1, <2>2, <2>3 DEF DistInv, DistTypeOK
<1>6. Schedule'
  BY <1>2, <1>3 DEF DistInv, Schedule, Active
<1>7. Assigned'
  BY <1>2 DEF DistInv, Assigned
<1> QED BY <1>1, <1>5, <1>6, <1>7 DEF DistInv
-----------------------------------------------------------------------------
(* Map tasks.                                                              *)

LEMMA StartChunkDistInv ==
  ASSUME DistInv, NEW n \in Slots, StartChunk(n)
  PROVE  DistInv'
<1> DEFINE a == attempts[n] + 1
           p == [chunk |-> submitted.chunks[n], version |-> 0,
                 kernel |-> KernelOf[submitted.plan]]
<1>1. TypeInv'
  BY VarsTypeInv DEF DistInv, StartChunk
<1>2. /\ artifact' = artifact /\ graph' = graph /\ submitted' = submitted /\ job' = job
      /\ jobs' = jobs /\ jobBegun' = jobBegun /\ returned' = returned
      /\ parts' = parts /\ merge' = merge
  BY DEF StartChunk, vars, disk
<1>3. /\ job = "running" /\ n \notin returned /\ n \in DOMAIN submitted.chunks
      /\ attempts' = [attempts EXCEPT ![n] = a]
      /\ wanted' = [wanted EXCEPT ![n] = a]
      /\ process' = [process EXCEPT ![n][a] = "running"]
      /\ partial' = [partial EXCEPT ![n][a] = p]
  BY DEF StartChunk, DistInv, DistTypeOK
<1>4. a \in Attempts /\ a \in 0 .. MaxAttempts
  <2>1. attempts[n] \in 0 .. MaxAttempts /\ attempts[n] < MaxAttempts
    BY DEF DistInv, DistTypeOK, StartChunk
  <2> QED BY <2>1, DistNumbers DEF Attempts
<1>5. p \in PartialOutput
  <2>1. submitted # None
    BY <1>3 DEF DistInv, Schedule
  <2>2. submitted.chunks[n] \in Chunk /\ submitted.plan \in Plans
    BY <1>3, <2>1 DEF DistInv, DistTypeOK
  <2>3. KernelOf[submitted.plan] \in Kernels
    BY <2>2, ParameterAssumption
  <2> QED BY <2>2, <2>3 DEF PartialOutput
<1> HIDE DEF a, p
<1>6. DistTypeOK'
  <2>1. attempts' \in [Slots -> 0 .. MaxAttempts] /\ wanted' \in [Slots -> 0 .. MaxAttempts]
    BY <1>3, <1>4 DEF DistInv, DistTypeOK
  <2>2. process' \in [Slots -> [Attempts -> Alive \cup {"off", "written", "dead"}]]
    BY <1>3, <1>4 DEF DistInv, DistTypeOK, Alive
  <2>3. partial' \in [Slots -> [Attempts -> PartialOutput \cup {None}]]
    BY <1>3, <1>4, <1>5 DEF DistInv, DistTypeOK
  <2> QED BY <1>2, <2>1, <2>2, <2>3 DEF DistInv, DistTypeOK
<1>7. Schedule'
  <2>1. \A m \in returned : wanted'[m] = wanted[m] /\ process'[m] = process[m]
    BY <1>3 DEF DistInv, DistTypeOK
  <2> QED BY <1>2, <1>3, <2>1 DEF DistInv, Schedule
<1>8. Assigned'
  <2>1. p # None
    BY <1>5, SentinelAssumption
  <2> QED BY <1>3, <1>4, <2>1 DEF DistInv, DistTypeOK, Assigned
<1> QED BY <1>1, <1>6, <1>7, <1>8 DEF DistInv

\* A step of one process, with what it does to its partial output and its file.
LEMMA ProcessDistInv ==
  ASSUME DistInv, TypeInv', NEW n \in Slots, NEW a \in Attempts,
         NEW from \in Alive, NEW to \in Alive \cup {"written"},
         ProcessStep(n, a, from, to),
         NEW p \in PartialOutput, partial' = [partial EXCEPT ![n][a] = p]
  PROVE  DistInv'
<1>1. /\ process[n][a] = from /\ process' = [process EXCEPT ![n][a] = to]
      /\ graph' = graph /\ submitted' = submitted /\ job' = job
      /\ jobs' = jobs /\ jobBegun' = jobBegun /\ returned' = returned
      /\ wanted' = wanted /\ attempts' = attempts /\ parts' = parts /\ merge' = merge
  BY DEF ProcessStep
<1>2. artifact'[ReduceNode] \in Torn \cup {Missing} \cup MergedOutput
  BY NodeNumbers DEF TypeInv, TypeOK, Output
<1>3. process' \in [Slots -> [Attempts -> Alive \cup {"off", "written", "dead"}]]
  BY <1>1 DEF DistInv, DistTypeOK
<1>4. partial' \in [Slots -> [Attempts -> PartialOutput \cup {None}]]
  BY DEF DistInv, DistTypeOK
<1>5. DistTypeOK'
  BY <1>1, <1>2, <1>3, <1>4 DEF DistInv, DistTypeOK
<1>6. \A m \in Slots, b \in Attempts : process[m][b] = "written" => process'[m][b] = "written"
  BY <1>1 DEF DistInv, DistTypeOK, Alive
<1>7. Schedule'
  <2>1. ASSUME job \in Active, NEW m \in returned
        PROVE  wanted[m] # 0 /\ process'[m][wanted[m]] = "written"
    <3>1. m \in Slots /\ wanted[m] # 0 /\ process[m][wanted[m]] = "written"
      BY <2>1 DEF DistInv, DistTypeOK, Schedule
    <3>2. wanted[m] \in Attempts
      BY <3>1, DistNumbers DEF DistInv, DistTypeOK, Attempts
    <3> QED BY <1>6, <3>1, <3>2
  <2> QED BY <1>1, <2>1 DEF DistInv, Schedule
<1>8. Assigned'
  <2>1. p # None
    BY SentinelAssumption
  <2> QED BY <1>1, <2>1 DEF DistInv, DistTypeOK, Assigned, Alive
<1> QED BY <1>5, <1>7, <1>8 DEF DistInv

LEMMA ComputeChunkDistInv ==
  ASSUME DistInv, NEW n \in Slots, NEW a \in Attempts, ComputeChunk(n, a)
  PROVE  DistInv'
<1> DEFINE p == [partial[n][a] EXCEPT !.version = version[partial[n][a].chunk.source]]
<1>1. ProcessStep(n, a, "running", "computed") /\ artifact' = artifact
  BY DEF ComputeChunk
<1>2. partial[n][a] \in PartialOutput
  BY <1>1 DEF ProcessStep, DistInv, DistTypeOK, Assigned, Alive
<1>3. p \in PartialOutput
  <2>1. partial[n][a].chunk.source \in Sources
    BY <1>2 DEF PartialOutput, Chunk
  <2>2. version[partial[n][a].chunk.source] \in Nat
    BY <2>1, DistNumbers DEF DistInv, TypeInv, TypeOK
  <2> QED BY <1>2, <2>2 DEF PartialOutput
<1>4. partial' = [partial EXCEPT ![n][a] = p]
  BY DEF ComputeChunk, DistInv, DistTypeOK
<1>5. TypeInv'
  BY <1>1, VarsTypeInv DEF DistInv, ProcessStep, vars, disk, local, runner
<1> HIDE DEF p
<1> QED BY <1>1, <1>3, <1>4, <1>5, ProcessDistInv DEF Alive

LEMMA WriteDistInv ==
  ASSUME DistInv, NEW n \in Slots, NEW a \in Attempts,
         OpenPartial(n, a) \/ WritePartial(n, a)
  PROVE  DistInv'
<1>1. PICK from \in Alive, to \in Alive \cup {"written"} : ProcessStep(n, a, from, to)
  BY DEF OpenPartial, WritePartial, Alive
<1>2. partial[n][a] \in PartialOutput
  BY <1>1 DEF ProcessStep, DistInv, DistTypeOK, Assigned
<1>3. partial' = [partial EXCEPT ![n][a] = partial[n][a]]
  BY DEF OpenPartial, WritePartial, DistInv, DistTypeOK
<1>4. \E c \in Torn \cup Output(n) : artifact' = [artifact EXCEPT ![n] = c]
  BY <1>2 DEF OpenPartial, WritePartial, Overwritten, Torn, Output
<1>5. UNCHANGED <<version, manifest, local, runs, crashes>>
  BY <1>1 DEF ProcessStep, runner
<1>6. TypeInv'
  BY <1>4, <1>5, FileTypeInv, NodeNumbers DEF DistInv
<1> QED BY <1>1, <1>2, <1>3, <1>6, ProcessDistInv

LEMMA ChunkReturnsDistInv ==
  ASSUME DistInv, NEW n \in Slots, ChunkReturns(n)
  PROVE  DistInv'
<1>1. TypeInv'
  BY VarsTypeInv DEF DistInv, ChunkReturns
<1>2. /\ artifact' = artifact /\ graph' = graph /\ submitted' = submitted /\ job' = job
      /\ jobs' = jobs /\ jobBegun' = jobBegun /\ wanted' = wanted /\ attempts' = attempts
      /\ process' = process /\ partial' = partial /\ parts' = parts /\ merge' = merge
  BY DEF ChunkReturns, vars, disk, tasks
<1>3. /\ job = "running" /\ wanted[n] # 0 /\ process[n][wanted[n]] = "written"
      /\ returned' = returned \cup {n}
  BY DEF ChunkReturns
<1>4. DistTypeOK'
  BY <1>2, <1>3 DEF DistInv, DistTypeOK
<1>5. Schedule'
  BY <1>2, <1>3 DEF DistInv, Schedule
<1>6. Assigned'
  BY <1>2 DEF DistInv, Assigned
<1> QED BY <1>1, <1>4, <1>5, <1>6 DEF DistInv

LEMMA ChunkEndsDistInv ==
  ASSUME DistInv, NEW n \in Slots, ChunkFails(n) \/ WorkerLost(n)
  PROVE  DistInv'
<1>1. TypeInv'
  BY VarsTypeInv DEF DistInv, ChunkFails, WorkerLost
<1>2. /\ artifact' = artifact /\ graph' = graph /\ submitted' = submitted
      /\ jobs' = jobs /\ jobBegun' = jobBegun /\ attempts' = attempts
      /\ partial' = partial /\ returned' = returned /\ parts' = parts /\ merge' = merge
  BY DEF ChunkFails, WorkerLost, vars, disk
<1>3. /\ job = "running" /\ wanted[n] \in Attempts
      /\ \E left \in {process[n][wanted[n]], "dead"} :
           process' = [process EXCEPT ![n][wanted[n]] = left]
  BY DistNumbers DEF ChunkFails, WorkerLost, DistInv, DistTypeOK, Attempts
<1>4. \/ job' = "failed" /\ wanted' = wanted
      \/ job' = job /\ n \notin returned /\ wanted' = [wanted EXCEPT ![n] = 0]
  BY DEF ChunkFails, WorkerLost
<1>5. \A m \in Slots, b \in Attempts : process'[m][b] \in {process[m][b], "dead"}
  BY <1>3 DEF DistInv, DistTypeOK
<1>6. \A m \in Slots \ {n} : process'[m] = process[m]
  BY <1>3 DEF DistInv, DistTypeOK
<1>7. DistTypeOK'
  <2>1. process' \in [Slots -> [Attempts -> Alive \cup {"off", "written", "dead"}]]
    BY <1>3 DEF DistInv, DistTypeOK
  <2>2. wanted' \in [Slots -> 0 .. MaxAttempts]
    <3>1. 0 \in 0 .. MaxAttempts /\ wanted \in [Slots -> 0 .. MaxAttempts]
      BY DistNumbers DEF DistInv, DistTypeOK
    <3> QED BY <1>4, <3>1
  <2> QED BY <1>2, <1>4, <2>1, <2>2 DEF DistInv, DistTypeOK
<1>8. Schedule'
  <2>1. CASE job' = "failed"
    <3>1. submitted # None
      BY <1>3 DEF DistInv, Schedule
    <3> QED BY <1>2, <2>1, <3>1 DEF DistInv, Schedule, Active
  <2>2. CASE job' = job /\ n \notin returned /\ wanted' = [wanted EXCEPT ![n] = 0]
    <3>1. \A m \in returned : m \in Slots \ {n} /\ wanted'[m] = wanted[m]
      BY <2>2 DEF DistInv, DistTypeOK
    <3> QED BY <1>2, <1>6, <2>2, <3>1 DEF DistInv, Schedule
  <2> QED BY <1>4, <2>1, <2>2
<1>9. Assigned'
  BY <1>2, <1>5 DEF DistInv, Assigned, Alive
<1> QED BY <1>1, <1>7, <1>8, <1>9 DEF DistInv
-----------------------------------------------------------------------------
(* The merge.                                                              *)

LEMMA StartMergeDistInv ==
  ASSUME DistInv, StartMerge
  PROVE  DistInv'
<1>1. TypeInv'
  BY VarsTypeInv DEF DistInv, StartMerge
<1>2. /\ artifact' = artifact /\ graph' = graph /\ submitted' = submitted
      /\ jobs' = jobs /\ jobBegun' = jobBegun /\ wanted' = wanted /\ attempts' = attempts
      /\ process' = process /\ partial' = partial /\ returned' = returned
      /\ parts' = parts /\ merge' = merge
  BY DEF StartMerge, vars, disk, tasks
<1>3. /\ job = "running" /\ returned = DOMAIN submitted.chunks
      /\ job' = IF submitted.chunks = << >> THEN "failed" ELSE "merging"
  BY DEF StartMerge
<1>4. DistTypeOK'
  BY <1>2, <1>3 DEF DistInv, DistTypeOK
<1>5. Schedule'
  <2>1. submitted # None /\ parts = << >>
    BY <1>3 DEF DistInv, Schedule
  <2>2. submitted.chunks \in Seq(Chunk)
    BY <2>1 DEF DistInv, DistTypeOK
  <2>3. submitted.chunks # << >> => Len(parts) < Len(submitted.chunks)
    BY <2>1, <2>2
  <2> QED BY <1>2, <1>3, <2>1, <2>3 DEF DistInv, Schedule, Active
<1>6. Assigned'
  BY <1>2 DEF DistInv, Assigned
<1> QED BY <1>1, <1>4, <1>5, <1>6 DEF DistInv

\* The merge reads the file of a map node that has returned.
LEMMA NextPart ==
  ASSUME DistInv, job = "merging", merge = "reading"
  PROVE  /\ Len(parts) + 1 \in returned /\ Len(parts) + 1 \in Slots
         /\ Len(submitted.chunks) \in Nat /\ submitted # None
<1>1. submitted # None /\ Len(parts) < Len(submitted.chunks)
      /\ returned = DOMAIN submitted.chunks
  BY DEF DistInv, Schedule
<1>2. submitted.chunks \in Seq(Chunk) /\ parts \in Seq(PartialOutput)
  BY <1>1 DEF DistInv, DistTypeOK
<1>3. Len(parts) \in Nat /\ Len(submitted.chunks) \in Nat
      /\ DOMAIN submitted.chunks = 1 .. Len(submitted.chunks)
  BY <1>2
<1>4. Len(parts) + 1 \in DOMAIN submitted.chunks
  BY <1>1, <1>3
<1> QED BY <1>1, <1>3, <1>4 DEF DistInv, DistTypeOK

LEMMA ReadPartialDistInv ==
  ASSUME DistInv, ReadPartial
  PROVE  DistInv'
<1> DEFINE n == Len(parts) + 1
<1>1. TypeInv'
  BY VarsTypeInv DEF DistInv, ReadPartial
<1>2. /\ artifact' = artifact /\ graph' = graph /\ submitted' = submitted
      /\ jobs' = jobs /\ jobBegun' = jobBegun /\ wanted' = wanted /\ attempts' = attempts
      /\ process' = process /\ partial' = partial /\ returned' = returned
  BY DEF ReadPartial, vars, disk, tasks
<1>3. /\ job = "merging" /\ merge = "reading" /\ n \in Slots
      /\ submitted # None /\ Len(submitted.chunks) \in Nat
  BY NextPart DEF ReadPartial
<1>4. \/ job' = "failed" /\ parts' = parts /\ merge' = merge
      \/ /\ artifact[n] \notin Torn \cup {Missing} /\ job' = job
         /\ parts' = Append(parts, artifact[n])
         /\ merge' = IF n = Len(submitted.chunks) THEN "read" ELSE "reading"
  BY DEF ReadPartial
<1>5. parts \in Seq(PartialOutput) /\ Len(parts) \in Nat
      /\ Len(parts) < Len(submitted.chunks)
  BY <1>3 DEF DistInv, DistTypeOK, Schedule
<1>6. artifact[n] \notin Torn \cup {Missing} => artifact[n] \in PartialOutput
  BY <1>3, NodeNumbers DEF DistInv, TypeInv, TypeOK, Output
<1>7. artifact[n] \notin Torn \cup {Missing} =>
        /\ Append(parts, artifact[n]) \in Seq(PartialOutput)
        /\ Len(Append(parts, artifact[n])) = n
  BY <1>5, <1>6
<1>8. DistTypeOK'
  BY <1>2, <1>4, <1>7 DEF DistInv, DistTypeOK
<1>9. Schedule'
  <2>1. n # Len(submitted.chunks) => n < Len(submitted.chunks)
    BY <1>3, <1>5
  <2>2. CASE job' = "failed"
    BY <1>2, <1>3, <2>2 DEF DistInv, Schedule, Active
  <2>3. CASE job' = job
    BY <1>2, <1>3, <1>4, <1>7, <2>1, <2>3 DEF DistInv, Schedule
  <2> QED BY <1>4, <2>2, <2>3
<1>10. Assigned'
  BY <1>2 DEF DistInv, Assigned
<1> QED BY <1>1, <1>8, <1>9, <1>10 DEF DistInv

LEMMA MergeLostDistInv ==
  ASSUME DistInv, MergeLost
  PROVE  DistInv'
<1>1. TypeInv'
  BY VarsTypeInv DEF DistInv, MergeLost
<1>2. /\ artifact' = artifact /\ graph' = graph /\ submitted' = submitted /\ job' = job
      /\ jobs' = jobs /\ jobBegun' = jobBegun /\ wanted' = wanted /\ attempts' = attempts
      /\ process' = process /\ partial' = partial /\ returned' = returned
  BY DEF MergeLost, vars, disk, tasks
<1>3. job = "merging" /\ merge' = "reading" /\ parts' = << >>
  BY DEF MergeLost
<1>4. << >> \in Seq(PartialOutput) /\ Len(<< >>) = 0
  OBVIOUS
<1>5. DistTypeOK'
  BY <1>2, <1>3, <1>4 DEF DistInv, DistTypeOK
<1>6. Schedule'
  <2>1. submitted # None /\ submitted.chunks # << >>
    BY <1>3 DEF DistInv, Schedule
  <2>2. submitted.chunks \in Seq(Chunk)
    BY <2>1 DEF DistInv, DistTypeOK
  <2>3. 0 < Len(submitted.chunks)
    BY <2>1, <2>2
  <2> QED BY <1>2, <1>3, <1>4, <2>3 DEF DistInv, Schedule
<1>7. Assigned'
  BY <1>2 DEF DistInv, Assigned
<1> QED BY <1>1, <1>5, <1>6, <1>7 DEF DistInv

\* Writing the merged output and its skim.
LEMMA MergeWriteDistInv ==
  ASSUME DistInv, OpenMerged \/ WriteMerged \/ OpenSkim \/ WriteSkim
  PROVE  DistInv'
<1>1. PICK from \in {"read", "merged", "written", "skimming"},
           to \in {"merged", "written", "skimming"} : MergeStep(from, to)
  BY DEF OpenMerged, WriteMerged, OpenSkim, WriteSkim
<1>2. /\ job = "merging" /\ merge' = to /\ graph' = graph /\ submitted' = submitted
      /\ jobs' = jobs /\ jobBegun' = jobBegun /\ wanted' = wanted /\ attempts' = attempts
      /\ process' = process /\ partial' = partial /\ returned' = returned /\ parts' = parts
  BY <1>1 DEF MergeStep, tasks
<1>3. job' = job \/ job' = "ok"
  BY DEF OpenMerged, WriteMerged, OpenSkim, WriteSkim
<1>4. [parts |-> parts] \in MergedOutput
  BY DEF DistInv, DistTypeOK, MergedOutput
<1>5. \E n \in {ReduceNode, SinkNode} : \E c \in Torn \cup MergedOutput :
        artifact' = [artifact EXCEPT ![n] = c]
  BY <1>4 DEF OpenMerged, WriteMerged, OpenSkim, WriteSkim, Overwritten, Torn
<1>6. TypeInv'
  <2>1. UNCHANGED <<version, manifest, local, runs, crashes>>
    BY <1>1 DEF MergeStep, runner
  <2>2. Output(ReduceNode) = MergedOutput /\ Output(SinkNode) = MergedOutput
    BY NodeNumbers DEF Output
  <2> QED BY <1>5, <2>1, <2>2, FileTypeInv, NodeNumbers DEF DistInv
<1>7. DistTypeOK'
  <2>1. artifact'[ReduceNode] \in Torn \cup {Missing} \cup MergedOutput
    BY <1>6, NodeNumbers DEF TypeInv, TypeOK, Output
  <2> QED BY <1>2, <1>3, <2>1 DEF DistInv, DistTypeOK
<1>8. Schedule'
  BY <1>2, <1>3 DEF DistInv, Schedule, Active
<1>9. Assigned'
  BY <1>2 DEF DistInv, Assigned
<1> QED BY <1>6, <1>7, <1>8, <1>9 DEF DistInv
-----------------------------------------------------------------------------
LEMMA NextDist == DistInv /\ [DistNext]_distVars => DistInv'
<1> SUFFICES ASSUME DistInv, [DistNext]_distVars PROVE DistInv'
  OBVIOUS
<1>1. ASSUME NEW n \in Slots, ChunkStep(n) PROVE DistInv'
  BY <1>1, StartChunkDistInv, ChunkReturnsDistInv, ChunkEndsDistInv, ComputeChunkDistInv,
     WriteDistInv DEF ChunkStep
<1>2. CASE StartMerge \/ ReadPartial \/ MergeLost
  BY <1>2, StartMergeDistInv, ReadPartialDistInv, MergeLostDistInv
<1>3. CASE OpenMerged \/ WriteMerged \/ OpenSkim \/ WriteSkim
  BY <1>3, MergeWriteDistInv
<1>4. CASE UNCHANGED distVars
  <2>1. TypeInv'
    BY <1>4, VarsTypeInv DEF DistInv, distVars
  <2> QED BY <1>4, <2>1, QuietDistInv DEF distVars
<1> QED BY <1>1, <1>2, <1>3, <1>4, NextDistInv, ExportDistInv, RunLocalDistInv, SubmitDistInv
        DEF DistNext

\* Every variable keeps its type while local runs, exports and jobs share the cache,
\* workers are lost and their processes carry on: the merge never reads a file beyond
\* those of its graph, nor a process a chunk it was not given (dask_runner.py, ray_runner.py).
THEOREM JobTypeCorrect == DistSpec => [](TypeOK /\ DistTypeOK)
<1>1. DistInv => TypeOK /\ DistTypeOK
  BY DEF DistInv, TypeInv
<1> QED BY InitDist, NextDist, <1>1, PTL DEF DistSpec

\* The merge starts when the attempt it waits for has written, for every map node
\* of its graph, and stays so whatever workers are lost (run_graph).
THEOREM MergeWaitsForMaps == DistSpec => []MergeAfterMaps
<1>1. DistInv => MergeAfterMaps
  BY DEF DistInv, Schedule, Active, MergeAfterMaps
<1> QED BY InitDist, NextDist, <1>1, PTL DEF DistSpec

-----------------------------------------------------------------------------
(* What a job merges is its own.                                           *)

LEMMA VersionsGrow ==
  ASSUME TypeInv, Next
  PROVE  \A s \in Sources : version'[s] \in Nat /\ version[s] \in Nat /\ version[s] <= version'[s]
<1>1. \A s \in Sources : version[s] \in Nat
  BY DistNumbers DEF TypeInv, TypeOK
<1>2. version' = version \/ \E s \in Sources : version' = [version EXCEPT ![s] = @ + 1]
  <2>1. ASSUME NEW r \in Runners, NEW n \in Nodes, NodeStep(r, n) PROVE version' = version
    BY <2>1 DEF NodeStep, ComputeKey, CheckUnreadable, CheckHit, CheckMiss, Load,
       LoadUnreadable, Compute, ComputeFails, OpenArtifact, WriteArtifact, OpenManifest,
       WriteManifest, SameRun
  <2>2. ASSUME NEW r \in Runners, RunnerStep(r) \/ Crash(r) PROVE version' = version
    BY <2>1, <2>2 DEF RunnerStep, PlanSource, Execute, PlanFails, Finish, Fail, Crash
  <2>3. ASSUME NEW r \in Runners, NEW p \in Plans, NEW m \in Modes, Begin(r, p, m)
        PROVE  version' = version
    BY <2>3 DEF Begin
  <2> QED BY <2>2, <2>3 DEF Next, Edit
<1>3. DOMAIN version = Sources
  BY DEF TypeInv, TypeOK
<1>4. \A s \in Sources : version'[s] = version[s] \/ version'[s] = version[s] + 1
  BY <1>2, <1>3
<1> QED BY <1>1, <1>4

\* Without a local run at work, no step of the executor touches a file.
LEMMA FilesStay ==
  ASSUME Next, \A r \in Runners : phase[r] \notin {"planning", "running"}
  PROVE  artifact' = artifact
<1>1. ASSUME NEW r \in Runners, NEW n \in Nodes, NodeStep(r, n) PROVE phase[r] = "running"
  BY <1>1 DEF NodeStep, ComputeKey, CheckUnreadable, CheckHit, CheckMiss, Load,
     LoadUnreadable, Compute, ComputeFails, OpenArtifact, WriteArtifact, OpenManifest,
     WriteManifest, Advance
<1>2. ASSUME NEW r \in Runners, RunnerStep(r) \/ Crash(r)
      PROVE  phase[r] \in {"planning", "running"}
  BY <1>1, <1>2 DEF RunnerStep, PlanSource, Execute, PlanFails, Finish, Fail, Crash
<1> QED BY <1>2 DEF Next, Edit, Begin, disk

LEMMA InitMerge == DistInit => MergeInv
<1> SUFFICES ASSUME DistInit PROVE MergeInv
  OBVIOUS
<1>1. DistInv
  BY InitDist
<1>2. Began
  <2>1. jobBegun = version /\ \A s \in Sources : version[s] = 0
    BY DEF DistInit, Init
  <2> QED BY <2>1 DEF Began
<1>3. ProcessesFit
  BY DEF DistInit, ProcessesFit, Alive
<1>4. FilesFit /\ PartsFit
  BY DEF DistInit, FilesFit, PartsFit, Active
<1> QED BY <1>1, <1>2, <1>3, <1>4 DEF MergeInv

LEMMA QuietMergeInv ==
  ASSUME MergeInv, DistInv',
         UNCHANGED <<submitted, job, jobBegun, tasks, parts, merge>>,
         job \in Active => artifact' = artifact,
         \A s \in Sources : version'[s] = version[s]
                            \/ (version'[s] \in Nat /\ version[s] \in Nat
                                /\ version[s] <= version'[s])
  PROVE  MergeInv'
<1>1. /\ submitted' = submitted /\ job' = job /\ jobBegun' = jobBegun /\ wanted' = wanted
      /\ process' = process /\ partial' = partial /\ parts' = parts /\ merge' = merge
  BY DEF tasks
<1>2. Began'
  <2>1. \A s \in Sources : jobBegun[s] \in Nat /\ version[s] \in Nat
    BY DistNumbers DEF MergeInv, DistInv, DistTypeOK, TypeInv, TypeOK
  <2> QED BY <1>1, <2>1 DEF MergeInv, Began
<1>3. ProcessesFit'
  BY <1>1 DEF MergeInv, ProcessesFit, OfJob, FreshPart
<1>4. FilesFit'
  BY <1>1 DEF MergeInv, FilesFit, OfJob, FreshPart
<1>5. PartsFit'
  BY <1>1 DEF MergeInv, PartsFit, OfJob, FreshPart
<1> QED BY <1>2, <1>3, <1>4, <1>5 DEF MergeInv

LEMMA NextMergeInv ==
  ASSUME MergeInv, Alone, Next,
         UNCHANGED <<graph, submitted, job, jobs, jobBegun, tasks, returned, parts, merge>>
  PROVE  MergeInv'
<1>1. DistInv'
  BY NextDistInv DEF MergeInv
<1>2. job \in Active => artifact' = artifact
  BY FilesStay DEF Alone
<1>3. \A s \in Sources : version'[s] \in Nat /\ version[s] \in Nat /\ version[s] <= version'[s]
  BY VersionsGrow DEF MergeInv, DistInv
<1> QED BY <1>1, <1>2, <1>3, QuietMergeInv

LEMMA SubmitMergeInv ==
  ASSUME MergeInv, Submit, Drained
  PROVE  MergeInv'
<1>1. DistInv'
  BY SubmitDistInv DEF MergeInv
<1>2. /\ version' = version /\ process' = process /\ jobBegun' = version
      /\ job' = "running" /\ wanted' = [n \in Slots |-> 0]
  BY DEF Submit, vars
<1>3. Began'
  <2>1. \A s \in Sources : version[s] \in Nat
    BY DistNumbers DEF MergeInv, DistInv, TypeInv, TypeOK
  <2> QED BY <1>2, <2>1 DEF Began
<1>4. ProcessesFit'
  BY <1>2 DEF Drained, ProcessesFit
<1>5. FilesFit' /\ PartsFit'
  BY <1>2 DEF FilesFit, PartsFit
<1> QED BY <1>1, <1>3, <1>4, <1>5 DEF MergeInv

LEMMA StartChunkMergeInv ==
  ASSUME MergeInv, NEW n \in Slots, StartChunk(n)
  PROVE  MergeInv'
<1> DEFINE a == attempts[n] + 1
           p == [chunk |-> submitted.chunks[n], version |-> 0,
                 kernel |-> KernelOf[submitted.plan]]
<1>1. DistInv'
  BY StartChunkDistInv DEF MergeInv
<1>2. /\ version' = version /\ artifact' = artifact /\ submitted' = submitted /\ job' = job
      /\ jobBegun' = jobBegun /\ parts' = parts /\ merge' = merge
  BY DEF StartChunk, vars, disk
<1>3. /\ job = "running" /\ n \in DOMAIN submitted.chunks
      /\ wanted' = [wanted EXCEPT ![n] = a]
      /\ process' = [process EXCEPT ![n][a] = "running"]
      /\ partial' = [partial EXCEPT ![n][a] = p]
  BY DEF StartChunk, MergeInv, DistInv, DistTypeOK
<1>4. a \in Attempts
  <2>1. attempts[n] \in 0 .. MaxAttempts /\ attempts[n] < MaxAttempts
    BY DEF MergeInv, DistInv, DistTypeOK, StartChunk
  <2> QED BY <2>1, DistNumbers DEF Attempts
<1>5. OfJob(n, p)
  BY <1>3 DEF OfJob
<1> HIDE DEF a, p
<1>6. /\ \A m \in Slots, b \in Attempts :
           process'[m][b] = IF m = n /\ b = a THEN "running" ELSE process[m][b]
      /\ \A m \in Slots, b \in Attempts :
           partial'[m][b] = IF m = n /\ b = a THEN p ELSE partial[m][b]
      /\ \A m \in Slots : wanted'[m] = IF m = n THEN a ELSE wanted[m]
      /\ \A m \in Slots : wanted[m] \in 0 .. MaxAttempts
  BY <1>3, <1>4 DEF MergeInv, DistInv, DistTypeOK
<1>7. Began'
  BY <1>2 DEF MergeInv, Began
<1>8. ProcessesFit'
  BY <1>2, <1>5, <1>6 DEF MergeInv, ProcessesFit, OfJob, FreshPart
<1>9. FilesFit'
  <2>1. ASSUME NEW m \in Slots, wanted'[m] # 0, process'[m][wanted'[m]] = "written"
        PROVE  m # n /\ wanted'[m] = wanted[m] /\ process[m][wanted[m]] = "written"
    <3>1. m # n
      BY <1>4, <1>6, <2>1
    <3>2. wanted[m] \in Attempts
      BY <1>6, <2>1, <3>1, DistNumbers DEF Attempts
    <3> QED BY <1>6, <2>1, <3>1, <3>2
  <2> QED BY <1>2, <2>1 DEF MergeInv, FilesFit, OfJob, FreshPart
<1>10. PartsFit'
  BY <1>2 DEF MergeInv, PartsFit, OfJob, FreshPart
<1> QED BY <1>1, <1>7, <1>8, <1>9, <1>10 DEF MergeInv

\* A step of one process, with what it does to its partial output and its file.
LEMMA ProcessMergeInv ==
  ASSUME MergeInv, DistInv', NEW n \in Slots, NEW a \in Attempts,
         NEW from \in Alive, NEW to \in {"computed", "opened", "written"},
         ProcessStep(n, a, from, to),
         NEW p \in PartialOutput, partial' = [partial EXCEPT ![n][a] = p], FreshPart(n, p),
         \A m \in Slots \ {n} : artifact'[m] = artifact[m],
         artifact'[n] \in Torn \/ FreshPart(n, artifact'[n])
           \/ (to # "written" /\ artifact'[n] = artifact[n])
  PROVE  MergeInv'
<1>1. /\ process[n][a] = from /\ process' = [process EXCEPT ![n][a] = to]
      /\ version' = version /\ submitted' = submitted /\ job' = job
      /\ jobBegun' = jobBegun /\ wanted' = wanted /\ parts' = parts /\ merge' = merge
  BY DEF ProcessStep
<1>2. /\ \A m \in Slots, b \in Attempts :
           process'[m][b] = IF m = n /\ b = a THEN to ELSE process[m][b]
      /\ \A m \in Slots, b \in Attempts :
           partial'[m][b] = IF m = n /\ b = a THEN p ELSE partial[m][b]
  BY <1>1 DEF MergeInv, DistInv, DistTypeOK
<1>3. Began'
  BY <1>1 DEF MergeInv, Began
<1>4. ProcessesFit'
  BY <1>1, <1>2 DEF MergeInv, ProcessesFit, OfJob, FreshPart
<1>5. FilesFit'
  <2>1. ASSUME job \in Active, NEW m \in Slots, wanted[m] # 0,
               process'[m][wanted[m]] = "written"
        PROVE  artifact'[m] \in Torn \/ FreshPart(m, artifact'[m])
    <3>1. wanted[m] \in Attempts
      BY <2>1, DistNumbers DEF MergeInv, DistInv, DistTypeOK, Attempts
    <3>2. process[m][wanted[m]] = "written" \/ (m = n /\ wanted[m] = a /\ to = "written")
      BY <1>2, <2>1, <3>1
    <3>3. process[m][wanted[m]] = "written" =>
            artifact[m] \in Torn \/ FreshPart(m, artifact[m])
      BY <2>1 DEF MergeInv, FilesFit
    <3> QED BY <3>2, <3>3
  <2> QED BY <1>1, <2>1 DEF FilesFit, OfJob, FreshPart
<1>6. PartsFit'
  BY <1>1 DEF MergeInv, PartsFit, OfJob, FreshPart
<1> QED BY <1>3, <1>4, <1>5, <1>6 DEF MergeInv

LEMMA ComputeChunkMergeInv ==
  ASSUME MergeInv, NEW n \in Slots, NEW a \in Attempts, ComputeChunk(n, a)
  PROVE  MergeInv'
<1> DEFINE source == partial[n][a].chunk.source
           p == [partial[n][a] EXCEPT !.version = version[source]]
<1>1. DistInv'
  BY ComputeChunkDistInv DEF MergeInv
<1>2. ProcessStep(n, a, "running", "computed") /\ artifact' = artifact
  BY DEF ComputeChunk
<1>3. process[n][a] \in Alive
  BY <1>2 DEF ProcessStep, Alive
<1>4. partial[n][a] \in PartialOutput /\ OfJob(n, partial[n][a])
  BY <1>3 DEF MergeInv, DistInv, DistTypeOK, Assigned, ProcessesFit
<1>5. source \in Sources /\ version[source] \in Nat /\ jobBegun[source] <= version[source]
  <2>1. source \in Sources
    BY <1>4 DEF PartialOutput, Chunk
  <2> QED BY <2>1, DistNumbers DEF MergeInv, DistInv, TypeInv, TypeOK, Began
<1>6. partial' = [partial EXCEPT ![n][a] = p]
  BY DEF ComputeChunk, MergeInv, DistInv, DistTypeOK
<1>7. /\ p \in PartialOutput /\ p.chunk = partial[n][a].chunk
      /\ p.version = version[source] /\ p.kernel = partial[n][a].kernel
  BY <1>4, <1>5 DEF PartialOutput
<1>8. jobBegun[source] \in Nat
  BY <1>5, DistNumbers DEF MergeInv, DistInv, DistTypeOK
<1>9. version[source] >= jobBegun[source]
  BY <1>5, <1>8
<1> HIDE DEF p
<1>10. FreshPart(n, p)
  BY <1>4, <1>7, <1>9 DEF FreshPart, OfJob
<1> QED BY <1>1, <1>2, <1>6, <1>7, <1>10, ProcessMergeInv DEF Alive

LEMMA WriteMergeInv ==
  ASSUME MergeInv, NEW n \in Slots, NEW a \in Attempts,
         OpenPartial(n, a) \/ WritePartial(n, a)
  PROVE  MergeInv'
<1> DEFINE p == partial[n][a]
<1>1. DistInv'
  BY WriteDistInv DEF MergeInv
<1>2. PICK from \in Alive \ {"running"}, to \in {"opened", "written"} :
        ProcessStep(n, a, from, to)
  BY DEF OpenPartial, WritePartial, Alive
<1>3. process[n][a] \in Alive \ {"running"}
  BY <1>2 DEF ProcessStep
<1>4. p \in PartialOutput /\ FreshPart(n, p)
  BY <1>3 DEF MergeInv, DistInv, DistTypeOK, Assigned, ProcessesFit
<1>5. partial' = [partial EXCEPT ![n][a] = p]
  BY DEF OpenPartial, WritePartial, MergeInv, DistInv, DistTypeOK
<1>6. \E c \in Torn \cup {p} : artifact' = [artifact EXCEPT ![n] = c]
  BY DEF OpenPartial, WritePartial, Overwritten, Torn
<1>7. DOMAIN artifact = Nodes
  BY DEF MergeInv, DistInv, TypeInv, TypeOK
<1>8. /\ \A m \in Slots \ {n} : artifact'[m] = artifact[m]
      /\ artifact'[n] \in Torn \/ artifact'[n] = p
  BY <1>6, <1>7, NodeNumbers
<1> HIDE DEF p
<1>9. artifact'[n] \in Torn \/ FreshPart(n, artifact'[n])
  BY <1>4, <1>8
<1>10. from \in Alive /\ to \in {"computed", "opened", "written"}
  OBVIOUS
<1> QED BY <1>1, <1>2, <1>4, <1>5, <1>8, <1>9, <1>10, ProcessMergeInv

LEMMA ChunkEndsMergeInv ==
  ASSUME MergeInv, NEW n \in Slots, ChunkReturns(n) \/ ChunkFails(n) \/ WorkerLost(n)
  PROVE  MergeInv'
<1>1. DistInv'
  BY ChunkReturnsDistInv, ChunkEndsDistInv DEF MergeInv
<1>2. /\ version' = version /\ artifact' = artifact /\ submitted' = submitted
      /\ jobBegun' = jobBegun /\ partial' = partial /\ parts' = parts /\ merge' = merge
      /\ job = "running" /\ job' \in {"running", "failed"}
  BY DEF ChunkReturns, ChunkFails, WorkerLost, vars, disk, tasks
<1>3. \A m \in Slots, b \in Attempts : process'[m][b] \in {process[m][b], "dead"}
  <2>1. CASE ChunkReturns(n)
    BY <2>1 DEF ChunkReturns, tasks
  <2>2. CASE ChunkFails(n) \/ WorkerLost(n)
    <3>1. wanted[n] \in Attempts
      BY <2>2, DistNumbers
      DEF ChunkFails, WorkerLost, MergeInv, DistInv, DistTypeOK, Attempts
    <3>2. \E left \in {process[n][wanted[n]], "dead"} :
            process' = [process EXCEPT ![n][wanted[n]] = left]
      BY <2>2 DEF ChunkFails, WorkerLost
    <3> QED BY <3>1, <3>2 DEF MergeInv, DistInv, DistTypeOK
  <2> QED BY <2>1, <2>2
<1>4. \A m \in Slots : wanted'[m] \in {wanted[m], 0}
  BY DEF ChunkReturns, ChunkFails, WorkerLost, tasks, MergeInv, DistInv, DistTypeOK
<1>5. Began'
  BY <1>2 DEF MergeInv, Began
<1>6. ProcessesFit'
  BY <1>2, <1>3 DEF MergeInv, ProcessesFit, OfJob, FreshPart, Alive
<1>7. FilesFit'
  <2>1. ASSUME NEW m \in Slots, wanted'[m] # 0, process'[m][wanted'[m]] = "written"
        PROVE  wanted[m] # 0 /\ process[m][wanted[m]] = "written"
    <3>1. wanted'[m] = wanted[m] /\ wanted[m] # 0
      BY <1>4, <2>1
    <3>2. wanted[m] \in Attempts
      BY <3>1, DistNumbers DEF MergeInv, DistInv, DistTypeOK, Attempts
    <3> QED BY <1>3, <2>1, <3>1, <3>2
  <2> QED BY <1>2, <2>1 DEF MergeInv, FilesFit, OfJob, FreshPart, Active
<1>8. PartsFit'
  BY <1>2 DEF MergeInv, PartsFit
<1> QED BY <1>1, <1>5, <1>6, <1>7, <1>8 DEF MergeInv

LEMMA StartMergeMergeInv ==
  ASSUME MergeInv, StartMerge
  PROVE  MergeInv'
<1>1. DistInv'
  BY StartMergeDistInv DEF MergeInv
<1>2. /\ version' = version /\ artifact' = artifact /\ submitted' = submitted
      /\ jobBegun' = jobBegun /\ wanted' = wanted /\ process' = process
      /\ partial' = partial /\ parts' = parts /\ merge' = merge
      /\ job = "running" /\ job' \in {"merging", "failed"}
  BY DEF StartMerge, vars, disk, tasks
<1>3. Began' /\ ProcessesFit'
  BY <1>2 DEF MergeInv, Began, ProcessesFit, OfJob, FreshPart
<1>4. FilesFit'
  BY <1>2 DEF MergeInv, FilesFit, OfJob, FreshPart, Active
<1>5. PartsFit'
  <2>1. parts = << >> /\ merge = "reading" /\ submitted # None
    BY <1>2 DEF MergeInv, DistInv, Schedule
  <2>2. submitted.chunks \in Seq(Chunk)
    BY <2>1 DEF MergeInv, DistInv, DistTypeOK
  <2>3. Len(parts) <= Len(submitted.chunks) /\ DOMAIN parts = {}
    BY <2>1, <2>2
  <2> QED BY <1>2, <2>1, <2>3 DEF PartsFit
<1> QED BY <1>1, <1>3, <1>4, <1>5 DEF MergeInv

LEMMA ReadPartialMergeInv ==
  ASSUME MergeInv, ReadPartial
  PROVE  MergeInv'
<1> DEFINE n == Len(parts) + 1
<1>1. DistInv'
  BY ReadPartialDistInv DEF MergeInv
<1>2. /\ version' = version /\ artifact' = artifact /\ submitted' = submitted
      /\ jobBegun' = jobBegun /\ wanted' = wanted /\ process' = process /\ partial' = partial
  BY DEF ReadPartial, vars, disk, tasks
<1>3. /\ job = "merging" /\ merge = "reading" /\ n \in Slots /\ n \in returned
      /\ submitted # None /\ Len(submitted.chunks) \in Nat
  BY NextPart DEF ReadPartial, MergeInv
<1>4. \/ job' = "failed"
      \/ /\ artifact[n] \notin Torn /\ job' = job
         /\ parts' = Append(parts, artifact[n])
         /\ merge' = IF n = Len(submitted.chunks) THEN "read" ELSE "reading"
  BY DEF ReadPartial
<1>5. Began' /\ ProcessesFit'
  BY <1>2 DEF MergeInv, Began, ProcessesFit, OfJob, FreshPart
<1>6. FilesFit'
  BY <1>2, <1>3, <1>4 DEF MergeInv, FilesFit, OfJob, FreshPart, Active
<1>7. artifact[n] \notin Torn => FreshPart(n, artifact[n])
  <2>1. wanted[n] # 0 /\ process[n][wanted[n]] = "written"
    BY <1>3 DEF MergeInv, DistInv, Schedule, Active
  <2> QED BY <1>3, <2>1 DEF MergeInv, FilesFit, Active
<1>8. /\ parts \in Seq(PartialOutput) /\ Len(parts) \in Nat
      /\ Len(parts) < Len(submitted.chunks)
      /\ \A i \in DOMAIN parts : FreshPart(i, parts[i])
  BY <1>3 DEF MergeInv, DistInv, DistTypeOK, Schedule, PartsFit
<1>9. PartsFit'
  <2>1. CASE job' = "failed"
    BY <2>1 DEF PartsFit
  <2>2. CASE job' = job /\ artifact[n] \notin Torn
    <3>1. parts' = Append(parts, artifact[n])
          /\ merge' = IF n = Len(submitted.chunks) THEN "read" ELSE "reading"
      BY <1>3, <1>4, <2>2
    <3>2. /\ Len(parts') = n
          /\ \A i \in DOMAIN parts' : i \in DOMAIN parts \/ i = n
          /\ \A i \in DOMAIN parts : parts'[i] = parts[i]
          /\ parts'[n] = artifact[n]
      BY <1>8, <3>1
    <3>3. Len(parts') <= Len(submitted.chunks)
      BY <1>3, <1>8, <3>2
    <3>4. \A i \in DOMAIN parts' : FreshPart(i, parts'[i])
      BY <1>7, <1>8, <2>2, <3>2
    <3> QED BY <1>2, <1>3, <2>2, <3>1, <3>2, <3>3, <3>4 DEF PartsFit, FreshPart, OfJob
  <2> QED BY <1>3, <1>4, <2>1, <2>2
<1> QED BY <1>1, <1>5, <1>6, <1>9 DEF MergeInv

LEMMA MergeLostMergeInv ==
  ASSUME MergeInv, MergeLost
  PROVE  MergeInv'
<1>1. DistInv'
  BY MergeLostDistInv DEF MergeInv
<1>2. /\ version' = version /\ artifact' = artifact /\ submitted' = submitted
      /\ jobBegun' = jobBegun /\ wanted' = wanted /\ process' = process
      /\ partial' = partial /\ job' = job
      /\ job = "merging" /\ merge' = "reading" /\ parts' = << >>
  BY DEF MergeLost, vars, disk, tasks
<1>3. Began' /\ ProcessesFit' /\ FilesFit'
  BY <1>2 DEF MergeInv, Began, ProcessesFit, FilesFit, OfJob, FreshPart
<1>4. PartsFit'
  <2>1. submitted # None
    BY <1>2 DEF MergeInv, DistInv, Schedule
  <2>2. submitted.chunks \in Seq(Chunk)
    BY <2>1 DEF MergeInv, DistInv, DistTypeOK
  <2>3. Len(parts') <= Len(submitted.chunks) /\ DOMAIN parts' = {}
    BY <1>2, <2>2
  <2> QED BY <1>2, <2>3 DEF PartsFit
<1> QED BY <1>1, <1>3, <1>4 DEF MergeInv

LEMMA MergeWriteMergeInv ==
  ASSUME MergeInv, OpenMerged \/ WriteMerged \/ OpenSkim \/ WriteSkim
  PROVE  MergeInv'
<1>1. DistInv'
  BY MergeWriteDistInv DEF MergeInv
<1>2. PICK from \in {"read", "merged", "written", "skimming"},
           to \in {"merged", "written", "skimming"} : MergeStep(from, to)
  BY DEF OpenMerged, WriteMerged, OpenSkim, WriteSkim
<1>3. /\ job = "merging" /\ merge = from /\ merge' = to /\ version' = version
      /\ submitted' = submitted /\ jobBegun' = jobBegun /\ wanted' = wanted
      /\ process' = process /\ partial' = partial /\ parts' = parts
  BY <1>2 DEF MergeStep, tasks
<1>4. job' \in {"merging", "ok"}
  BY <1>3 DEF OpenMerged, WriteMerged, OpenSkim, WriteSkim
<1>5. \A n \in Slots : artifact'[n] = artifact[n]
  BY NodeNumbers DEF OpenMerged, WriteMerged, OpenSkim, WriteSkim, MergeInv, DistInv, TypeInv, TypeOK
<1>6. Began' /\ ProcessesFit'
  BY <1>3 DEF MergeInv, Began, ProcessesFit, OfJob, FreshPart
<1>7. FilesFit'
  BY <1>3, <1>5 DEF MergeInv, FilesFit, OfJob, FreshPart, Active
<1>8. PartsFit'
  BY <1>3, <1>4 DEF MergeInv, PartsFit, OfJob, FreshPart
<1> QED BY <1>1, <1>6, <1>7, <1>8 DEF MergeInv
-----------------------------------------------------------------------------
LEMMA NextMerge ==
  MergeInv /\ Alone /\ [DistNext]_distVars /\ [Submit => Drained]_distVars => MergeInv'
<1> SUFFICES ASSUME MergeInv, Alone, [DistNext]_distVars, [Submit => Drained]_distVars
             PROVE  MergeInv'
  OBVIOUS
<1>1. CASE UNCHANGED distVars
  <2>1. DistInv'
    BY <1>1, NextDist DEF MergeInv
  <2>2. version' = version /\ artifact' = artifact
    BY <1>1 DEF distVars, vars, disk
  <2> QED BY <1>1, <2>1, <2>2, QuietMergeInv DEF distVars
<1>2. ASSUME NEW n \in Slots, ChunkStep(n) PROVE MergeInv'
  BY <1>2, StartChunkMergeInv, ChunkEndsMergeInv, ComputeChunkMergeInv, WriteMergeInv
  DEF ChunkStep
<1>3. CASE StartMerge \/ ReadPartial \/ MergeLost
  BY <1>3, StartMergeMergeInv, ReadPartialMergeInv, MergeLostMergeInv
<1>4. CASE OpenMerged \/ WriteMerged \/ OpenSkim \/ WriteSkim
  BY <1>4, MergeWriteMergeInv
<1>5. ASSUME NEW r \in Runners, Export(r) \/ \E m \in Modes : RunLocal(r, m)
      PROVE  MergeInv'
  <2>1. DistInv'
    BY <1>5, ExportDistInv, RunLocalDistInv DEF MergeInv
  <2>2. UNCHANGED <<version, artifact, submitted, job, jobBegun, tasks, parts, merge>>
    BY <1>5 DEF Export, RunLocal, files, tasks
  <2> QED BY <2>1, <2>2, QuietMergeInv
<1>6. CASE Submit
  <2>1. Drained \/ UNCHANGED distVars
    BY <1>6
  <2> QED BY <1>1, <1>6, <2>1, SubmitMergeInv
<1> QED BY <1>1, <1>2, <1>3, <1>4, <1>5, <1>6, NextMergeInv DEF DistNext

\* A job that ends well has merged each chunk of its graph once and in order, by the
\* graph's kernel and from content no older than the job, however many workers are lost
\* and carry on, if no local run uses the cache meanwhile and every process of an
\* earlier job has ended when it starts (run_graph, merge_partial_files).
THEOREM MergeIsFresh ==
  DistSpec /\ []Alone /\ [][Submit => Drained]_distVars => []MergedIsFresh
<1>1. MergeInv => MergedIsFresh
  <2> SUFFICES ASSUME MergeInv, job = "ok"
               PROVE  /\ [i \in DOMAIN parts |-> parts[i].chunk] = submitted.chunks
                      /\ \A i \in DOMAIN parts :
                           /\ parts[i].kernel = KernelOf[submitted.plan]
                           /\ parts[i].version >= jobBegun[parts[i].chunk.source]
    BY DEF MergedIsFresh
  <2>1. submitted # None
    BY DEF MergeInv, DistInv, Schedule
  <2>2. submitted.chunks \in Seq(Chunk) /\ parts \in Seq(PartialOutput)
    BY <2>1 DEF MergeInv, DistInv, DistTypeOK
  <2>3. Len(parts) = Len(submitted.chunks) /\ \A i \in DOMAIN parts : FreshPart(i, parts[i])
    BY DEF MergeInv, PartsFit
  <2>4. DOMAIN submitted.chunks = DOMAIN parts
    BY <2>2, <2>3
  <2>5. submitted.chunks = [i \in DOMAIN parts |-> submitted.chunks[i]]
    BY <2>2, <2>4
  <2> QED BY <2>3, <2>5 DEF FreshPart, OfJob
<1> QED BY InitMerge, NextMerge, <1>1, PTL DEF DistSpec
=============================================================================
