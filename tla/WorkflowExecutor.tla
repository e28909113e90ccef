-------------------------- MODULE WorkflowExecutor --------------------------
(***************************************************************************)
(* The local workflow executor of crates/nano-workflow: planning the DAG   *)
(* (planner.rs), running its map, reduce and sink nodes serially or on the *)
(* rayon pool (executor.rs), and the on-disk cache of artifacts with a     *)
(* manifest beside each (provenance.rs, tasks.rs).                         *)
(*                                                                         *)
(* A runner is one process executing `Executor::run` on a plan it has just *)
(* planned.  All runners use one cache directory and one output path, so   *)
(* they share the files `artifact` and `manifest`; several plans (other    *)
(* inputs, chunk sizes or kernels) may use them one after another.         *)
(*                                                                         *)
(* Nodes are numbered: map slot n is the file pair map-{n-1}.json and      *)
(* map-{n-1}.manifest.json, then come the reduce and the sink node.        *)
(* Rows are abstracted to what they were computed from: a map's output is  *)
(* the chunk, the content version read and the kernel that ran; a merged   *)
(* output is the sequence of the map outputs it concatenates.  The 64-bit  *)
(* hash of a key is taken to be injective, and a local file's stamp        *)
(* (length and mtime) to change with every edit of its content.            *)
(***************************************************************************)
EXTENDS Integers, Sequences, FiniteSets

CONSTANTS
  Runners,     \* processes that may execute a plan
  Plans,       \* the plans somebody may run over this cache directory
  Modes,       \* the execution modes in use, a subset of {"serial", "parallel"}
  Sources,     \* input files and URLs
  Remote,      \* those of Sources that are http(s) URLs
  Kernels,     \* per-event kernels
  Inputs,      \* [Plans -> Seq(Sources)]: a plan's inputs, in order
  ChunkSize,   \* [Plans -> Nat]: the chunk size asked for
  KernelOf,    \* [Plans -> Kernels]: the kernel a plan is bound to
  Events,      \* [Sources -> [0 .. MaxVersion -> Nat]]: events in each version
  MaxVersion,  \* bound: edits of one source
  MaxSlots,    \* bound: map nodes of a plan (never reached by the plans used)
  MaxRuns,     \* bound: runs started altogether
  MaxCrashes,  \* bound: runs killed, or stopped by a failed write
  Missing,     \* file state: there is no such file
  Empty,       \* file state: created or truncated, nothing written yet
  Garbled,     \* file state: bytes of two writers, not the JSON of either
  None         \* no value computed yet

Slots == 1 .. MaxSlots
ReduceNode == MaxSlots + 1
SinkNode == MaxSlots + 2
Nodes == 1 .. MaxSlots + 2

Chunk == [source : Sources, start : Nat, end : Nat]
MapKey == [chunk : Chunk, stamp : Nat]
ReduceKey == [inputs : Seq(MapKey)]
PartialOutput == [chunk : Chunk, version : Nat, kernel : Kernels]
MergedOutput == [parts : Seq(PartialOutput)]

Key(n) == IF n \in Slots THEN MapKey ELSE ReduceKey
Output(n) == IF n \in Slots THEN PartialOutput ELSE MergedOutput
Torn == {Empty, Garbled}

\* The sentinels differ from each other and from what a file may hold.
ASSUME SentinelAssumption ==
  /\ Missing # Empty /\ Missing # Garbled /\ Missing # None
  /\ Empty # Garbled /\ Empty # None /\ Garbled # None
  /\ \A v \in {Missing, Empty, Garbled, None} :
       /\ v \notin MapKey /\ v \notin ReduceKey
       /\ v \notin PartialOutput /\ v \notin MergedOutput

ASSUME ParameterAssumption ==
  /\ Modes \subseteq {"serial", "parallel"}
  /\ Remote \subseteq Sources
  /\ Inputs \in [Plans -> Seq(Sources)]
  /\ ChunkSize \in [Plans -> Nat]
  /\ KernelOf \in [Plans -> Kernels]
  /\ MaxVersion \in Nat /\ MaxSlots \in Nat /\ MaxRuns \in Nat
  /\ MaxCrashes \in Nat
  /\ Events \in [Sources -> [0 .. MaxVersion -> Nat]]

VARIABLES
  version,   \* content version of each source
  artifact,  \* node -> content of its output file
  manifest,  \* node -> key recorded in the manifest beside it
  phase,     \* runner -> "idle", "planning", "running", "ok" or "failed"
  plan,      \* runner -> the plan it runs
  mode,      \* runner -> its ExecutionMode
  planned,   \* runner -> how many of the inputs the planner has gone through
  maps,      \* runner -> the chunks of the map nodes planned so far
  task,      \* runner -> node -> how far the node is
  key,       \* runner -> node -> the key it computed
  output,    \* runner -> node -> the output it computed or loaded
  ran,       \* runner -> nodes executed, not skipped (RunStats)
  begun,     \* runner -> versions of the sources when the run began
  runs,      \* runs started so far
  crashes    \* runs killed so far

disk == <<artifact, manifest>>
local == <<phase, plan, mode, planned, maps, task, key, output, ran, begun>>
vars == <<version, disk, local, runs, crashes>>

InProgress == {"keyed", "hit", "miss", "computed", "opened", "written", "signing"}
TaskState == {"todo", "done", "error"} \cup InProgress

TypeOK ==
  /\ version \in [Sources -> 0 .. MaxVersion]
  /\ artifact \in [Nodes -> Torn \cup {Missing} \cup PartialOutput \cup MergedOutput]
  /\ \A n \in Nodes : artifact[n] \in Torn \cup {Missing} \cup Output(n)
  /\ manifest \in [Nodes -> Torn \cup {Missing} \cup MapKey \cup ReduceKey]
  /\ \A n \in Nodes : manifest[n] \in Torn \cup {Missing} \cup Key(n)
  /\ phase \in [Runners -> {"idle", "planning", "running", "ok", "failed"}]
  /\ plan \in [Runners -> Plans \cup {None}]
  /\ mode \in [Runners -> Modes \cup {"none"}]
  /\ planned \in [Runners -> Nat]
  /\ maps \in [Runners -> Seq(Chunk)]
  /\ task \in [Runners -> [Nodes -> TaskState]]
  /\ key \in [Runners -> [Nodes -> MapKey \cup ReduceKey \cup {None}]]
  /\ \A r \in Runners, n \in Nodes : key[r][n] \in Key(n) \cup {None}
  /\ output \in [Runners -> [Nodes -> PartialOutput \cup MergedOutput \cup {None}]]
  /\ \A r \in Runners, n \in Nodes : output[r][n] \in Output(n) \cup {None}
  /\ ran \in [Runners -> SUBSET Nodes]
  /\ begun \in [Runners -> [Sources -> 0 .. MaxVersion]]
  /\ runs \in 0 .. MaxRuns
  /\ crashes \in 0 .. MaxCrashes
-----------------------------------------------------------------------------
Init ==
  /\ version = [s \in Sources |-> 0]
  /\ artifact = [n \in Nodes |-> Missing]
  /\ manifest = [n \in Nodes |-> Missing]
  /\ phase = [r \in Runners |-> "idle"]
  /\ plan = [r \in Runners |-> None]
  /\ mode = [r \in Runners |-> "none"]
  /\ planned = [r \in Runners |-> 0]
  /\ maps = [r \in Runners |-> << >>]
  /\ task = [r \in Runners |-> [n \in Nodes |-> "todo"]]
  /\ key = [r \in Runners |-> [n \in Nodes |-> None]]
  /\ output = [r \in Runners |-> [n \in Nodes |-> None]]
  /\ ran = [r \in Runners |-> {}]
  /\ begun = [r \in Runners |-> version]
  /\ runs = 0
  /\ crashes = 0

\* Somebody rewrites an input between or during runs.
Edit(s) ==
  /\ version[s] < MaxVersion
  /\ version' = [version EXCEPT ![s] = @ + 1]
  /\ UNCHANGED <<disk, local, runs, crashes>>
-----------------------------------------------------------------------------
(* Planning: the map nodes of one input are appended to those before it.   *)

\* Mutant: the first chunk starts before the source does.
ChunksOf_StartsEarly(s, n, size) ==
  [i \in 1 .. (n + size - 1) \div size |->
    [source |-> s, start |-> (i - 2) * size, end |-> i * size]]

\* The chunks of a source with n events: full chunks and a shorter last one.
ChunksOf(s, n, size) ==
  [i \in 1 .. (n + size - 1) \div size |->
    [source |-> s,
     start |-> (i - 1) * size,
     end |-> IF i * size <= n THEN i * size ELSE n]]

\* chunk_size.max(1)
EffectiveSize(p) == IF ChunkSize[p] = 0 THEN 1 ELSE ChunkSize[p]

\* A runner begins a run with a fresh plan: nothing survives in memory.
Begin(r, p, m) ==
  /\ phase[r] \in {"idle", "ok", "failed"}
  /\ runs < MaxRuns
  /\ phase' = [phase EXCEPT ![r] = "planning"]
  /\ plan' = [plan EXCEPT ![r] = p]
  /\ mode' = [mode EXCEPT ![r] = m]
  /\ planned' = [planned EXCEPT ![r] = 0]
  /\ maps' = [maps EXCEPT ![r] = << >>]
  /\ task' = [task EXCEPT ![r] = [n \in Nodes |-> "todo"]]
  /\ key' = [key EXCEPT ![r] = [n \in Nodes |-> None]]
  /\ output' = [output EXCEPT ![r] = [n \in Nodes |-> None]]
  /\ ran' = [ran EXCEPT ![r] = {}]
  /\ begun' = [begun EXCEPT ![r] = version]
  /\ runs' = runs + 1
  /\ UNCHANGED <<version, disk, crashes>>

\* The planner reads one input to its end and cuts it into map nodes.
PlanSource(r) ==
  LET p == plan[r]
      s == Inputs[p][planned[r] + 1]
      more == ChunksOf(s, Events[s][version[s]], EffectiveSize(p))
  IN /\ phase[r] = "planning"
     /\ planned[r] < Len(Inputs[p])
     /\ Len(maps[r]) + Len(more) <= MaxSlots
     /\ maps' = [maps EXCEPT ![r] = @ \o more]
     /\ planned' = [planned EXCEPT ![r] = @ + 1]
     /\ UNCHANGED <<version, disk, phase, plan, mode, task, key, output, ran,
                    begun, runs, crashes>>

\* The plan is complete and handed to the executor.
Execute(r) ==
  /\ phase[r] = "planning"
  /\ planned[r] = Len(Inputs[plan[r]])
  /\ phase' = [phase EXCEPT ![r] = "running"]
  /\ UNCHANGED <<version, disk, plan, mode, planned, maps, task, key, output,
                 ran, begun, runs, crashes>>
-----------------------------------------------------------------------------
(* Running one node: key, manifest check, then load or compute and write.  *)

\* Mutant: the reduce waits for map nodes the plan does not have.
Ready_EverySlot(r, n) ==
  /\ phase[r] = "running"
  /\ \/ n \in DOMAIN maps[r]
     \/ n = ReduceNode /\ \A i \in Slots : task[r][i] = "done"
     \/ n = SinkNode /\ task[r][ReduceNode] = "done"

\* A map is next in a serial run when those before it are done, in a parallel
\* run at once; the reduce needs every map's MapDone, the sink the ReduceDone.
Ready(r, n) ==
  /\ phase[r] = "running"
  /\ \/ /\ n \in DOMAIN maps[r]
        /\ mode[r] = "serial" => \A i \in 1 .. n - 1 : task[r][i] = "done"
     \/ /\ n = ReduceNode
        /\ \A i \in DOMAIN maps[r] : task[r][i] = "done"
     \/ /\ n = SinkNode
        /\ task[r][ReduceNode] = "done"

\* Mutants: the key leaves out the file's length and mtime; it takes those of
\* the most recently edited input.
Stamp_Nothing(s) == 0
Stamp_Newest(s) ==
  CHOOSE v \in 0 .. MaxVersion :
    /\ \E t \in Sources : version[t] = v
    /\ \A t \in Sources : version[t] <= v

\* What the key of a source says of its content: nothing for a URL.
Stamp(s) == IF s \in Remote THEN 0 ELSE version[s]

\* Mutant: the time of the run is hashed into the key.
NodeKey_Timestamped(r, n) ==
  IF n \in Slots
  THEN [chunk |-> maps[r][n], stamp |-> runs]
  ELSE [inputs |-> [i \in DOMAIN maps[r] |-> key[r][i]]]

\* map_key; reduce_key hashes the map keys in order; sink_key hashes the
\* reduce key with the output path, which is the same for every run here.
NodeKey(r, n) ==
  IF n \in Slots
  THEN [chunk |-> maps[r][n], stamp |-> Stamp(maps[r][n].source)]
  ELSE [inputs |-> [i \in DOMAIN maps[r] |-> key[r][i]]]

Advance(r, n, from, to) ==
  /\ phase[r] = "running"
  /\ task[r][n] = from
  /\ task' = [task EXCEPT ![r][n] = to]

\* Nothing but the run's own node state changes, apart from the named parts.
SameRun == UNCHANGED <<version, phase, plan, mode, planned, maps, begun, runs, crashes>>

ComputeKey(r, n) ==
  /\ Ready(r, n)
  /\ Advance(r, n, "todo", "keyed")
  /\ key' = [key EXCEPT ![r][n] = NodeKey(r, n)]
  /\ SameRun /\ UNCHANGED <<disk, output, ran>>

\* manifest_matches: a manifest that does not parse is an error of the run.
CheckUnreadable(r, n) ==
  /\ manifest[n] \in Torn
  /\ Advance(r, n, "keyed", "error")
  /\ SameRun /\ UNCHANGED <<disk, key, output, ran>>

\* Mutants: any manifest will do; the sink looks only whether its file is there.
UpToDate_AnyManifest(r, n) == manifest[n] # Missing /\ artifact[n] # Missing
UpToDate_SinkExists(r, n) ==
  artifact[n] # Missing /\ (n = SinkNode \/ manifest[n] = key[r][n])

UpToDate(r, n) == manifest[n] = key[r][n] /\ artifact[n] # Missing

CheckHit(r, n) ==
  /\ manifest[n] \notin Torn
  /\ UpToDate(r, n)
  /\ Advance(r, n, "keyed", "hit")
  /\ SameRun /\ UNCHANGED <<disk, key, output, ran>>

CheckMiss(r, n) ==
  /\ manifest[n] \notin Torn
  /\ ~ UpToDate(r, n)
  /\ Advance(r, n, "keyed", "miss")
  /\ SameRun /\ UNCHANGED <<disk, key, output, ran>>

\* Mutant: an artifact that does not parse is taken for one without rows.
Load_TornIsNoRows(r, n) ==
  LET noRows == IF n \in Slots
                THEN [chunk |-> [key[r][n].chunk EXCEPT !.end = key[r][n].chunk.start],
                      version |-> 0, kernel |-> KernelOf[plan[r]]]
                ELSE [parts |-> << >>]
      cached == IF n = SinkNode THEN output[r][ReduceNode]
                ELSE IF artifact[n] \in Torn THEN noRows ELSE artifact[n]
  IN /\ Advance(r, n, "hit", "done")
     /\ output' = [output EXCEPT ![r][n] = cached]
     /\ SameRun /\ UNCHANGED <<disk, key, ran>>

\* A skipped map or reduce reads its artifact; a skipped sink reads nothing
\* and returns the reduce's output.
Load(r, n) ==
  LET cached == IF n = SinkNode THEN output[r][ReduceNode] ELSE artifact[n]
  IN /\ cached \notin Torn
     /\ Advance(r, n, "hit", "done")
     /\ output' = [output EXCEPT ![r][n] = cached]
     /\ SameRun /\ UNCHANGED <<disk, key, ran>>

LoadUnreadable(r, n) ==
  /\ n # SinkNode
  /\ artifact[n] \in Torn
  /\ Advance(r, n, "hit", "error")
  /\ SameRun /\ UNCHANGED <<disk, key, output, ran>>

\* What run_chunk_with_kernel, the merge and the sink produce.
Fresh(r, n) ==
  IF n \in Slots
  THEN [chunk |-> maps[r][n],
        version |-> version[maps[r][n].source],
        kernel |-> KernelOf[plan[r]]]
  ELSE IF n = ReduceNode
  THEN [parts |-> [i \in DOMAIN maps[r] |-> output[r][i]]]
  ELSE output[r][ReduceNode]

Compute(r, n) ==
  /\ Advance(r, n, "miss", "computed")
  /\ output' = [output EXCEPT ![r][n] = Fresh(r, n)]
  /\ SameRun /\ UNCHANGED <<disk, key, ran>>

\* The chunk cannot be read, or the kernel returns an error.
ComputeFails(r, n) ==
  /\ n \in Slots
  /\ Advance(r, n, "miss", "error")
  /\ SameRun /\ UNCHANGED <<disk, key, output, ran>>

\* Mutants: an artifact that is there is not written again; the manifest is
\* written before the artifact.
OpenArtifact_KeepExisting(r, n) ==
  /\ Advance(r, n, "computed", IF artifact[n] = Missing THEN "opened" ELSE "written")
  /\ SameRun /\ UNCHANGED <<disk, key, output, ran>>
OpenArtifact_ManifestFirst(r, n) ==
  /\ Advance(r, n, "computed", "opened")
  /\ manifest' = [manifest EXCEPT ![n] = key[r][n]]
  /\ SameRun /\ UNCHANGED <<artifact, key, output, ran>>

\* fs::write truncates the file first ...
OpenArtifact(r, n) ==
  /\ Advance(r, n, "computed", "opened")
  /\ artifact' = [artifact EXCEPT ![n] = Empty]
  /\ SameRun /\ UNCHANGED <<manifest, key, output, ran>>

\* What a file holds once `value` has been written over its present bytes: a
\* longer text that another writer put there meanwhile shows behind it.
Overwritten(present, value) ==
  IF present \in {Empty, value} THEN {value} ELSE {value, Garbled}

\* ... and then writes the bytes.
WriteArtifact(r, n) ==
  /\ Advance(r, n, "opened", "written")
  /\ \E content \in Overwritten(artifact[n], output[r][n]) :
       artifact' = [artifact EXCEPT ![n] = content]
  /\ SameRun /\ UNCHANGED <<manifest, key, output, ran>>

OpenManifest(r, n) ==
  /\ Advance(r, n, "written", "signing")
  /\ manifest' = [manifest EXCEPT ![n] = Empty]
  /\ SameRun /\ UNCHANGED <<artifact, key, output, ran>>

WriteManifest(r, n) ==
  /\ Advance(r, n, "signing", "done")
  /\ \E content \in Overwritten(manifest[n], key[r][n]) :
       manifest' = [manifest EXCEPT ![n] = content]
  /\ ran' = [ran EXCEPT ![r] = @ \cup {n}]
  /\ SameRun /\ UNCHANGED <<artifact, key, output>>
-----------------------------------------------------------------------------
(* The end of a run.                                                        *)

\* The report is returned once the sink is done.
Finish(r) ==
  /\ phase[r] = "running"
  /\ task[r][SinkNode] = "done"
  /\ phase' = [phase EXCEPT ![r] = "ok"]
  /\ UNCHANGED <<version, disk, plan, mode, planned, maps, task, key, output,
                 ran, begun, runs, crashes>>

\* An error is returned once no node is being run any more: a parallel run
\* lets the map nodes that have started come to their end.
Fail(r) ==
  /\ phase[r] = "running"
  /\ \E n \in Nodes : task[r][n] = "error"
  /\ \A n \in Nodes : task[r][n] \notin InProgress
  /\ phase' = [phase EXCEPT ![r] = "failed"]
  /\ UNCHANGED <<version, disk, plan, mode, planned, maps, task, key, output,
                 ran, begun, runs, crashes>>

\* The planner meets an input it cannot read.
PlanFails(r) ==
  /\ phase[r] = "planning"
  /\ planned[r] < Len(Inputs[plan[r]])
  /\ phase' = [phase EXCEPT ![r] = "failed"]
  /\ UNCHANGED <<version, disk, plan, mode, planned, maps, task, key, output,
                 ran, begun, runs, crashes>>

\* The process is killed, or a write fails half way: files stay as they are.
Crash(r) ==
  /\ phase[r] \in {"planning", "running"}
  /\ crashes < MaxCrashes
  /\ crashes' = crashes + 1
  /\ phase' = [phase EXCEPT ![r] = "failed"]
  /\ UNCHANGED <<version, disk, plan, mode, planned, maps, task, key, output,
                 ran, begun, runs>>
-----------------------------------------------------------------------------
NodeStep(r, n) ==
  \/ ComputeKey(r, n)
  \/ CheckUnreadable(r, n) \/ CheckHit(r, n) \/ CheckMiss(r, n)
  \/ Load(r, n) \/ LoadUnreadable(r, n)
  \/ Compute(r, n) \/ ComputeFails(r, n)
  \/ OpenArtifact(r, n) \/ WriteArtifact(r, n)
  \/ OpenManifest(r, n) \/ WriteManifest(r, n)

RunnerStep(r) ==
  \/ PlanSource(r) \/ Execute(r) \/ PlanFails(r)
  \/ \E n \in Nodes : NodeStep(r, n)
  \/ Finish(r) \/ Fail(r)

Next ==
  \/ \E s \in Sources : Edit(s)
  \/ \E r \in Runners, p \in Plans, m \in Modes : Begin(r, p, m)
  \/ \E r \in Runners : RunnerStep(r) \/ Crash(r)

Spec == Init /\ [][Next]_vars

\* A process that is not killed keeps running: the executor blocks on nothing
\* but its own file operations.
FairSpec == Spec /\ \A r \in Runners : WF_vars(RunnerStep(r))
-----------------------------------------------------------------------------
(* Properties.                                                             *)

\* A map's output is the one its key stands for: the same chunk, from content
\* no older than the stamp; a merged output, part by part.
DescribesMap(k, out) == out.chunk = k.chunk /\ out.version >= k.stamp
DescribesMerged(k, out) ==
  /\ DOMAIN out.parts = DOMAIN k.inputs
  /\ \A i \in DOMAIN k.inputs : DescribesMap(k.inputs[i], out.parts[i])
Describes(n, k, out) ==
  IF n \in Slots THEN DescribesMap(k, out) ELSE DescribesMerged(k, out)

BeingWritten(n) ==
  \E r \in Runners : task[r][n] \in {"opened", "written", "signing"}
                  /\ phase[r] = "running"

\* Provenance: a manifest tells the truth about the artifact beside it, for
\* every file no run is writing (run_map, run_reduce, run_sink write the
\* artifact first and its manifest after it).
CacheCoherent ==
  \A n \in Nodes :
    BeingWritten(n) \/ manifest[n] = Missing
    \/ /\ manifest[n] \notin Torn /\ artifact[n] \notin Torn \cup {Missing}
       /\ Describes(n, manifest[n], artifact[n])

\* A run that returns Ok reports each chunk of its plan once and in plan order,
\* computed by the plan's kernel from content no older than the run: a stale
\* output is never silently reused (docs/orchestrator.md:19), and the merge saw
\* every map (docs/orchestrator.md:18).
FreshResult ==
  \A r \in Runners : phase[r] = "ok" =>
    LET parts == output[r][SinkNode].parts
    IN /\ DOMAIN parts = DOMAIN maps[r]
       /\ \A i \in DOMAIN maps[r] :
            /\ parts[i].chunk = maps[r][i]
            /\ parts[i].kernel = KernelOf[plan[r]]
            /\ parts[i].version >= begun[r][maps[r][i].source]

\* When a run returns Ok the output file holds what the report says, whether
\* the sink wrote it in this run or skipped it (run_sink).
PublishedIsReported ==
  \A r \in Runners : phase[r] = "ok" => artifact[SinkNode] = output[r][SinkNode]

\* A run that is not killed ends, with a report or an error.
EveryRunEnds ==
  \A r \in Runners :
    phase[r] \in {"planning", "running"} ~> phase[r] \in {"ok", "failed"}
=============================================================================
