--------------------------- MODULE DistributedRun ---------------------------
(***************************************************************************)
(* Running an exported PortableGraph with the scheduler adapters of        *)
(* integrations/ (dask_runner.py, ray_runner.py).  The scheduler starts    *)
(* one `nano-workflow run-chunk` process per map node and, when all have   *)
(* returned, one `nano-workflow merge` process that reads the partial      *)
(* outputs back from their files.  Both write the very files of the local  *)
(* executor's cache, but neither reads nor writes a manifest.              *)
(*                                                                         *)
(* Ray starts a task again when its worker is lost; the run-chunk process  *)
(* of the lost worker is killed with it or carries on unobserved.          *)
(***************************************************************************)
EXTENDS WorkflowExecutor

CONSTANTS
  MaxJobs,     \* bound: graphs submitted
  MaxAttempts  \* bound: processes started for one map node, over all jobs

ASSUME DistributedAssumption == MaxJobs \in Nat /\ MaxAttempts \in Nat \ {0}

VARIABLES
  graph,     \* the exported graph: [plan, chunks], or None
  submitted, \* the graph of the present job, as run_graph read it
  job,       \* "none", "running", "merging", "ok" or "failed"
  jobs,      \* jobs submitted
  jobBegun,  \* versions of the sources when the job was submitted
  wanted,    \* map node -> the attempt whose return the scheduler waits for
  attempts,  \* map node -> attempts started
  process,   \* map node -> attempt -> state of its run-chunk process
  partial,   \* map node -> attempt -> the partial output it holds
  returned,  \* map nodes whose task has returned
  parts,     \* partial outputs the merge has read
  merge      \* state of the merge process

files == <<artifact, manifest>>
runner == <<local, runs, crashes>>
tasks == <<wanted, attempts, process, partial>>
distVars == <<vars, graph, submitted, job, jobs, jobBegun, tasks, returned, parts, merge>>

Attempts == 1 .. MaxAttempts
Alive == {"running", "computed", "opened"}

DistTypeOK ==
  /\ \A t \in {graph, submitted} :
       t = None \/ (t.plan \in Plans /\ t.chunks \in Seq(Chunk))
  /\ job \in {"none", "running", "merging", "ok", "failed"}
  /\ jobs \in 0 .. MaxJobs
  /\ jobBegun \in [Sources -> 0 .. MaxVersion]
  /\ wanted \in [Slots -> 0 .. MaxAttempts]
  /\ attempts \in [Slots -> 0 .. MaxAttempts]
  /\ process \in [Slots -> [Attempts -> Alive \cup {"off", "written", "dead"}]]
  /\ partial \in [Slots -> [Attempts -> PartialOutput \cup {None}]]
  /\ returned \subseteq Slots
  /\ parts \in Seq(PartialOutput)
  /\ merge \in {"reading", "read", "merged", "written", "skimming"}
  /\ artifact[ReduceNode] \in Torn \cup {Missing} \cup MergedOutput

DistInit ==
  /\ Init
  /\ graph = None
  /\ submitted = None
  /\ job = "none"
  /\ jobs = 0
  /\ jobBegun = version
  /\ wanted = [n \in Slots |-> 0]
  /\ attempts = [n \in Slots |-> 0]
  /\ process = [n \in Slots |-> [a \in Attempts |-> "off"]]
  /\ partial = [n \in Slots |-> [a \in Attempts |-> None]]
  /\ returned = {}
  /\ parts = << >>
  /\ merge = "reading"

\* `nano-workflow export`: plan as for a run, then write the graph instead.
Export(r) ==
  /\ phase[r] = "planning"
  /\ planned[r] = Len(Inputs[plan[r]])
  /\ graph' = [plan |-> plan[r], chunks |-> maps[r]]
  /\ phase' = [phase EXCEPT ![r] = "idle"]
  /\ UNCHANGED <<version, files, plan, mode, planned, maps, task, key, output, ran, begun,
                 runs, crashes, submitted, job, jobs, jobBegun, tasks, returned, parts,
                 merge>>

\* `nano-workflow run-local`: a local run of the graph's map nodes as they were
\* planned when it was exported.
RunLocal(r, m) ==
  /\ graph # None
  /\ phase[r] \in {"idle", "ok", "failed"}
  /\ runs < MaxRuns
  /\ phase' = [phase EXCEPT ![r] = "running"]
  /\ plan' = [plan EXCEPT ![r] = graph.plan]
  /\ mode' = [mode EXCEPT ![r] = m]
  /\ planned' = [planned EXCEPT ![r] = Len(Inputs[graph.plan])]
  /\ maps' = [maps EXCEPT ![r] = graph.chunks]
  /\ task' = [task EXCEPT ![r] = [n \in Nodes |-> "todo"]]
  /\ key' = [key EXCEPT ![r] = [n \in Nodes |-> None]]
  /\ output' = [output EXCEPT ![r] = [n \in Nodes |-> None]]
  /\ ran' = [ran EXCEPT ![r] = {}]
  /\ begun' = [begun EXCEPT ![r] = version]
  /\ runs' = runs + 1
  /\ UNCHANGED <<version, files, crashes, graph, submitted, job, jobs, jobBegun, tasks,
                 returned, parts, merge>>

\* run_graph: the tasks are handed to the scheduler; processes of an earlier
\* job that are still at work are not waited for.
Submit ==
  /\ graph # None
  /\ job \in {"none", "ok", "failed"}
  /\ jobs < MaxJobs
  /\ submitted' = graph
  /\ job' = "running"
  /\ jobs' = jobs + 1
  /\ jobBegun' = version
  /\ wanted' = [n \in Slots |-> 0]
  /\ returned' = {}
  /\ parts' = << >>
  /\ merge' = "reading"
  /\ UNCHANGED <<vars, graph, attempts, process, partial>>
-----------------------------------------------------------------------------
(* Map tasks: run-chunk.                                                   *)

StartChunk(n) ==
  /\ job = "running"
  /\ n \in DOMAIN submitted.chunks \ returned
  /\ wanted[n] = 0
  /\ attempts[n] < MaxAttempts
  /\ attempts' = [attempts EXCEPT ![n] = @ + 1]
  /\ wanted' = [wanted EXCEPT ![n] = attempts[n] + 1]
  /\ process' = [process EXCEPT ![n][attempts[n] + 1] = "running"]
  /\ partial' = [partial EXCEPT ![n][attempts[n] + 1] =
       [chunk |-> submitted.chunks[n], version |-> 0, kernel |-> KernelOf[submitted.plan]]]
  /\ UNCHANGED <<vars, graph, submitted, job, jobs, jobBegun, returned, parts, merge>>

\* A step of one process; nothing of the scheduler changes.
ProcessStep(n, a, from, to) ==
  /\ process[n][a] = from
  /\ process' = [process EXCEPT ![n][a] = to]
  /\ UNCHANGED <<version, runner, manifest, graph, submitted, job, jobs, jobBegun, wanted,
                 attempts, returned, parts, merge>>

\* run_chunk: the rows are computed from the source as it is now.
ComputeChunk(n, a) ==
  /\ ProcessStep(n, a, "running", "computed")
  /\ partial' = [partial EXCEPT ![n][a].version = version[partial[n][a].chunk.source]]
  /\ UNCHANGED artifact

\* Mutant: an output file that is there is kept.
OpenPartial_KeepExisting(n, a) ==
  /\ ProcessStep(n, a, "computed", IF artifact[n] = Missing THEN "opened" ELSE "written")
  /\ UNCHANGED <<artifact, partial>>

\* write_partial_output: truncate, then write.
OpenPartial(n, a) ==
  /\ ProcessStep(n, a, "computed", "opened")
  /\ artifact' = [artifact EXCEPT ![n] = Empty]
  /\ UNCHANGED partial

WritePartial(n, a) ==
  /\ ProcessStep(n, a, "opened", "written")
  /\ \E content \in Overwritten(artifact[n], partial[n][a]) :
       artifact' = [artifact EXCEPT ![n] = content]
  /\ UNCHANGED partial

\* Mutant: the task returns as soon as its process has been started.
ChunkReturns_Early(n) ==
  /\ job = "running"
  /\ wanted[n] # 0
  /\ process[n][wanted[n]] \in Alive \cup {"written"}
  /\ returned' = returned \cup {n}
  /\ UNCHANGED <<vars, graph, submitted, job, jobs, jobBegun, tasks, parts, merge>>

\* subprocess.run returns with exit code 0.
ChunkReturns(n) ==
  /\ job = "running"
  /\ wanted[n] # 0
  /\ process[n][wanted[n]] = "written"
  /\ returned' = returned \cup {n}
  /\ UNCHANGED <<vars, graph, submitted, job, jobs, jobBegun, tasks, parts, merge>>

\* run-chunk exits with an error: check=True raises, and the job with it.
ChunkFails(n) ==
  /\ job = "running"
  /\ wanted[n] # 0
  /\ process[n][wanted[n]] = "running"
  /\ process' = [process EXCEPT ![n][wanted[n]] = "dead"]
  /\ job' = "failed"
  /\ UNCHANGED <<vars, graph, submitted, jobs, jobBegun, wanted, attempts, partial, returned,
                 parts, merge>>

\* The worker is lost before the task returned: its process dies or carries
\* on, and the scheduler will start another.
WorkerLost(n) ==
  /\ job = "running"
  /\ n \notin returned
  /\ wanted[n] \in 1 .. MaxAttempts - 1
  /\ process[n][wanted[n]] # "dead"
  /\ \E left \in {process[n][wanted[n]], "dead"} :
       process' = [process EXCEPT ![n][wanted[n]] = left]
  /\ wanted' = [wanted EXCEPT ![n] = 0]
  /\ UNCHANGED <<vars, graph, submitted, job, jobs, jobBegun, attempts, partial, returned,
                 parts, merge>>
-----------------------------------------------------------------------------
(* The merge task.                                                         *)

\* It depends on every map task.
StartMerge ==
  /\ job = "running"
  /\ returned = DOMAIN submitted.chunks
  /\ job' = IF submitted.chunks = << >> THEN "failed" ELSE "merging"
  /\ UNCHANGED <<vars, graph, submitted, jobs, jobBegun, tasks, returned, parts, merge>>

\* merge_partial_files reads the files in the order of the graph's nodes.
ReadPartial ==
  LET n == Len(parts) + 1
  IN /\ job = "merging"
     /\ merge = "reading"
     /\ IF artifact[n] \in Torn \cup {Missing}
        THEN job' = "failed" /\ UNCHANGED <<parts, merge>>
        ELSE /\ parts' = Append(parts, artifact[n])
             /\ merge' = IF n = Len(submitted.chunks) THEN "read" ELSE "reading"
             /\ UNCHANGED job
     /\ UNCHANGED <<vars, graph, submitted, jobs, jobBegun, tasks, returned>>

MergeStep(from, to) ==
  /\ job = "merging"
  /\ merge = from
  /\ merge' = to
  /\ UNCHANGED <<version, runner, manifest, graph, submitted, jobs, jobBegun, tasks, returned,
                 parts>>

OpenMerged ==
  /\ MergeStep("read", "merged")
  /\ artifact' = [artifact EXCEPT ![ReduceNode] = Empty]
  /\ UNCHANGED job

WriteMerged ==
  /\ MergeStep("merged", "written")
  /\ \E content \in Overwritten(artifact[ReduceNode], [parts |-> parts]) :
       artifact' = [artifact EXCEPT ![ReduceNode] = content]
  /\ UNCHANGED job

OpenSkim ==
  /\ MergeStep("written", "skimming")
  /\ artifact' = [artifact EXCEPT ![SinkNode] = Empty]
  /\ UNCHANGED job

WriteSkim ==
  /\ MergeStep("skimming", "skimming")
  /\ \E content \in Overwritten(artifact[SinkNode], [parts |-> parts]) :
       artifact' = [artifact EXCEPT ![SinkNode] = content]
  /\ job' = "ok"

\* The worker of the merge is lost: the merge task is run again from its start.
MergeLost ==
  /\ job = "merging"
  /\ merge' = "reading"
  /\ parts' = << >>
  /\ UNCHANGED <<vars, graph, submitted, job, jobs, jobBegun, tasks, returned>>
-----------------------------------------------------------------------------
ChunkStep(n) ==
  \/ StartChunk(n) \/ ChunkReturns(n) \/ ChunkFails(n) \/ WorkerLost(n)
  \/ \E a \in Attempts : ComputeChunk(n, a) \/ OpenPartial(n, a) \/ WritePartial(n, a)

DistNext ==
  \/ Next /\ UNCHANGED <<graph, submitted, job, jobs, jobBegun, tasks, returned, parts, merge>>
  \/ \E r \in Runners : Export(r)
  \/ \E r \in Runners, m \in Modes : RunLocal(r, m)
  \/ Submit
  \/ \E n \in Slots : ChunkStep(n)
  \/ StartMerge \/ ReadPartial
  \/ OpenMerged \/ WriteMerged \/ OpenSkim \/ WriteSkim \/ MergeLost

DistSpec == DistInit /\ [][DistNext]_distVars
-----------------------------------------------------------------------------
\* A job that ends well has merged each chunk of its graph once and in graph
\* order, by the graph's kernel and from content no older than the job, though
\* the partial outputs travel through files that lost workers may still be
\* writing: no merge on a partial set, no stale output (docs/orchestrator.md:18-19).
MergedIsFresh ==
  job = "ok" =>
    /\ [i \in DOMAIN parts |-> parts[i].chunk] = submitted.chunks
    /\ \A i \in DOMAIN parts :
         /\ parts[i].kernel = KernelOf[submitted.plan]
         /\ parts[i].version >= jobBegun[parts[i].chunk.source]

\* merge_partial_files never reads a file that is being written by the attempt it
\* waited for, nor before that attempt wrote it.
MergeAfterMaps ==
  job = "merging" =>
    \A n \in DOMAIN submitted.chunks : process[n][wanted[n]] = "written"
=============================================================================
