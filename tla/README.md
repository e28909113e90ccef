# A TLA+ model of nano.rust

nano.rust analyses NanoAOD files (CERN ROOT trees of collision events): it reads
columns in windows of entries, runs a per-event kernel over chunks of the inputs,
merges the results and writes a skim. The kernel may be written by hand, or generated
from an analysis spec, a document that is parsed, validated, repaired, certified and
compared before anything runs. This directory holds TLA+ modules for the parts of it
that keep state, TLC configurations that check them on small instances, and TLAPS
proofs. All paths below are under `src/`.

## 1. The system

| Component | State it keeps | Operations | Modelled |
|---|---|---|---|
| Workflow planner, executor, cache (`crates/nano-workflow`: `planner.rs`, `executor.rs`, `provenance.rs`, `tasks.rs`) | plan; per-node key, output, done or not; on disk `map-k.json`, `reduce.json`, the output file, and a manifest beside each | plan, run serial or parallel, run verified, check and write manifests | `WorkflowExecutor`, `WorkflowRerun`, `CachelessRun`, `WorkflowRefinement` |
| Portable graph, task units, adapters (`portable.rs`, `bin/`, `integrations/*.py`) | exported graph; the scheduler's tasks | export, run-local, run-chunk, merge, submit | `DistributedRun` |
| Event stream and column windows (`crates/nano-io/src/lib.rs`) | window held, row, next entry | `next`, `load_next_chunk`, `read_columns_window` | `EventStream`, `WindowReader` |
| Basket reader (`crates/nano-rootio/src/tree.rs`) | payload cache of one window; the parsed tree; the next chunk | scalar and jagged range reads, `ChunkedReader` | `WindowReader` (with cache), `RootReader`, `RootFile` |
| ROOT container, sources, HTTP ranges (`root_file.rs`, `parse.rs`) | none between fetches | open, ranged fetch with redirects, objects and references | `RootFile`, `RootReader` |
| ROOT writing and skims (`write.rs`) | none | write a tree, write histograms | `RootWriter` (trees) |
| Managed inference servers (`crates/nano-inference/src/managed.rs`) | child process or thread, its port, `running` flag | start, poll, serve, drop, stop | `ManagedServer` |
| Inference clients, tensors (`remote.rs`, `tensor.rs`) | none | one request and answer; shape checks | no |
| Event model (`crates/nano-core`) | columns; attachments behind an `RwLock` | validate, read, attach | validation, in `WindowReader` |
| Specs, KIR, interpreter, code generation, systematics (`crates/nano-spec`) | values, selected and derived objects, fills of one event | validate, lower, verify, interpret, emit | `AnalysisSpec`, `KirProgram`, `Kinematics`, `KirInterpreter`, `CodegenSupport`, `GeneratedKernel`, `SpecAgreement` |
| Spec documents, ADL (`lib.rs`, `adl.rs` of `crates/nano-spec`) | names and aliases of the text so far | parse, write | `ExprText`, `SurfaceSpec`, `AdlText`, `FrontEnd` |
| Core IR, certificate (`core.rs`, `certificate.rs`) | the arena of nodes being built | lower, verify, certify | `CoreIr`, `Certificate`, `FrontEnd` |
| Review and repair (`crates/nano-review`) | the text under repair, the round | suggest, apply, repair in at most five rounds, compare | `SpecRepair`, `FrontEnd` |
| MCP server, CLI, dashboard and TUI (`crates/nano-mcp`, `nano-cli`, `nano-ui`) | a process environment variable around a run | calls into the other crates | no |
| JIT kernels, producers, corrections, analysis, validation | none | per-event floating-point computation | no |

How they interact. The planner opens every input through the event stream and
cuts it into entry ranges; the executor gives each range to a map node, which
opens the input again and runs the kernel over `skip(start).take(end - start)` of
the stream; the stream asks the basket reader for one window of columns at a time;
the basket reader fetches byte ranges of a file or URL. Map outputs go to the
reduce and from there to the sink, and all three leave files in a cache directory
that later runs trust if the manifest beside them holds the key they would
compute. A scheduler may instead run the exported graph's nodes as separate
processes that meet only in those files. A kernel is hand-written, or comes from a
spec: `validate` checks the spec against the branches of a file, `lower_plan_to_kir`
turns it into statements, and either the interpreter runs these or the generator
emits Rust that does the same. On the way there a document is repaired round by
round, each from the errors of the text before; an accepted plan is certified, which
lowers it a second time; two specs are compared for a reviewer; and a spec is written
as ADL. Kernels may call an inference server,
which the predictor launches and stops itself.

What is hard about it: the cache outlives the process and its inputs, so every run
meets what earlier ones left, whole or in part; an artifact and its manifest are two
files written one after the other, each truncated before it is written; map nodes run
concurrently; lost workers and their retries write the same file; any fetch can fail,
and a failed window leaves the stream half way; the baskets of a jagged branch and
those of its counter are cut independently; a server can become ready just as its
launcher gives up; a file may be read while it is written; two back ends decide apart
what to read, keep, pair and fill; a text is repaired from errors found in an earlier
version of it; what one grammar writes, another reads. `PROJECT.json` lists these
hazards at their lines with the properties that watch each.

What makes each part correct: a run reports what a run without a cache could have
reported (executor); a rerun recomputes what changed and nothing else
(provenance); a merge sees the output of every map of its own job (task units); a
chunk sees exactly its events, and each event its own values (stream, reader); a
predictor talks to the server it launched and leaves none behind (servers); what the
writer accepts, the reader reads back, and never half of it (ROOT files); both back
ends of a spec return the same row and fills (specs); what a text says is what is
accepted, written and certified, and an edit shows wherever a review or a certificate
looks (front end).

## 2. The modules

**`WorkflowExecutor`** (core). A runner is one process that plans and then runs:
`Begin`, `PlanSource` per input, `Execute`, then for every node `ComputeKey`
(`map_key`, `reduce_key`, `sink_key`), `CheckHit`/`CheckMiss`/`CheckUnreadable`
(`manifest_matches`), `Load` or `Compute`, and the two-step writes `OpenArtifact`,
`WriteArtifact`, `OpenManifest`, `WriteManifest` (`fs::write` truncates, then
writes). `Ready` is the order `run_serial` and `run_parallel` impose: the first
`?` stops a serial run, a parallel one lets the maps that have started end before
it returns the error (`Fail`). `Edit` is somebody changing an input at any moment;
`Crash` a kill, or a write that failed half way. Several runners share the files.

Abstractions: a row is what it was computed from (chunk, content version, kernel);
the 64-bit FNV hash of a key is injective; an edit of a local file changes its
length or mtime (`Stamp`), and says nothing for a URL, whose key holds no content;
the file that two writers interleave in is `Garbled`; one output path, so the
sink's key is the reduce's.

**`CachelessRun`**, **`WorkflowRefinement`**. What `Executor::run` promises, with
no cache: the report could have come from reading the inputs between the run's
begin and its end. The refinement mapping forgets nodes, keys and files.

**`WorkflowRerun`**. The executor with two history variables: which plan was
settled last, and on which versions. Needed to state what a rerun may do.

**`DistributedRun`**. Extends the executor by `Export`, `RunLocal` and one job of
a scheduler over the exported graph: `StartChunk`, `ComputeChunk`, `OpenPartial`,
`WritePartial`, `ChunkReturns`, `ChunkFails` for `run-chunk`; `StartMerge`,
`ReadPartial`, `OpenMerged` ... `WriteSkim` for `merge`. `WorkerLost` and
`MergeLost` are the retries of the adapters' schedulers; the process of a lost
worker dies or carries on unobserved. `Submit` reads the exported graph once
(`submitted`, as `run_graph` does); an export after it changes nothing for the job. None
of these looks at a manifest.

**`WindowReader`**. `read_columns_window`, one column after the other, one basket
after the other: which payloads are fetched or found in the cache, how many
elements of a jagged basket precede the window, what a fetch error does to an
optional and to a required column. The counts come from the counter's own baskets,
read whole before the window. An element is its position in the branch.

**`EventStream`**. `EventIterator::next` and `load_next_chunk` over
`WindowReader`, and its consumer `collect_chunk`, item by item, errors included.

**`ManagedServer`**. `ManagedPredictor::start` and `drop` for launched commands
and for the built-in server; the accept loop of the built-in server's thread;
ports that belong to whoever bound them. A peer may keep either side waiting for as
long as it likes: a client that sends its body drop by drop or never reads the answer
keeps the thread, a command that trickles its answer keeps the poll (`Held`). The
launched command itself and the
operating system's ports are external, modelled from how `managed.rs` uses them.

**`RootWriter`** (operators). Which lists of branches `write_tree` accepts, the exact
length and place of every record, and both kinds of reference: a jagged leaf names
its counter's leaf by its number in the order of reading, the tree's list of leaves
names each by its place. **`RootReader`** (operators). `parse_tree` with the object
map of `parse.rs`, the baskets a column needs, and their decoding. **`RootFile`**. A
writer (`Create`, `Write`, `WriteStops`) and a reader of one file at the same time:
`Open`, `ReadHeader`, `ReadDirectory`, `ReadKeys`, `ReadInfos`, `FetchTree`,
`ReadTree`, then `ChunkedReader` and, chunk by chunk and column by column,
`NextChunk`, `AskBasket`, `ReadBasket` or `ReadEmbedded`, `ReadColumn`; each fetch may
be redirected (`Redirected`) or fail (`OpenFails`, `BasketFails`).

Abstractions: a record is what its reader gets out of it, and bytes that do not begin
with the record expected do not parse; a write ends at the end of some record, which
is as far as a reader can tell cuts apart; no compression; the value of an entry is
its branch, entry and position; requests name the counter that the tree names.

**`AnalysisSpec`** (operators). `validate`: types, errors and required branches of
every part of a spec; the systematic axis. **`KirProgram`** (operators). Lowering to
numbered statements, the order of derived objects, and `verify`. **`Kinematics`**
(operators). Comparison, pairing and the numbers of an event. **`KirInterpreter`**.
One event through one plan: `Lower`, then one step per statement, a loop over the
systematic axis, the channels of a union one after the other. **`CodegenSupport`**
(operators). Which plans the generator accepts. **`GeneratedKernel`** (operators).
What the emitted code computes from the same event, in its own order.
**`SpecAgreement`**. What these promise each other. `SpecExamples` holds the specs.

Abstractions: momenta are integers in thirds of a GeV, or NaN; particles are massless
and fly along one axis, so a pair has a mass exactly when its particles are opposite;
error texts are left out; plans with models are validated and not run; single
precision of emitted predicates and the JIT are left out. An expression of a spec is a
record whose `k` is the variant of `Expr`.

**`ExprText`** (operators). `parse_expr_prec` and its neighbours over tokens, and
`expr_to_adl`. **`SurfaceSpec`** (operators). `analysis_spec_from_raw`.
**`AdlText`** (operators). The ADL parser, declaration by declaration with its
aliases, and `to_adl_string`. **`CoreIr`** (operators). The typed arena of `core.rs`
and its checks. **`Certificate`** (operators). `try_certify`. **`SpecRepair`**
(operators). `suggest_repairs`, `apply_replacement` and `semantic_diff`.
**`FrontEnd`**. These in the order in which a user meets them: `Type` an expression,
token by token; draft a document with `Misspell`, `ForgetUnit` or `Edit`; `Load` it,
`Accept` it, or repair it with `BeginRound`, `ApplySuggestion` and `Load` again, until
`Accept` or `GiveUp`; then `TryCertify`, `Write` as ADL, `ReadAgain`.

Abstractions: a text is a sequence of tokens, a draft a sequence of keyed lines (the
toml crate turns the file into these and is external); a sign belongs to its number;
maps come out in the order of `Alphabet`; how alike two names are is the table
`Likeness` (Levenshtein's distance, computed beside the model); of equally good
suggestions any may come first. A certificate is compared as a value: its hash is
taken to tell values apart. Some operators take an intermediate result as a
parameter instead of naming it in a LET: TLC then expands it once.

`MC...` modules give the parameters values for TLC. Operators named
`<Definition>_<Change>` beside a definition are slightly wrong versions of it, as
a bug in the code would make it: replacing the definition by one must break the
property `PROJECT.json` pairs it with. They are in no specification.

## 3. The runs

| Run | Shows | Instance |
|---|---|---|
| `wf_crash` | `FreshResult`: a report has every chunk of its plan once, in order, by the plan's kernel, from content no older than the run; `PublishedIsReported`: the output file is the report, also when the sink was skipped; both over what a killed run left; `EveryRunEnds` | one plan, both modes, failing inputs and kernels, three runs, one kill, edits that keep the length; 159,000 states |
| `wf_shared` | `FreshResult` when two processes run one plan over one cache directory at once: a run may fail on a file the other has truncated (`LoadUnreadable`, `CheckUnreadable`), but never reports a part | two runners, one plan, parallel maps, three runs, one kill, no edits; 564,000 states |
| `wf_rerun` | `CacheCoherent`: a manifest describes the artifact beside it; `RerunIsNoOp`, `OnlyAffectedRecomputed`, `AffectedRecomputed`: a rerun of a settled plan recomputes what changed and nothing else; `CacheIsInvisible`: the refinement of `CachelessRun` | one runner, three runs of two plans that put different chunks in the same slots, parallel maps, one edit per input that also changes its length; 473,000 states |
| `es_stream` | `ColumnsAreSlices`, `FetchedOnce`, `EventsAreTheirOwn`, `SteadyChunkIsItsRange`, `ChunkEnds` | four trees of six events (aligned and staggered baskets, an optional branch present or absent, no muons at all), all 28 entry ranges and one past the end, window sizes 0, 2, 4, 9, up to two failing fetches; 84,000 states |
| `dist_job` | `MergedIsFresh`, `MergeAfterMaps` | a local run, then one job with two attempts for each map, an input edited to have no events; 460,000 states |
| `ms_servers` | `BuiltInOwned`, `BuiltInNotLeaked`, `DropLeavesNothing`, `StartAndDropReturn`: a start or a drop returns unless a peer holds on to it from some time on | a built-in server on any port and a command on port 1, three starts of each, two ports, one failing accept; 42,000 states |
| `root_file` | `OpenedIsWhole`: a file that opens is complete up to its last basket; `ReadsBack`: what `write_tree` accepts, `parse_tree` reads back; `ChunksAreSlices`: chunks are the consecutive slices asked for, a failed one leaves a gap of its own; `ReaderEnds` | five lists of branches that `write_tree` may be given and must judge (counters implied, declared, late, of other lengths, of floats), a tree of no entries, two trees of another program with several baskets to a branch, one with baskets in memory; two writes, four windows, chunk sizes 0 to 3, one redirect; 48,000 states |
| `spec_kernel` | `KernelsAgreeOutsideGaps`: interpreter and emitted kernel return the same row and fills; `SupportedNeverFails`, `ReadsSuffice`, `AcceptedLowers`: what validation accepts can be lowered and run with the branches it derived; `FilledOncePerVariant`, `ExcludedDisjoint`, `NearestIsNearest`, `UnionRows` | 21 specs covering every kind of object, cut, pairing, requirement, histogram, weight and union, 127 events, every variation, with and without filling; 143,000 states; deadlock is checked |
| `front_end` | `ConventionalReading`: an expression is read as the ordinary grammar reads it, or refused; `AliasIsOneOperand`; `CertifiesAccepted`: every accepted plan has a certificate with its branches; `RoundTrip`: what is written as ADL reads back; `DiffSeesEdits`, `CertificateSeesEdits`: an edit shows in a review, and changes a certificate, exactly when it changes a part that these look at; `RepairRestores`: what repair accepts is what was meant | every expression of up to seven tokens over two operands, three operators and two open parentheses; five drafts with up to two slips or one edit at any token; fifteen specs more, and their 175 accepted revisions in one part (84 leave the review empty, 35 the certificate as it was); 15,900 states |

Why these bounds. Three runs are the shortest history in which a plan meets its
own manifest beside what another plan left, and two plans the fewest that reuse a
slot; plan `pA` has two inputs, the first cut into two chunks or one, and plan `pB`
uses the chunk size 0. Six entries with two or three baskets per branch give
windows that start and end before, at and after every cut; the sizes 0 and 9 are
the two extremes (`max(1)`, larger than the tree). Two attempts give a lost worker
and its retry. Three starts give a server, a leaked one, and one started over it.
Four entries with baskets cut at 2 and at 1 and 3 put a chunk before, over and after
every cut. The 21 specs hold each variant of `Expr` and of each part of a spec at
least once, most with and without the thing it may conflict with; the events have
none to four muons and none or two jets, equal and opposite, on each side of each cut.
Seven tokens (`MaxKeys`) hold three operators, or two and a pair of parentheses
(`MaxOpen`), the fewest in which a wrong grouping of a group shows; two slips
(`MaxSlips`) are the fewest that can spoil each other's repair. The five rounds are
the code's.

`Apart` in `dist_job` keeps local runs before the job, since mixing them is what
breaks it (below). No run may deadlock by mistake: all but `spec_kernel` stop only when
their bounds are used up or everything has ended (in `front_end`, when a plan cannot
be written as ADL, where the code panics, or was read again), which is why
`CHECK_DEADLOCK` is off, and the liveness properties say what must not stop.

Fairness. `wf_crash`: weak fairness of each runner's next step; the executor waits
for nothing but its own file operations and threads. `es_stream`: weak fairness of
the loop, which is one thread. `ms_servers`: weak fairness of `Join`, of `ThreadEnds`, and of a
poll of a port that no command has (`PollOfNoCommand`). Nothing is assumed of commands or of clients, nor
therefore of `ThreadAccepts`, `ThreadAnswers` and the poll of a command's port: the
timeouts are those of one read (`managed.rs:189`, `210`), the client chooses how long its
body is (`256-262`), the answer is written without one (`215`), and the poll looks at its
deadline between calls only (`191-193`). `docs/inference-protocol.md:75` says that the
health endpoint is polled with a timeout; it bounds polls whose calls return. Hence the
hypothesis of `StartAndDropReturn`, that again and again nobody is being held.
`root_file`: weak fairness of the reader, whose fetches have timeouts (30 s to
connect, 120 s to read); nothing is assumed of the writer or of the consumer.

### What the code does not do

Three runs look for a documented promise and find it broken (details and quotes in
`PROJECT.json`, "findings"):

- `wf_kernel_changed`: no key contains the kernel; a plan with another kernel is
  answered with the old kernel's rows.
- `es_faulty_chunk`: `skip(start)` counts an error item as an event, and the
  stream does not advance on an error, so a chunk whose skipped part met one failed
  fetch succeeds with shifted events. `SteadyChunkIsItsRange` is what remains true.
- `spec_two_leads`: in the systematic loop the emitted code unwraps the leading
  values of all histograms under one name, so with a second such histogram it fills
  the second with the value of the first.

The four gaps of `KernelsAgreeOutsideGaps`. `SharedLeading` is the one above.
`UnreadPairPt`: the interpreter does not keep the pt of objects that only
`either_pair_pt` reads, takes it for 0 and drops the event; the generated kernel
keeps it (`KernelsAgree` fails with `Plans <- MCPairPtPlans`). `LateMissing`: with
histograms, the emitted code fills before it unwraps the outputs, the interpreter
after, so an event without, say, a leading jet is filled by one and not the other, or
by half. `MixedWeights`: with a declared weight systematic and another weight
variation, the emitted code applies the first declared factor to the variants of both.
`Compiles` names plans whose emitted code does not compile: attributes and counts that
only a histogram reads, pair masses that no region reads, shape corrections without a
histogram; `UnionGenerates` names unions whose channels give an output different types.

The limits of the front end:

- `parse_expr_prec` refuses some of what the ordinary grammar allows, `a - b - c` and
  `(a + b) * c` among them: an operand of an operator is read for stronger operators
  only (on the right, for equal ones too), and stripping its parentheses does not
  change that. Nothing is regrouped. `RoundTrip` therefore speaks of expressions that
  were read; others that a program builds are written as text that is refused.
- ADL holds no unions, lumi masks or configured providers
  (`Representable`; `to_adl_string` panics), and the literal of a scale factor input
  that is a whole number comes back as an integer.
- `semantic_diff` compares the names and cuts of objects, the regions, outputs and models,
  and the branches that are read (`ReviewedParts`). It does not see the source of an
  object, derived objects, histograms, nominal weights, systematics, corrections, the
  lumi mask, channels, the order of named parts, and a cut before another of its object
  with the same left side and operator. `DiffSeesEdits` says that this list is complete
  both ways: any other edit shows, and none of these does unless it changes what is read.
- A certificate holds less than the meaning that `docs/preservation.md:50-60` has it depend
  on: two plans of one hash may select different events, a pair of tight muons and one of
  loose muons of the same collection among them. Missing are the object, the constraints
  and the exclusions of a pair (`lower_derived_object` and `call_ref` of nano-spec drop
  them, `certificate.rs:870` prints a name) and the filters of one chosen by mass; the
  items of a combination, but for the order in which all are built; what a histogram
  counts or which candidates it compares, outside the loop over the systematics; scale
  factors, but for whether that loop has any; nominal weights; the literal values and
  sources of inputs; the order of systematics and models; the runs of a lumi mask;
  channels. Where a plan has no kernel IR, its Core IR is printed, which also loses the
  objects that requirements and outputs refer to, and the lumi mask (`CertifiedParts`).
  `CertificateSeesEdits` says that this list, too, is complete both ways.
- Certificates number objects in the order in which the
  surface holds them, which is that of declaration in ADL and of the alphabet in TOML:
  the two surfaces give one certificate only for objects declared in that order.
- `RepairRestores` speaks of plain slips. Collections, outputs and derived objects are
  never suggested, and a misspelling that is another word of the draft is renamed with
  it (`PlainMisspelling`); a unit goes behind the first number after the first
  operator of the first line about a momentum that takes one, whatever it compares
  (`PlainUnit`).

`ReadsBack` has a limit: the list of leaves refers to places, and a reader takes a
reference for the number of an object it has read if there is one. With n branches
2n numbers are taken, and from 220 branches on (a tree named `Events`, a first
branch named `nMuon`) the place of the first leaf is the number of a branch:
`parse_leaf` then meets a TBranch, and a file that `write_tree` has just written is
refused. `ParseTree(TreeObject(6, Wide(220).branches, 0))` of `MCRootFile` is an
error, with 219 branches it is not (TLC needs a larger thread stack for these).
The theorem of section 4 has that limit as its hypothesis: `OurPlacesBeyond`, which
200 branches or fewer always satisfy (`FewBranches`).
`ChunksAreSlices` leaves out branches with baskets in memory (`Misplaced`): they are
put before those on disk and `basket_entry` is cut to `write_basket`, so their
entries come out wrong or not at all.

The same modules show these limits with other parameters, for whoever wants to see
them: `FreshResult` fails with `Remote = {f}` and one edit (a URL's key holds no
content), with two plans and a kill (an artifact is replaced under a manifest that is
still valid for another plan), and in `wf_shared` with both plans, or with an edit
(nothing locks the cache directory). `OnlyAffectedRecomputed` fails with
`GrowingEvents` (artifacts are numbered by position, so a new chunk renumbers those of
later inputs). In `DistributedRun` without `Apart`, `FreshResult` fails with plans
`pA` and `pB` (`run-chunk` replaces artifacts and leaves the manifests), and
`MergedIsFresh` with two jobs (processes of a failed job are still writing). In
`ManagedServer`, `BuiltInOwned` without its restriction to built-in servers fails with
predictors `c1` and `c2` (two commands on one fixed port: the second takes the first
one's answer for its own), and `NoLeakedServer` ("no leaked GPU processes",
`docs/inference-protocol.md`) with one command that is not ready in time: `start`
fails and does not kill it.

## 4. The proofs

`TypeOK` of the executor and of the stream and server modules, and 19 of the properties
of section 3, are theorems: they hold for every value of the constants that satisfies
the named assumptions, where a run shows one instance. `PROJECT.json` lists the
theorems. All rest on an inductive invariant, which TLC checked on an instance before
it was proved.

**Executor** (`WorkflowProofs`). `TypeCorrect`, for any number of runners, plans, edits
and kills. `TypeInv` is `TypeOK` with what later steps rely on: a run's chunks fit the
slots, a node with an output has one of its own kind, and so on. One lemma per group of
actions, one step per action. `OtherNodes` (a node's step leaves the other nodes and
their files alone) and `DependenciesDone` serve all modules that follow.

**Cache** (`WorkflowFreshProofs`). `OneRunner`: one process at a time. `OneAtATime` adds:
no kills. `PlannedAlike`: one plan, and inputs that keep their number of events when they
are edited. `Orderly` is one runner and either no kills or, with any number of kills,
`PlannedAlike` and no URLs. `Undisturbed` is `Orderly`, no URLs, one kernel. The number of inputs, chunks, runs
and edits stays arbitrary, edits come at any moment, and without kills so do the plans.

| Theorem | Property | Assumes |
|---|---|---|
| `ManifestsTellTheTruth` | `CacheCoherent` | `OneAtATime` |
| `OutputIsReported` | `PublishedIsReported` | `Orderly` |
| `NeverStale` | `FreshResult` | `Undisturbed` |
| `CacheIsNeverSeen` | `CacheIsInvisible`, the refinement of `CachelessRun` | `Undisturbed` |
| `SharedRunsFresh` | `FreshResult`, any number of runners and kills | `PlannedAlike`, no edits |
| `SharedRunsComplete` | `CompleteResult`: `FreshResult` without the age | `PlannedAlike` |

For the first four none of these assumptions can be spared; TLC finds a counterexample
without any one of them. Two at once write each other's files. After a kill, with two plans, an artifact is
replaced under the other plan's manifest, which still matches later; then the sink, which
looks at the manifest and not at the file, is skipped though the file was cut short. Even
with one plan a kill may leave a stale artifact, if an earlier input has one chunk more
for a while: slots shift and shift back. A URL's key says nothing of its content; no key
says anything of the kernel (`wf_kernel_changed`).

`FreshResult` speaks only of runs that are over, and says nothing of the files the
next run will trust; it is not inductive. `FreshInv` adds: a node's key describes
the chunk and a stamp between the run's begin and now (`KeysFit`); a node's output
is described by its key (`OutputsFit`); a hit means the manifest still holds the key
(`HitsFit`); half-written nodes have exactly these bytes on disk (`WritesFit`); every
other manifest tells the truth (`DiskFits`). The last is what carries the argument
from one run to the next: `Load` takes an artifact whose manifest equals the key, so
`DiskFits` makes it an output its key describes, and `KeysFit` makes that fresh.
`PublishedInv` adds what a skipped sink relies on (`SinkFits`): until the reduce writes,
its two files equal the sink's; while it writes, the sink's manifest is not the run's key.

A killed run leaves an artifact, whole or cut short, under the manifest of an earlier one.
`DiskFits` allows that (`Leftover`) if the manifest cannot be read, or names an input at a
content older than the run's begin, so that no run from then on finds its key in it. The
code gives that only from the next begin on, and `KillsFit` carries it there: as all runs
cut the same chunks (`KeysCut`, `ManifestsCut`), a node is written only where there was
no manifest or where it is of an earlier content than the run's key (`Replaces`). That
content was edited before this run began or during it, in any case before the next begins.
For a skipped sink it is not enough that its own manifest is outdated: the reduce may have
been replaced and then the run killed before the sink. `SinkIsLeft` says that the sink's
manifest is outdated then too. TLC checked the whole invariant on the instance of `wf_crash`
with two kills, and with two edits per input, before it was proved.

Several runners of one plan (`SharedInv`): no key is to be trusted, as one runner may sign
what another has replaced. But all write a chunk into the same slot, a file that two write
at once is taken to parse as one of them or not at all (`Overwritten`), and `Load` refuses
what does not parse; so every whole file is the output of its node, of some version
(`FilesWhole`). Which version, nothing says: with an edit a report may be stale.

The refinement maps `Begin` to `Begin`, `Finish` to `Return`, the three failures to
`GiveUp`, an edit to an edit, and every other step to a stutter. `Return` needs more than
freshness: there must be one moment per input, during the run, at which reading it gives
the chunks that were planned (`PlansFit`), and no part may come from the future
(`OutputsPast`), also in files that earlier runs left. `CachelessRun` says "planned" with
the library's recursive `FlattenSeq`; the model plans input by input. That both agree for
any number of inputs is `FlattenIsLast`.

**Reruns** (`WorkflowRerunProofs`). `NothingRunsTwice`, `OnlyChangedRun`, `ChangedAllRun`
(`RerunIsNoOp`, `OnlyAffectedRecomputed`, `AffectedRecomputed`) need only `OneRunner`:
kills are allowed, and URLs except in the last. `RerunInv` says that the disk of the plan
settled last is still there, node by node until the rerun writes the node itself
(`RerunFits`), and that the same inputs are planned into the same chunks
(`PlannedAgree`).

**Jobs** (`DistributedProofs`). `MergeWaitsForMaps` (`MergeAfterMaps`) holds without any
assumption, and so does `JobTypeCorrect`. `MergeIsFresh` (`MergedIsFresh`) assumes of the
behaviour `Alone`, no local planning or run while a job is under way, and `Drained`, no
process of an earlier job alive when one is submitted: a process that a failed job left
writes its old chunk over the new one's file, as TLC shows with two jobs. Lost workers
and their retries within a job are not restricted. The argument is that every process of
a job computes the same chunk from content no older than the job (`ProcessesFit`), so a
file that the scheduler waited for holds either that or the bytes of two writers
(`FilesFit`), and the merge reads only the former.

**Stream** (`WindowReaderProofs`, `EventStreamProofs`). `WindowsAreSlices`,
`PayloadsFetchedOnce`, `EventsHaveTheirValues`, `SteadyChunkComplete` (`ColumnsAreSlices`,
`FetchedOnce`, `EventsAreTheirOwn`, `SteadyChunkIsItsRange`), for every layout: any number
of branches, counts and baskets, any cuts of a branch and of its counter, any window and
failures. `ReaderAssumption` is what `validate` and the writer ensure: distinct names
(`nano-core/src/lib.rs:287`), baskets that follow one another, and a counter whose baskets
hold all its entries, which the reader takes for granted (`tree.rs:391-394` panics
otherwise). The counts are put together from the counter's baskets, and are its counts
(`CountsReadAre`). A jagged window is put together from parts of baskets; the invariant
says that the part of the column read so far is the part of the window covered by the
baskets gone through (`ReaderInv`), and
`WindowReaderProofs` shows that the sum of the counts before a basket and up to its end
are where its elements begin and end. Those sums are a recursive function. `StreamInv`
adds that the iterator's place is the number of events skipped and returned (`InStep`), or
that the chunk is stuck before a window that keeps failing (`Stuck`), or that an error was
counted as an event; only the last is excluded by the hypothesis of
`SteadyChunkIsItsRange`.

**Servers** (`ManagedServerProofs`). `RequestsReachTheBuiltIn`, `NoBuiltInLeaks`,
`DropIsClean` (`BuiltInOwned`, `BuiltInNotLeaked`, `DropLeavesNothing`), for any
predictors, ports and starts, with commands that do as they like. The invariant is that a
built-in server that is alive is the current one of its predictor, which somebody is
starting, using or stopping, and owns the port the endpoint names (`BuiltInHeld`).

**ROOT files** (`RootFileProofs`). `OpenedFileIsWhole` (`OpenedIsWhole`), for every list
of branches that `write_tree` accepts (`IsBranch`, `Writable`), of any number, lengths of
names, types and entries, and a writer that stops at any record. Files of other programs
are only known by their records, so `ForeignKeysLast` is assumed of them: the key list
comes after the tree and the baskets, as in any file that was closed; one that its writer
still has open may have baskets behind an earlier key list, and such a file opens without
them. `OpenedIsWhole` is not inductive: it says nothing of an open under way. `FileInv`
adds that the key list is last in whatever file is there (`FileInOrder`), that nothing
but the open moves what is asked for before the key list has come (`KeysAsked`), and that
the file is whole from then on. That the key list of `write_tree` is last is
arithmetic about the places: no basket ends after the sum of all lengths
(`PlacedWithin`), from what the recursion of `Total` gives at each prefix
(`TotalsGrow`), and all lengths are numbers because the counter of a branch that was
accepted is a branch (`CounterBefore`).

`WrittenTreeReadsBack` (`ReadsBack`), for every accepted list of branches whose leaves
lie beyond the numbers of their objects (`OurPlacesBeyond`; up to 200 branches they do,
`FewBranches`), and of trees of other programs only that they parse where their key list
says (`ForeignTreesRead`). The argument is that of a round trip, branch by branch: the
object numbers a reader gives are 2i - 1 for the i-th branch and 2i for its leaf
(`ObjectsRead`), so a counter's leaf is found by its number (`CounterByNumber`), a place
of the list of leaves is the number of no object and finds its leaf (`LeafByPlace`), and
the one basket is where the writer counted it to be (`OneBasket`). `TreeInv` carries the
tree through the open: no key list before it is fetched, then the newest file's tree.

`ChunksAreWrittenSlices` (`ChunksAreSlices`), for every such list of branches, every cut of
a foreign branch into baskets, every window and chunk size, every order of failures, and
contents that are written again, whole or in part, under the reader. Two hypotheses:
`ForeignTreesCut`, the basket list of another program's branch is in the order of its
entries and a basket holds its own (`IsCutBranch`); nothing is assumed of our own files,
for which it is proved (`OwnTreeIsCut`), nor of branches with baskets in memory, which the
property leaves out; and `ColumnsExist`, a window asks for one column or more and for
names that are there (the model has no missing column). Three facts about data carry it.
Consecutive baskets, each cut to the window, join to the slice of the whole (`PartsJoin`).
A payload is found by the number of overlapping baskets before it, so the i-th basket gets
its own, for jagged branches those of its counts with it (`ScalarPlace`, `PartHeld`).
And if the counts are those of the rows, cutting the cells by running sums of the counts
gives the rows back (`ListsCut`). `ColumnReads` puts them together: a column that
decodes at all decodes to the rows that were written. The property itself says nothing of
a chunk half read; `ChunksInv` adds that the payloads got so far are the first of the
baskets planned for the column (`HalfRead`), that the columns before it are right
(`ColumnsSound`), that the chunk begins where the items end (`ChunkSound`), and that the
tree was parsed from contents that are those of the file still (`TreeSound`).

Induction over data. The library's induction theorems take an operator as a parameter,
which the provers cannot instantiate. Where a recursive function has to be known for every
input (`SumCounts`, `Total`, `FlattenSeq`, the chunks of a plan), the proofs take the least
counterexample instead: `LeastElement` gives it for a set of numbers, and what the
recursion says at the number before it refutes it.

Only model-checked: everything temporal beyond invariants and the refinement
(`EveryRunEnds`, `ChunkEnds`, `StartAndDropReturn`, `ReaderEnds`), since
the prover has no ENABLED; `SpecAgreement` and
`FrontEnd`, whose modules use recursive operators for expressions, which the prover does
not take. `TypeOK` of `SpecAgreement` documents the state; no run spends a property on
it, nor on `TypeOK` of `EventStream` and `ManagedServer` and on
`DistTypeOK`, which are proved.

## 5. Not modelled

Decompression and byte decoding; TLS options; `write_histograms`; `TBranchElement`,
fixed arrays and the flat jagged arrays of `tree.rs`. Producers, corrections and
statistics: floating-point arithmetic per event. In the spec crates: characters,
comments and error texts of the parsers, `parse_catalogue`, the emission of test data,
and the hash of a certificate; plans with models are validated and never run; two
scale corrections of one attribute, which the parser accepts only one of. Rendering,
the MCP and CLI wrappers: they keep no state between requests. Vendored `root-io`,
generated demonstrations and the C++ framework. An optional column that is dropped
after a transient error (`nano-io`, line 422) is in `WindowReader`, and nothing is
promised of it.
`WindowReader` takes the tree as fixed; files that change under a reader are
`RootFile`'s. Nothing is said of a file that is replaced by another version while it
is read (`replaced`): no code guards against it.

## 6. Plan

Done, in this order: `WorkflowExecutor`, its proofs, `WorkflowRerun`,
`CachelessRun`; `WindowReader`, `EventStream`; `DistributedRun`; `ManagedServer`; the
spec modules; the ROOT file modules; the front end; the proofs about the cache, its
refinement, reruns, jobs, the stream, the servers, and files that open, read back and are
read in chunks.

Next modules: `Session`, the environment variable that concurrent dashboard runs
save, set and restore (`nano-ui/src/session.rs`); `Attachments`, the `RwLock` of
`nano-core/src/lib.rs` with guards held across `set`; `run_verified` and the checks of
an imported graph. The first two can share a run.

Next proofs: what is left of the properties that runs check are temporal ones and those of
`SpecAgreement` and `FrontEnd`; the latter need the expressions of the specs as trees
numbered in a sequence instead of recursive operators.
