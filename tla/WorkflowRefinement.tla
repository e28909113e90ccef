------------------------- MODULE WorkflowRefinement -------------------------
(* The executor with its cache implements the cacheless run.               *)
EXTENDS WorkflowExecutor

\* How plan p cuts source s when it has n events.
PlanChunks(p, s, n) == ChunksOf(s, n, EffectiveSize(p))

Abstract == INSTANCE CachelessRun WITH
  SourceChunks <- PlanChunks,
  status <- [r \in Runners |->
               IF phase[r] \in {"planning", "running"} THEN "busy" ELSE phase[r]],
  report <- [r \in Runners |->
               IF phase[r] = "ok" THEN output[r][SinkNode] ELSE None]

\* The cache is invisible: whatever a run reports, a run that recomputes every
\* node from inputs read while it lasts could have reported (run_map, run_reduce
\* and run_sink skip a node only if its key says nothing has changed).
CacheIsInvisible == Abstract!Spec
=============================================================================
