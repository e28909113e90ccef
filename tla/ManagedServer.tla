---------------------------- MODULE ManagedServer ----------------------------
(***************************************************************************)
(* Launch-your-own inference servers: `ManagedPredictor` of                *)
(* crates/nano-inference (managed.rs).  Starting one spawns a command that *)
(* will listen on the recipe's port, or binds the built-in mock server and *)
(* hands it to a thread; then the health endpoint of that port is polled   *)
(* until it answers 200 or the time is up.  Dropping one kills the child,  *)
(* or stops the thread and joins it.                                       *)
(*                                                                         *)
(* Every start of predictor p makes a server of its own, <<p, k>> the k-th *)
(* time.  Ports are the machine's: whoever bound one first has it, and the *)
(* poll and the requests reach whoever has it.                             *)
(***************************************************************************)
EXTENDS Integers

CONSTANTS
  Predictors,      \* predictors somebody may start, use and drop
  Ports,           \* TCP ports, numbers other than 0
  Recipe,          \* predictor -> [kind : {"command", "builtin"}, port : Nat]
  MaxStarts,       \* bound: starts of one predictor
  MaxAcceptErrors, \* bound: accept calls that fail
  Nobody           \* a port nobody has bound

Servers == Predictors \X (1 .. MaxStarts)

ASSUME RecipeAssumption ==
  /\ Ports \subseteq Nat \ {0}
  /\ MaxStarts \in Nat /\ MaxAcceptErrors \in Nat
  /\ Nobody \notin Servers
  /\ \A p \in Predictors :
       /\ Recipe[p].kind \in {"command", "builtin"}
       /\ Recipe[p].port \in Ports \/ (Recipe[p].kind = "builtin" /\ Recipe[p].port = 0)

VARIABLES
  phase,        \* predictor -> where its owner is with it
  starts,       \* predictor -> times it was started
  port,         \* predictor -> port of its endpoint, 0 when it has none
  server,       \* server -> state of the process or thread
  running,      \* built-in server -> its AtomicBool
  owner,        \* port -> the server that bound it, or Nobody
  acceptErrors  \* accept calls that failed

vars == <<phase, starts, port, server, running, owner, acceptErrors>>

Own(p) == <<p, starts[p]>>
BuiltIn(s) == Recipe[s[1]].kind = "builtin"
Gone(s) == server[s] \in {"off", "exited"}

TypeOK ==
  /\ phase \in [Predictors -> {"none", "polling", "ready", "stopping", "failing", "dropped", "failed"}]
  /\ starts \in [Predictors -> 0 .. MaxStarts]
  /\ port \in [Predictors -> Ports \cup {0}]
  /\ server \in [Servers -> {"off", "spawned", "bound", "serving", "handling", "exited"}]
  /\ running \in [Servers -> BOOLEAN]
  /\ owner \in [Ports -> Servers \cup {Nobody}]
  /\ acceptErrors \in 0 .. MaxAcceptErrors
  /\ \A p \in Predictors : phase[p] \in {"polling", "ready"} => port[p] \in Ports
  /\ \A q \in Ports : owner[q] # Nobody => server[owner[q]] \in {"bound", "serving", "handling"}

Init ==
  /\ phase = [p \in Predictors |-> "none"]
  /\ starts = [p \in Predictors |-> 0]
  /\ port = [p \in Predictors |-> 0]
  /\ server = [s \in Servers |-> "off"]
  /\ running = [s \in Servers |-> FALSE]
  /\ owner = [q \in Ports |-> Nobody]
  /\ acceptErrors = 0

\* The ports that are free once server s has ended.
Released(s) == [q \in Ports |-> IF owner[q] = s THEN Nobody ELSE owner[q]]
-----------------------------------------------------------------------------
(* ManagedPredictor::start                                                 *)

Startable(p) ==
  /\ phase[p] \in {"none", "dropped", "failed"}
  /\ starts[p] < MaxStarts

StartCommand(p) ==
  /\ Startable(p)
  /\ Recipe[p].kind = "command"
  /\ starts' = [starts EXCEPT ![p] = @ + 1]
  /\ server' = [server EXCEPT ![<<p, starts[p] + 1>>] = "spawned"]
  /\ port' = [port EXCEPT ![p] = Recipe[p].port]
  /\ phase' = [phase EXCEPT ![p] = "polling"]
  /\ UNCHANGED <<running, owner, acceptErrors>>

\* The ports the built-in server may be given: port 0 asks for any free one.
Bindable(p) ==
  {q \in Ports : owner[q] = Nobody /\ Recipe[p].port \in {0, q}}

StartBuiltInOn(p, q) ==
  /\ Startable(p)
  /\ Recipe[p].kind = "builtin"
  /\ starts' = [starts EXCEPT ![p] = @ + 1]
  /\ server' = [server EXCEPT ![<<p, starts[p] + 1>>] = "bound"]
  /\ running' = [running EXCEPT ![<<p, starts[p] + 1>>] = TRUE]
  /\ phase' = [phase EXCEPT ![p] = "polling"]
  /\ UNCHANGED acceptErrors
  /\ owner' = [owner EXCEPT ![q] = <<p, starts[p] + 1>>]

\* Mutant: a free port is asked for twice, for the endpoint and for the server.
StartBuiltIn_AsksTwice(p) ==
  \E q \in Bindable(p), told \in Bindable(p) :
    StartBuiltInOn(p, q) /\ port' = [port EXCEPT ![p] = told]

StartBuiltIn(p) ==
  \E q \in Bindable(p) :
    StartBuiltInOn(p, q) /\ port' = [port EXCEPT ![p] = q]

\* The command cannot be spawned, or the port cannot be bound.
StartFails(p) ==
  /\ Startable(p)
  /\ Recipe[p].kind = "builtin" => Bindable(p) = {}
  /\ starts' = [starts EXCEPT ![p] = @ + 1]
  /\ phase' = [phase EXCEPT ![p] = "failed"]
  /\ UNCHANGED <<port, server, running, owner, acceptErrors>>

\* poll_ready gets 200 from whoever has the port.
PollReady(p) ==
  /\ phase[p] = "polling"
  /\ owner[port[p]] # Nobody
  /\ server[owner[port[p]]] = "serving"
  /\ phase' = [phase EXCEPT ![p] = "ready"]
  /\ UNCHANGED <<starts, port, server, running, owner, acceptErrors>>

\* Mutant: the built-in server is not stopped when the deadline passes.
PollTimesOut_Forgets(p) ==
  /\ phase[p] = "polling"
  /\ phase' = [phase EXCEPT ![p] = "failed"]
  /\ UNCHANGED <<starts, port, server, running, owner, acceptErrors>>

\* The deadline passes: the error returns from start, which drops `process`.
\* Dropping a std::process::Child leaves the process alone; dropping a
\* BuiltInMockServer stops it.
PollTimesOut(p) ==
  /\ phase[p] = "polling"
  /\ IF BuiltIn(Own(p))
     THEN /\ phase' = [phase EXCEPT ![p] = "failing"]
          /\ running' = [running EXCEPT ![Own(p)] = FALSE]
     ELSE /\ phase' = [phase EXCEPT ![p] = "failed"]
          /\ UNCHANGED running
  /\ UNCHANGED <<starts, port, server, owner, acceptErrors>>
-----------------------------------------------------------------------------
(* Drop                                                                    *)

\* kill and wait
DropCommand(p) ==
  /\ phase[p] = "ready"
  /\ ~ BuiltIn(Own(p))
  /\ server' = [server EXCEPT ![Own(p)] = "exited"]
  /\ owner' = Released(Own(p))
  /\ phase' = [phase EXCEPT ![p] = "dropped"]
  /\ UNCHANGED <<starts, port, running, acceptErrors>>

\* Mutant: the thread is told to stop and not waited for.
DropBuiltIn_NoJoin(p) ==
  /\ phase[p] = "ready"
  /\ BuiltIn(Own(p))
  /\ running' = [running EXCEPT ![Own(p)] = FALSE]
  /\ phase' = [phase EXCEPT ![p] = "dropped"]
  /\ UNCHANGED <<starts, port, server, owner, acceptErrors>>

\* BuiltInMockServer::stop: store false, wake the thread up by a connection ...
DropBuiltIn(p) ==
  /\ phase[p] = "ready"
  /\ BuiltIn(Own(p))
  /\ running' = [running EXCEPT ![Own(p)] = FALSE]
  /\ phase' = [phase EXCEPT ![p] = "stopping"]
  /\ UNCHANGED <<starts, port, server, owner, acceptErrors>>

\* ... and join it.
Join(p) ==
  /\ phase[p] \in {"stopping", "failing"}
  /\ server[Own(p)] = "exited"
  /\ phase' = [phase EXCEPT ![p] = IF @ = "stopping" THEN "dropped" ELSE "failed"]
  /\ UNCHANGED <<starts, port, server, running, owner, acceptErrors>>
-----------------------------------------------------------------------------
(* The servers.                                                            *)

Becomes(s, from, to) ==
  /\ server[s] \in from
  /\ server' = [server EXCEPT ![s] = to]
  /\ UNCHANGED <<phase, starts, port>>

\* A spawned command opens its port, unless another has it.
ChildBinds(s) ==
  LET q == Recipe[s[1]].port
  IN /\ ~ BuiltIn(s)
     /\ owner[q] = Nobody
     /\ Becomes(s, {"spawned"}, "bound")
     /\ owner' = [owner EXCEPT ![q] = s]
     /\ UNCHANGED <<running, acceptErrors>>

\* It loads its model and answers health checks, or ends by itself.
ChildServes(s) ==
  /\ ~ BuiltIn(s)
  /\ Becomes(s, {"bound"}, "serving")
  /\ UNCHANGED <<running, owner, acceptErrors>>

ChildExits(s) ==
  /\ ~ BuiltIn(s)
  /\ Becomes(s, {"spawned", "bound", "serving"}, "exited")
  /\ owner' = Released(s)
  /\ UNCHANGED <<running, acceptErrors>>

\* The accept loop of the built-in server comes round to its condition.
ThreadLoops(s) ==
  /\ BuiltIn(s)
  /\ running[s]
  /\ Becomes(s, {"bound"}, "serving")
  /\ UNCHANGED <<running, owner, acceptErrors>>

\* Mutant: `running` is looked at only when no client is waiting.
ThreadAccepts_Unchecked(s) ==
  /\ BuiltIn(s)
  /\ Becomes(s, {"bound", "serving"}, "handling")
  /\ UNCHANGED <<running, owner, acceptErrors>>

\* It accepts a client (a health check, a request, the connection of `stop`),
\* answers it, and comes round again.
ThreadAccepts(s) ==
  /\ BuiltIn(s)
  /\ running[s]
  /\ Becomes(s, {"serving"}, "handling")
  /\ UNCHANGED <<running, owner, acceptErrors>>

ThreadAnswers(s) ==
  /\ BuiltIn(s)
  /\ Becomes(s, {"handling"}, "bound")
  /\ UNCHANGED <<running, owner, acceptErrors>>

\* The condition is false: the listener is dropped with the thread.
ThreadEnds(s) ==
  /\ BuiltIn(s)
  /\ ~ running[s]
  /\ Becomes(s, {"bound", "serving"}, "exited")
  /\ owner' = Released(s)
  /\ UNCHANGED <<running, acceptErrors>>

\* accept returns an error other than WouldBlock: `break`.
AcceptFails(s) ==
  /\ BuiltIn(s)
  /\ acceptErrors < MaxAcceptErrors
  /\ acceptErrors' = acceptErrors + 1
  /\ Becomes(s, {"serving"}, "exited")
  /\ owner' = Released(s)
  /\ UNCHANGED running
-----------------------------------------------------------------------------
Owner(p) ==
  \/ StartCommand(p) \/ StartBuiltIn(p) \/ StartFails(p)
  \/ DropCommand(p) \/ DropBuiltIn(p)
Polling(p) == PollReady(p) \/ PollTimesOut(p)
Serving(s) ==
  \/ ChildBinds(s) \/ ChildServes(s) \/ ChildExits(s)
  \/ ThreadLoops(s) \/ ThreadAccepts(s) \/ ThreadAnswers(s) \/ ThreadEnds(s)
  \/ AcceptFails(s)

Next ==
  \/ \E p \in Predictors : Owner(p) \/ Polling(p) \/ Join(p)
  \/ \E s \in Servers : Serving(s)

Spec == Init /\ [][Next]_vars

\* Nothing bounds how long a peer that goes on sending, or does not read, keeps
\* its side busy: the timeouts are those of one read (managed.rs:189, 210), the
\* answer is written without any (215), and the poll looks at its deadline only
\* when a call has returned (193).  So ThreadAnswers is not fair, since that is up
\* to the client, nor is the poll of a port that a command has; where nobody or
\* the built-in server has it, a call is refused, answered, or runs into the
\* timeout of its first read.
CommandHas(q) == owner[q] # Nobody /\ ~ BuiltIn(owner[q])
PollOfNoCommand(p) == Polling(p) /\ ~ CommandHas(port[p])

FairSpec ==
  /\ Spec
  /\ \A p \in Predictors : WF_vars(PollOfNoCommand(p)) /\ WF_vars(Join(p))
  /\ \A s \in Servers : WF_vars(ThreadEnds(s))
-----------------------------------------------------------------------------
\* A predictor that is ready sends its requests to the server it launched, as
\* long as that is a built-in one and alive: it is bound before it is polled, and
\* the endpoint is made from the port it got, whatever commands and other
\* predictors want the same port (BuiltInMockServer::spawn).
BuiltInOwned ==
  \A p \in Predictors :
    phase[p] = "ready" /\ BuiltIn(Own(p)) /\ ~ Gone(Own(p)) => owner[port[p]] = Own(p)

\* Once a predictor has been dropped its server has ended and its port is free:
\* "lifecycle is RAII" (docs/inference-protocol.md:77).
DropLeavesNothing ==
  \A p \in Predictors :
    phase[p] = "dropped" => Gone(Own(p)) /\ \A q \in Ports : owner[q] # Own(p)

\* A server that is alive has a predictor that is being started, used or stopped.
Kept(s) ==
  Gone(s) \/ /\ s = Own(s[1])
             /\ phase[s[1]] \in {"polling", "ready", "stopping", "failing"}

\* Neither a drop nor a start that failed, however often it is tried again,
\* leaves a server behind: "no leaked GPU processes"
\* (docs/inference-protocol.md:77).
NoLeakedServer == \A s \in Servers : Kept(s)

\* No thread of the built-in server is left behind (Drop for BuiltInMockServer).
BuiltInNotLeaked == \A s \in Servers : BuiltIn(s) => Kept(s)

\* What start or drop may wait for without end: a command that has the port keeps
\* the call of the poll going, or the joined thread is kept by one client.
Held(p) ==
  \/ phase[p] = "polling" /\ CommandHas(port[p])
  \/ phase[p] \in {"stopping", "failing"} /\ server[Own(p)] = "handling"

\* start returns, and so does drop: the join comes to an end however many clients
\* keep calling, and however the deadline falls, unless one peer never lets go of
\* its connection.  In particular the start of a built-in server, for which nobody
\* else answers, waits for nothing but a client that keeps its thread
\* (BuiltInMockServer::stop, poll_ready).
StartAndDropReturn ==
  \A p \in Predictors :
    []<>(~ Held(p)) =>
      (phase[p] \in {"polling", "stopping", "failing"}
         ~> phase[p] \in {"ready", "dropped", "failed"})
=============================================================================
