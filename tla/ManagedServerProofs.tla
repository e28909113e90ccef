------------------------ MODULE ManagedServerProofs ------------------------
(* Theorems about ManagedServer, for every value of its constants.         *)
EXTENDS ManagedServer, TLAPS

Alive(s) == ~ Gone(s)

\* A server exists once it was started, and never again after it ended.
StartsCounted ==
  /\ \A p \in Predictors : phase[p] # "none" => starts[p] > 0
  /\ \A s \in Servers : s[2] > starts[s[1]] => server[s] = "off"

\* A command is no thread of this process, and the other way round.
StatesOfItsKind ==
  \A s \in Servers :
    IF BuiltIn(s) THEN server[s] # "spawned" ELSE server[s] # "handling"

\* A built-in server that is alive is the current one of its predictor, which is
\* being started, used or stopped, and has the port the endpoint names.
BuiltInHeld ==
  \A s \in Servers :
    BuiltIn(s) /\ Alive(s) =>
      Kept(s) /\ port[s[1]] \in Ports /\ owner[port[s[1]]] = s

\* What was dropped has ended.
DroppedEnded == \A p \in Predictors : phase[p] = "dropped" => Gone(Own(p))

\* The inductive invariant.
ServerInv ==
  TypeOK /\ StartsCounted /\ StatesOfItsKind /\ BuiltInHeld /\ DroppedEnded
-----------------------------------------------------------------------------
LEMMA InitServerInv == Init => ServerInv
<1> SUFFICES ASSUME Init PROVE ServerInv
  OBVIOUS
<1> USE RecipeAssumption DEF Init, Servers
<1>1. TypeOK
  BY DEF TypeOK
<1>2. StartsCounted /\ StatesOfItsKind /\ BuiltInHeld /\ DroppedEnded
  BY DEF StartsCounted, StatesOfItsKind, BuiltInHeld, DroppedEnded, Alive, Gone
<1> QED BY <1>1, <1>2 DEF ServerInv

\* The current server of a predictor that has been started.
LEMMA OwnServer ==
  ASSUME ServerInv, NEW p \in Predictors, phase[p] # "none"
  PROVE  Own(p) \in Servers
BY RecipeAssumption DEF ServerInv, TypeOK, StartsCounted, Own, Servers

\* The server a start makes has not run, and no built-in one of the same
\* predictor still does.
LEMMA NewServer ==
  ASSUME ServerInv, NEW p \in Predictors, Startable(p)
  PROVE  /\ <<p, starts[p] + 1>> \in Servers
         /\ starts[p] + 1 \in 0 .. MaxStarts
         /\ server[<<p, starts[p] + 1>>] = "off"
         /\ \A q \in Ports : owner[q] # <<p, starts[p] + 1>>
         /\ \A s \in Servers : s[1] = p /\ BuiltIn(s) => Gone(s)
<1> USE RecipeAssumption
<1>1. /\ <<p, starts[p] + 1>> \in Servers
      /\ starts[p] + 1 \in 0 .. MaxStarts
  BY DEF ServerInv, TypeOK, Startable, Servers
<1>2. server[<<p, starts[p] + 1>>] = "off"
  BY <1>1 DEF ServerInv, StartsCounted, TypeOK
<1>3. \A q \in Ports : owner[q] # <<p, starts[p] + 1>>
  BY <1>1, <1>2 DEF ServerInv, TypeOK
<1>4. \A s \in Servers : s[1] = p /\ BuiltIn(s) => Gone(s)
  BY DEF ServerInv, BuiltInHeld, Kept, Alive, Startable
<1> QED BY <1>1, <1>2, <1>3, <1>4

LEMMA StartCommandInv ==
  ASSUME ServerInv, NEW p \in Predictors, StartCommand(p)
  PROVE  ServerInv'
<1> DEFINE new == <<p, starts[p] + 1>>
<1> USE RecipeAssumption
<1>1. /\ new \in Servers /\ server[new] = "off" /\ starts[p] + 1 \in 0 .. MaxStarts
      /\ \A q \in Ports : owner[q] # new
  BY NewServer DEF StartCommand
<1>2. ~ BuiltIn(new) /\ \A s \in Servers : BuiltIn(s) => s # new /\ s[1] # p
  BY DEF StartCommand, BuiltIn
<1>3. TypeOK'
  BY <1>1 DEF StartCommand, ServerInv, TypeOK
<1>4. StartsCounted'
  BY <1>1 DEF StartCommand, ServerInv, TypeOK, StartsCounted, Servers
<1>5. StatesOfItsKind'
  BY <1>1, <1>2 DEF StartCommand, ServerInv, TypeOK, StatesOfItsKind, BuiltIn
<1>6. BuiltInHeld'
  BY <1>2 DEF StartCommand, ServerInv, TypeOK, BuiltInHeld, Kept, Alive, Gone,
    Own, BuiltIn, Servers
<1>7. DroppedEnded'
  BY <1>1, OwnServer DEF StartCommand, ServerInv, TypeOK, DroppedEnded, Gone, Own
<1> QED BY <1>3, <1>4, <1>5, <1>6, <1>7 DEF ServerInv

LEMMA StartBuiltInInv ==
  ASSUME ServerInv, NEW p \in Predictors, StartBuiltIn(p)
  PROVE  ServerInv'
<1> DEFINE new == <<p, starts[p] + 1>>
<1> USE RecipeAssumption
<1>1. /\ new \in Servers /\ server[new] = "off" /\ starts[p] + 1 \in 0 .. MaxStarts
      /\ \A q \in Ports : owner[q] # new
      /\ \A s \in Servers : s[1] = p /\ BuiltIn(s) => Gone(s)
  BY NewServer DEF StartBuiltIn, StartBuiltInOn
<1>2. PICK q \in Bindable(p) :
        StartBuiltInOn(p, q) /\ port' = [port EXCEPT ![p] = q]
  BY DEF StartBuiltIn
<1>3. q \in Ports /\ owner[q] = Nobody
  BY DEF Bindable
<1>4. TypeOK'
  BY <1>1, <1>2, <1>3 DEF StartBuiltInOn, ServerInv, TypeOK
<1>5. StartsCounted'
  BY <1>1, <1>2 DEF StartBuiltInOn, ServerInv, TypeOK, StartsCounted, Servers
<1>6. StatesOfItsKind'
  BY <1>1, <1>2 DEF StartBuiltInOn, ServerInv, TypeOK, StatesOfItsKind, BuiltIn
<1>7. BuiltInHeld'
  <2> SUFFICES ASSUME NEW s \in Servers, BuiltIn(s), Alive(s)'
               PROVE  Kept(s)' /\ (port[s[1]] \in Ports /\ owner[port[s[1]]] = s)'
    BY DEF BuiltInHeld, BuiltIn
  <2>1. CASE s = new
    BY <1>2, <1>3, <2>1 DEF StartBuiltInOn, ServerInv, TypeOK, Kept, Own
  <2>2. CASE s # new
    <3>1. Alive(s) /\ s[1] # p /\ s[1] \in Predictors
      BY <1>1, <1>2, <2>2 DEF StartBuiltInOn, ServerInv, TypeOK, Alive, Gone, Servers
    <3>2. Kept(s) /\ port[s[1]] \in Ports /\ owner[port[s[1]]] = s
      BY <3>1 DEF ServerInv, BuiltInHeld
    <3>3. s # Nobody
      OBVIOUS
    <3> QED BY <1>2, <1>3, <2>2, <3>1, <3>2, <3>3 DEF StartBuiltInOn, ServerInv,
      TypeOK, Kept, Alive, Gone, Own
  <2> QED BY <2>1, <2>2
<1>8. DroppedEnded'
  BY <1>1, <1>2, OwnServer DEF StartBuiltInOn, ServerInv, TypeOK, DroppedEnded, Gone, Own
<1> QED BY <1>4, <1>5, <1>6, <1>7, <1>8 DEF ServerInv

LEMMA StartFailsInv ==
  ASSUME ServerInv, NEW p \in Predictors, StartFails(p)
  PROVE  ServerInv'
<1> USE RecipeAssumption
<1>1. /\ starts[p] + 1 \in 0 .. MaxStarts
      /\ \A s \in Servers : s[1] = p /\ BuiltIn(s) => Gone(s)
  BY NewServer DEF StartFails
<1>2. TypeOK'
  BY <1>1 DEF StartFails, ServerInv, TypeOK
<1>3. StartsCounted'
  BY <1>1 DEF StartFails, ServerInv, TypeOK, StartsCounted, Servers
<1>4. StatesOfItsKind'
  BY DEF StartFails, ServerInv, StatesOfItsKind, BuiltIn
<1>5. BuiltInHeld'
  <2> SUFFICES ASSUME NEW s \in Servers, BuiltIn(s), Alive(s)'
               PROVE  Kept(s)' /\ (port[s[1]] \in Ports /\ owner[port[s[1]]] = s)'
    BY DEF BuiltInHeld, BuiltIn
  <2>1. Alive(s) /\ s[1] # p /\ s[1] \in Predictors
    BY <1>1 DEF StartFails, Alive, Gone, Servers
  <2>2. Kept(s) /\ port[s[1]] \in Ports /\ owner[port[s[1]]] = s
    BY <2>1 DEF ServerInv, BuiltInHeld
  <2> QED BY <2>1, <2>2 DEF StartFails, ServerInv, TypeOK, Kept, Alive, Gone, Own
<1>6. DroppedEnded'
  BY DEF StartFails, ServerInv, TypeOK, DroppedEnded, Gone, Own
<1> QED BY <1>2, <1>3, <1>4, <1>5, <1>6 DEF ServerInv

LEMMA PollingInv ==
  ASSUME ServerInv, NEW p \in Predictors, Polling(p)
  PROVE  ServerInv'
<1> USE RecipeAssumption
<1>1. CASE PollReady(p)
  <2>1. TypeOK' /\ StartsCounted' /\ StatesOfItsKind'
    BY <1>1 DEF PollReady, ServerInv, TypeOK, StartsCounted, StatesOfItsKind, BuiltIn
  <2>2. BuiltInHeld'
    BY <1>1 DEF PollReady, ServerInv, TypeOK, BuiltInHeld, Kept, Alive, Gone, Own, BuiltIn
  <2>3. DroppedEnded'
    BY <1>1 DEF PollReady, ServerInv, TypeOK, DroppedEnded, Gone, Own
  <2> QED BY <2>1, <2>2, <2>3 DEF ServerInv
<1>2. CASE PollTimesOut(p)
  <2>1. Own(p) \in Servers
    BY <1>2, OwnServer DEF PollTimesOut
  <2>2. /\ phase[p] = "polling"
        /\ phase' = [phase EXCEPT ![p] = IF BuiltIn(Own(p)) THEN "failing" ELSE "failed"]
        /\ running' \in [Servers -> BOOLEAN]
        /\ UNCHANGED <<starts, port, server, owner, acceptErrors>>
    BY <1>2, <2>1 DEF PollTimesOut, ServerInv, TypeOK
  <2>3. TypeOK' /\ StartsCounted' /\ StatesOfItsKind'
    BY <2>2 DEF ServerInv, TypeOK, StartsCounted, StatesOfItsKind, BuiltIn
  <2>4. BuiltInHeld'
    BY <2>2 DEF ServerInv, TypeOK, BuiltInHeld, Kept, Alive, Gone, Own, BuiltIn
  <2>5. DroppedEnded'
    BY <2>2 DEF ServerInv, TypeOK, DroppedEnded, Gone, Own
  <2> QED BY <2>3, <2>4, <2>5 DEF ServerInv
<1> QED BY <1>1, <1>2 DEF Polling

LEMMA DropInv ==
  ASSUME ServerInv, NEW p \in Predictors, DropCommand(p) \/ DropBuiltIn(p) \/ Join(p)
  PROVE  ServerInv'
<1> USE RecipeAssumption
<1>1. Own(p) \in Servers
  BY OwnServer DEF DropCommand, DropBuiltIn, Join
<1>2. CASE DropCommand(p)
  <2>1. \A q \in Ports : owner'[q] # Own(p) /\ owner'[q] \in {owner[q], Nobody}
    BY <1>1, <1>2 DEF DropCommand, Released
  <2>2. TypeOK'
    BY <1>1, <1>2, <2>1 DEF DropCommand, Released, ServerInv, TypeOK
  <2>3. StartsCounted'
    BY <1>1, <1>2 DEF DropCommand, ServerInv, TypeOK, StartsCounted, Own
  <2>4. StatesOfItsKind'
    BY <1>1, <1>2 DEF DropCommand, ServerInv, TypeOK, StatesOfItsKind, BuiltIn
  <2>5. BuiltInHeld'
    <3> SUFFICES ASSUME NEW s \in Servers, BuiltIn(s), Alive(s)'
                 PROVE  Kept(s)' /\ (port[s[1]] \in Ports /\ owner[port[s[1]]] = s)'
      BY DEF BuiltInHeld, BuiltIn
    <3>1. s # Own(p) /\ Alive(s) /\ s[1] \in Predictors
      BY <1>2 DEF DropCommand, Alive, Gone, ServerInv, TypeOK, Servers
    <3>2. s[1] # p
      BY <1>2 DEF DropCommand, BuiltIn, Own
    <3>3. Kept(s) /\ port[s[1]] \in Ports /\ owner[port[s[1]]] = s
      BY <3>1 DEF ServerInv, BuiltInHeld
    <3> QED BY <1>2, <3>1, <3>2, <3>3 DEF DropCommand, Released, ServerInv, TypeOK,
      Kept, Alive, Gone, Own
  <2>6. DroppedEnded'
    BY <1>1, <1>2 DEF DropCommand, ServerInv, TypeOK, DroppedEnded, Gone, Own
  <2> QED BY <2>2, <2>3, <2>4, <2>5, <2>6 DEF ServerInv
<1>3. CASE DropBuiltIn(p)
  <2>1. TypeOK' /\ StartsCounted' /\ StatesOfItsKind'
    BY <1>1, <1>3 DEF DropBuiltIn, ServerInv, TypeOK, StartsCounted, StatesOfItsKind, BuiltIn
  <2>2. BuiltInHeld'
    BY <1>3 DEF DropBuiltIn, ServerInv, TypeOK, BuiltInHeld, Kept, Alive, Gone, Own, BuiltIn
  <2>3. DroppedEnded'
    BY <1>3 DEF DropBuiltIn, ServerInv, TypeOK, DroppedEnded, Gone, Own
  <2> QED BY <2>1, <2>2, <2>3 DEF ServerInv
<1>4. CASE Join(p)
  <2>1. TypeOK' /\ StartsCounted' /\ StatesOfItsKind'
    BY <1>4 DEF Join, ServerInv, TypeOK, StartsCounted, StatesOfItsKind, BuiltIn
  <2>2. BuiltInHeld'
    BY <1>4 DEF Join, ServerInv, TypeOK, BuiltInHeld, Kept, Alive, Gone, Own, BuiltIn
  <2>3. DroppedEnded'
    BY <1>4 DEF Join, ServerInv, TypeOK, DroppedEnded, Gone, Own
  <2> QED BY <2>1, <2>2, <2>3 DEF ServerInv
<1> QED BY <1>2, <1>3, <1>4

\* A server that is alive goes on: what all its steps that end nothing share.
LEMMA ServerGoesOn ==
  ASSUME ServerInv, NEW s \in Servers, NEW from, NEW to, Becomes(s, from, to),
         Alive(s), to \in {"bound", "serving", "handling"},
         IF BuiltIn(s) THEN UNCHANGED owner
         ELSE /\ to # "handling"
              /\ \/ UNCHANGED owner
                 \/ \E q \in Ports : owner[q] = Nobody /\ owner' = [owner EXCEPT ![q] = s],
         UNCHANGED acceptErrors, UNCHANGED running
  PROVE  ServerInv'
<1> USE RecipeAssumption DEF Becomes
<1>1. TypeOK'
  BY DEF ServerInv, TypeOK
<1>2. StartsCounted'
  BY DEF ServerInv, TypeOK, StartsCounted, Alive, Gone
<1>3. StatesOfItsKind'
  BY DEF ServerInv, TypeOK, StatesOfItsKind, BuiltIn
<1>4. BuiltInHeld'
  <2> SUFFICES ASSUME NEW t \in Servers, BuiltIn(t), Alive(t)'
               PROVE  Kept(t)' /\ (port[t[1]] \in Ports /\ owner[port[t[1]]] = t)'
    BY DEF BuiltInHeld, BuiltIn
  <2>1. Alive(t)
    BY DEF Alive, Gone, ServerInv, TypeOK
  <2>2. Kept(t) /\ port[t[1]] \in Ports /\ owner[port[t[1]]] = t /\ t # Nobody
    BY <2>1 DEF ServerInv, BuiltInHeld
  <2>3. owner'[port[t[1]]] = t
    BY <2>2 DEF ServerInv, TypeOK
  <2> QED BY <2>1, <2>2, <2>3 DEF Kept, Alive, Gone, Own
<1>5. DroppedEnded'
  BY DEF ServerInv, TypeOK, DroppedEnded, Alive, Gone, Own
<1> QED BY <1>1, <1>2, <1>3, <1>4, <1>5 DEF ServerInv

\* A server ends, and its port is free.
LEMMA ServerStops ==
  ASSUME ServerInv, NEW s \in Servers, NEW from, Becomes(s, from, "exited"),
         Alive(s), owner' = Released(s),
         acceptErrors' \in 0 .. MaxAcceptErrors, UNCHANGED running
  PROVE  ServerInv'
<1> USE RecipeAssumption DEF Becomes
<1>1. \A q \in Ports : owner'[q] # s /\ owner'[q] \in {owner[q], Nobody}
  BY DEF Released
<1>2. TypeOK'
  BY <1>1 DEF ServerInv, TypeOK, Released
<1>3. StartsCounted'
  BY DEF ServerInv, TypeOK, StartsCounted, Alive, Gone
<1>4. StatesOfItsKind'
  BY DEF ServerInv, TypeOK, StatesOfItsKind, BuiltIn
<1>5. BuiltInHeld'
  <2> SUFFICES ASSUME NEW t \in Servers, BuiltIn(t), Alive(t)'
               PROVE  Kept(t)' /\ (port[t[1]] \in Ports /\ owner[port[t[1]]] = t)'
    BY DEF BuiltInHeld, BuiltIn
  <2>1. Alive(t) /\ t # s
    BY DEF Alive, Gone, ServerInv, TypeOK
  <2>2. Kept(t) /\ port[t[1]] \in Ports /\ owner[port[t[1]]] = t
    BY <2>1 DEF ServerInv, BuiltInHeld
  <2>3. owner'[port[t[1]]] = t
    BY <2>1, <2>2 DEF Released
  <2> QED BY <2>1, <2>2, <2>3 DEF Kept, Alive, Gone, Own
<1>6. DroppedEnded'
  BY DEF ServerInv, TypeOK, DroppedEnded, Gone, Own
<1> QED BY <1>2, <1>3, <1>4, <1>5, <1>6 DEF ServerInv

LEMMA ServingInv ==
  ASSUME ServerInv, NEW s \in Servers, Serving(s)
  PROVE  ServerInv'
<1> USE RecipeAssumption DEF Alive, Gone
<1>1. CASE ChildBinds(s)
  <2>1. Recipe[s[1]].port \in Ports
    BY <1>1 DEF ChildBinds, BuiltIn, Servers
  <2> QED BY <1>1, <2>1, ServerGoesOn DEF ChildBinds, Becomes
<1>2. CASE ChildServes(s)
  BY <1>2, ServerGoesOn DEF ChildServes, Becomes
<1>3. CASE ChildExits(s)
  BY <1>3, ServerStops DEF ChildExits, Becomes, ServerInv, TypeOK
<1>4. CASE ThreadLoops(s)
  BY <1>4, ServerGoesOn DEF ThreadLoops, Becomes
<1>5. CASE ThreadAccepts(s)
  BY <1>5, ServerGoesOn DEF ThreadAccepts, Becomes
<1>6. CASE ThreadAnswers(s)
  BY <1>6, ServerGoesOn DEF ThreadAnswers, Becomes
<1>7. CASE ThreadEnds(s)
  BY <1>7, ServerStops DEF ThreadEnds, Becomes, ServerInv, TypeOK
<1>8. CASE AcceptFails(s)
  <2>1. acceptErrors' \in 0 .. MaxAcceptErrors
    BY <1>8 DEF AcceptFails, ServerInv, TypeOK
  <2> QED BY <1>8, <2>1, ServerStops DEF AcceptFails, Becomes
<1> QED BY <1>1, <1>2, <1>3, <1>4, <1>5, <1>6, <1>7, <1>8 DEF Serving

LEMMA NextServerInv == ServerInv /\ [Next]_vars => ServerInv'
<1> SUFFICES ASSUME ServerInv, [Next]_vars PROVE ServerInv'
  OBVIOUS
<1>1. ASSUME NEW p \in Predictors, Owner(p) \/ Polling(p) \/ Join(p)
      PROVE  ServerInv'
  BY <1>1, StartCommandInv, StartBuiltInInv, StartFailsInv, PollingInv, DropInv DEF Owner
<1>2. ASSUME NEW s \in Servers, Serving(s) PROVE ServerInv'
  BY <1>2, ServingInv
<1>3. CASE UNCHANGED vars
  BY <1>3 DEF vars, ServerInv, TypeOK, StartsCounted, StatesOfItsKind, BuiltInHeld,
    DroppedEnded, Kept, Alive, Gone, Own, BuiltIn
<1> QED BY <1>1, <1>2, <1>3 DEF Next

LEMMA ServerInvariant == Spec => []ServerInv
<1>1. Init => ServerInv
  BY InitServerInv
<1>2. ServerInv /\ [Next]_vars => ServerInv'
  BY NextServerInv
<1> QED BY <1>1, <1>2, PTL DEF Spec
-----------------------------------------------------------------------------
\* Every variable keeps its type; in particular no port belongs to a server
\* that has ended, and an endpoint that is polled or used has a port.
THEOREM ServersTypeCorrect == Spec => []TypeOK
<1>1. ServerInv => TypeOK
  BY DEF ServerInv
<1> QED BY <1>1, ServerInvariant, PTL

\* Whatever commands and other predictors want the same port, and however often
\* each is started and dropped: a ready predictor whose built-in server is
\* alive sends its requests to that server (BuiltInMockServer::spawn binds
\* before it tells the port).
THEOREM RequestsReachTheBuiltIn == Spec => []BuiltInOwned
<1>1. ServerInv => BuiltInOwned
  <2> SUFFICES ASSUME ServerInv, NEW p \in Predictors,
                      phase[p] = "ready", BuiltIn(Own(p)), ~ Gone(Own(p))
               PROVE  owner[port[p]] = Own(p)
    BY DEF BuiltInOwned
  <2>1. Own(p) \in Servers /\ Own(p)[1] = p
    BY OwnServer DEF Own
  <2> QED BY <2>1 DEF ServerInv, BuiltInHeld, Alive
<1> QED BY <1>1, ServerInvariant, PTL

\* A built-in server that is alive is the last one its predictor started, and
\* somebody is still starting, using or stopping it: none is left behind by a
\* drop, a failed start or a retry (Drop for BuiltInMockServer).
THEOREM NoBuiltInLeaks == Spec => []BuiltInNotLeaked
<1>1. ServerInv => BuiltInNotLeaked
  BY DEF ServerInv, BuiltInHeld, BuiltInNotLeaked, Alive, Kept
<1> QED BY <1>1, ServerInvariant, PTL

\* A predictor that has been dropped, a command or a built-in server, has no
\* process and no port (Drop for ManagedPredictor).
THEOREM DropIsClean == Spec => []DropLeavesNothing
<1>1. ServerInv => DropLeavesNothing
  <2> SUFFICES ASSUME ServerInv, NEW p \in Predictors, phase[p] = "dropped"
               PROVE  Gone(Own(p)) /\ \A q \in Ports : owner[q] # Own(p)
    BY DEF DropLeavesNothing
  <2>1. Gone(Own(p)) /\ Own(p) \in Servers
    BY OwnServer DEF ServerInv, DroppedEnded
  <2>2. \A q \in Ports : owner[q] # Own(p)
    BY <2>1, RecipeAssumption DEF ServerInv, TypeOK, Gone
  <2> QED BY <2>1, <2>2
<1> QED BY <1>1, ServerInvariant, PTL
=============================================================================
