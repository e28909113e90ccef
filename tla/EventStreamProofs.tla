------------------------- MODULE EventStreamProofs --------------------------
(* Theorems about EventStream, for every layout of a tree, every schema,    *)
(* window size and range of entries.                                        *)
EXTENDS EventStream, WindowReaderProofs

StreamType ==
  /\ chunkSize \in Nat \ {0}
  /\ nextEntry \in 0 .. layout.entries
  /\ chunkStart \in 0 .. nextEntry
  /\ chunkLen \in 0 .. chunkSize
  /\ chunkRow \in 0 .. chunkLen
  /\ request \in Requests
  /\ skipping \in 0 .. request[1]
  /\ taking \in 0 .. request[2] - request[1]
  /\ got \in Seq({got[i] : i \in DOMAIN got})
  /\ \A i \in DOMAIN got : got[i].entry \in 0 .. layout.entries - 1
  /\ result \in {"running", "ok", "error"}

\* While a window is read, it is the next one, and somebody waits for it.
WindowAsked ==
  state # "idle" =>
    /\ lo = nextEntry /\ nextEntry < layout.entries
    /\ hi = nextEntry + Smaller(chunkSize, layout.entries - nextEntry)
    /\ chunkRow >= chunkLen
    /\ result = "running" /\ taking > 0

\* The window held ends where the next one starts and has its own entries' rows.
WindowHeld ==
  chunkLen > 0 =>
    /\ chunkStart + chunkLen = nextEntry
    /\ \A c \in DOMAIN Specs : Specs[c].name \in DOMAIN held =>
         held[Specs[c].name] = RowsFrom(Specs[c], chunkStart, chunkLen)

\* The entry of the next event the iterator returns.
Position == IF chunkRow < chunkLen THEN chunkStart + chunkRow ELSE nextEntry

\* Events returned so far are those of the entries in order, from 0 on ...
InStep ==
  /\ Position = (request[1] - skipping) + Len(got)
  /\ \A i \in DOMAIN got : got[i].entry = request[1] + i - 1

\* ... unless the next window fails each time it is tried.
Stuck ==
  /\ faults = 0 /\ request[1] # 0
  /\ Broken(nextEntry) /\ nextEntry < layout.entries
  /\ chunkRow >= chunkLen
  /\ got = << >> /\ taking > 0 /\ result # "ok"

Numbered ==
  /\ taking = (request[2] - request[1]) - Len(got)
  /\ skipping > 0 => got = << >>
  /\ faults = 0 \/ request[1] = 0 => InStep \/ Stuck

\* The inductive invariant.
StreamInv ==
  /\ ReaderInv /\ StreamType /\ WindowAsked /\ WindowHeld
  /\ EventsAreTheirOwn /\ Numbered /\ SteadyChunkIsItsRange

LEMMA RequestNumbers ==
  ASSUME StreamInv
  PROVE  /\ request[1] \in Nat /\ request[2] \in Nat /\ request[1] <= request[2]
         /\ layout \in Layouts /\ layout.entries \in Nat
BY StreamAssumption, ReaderAssumption DEF StreamInv, StreamType, ReaderInv, ReaderType, IsLayout

\* One event more.
LEMMA AppendEvent ==
  ASSUME got \in Seq({got[i] : i \in DOMAIN got}), NEW event, NEW more,
         more = Append(got, event)
  PROVE  /\ more \in Seq({more[i] : i \in DOMAIN more})
         /\ Len(got) \in Nat /\ Len(more) = Len(got) + 1
         /\ DOMAIN got = 1 .. Len(got) /\ DOMAIN more = 1 .. Len(got) + 1
         /\ \A i \in DOMAIN got : more[i] = got[i]
         /\ more[Len(got) + 1] = event
         /\ \A i \in DOMAIN more : i \in DOMAIN got \/ i = Len(got) + 1
<1> DEFINE S == {got[i] : i \in DOMAIN got} \cup {event}
<1>1. got \in Seq(S) /\ event \in S
  OBVIOUS
<1>2. /\ Len(got) \in Nat /\ Len(more) = Len(got) + 1 /\ more \in Seq(S)
      /\ DOMAIN got = 1 .. Len(got) /\ DOMAIN more = 1 .. Len(got) + 1
  BY <1>1
<1>3. \A i \in DOMAIN got : more[i] = got[i]
  BY <1>1, <1>2
<1>4. more[Len(got) + 1] = event
  BY <1>1, <1>2
<1>5. more \in Seq({more[i] : i \in DOMAIN more})
  BY <1>2
<1>6. \A i \in DOMAIN more : i \in DOMAIN got \/ i = Len(got) + 1
  BY <1>2
<1> QED BY <1>2, <1>3, <1>4, <1>5, <1>6

\* An event that is the next in order keeps the consumer right.
LEMMA TakeEventInv ==
  ASSUME StreamInv, NEW event, TakeEvent(event), UNCHANGED <<layout, faults>>,
         taking > 0, result = "running",
         event.entry \in 0 .. layout.entries - 1,
         \A c \in DOMAIN Specs : Specs[c].name \in DOMAIN event.values =>
           event.values[Specs[c].name] = RowOf(Specs[c], event.entry),
         faults = 0 \/ request[1] = 0 =>
           InStep /\ Position = event.entry /\ Position' = event.entry + 1
  PROVE  /\ request' \in Requests /\ skipping' \in 0 .. request'[1]
         /\ taking' \in 0 .. request'[2] - request'[1]
         /\ got' \in Seq({got'[i] : i \in DOMAIN got'})
         /\ \A i \in DOMAIN got' : got'[i].entry \in 0 .. layout'.entries - 1
         /\ result' \in {"running", "ok", "error"}
         /\ EventsAreTheirOwn' /\ Numbered' /\ SteadyChunkIsItsRange'
<1>1. /\ request[1] \in Nat /\ request[2] \in Nat /\ request[1] <= request[2]
      /\ layout.entries \in Nat /\ request' = request /\ request \in Requests
      /\ skipping \in 0 .. request[1] /\ taking \in 0 .. request[2] - request[1]
      /\ taking = (request[2] - request[1]) - Len(got)
      /\ Len(got) \in Nat /\ DOMAIN got = 1 .. Len(got)
      /\ \A i \in DOMAIN got : got[i].entry \in 0 .. layout.entries - 1
  BY RequestNumbers DEF StreamInv, StreamType, Numbered, TakeEvent
<1>n. /\ request[1] \in Nat /\ request[2] \in Nat /\ Len(got) \in Nat
      /\ taking = (request[2] - request[1]) - Len(got) /\ request' = request
  BY <1>1
<1>0. got \in Seq({got[i] : i \in DOMAIN got})
  BY DEF StreamInv, StreamType
<1>2. CASE skipping > 0
  <2>1. /\ skipping' = skipping - 1 /\ taking' = taking /\ got' = got /\ result' = "running"
        /\ got = << >>
    BY <1>2 DEF TakeEvent, StreamInv, Numbered
  <2>2. EventsAreTheirOwn' /\ SteadyChunkIsItsRange'
    BY <2>1 DEF EventsAreTheirOwn, SteadyChunkIsItsRange, ChunkIsItsRange
  <2>3. faults = 0 \/ request[1] = 0 => InStep'
    BY <1>1, <1>2, <2>1 DEF InStep
  <2>4. Numbered'
    BY <1>1, <2>1, <2>3 DEF Numbered
  <2> QED BY <1>0, <1>1, <1>2, <2>1, <2>2, <2>4
<1>3. CASE skipping = 0
  <2>1. /\ skipping' = 0 /\ taking' = taking - 1 /\ got' = Append(got, event)
        /\ result' = IF taking = 1 THEN "ok" ELSE "running"
    BY <1>3 DEF TakeEvent
  <2>a. PICK more : more = Append(got, event)
    OBVIOUS
  <2>b. got' = more
    BY <2>1, <2>a
  <2>c. /\ more \in Seq({more[i] : i \in DOMAIN more})
        /\ Len(more) = Len(got) + 1 /\ DOMAIN more = 1 .. Len(got) + 1
        /\ \A i \in DOMAIN got : more[i] = got[i]
        /\ more[Len(got) + 1] = event
        /\ \A i \in DOMAIN more : i \in DOMAIN got \/ i = Len(got) + 1
    BY <1>0, <2>a, AppendEvent
  <2>2. /\ got' = more
        /\ Len(more) = Len(got) + 1 /\ DOMAIN more = 1 .. Len(got) + 1
        /\ \A i \in DOMAIN got : more[i] = got[i]
        /\ more[Len(got) + 1] = event
        /\ \A i \in DOMAIN more : i \in DOMAIN got \/ i = Len(got) + 1
    BY <2>b, <2>c
  <2>3. \A i \in DOMAIN more : more[i].entry \in 0 .. layout.entries - 1
    BY <1>1, <2>2
  <2>4. EventsAreTheirOwn'
    <3>1. EventsAreTheirOwn
      BY DEF StreamInv
    <3>2. SUFFICES ASSUME NEW i \in DOMAIN more, NEW c \in DOMAIN Specs,
                          Specs[c].name \in DOMAIN more[i].values
                   PROVE  more[i].values[Specs[c].name] = RowOf(Specs[c], more[i].entry)
      BY <2>2 DEF EventsAreTheirOwn, RowOf, Offset, Counts
    <3> QED BY <1>1, <2>2, <3>1, <3>2 DEF EventsAreTheirOwn
  <2>5. faults = 0 \/ request[1] = 0 => InStep'
    <3>1. SUFFICES ASSUME faults = 0 \/ request[1] = 0
                   PROVE  InStep'
      OBVIOUS
    <3>2. /\ event.entry = request[1] + Len(got)
          /\ Position' = event.entry + 1
          /\ \A i \in DOMAIN got : got[i].entry = request[1] + i - 1
      BY <1>1, <1>3, <3>1 DEF InStep
    <3>3. \A i \in DOMAIN more : more[i].entry = request[1] + i - 1
      <4> SUFFICES ASSUME NEW i \in DOMAIN more PROVE more[i].entry = request[1] + i - 1
        OBVIOUS
      <4>1. CASE i \in DOMAIN got
        BY <2>2, <3>2, <4>1
      <4>2. CASE i = Len(got) + 1
        <5>1. more[i].entry = request[1] + Len(got)
          BY <2>2, <3>2, <4>2
        <5> QED BY <1>1, <4>2, <5>1
      <4> QED BY <2>2, <4>1, <4>2
    <3> QED BY <1>1, <2>1, <2>2, <3>2, <3>3 DEF InStep
  <2>6. Numbered'
    <3>1. taking' = taking - 1 /\ Len(got') = Len(got) + 1
      BY <2>1, <2>2
    <3>2. taking' = (request'[2] - request'[1]) - Len(got')
      BY <1>n, <3>1
    <3> QED BY <1>1, <2>1, <2>5, <3>2 DEF Numbered
  <2>7. SteadyChunkIsItsRange'
    <3>1. SUFFICES ASSUME faults = 0 \/ request[1] = 0, taking = 1
                   PROVE  ChunkIsItsRange'
      BY <1>1, <2>1 DEF SteadyChunkIsItsRange, ChunkIsItsRange
    <3>2. /\ event.entry = request[1] + Len(got) /\ InStep'
      BY <1>1, <1>3, <2>5, <3>1 DEF InStep
    <3>a. Len(got) + 1 = request[2] - request[1]
      BY <1>1, <3>1
    <3>b. request[2] <= layout.entries
      <4>1. layout.entries \in Nat /\ event.entry \in Nat /\ event.entry <= layout.entries - 1
        BY <1>1
      <4>2. event.entry = request[1] + Len(got)
        BY <3>2
      <4> QED BY <1>n, <3>a, <4>1, <4>2
    <3>3. /\ Len(more) = request[2] - request[1] /\ request[2] <= layout.entries
      BY <2>2, <3>a, <3>b
    <3>4. /\ Smaller(request[1], layout.entries) = request[1]
          /\ Smaller(request[2], layout.entries) = request[2]
      BY <1>1, <3>3 DEF Smaller
    <3>5. request' = request /\ layout' = layout /\ got' = more
      BY <1>1, <2>2
    <3>6. \A i \in DOMAIN got' : got'[i].entry = request[1] + i - 1
      BY <3>2, <3>5 DEF InStep
    <3> QED BY <3>3, <3>4, <3>5, <3>6 DEF ChunkIsItsRange, Smaller
  <2>8. taking' \in 0 .. request[2] - request[1]
    <3>1. taking \in Nat /\ taking <= request[2] - request[1]
      BY <1>1
    <3>2. taking' = taking - 1
      BY <2>1
    <3> QED BY <1>n, <3>1, <3>2
  <2>9. request' = request /\ skipping' = 0 /\ 0 \in 0 .. request[1]
    BY <1>1, <2>1
  <2>10. got' \in Seq({got'[i] : i \in DOMAIN got'})
    BY <2>2, <2>c
  <2>11. /\ \A i \in DOMAIN got' : got'[i].entry \in 0 .. layout'.entries - 1
         /\ result' \in {"running", "ok", "error"}
    BY <2>1, <2>2, <2>3
  <2> QED BY <1>1, <2>4, <2>6, <2>7, <2>8, <2>9, <2>10, <2>11
<1> QED BY <1>1, <1>2, <1>3

LEMMA InitStreamInv == Init => StreamInv
<1> SUFFICES ASSUME Init PROVE StreamInv
  OBVIOUS
<1>1. ReaderInv
  BY WindowInitInv DEF Init
<1>2. /\ request[1] \in Nat /\ request[2] \in Nat /\ request[1] <= request[2]
      /\ request \in Requests /\ layout.entries \in Nat
  BY StreamAssumption, ReaderAssumption, <1>1 DEF Init, ReaderInv, ReaderType, IsLayout
<1>3. chunkSize \in Nat \ {0}
  BY StreamAssumption DEF Init, Larger
<1>4. got = << >> /\ DOMAIN got = {} /\ Len(got) = 0 /\ got \in Seq({got[i] : i \in DOMAIN got})
  BY DEF Init
<1>5. /\ nextEntry = 0 /\ chunkStart = 0 /\ chunkLen = 0 /\ chunkRow = 0
      /\ skipping = request[1] /\ taking = request[2] - request[1] /\ result = "running"
      /\ state = "idle"
  BY DEF Init, WindowInit
<1>6. StreamType
  BY <1>2, <1>3, <1>4, <1>5 DEF StreamType
<1>7. WindowAsked /\ WindowHeld /\ EventsAreTheirOwn /\ SteadyChunkIsItsRange
  BY <1>4, <1>5 DEF WindowAsked, WindowHeld, EventsAreTheirOwn, SteadyChunkIsItsRange, ChunkIsItsRange
<1>8. Numbered
  BY <1>2, <1>4, <1>5 DEF Numbered, InStep, Position
<1> QED BY <1>1, <1>6, <1>7, <1>8 DEF StreamInv

\* The consumer ends without another event.
LEMMA TakeEndInv ==
  ASSUME StreamInv, TakeEnd, UNCHANGED <<layout, reader>>, state = "idle",
         chunkSize' = chunkSize, nextEntry' = nextEntry, chunkStart' = chunkStart,
         chunkLen' \in 0 .. chunkSize, chunkRow' \in 0 .. chunkLen', WindowHeld',
         faults = 0 \/ request[1] = 0 => InStep /\ ChunkIsItsRange' /\ Position' = Position
  PROVE  StreamInv'
<1>1. ReaderInv'
  BY ReaderIdles DEF StreamInv
<1>2. /\ UNCHANGED <<request, skipping, taking, got>> /\ result' = "ok"
      /\ layout' = layout /\ state' = "idle" /\ faults' = faults
  BY DEF TakeEnd, reader
<1>3. StreamType'
  BY <1>2 DEF StreamInv, StreamType
<1>4. WindowAsked'
  BY <1>2 DEF WindowAsked
<1>5. EventsAreTheirOwn'
  BY <1>2 DEF StreamInv, EventsAreTheirOwn, RowOf, Offset, Counts
<1>6. SteadyChunkIsItsRange'
  BY <1>2 DEF SteadyChunkIsItsRange
<1>7. faults = 0 \/ request[1] = 0 => InStep'
  BY <1>2 DEF InStep
<1>8. Numbered'
  BY <1>2, <1>7 DEF StreamInv, Numbered
<1> QED BY <1>1, <1>3, <1>4, <1>5, <1>6, <1>8 DEF StreamInv

\* What the numbers of the iterator and the consumer are.
LEMMA StreamNumbers ==
  ASSUME StreamInv
  PROVE  /\ request[1] \in Nat /\ request[2] \in Nat /\ request[1] <= request[2]
         /\ layout.entries \in Nat /\ chunkSize \in Nat /\ chunkSize > 0
         /\ nextEntry \in Nat /\ nextEntry <= layout.entries
         /\ chunkStart \in Nat /\ chunkLen \in Nat /\ chunkRow \in Nat
         /\ chunkStart <= nextEntry /\ chunkLen <= chunkSize /\ chunkRow <= chunkLen
         /\ skipping \in Nat /\ skipping <= request[1]
         /\ Len(got) \in Nat
         /\ taking \in Nat /\ taking = (request[2] - request[1]) - Len(got)
         /\ skipping > 0 => Len(got) = 0
<1>1. /\ chunkSize \in Nat \ {0} /\ nextEntry \in 0 .. layout.entries
      /\ chunkStart \in 0 .. nextEntry /\ chunkLen \in 0 .. chunkSize
      /\ chunkRow \in 0 .. chunkLen /\ skipping \in 0 .. request[1]
      /\ taking \in 0 .. request[2] - request[1]
      /\ taking = (request[2] - request[1]) - Len(got)
      /\ skipping > 0 => Len(got) = 0
  BY DEF StreamInv, StreamType, Numbered
<1>2. Len(got) \in Nat
  BY DEF StreamInv, StreamType
<1> QED BY <1>1, <1>2, RequestNumbers

LEMMA DeliverInv == StreamInv /\ Deliver => StreamInv'
<1> SUFFICES ASSUME StreamInv, Deliver PROVE StreamInv'
  OBVIOUS
<1> PICK event : event = EventAt(held, chunkStart, chunkRow)
  OBVIOUS
<1>1. /\ chunkRow < chunkLen /\ chunkRow' = chunkRow + 1 /\ TakeEvent(event)
      /\ UNCHANGED <<layout, faults, nextEntry, chunkStart, chunkLen, held, chunkSize>>
      /\ result = "running" /\ taking > 0 /\ state = "idle" /\ state' = "idle"
  BY DEF Deliver, Calling, reader
<1>2. event.entry = chunkStart + chunkRow
  BY DEF EventAt
<1>3. chunkStart + chunkLen = nextEntry
  BY <1>1, StreamNumbers DEF StreamInv, WindowHeld
<1>n. /\ chunkStart \in Nat /\ chunkLen \in Nat /\ chunkRow \in Nat
      /\ nextEntry <= layout.entries /\ layout.entries \in Nat
  BY StreamNumbers
<1>m. chunkRow < chunkLen
  BY <1>1
<1>4. event.entry \in 0 .. layout.entries - 1
  BY <1>2, <1>3, <1>n, <1>m
<1>5. ASSUME NEW c \in DOMAIN Specs, Specs[c].name \in DOMAIN event.values
      PROVE  event.values[Specs[c].name] = RowOf(Specs[c], event.entry)
  <2>1. /\ Specs[c].name \in DOMAIN held
        /\ event.values[Specs[c].name] = held[Specs[c].name][chunkRow + 1]
    BY <1>5 DEF EventAt
  <2>2. held[Specs[c].name] = RowsFrom(Specs[c], chunkStart, chunkLen)
    BY <1>1, <2>1, StreamNumbers DEF StreamInv, WindowHeld
  <2>3. chunkRow + 1 \in 1 .. chunkLen /\ chunkStart + (chunkRow + 1) - 1 = chunkStart + chunkRow
    BY <1>n, <1>m
  <2> QED BY <1>2, <2>1, <2>2, <2>3 DEF RowsFrom
<1>6. Position = event.entry
  BY <1>1, <1>2 DEF Position
<1>7. Position' = event.entry + 1
  <2>1. /\ chunkRow' = chunkRow + 1 /\ chunkLen' = chunkLen /\ nextEntry' = nextEntry
        /\ chunkStart' = chunkStart
    BY <1>1
  <2>2. Position' = IF chunkRow + 1 < chunkLen THEN chunkStart + (chunkRow + 1) ELSE nextEntry
    BY <2>1 DEF Position
  <2>3. nextEntry = chunkStart + chunkLen
    BY <1>3
  <2>4. Position' = chunkStart + (chunkRow + 1)
    BY <1>n, <1>m, <2>2, <2>3
  <2> QED BY <1>2, <1>n, <2>4
<1>8. faults = 0 \/ request[1] = 0 => InStep
  BY <1>1, StreamNumbers DEF StreamInv, Numbered, Stuck
<1>9. /\ request' \in Requests /\ skipping' \in 0 .. request'[1]
      /\ taking' \in 0 .. request'[2] - request'[1]
      /\ got' \in Seq({got'[i] : i \in DOMAIN got'})
      /\ \A i \in DOMAIN got' : got'[i].entry \in 0 .. layout'.entries - 1
      /\ result' \in {"running", "ok", "error"}
      /\ EventsAreTheirOwn' /\ Numbered' /\ SteadyChunkIsItsRange'
  BY <1>1, <1>4, <1>5, <1>6, <1>7, <1>8, TakeEventInv
<1>10. ReaderInv'
  BY ReaderIdles DEF StreamInv, Deliver
<1>11. chunkRow' \in 0 .. chunkLen
  BY <1>1, StreamNumbers
<1>12. StreamType'
  BY <1>1, <1>9, <1>11 DEF StreamInv, StreamType
<1>13. WindowAsked' /\ WindowHeld'
  <2>1. \A spec, from, n : RowsFrom(spec, from, n)' = RowsFrom(spec, from, n)
    BY SameTree DEF Deliver, reader
  <2> QED BY <1>1, <2>1 DEF StreamInv, WindowAsked, WindowHeld
<1> QED BY <1>9, <1>10, <1>12, <1>13 DEF StreamInv

LEMMA NothingAskedInv == StreamInv /\ NothingAsked => StreamInv'
<1> SUFFICES ASSUME StreamInv, NothingAsked PROVE StreamInv'
  OBVIOUS
<1>1. /\ taking = 0 /\ TakeEnd /\ result = "running" /\ UNCHANGED <<layout, reader, iterator>>
      /\ state = "idle"
  BY DEF NothingAsked, StreamInv, WindowAsked
<1>2. WindowHeld' /\ Position' = Position
  <2>1. \A spec, from, n : RowsFrom(spec, from, n)' = RowsFrom(spec, from, n)
    BY <1>1, SameTree DEF reader
  <2> QED BY <1>1, <2>1 DEF StreamInv, WindowHeld, Position, iterator
<1>3. ASSUME faults = 0 \/ request[1] = 0
      PROVE  InStep /\ ChunkIsItsRange'
  <2>1. InStep
    BY <1>1, <1>3 DEF StreamInv, Numbered, Stuck
  <2>n. /\ request[1] \in Nat /\ request[2] \in Nat /\ request[1] <= request[2]
        /\ layout.entries \in Nat /\ Len(got) \in Nat /\ skipping \in Nat
        /\ skipping > 0 => Len(got) = 0
    BY StreamNumbers
  <2>2. Len(got) = request[2] - request[1]
    <3>1. taking = 0 /\ taking = (request[2] - request[1]) - Len(got)
      BY <1>1, StreamNumbers
    <3> QED BY <2>n, <3>1
  <2>3. Position \in Nat /\ Position <= layout.entries
    <3>1. /\ chunkStart \in Nat /\ chunkLen \in Nat /\ chunkRow \in Nat
          /\ nextEntry \in Nat /\ nextEntry <= layout.entries
      BY StreamNumbers
    <3>2. chunkLen > 0 => chunkStart + chunkLen = nextEntry
      BY DEF StreamInv, WindowHeld
    <3> QED BY <2>n, <3>1, <3>2 DEF Position
  <2>4. \/ Len(got) = 0 /\ request[1] = request[2]
        \/ request[2] <= layout.entries /\ request[1] <= layout.entries
    <3>1. Position = (request[1] - skipping) + Len(got)
      BY <2>1 DEF InStep
    <3> QED BY <2>2, <2>3, <2>n, <3>1
  <2>5. Len(got) = Smaller(request[2], layout.entries) - Smaller(request[1], layout.entries)
    BY <2>2, <2>4, <2>n DEF Smaller
  <2>6. \A i \in DOMAIN got : got[i].entry = Smaller(request[1], layout.entries) + i - 1
    <3>1. CASE Len(got) = 0
      BY <3>1 DEF StreamInv, StreamType
    <3>2. CASE request[1] <= layout.entries
      <4>1. Smaller(request[1], layout.entries) = request[1]
        BY <2>n, <3>2 DEF Smaller
      <4> QED BY <2>1, <4>1 DEF InStep
    <3> QED BY <2>4, <3>1, <3>2
  <2>7. UNCHANGED <<layout, request, got>>
    BY <1>1 DEF TakeEnd
  <2> QED BY <2>1, <2>5, <2>6, <2>7 DEF ChunkIsItsRange, Smaller
<1>4. /\ chunkSize' = chunkSize /\ nextEntry' = nextEntry /\ chunkStart' = chunkStart
      /\ chunkLen' \in 0 .. chunkSize /\ chunkRow' \in 0 .. chunkLen'
  BY <1>1 DEF iterator, StreamInv, StreamType
<1> QED BY <1>1, <1>2, <1>3, <1>4, TakeEndInv

LEMMA EndOfTreeInv == StreamInv /\ EndOfTree => StreamInv'
<1> SUFFICES ASSUME StreamInv, EndOfTree PROVE StreamInv'
  OBVIOUS
<1>1. /\ taking > 0 /\ TakeEnd /\ result = "running" /\ state = "idle"
      /\ chunkRow >= chunkLen /\ nextEntry >= layout.entries
      /\ chunkLen' = 0 /\ chunkRow' = 0
      /\ UNCHANGED <<layout, reader, chunkSize, nextEntry, chunkStart>>
  BY DEF EndOfTree, Calling
<1>2. WindowHeld' /\ Position' = Position
  BY <1>1, StreamNumbers DEF WindowHeld, Position
<1>3. ASSUME faults = 0 \/ request[1] = 0
      PROVE  InStep /\ ChunkIsItsRange'
  <2>n. /\ request[1] \in Nat /\ request[2] \in Nat /\ request[1] <= request[2]
        /\ layout.entries \in Nat /\ Len(got) \in Nat /\ skipping \in Nat
        /\ skipping > 0 => Len(got) = 0
    BY StreamNumbers
  <2>m. nextEntry = layout.entries
    <3>1. nextEntry \in Nat /\ nextEntry <= layout.entries /\ nextEntry >= layout.entries
      BY <1>1, StreamNumbers
    <3> QED BY <2>n, <3>1
  <2>1. InStep
    BY <1>1, <1>3, <2>n, <2>m DEF StreamInv, Numbered, Stuck
  <2>2. Position = layout.entries
    <3>1. chunkRow \in Nat /\ chunkLen \in Nat /\ chunkRow >= chunkLen
      BY <1>1, StreamNumbers
    <3> QED BY <2>m, <3>1 DEF Position
  <2>3. request[2] > request[1] + Len(got)
    <3>1. taking > 0 /\ taking = (request[2] - request[1]) - Len(got)
      BY <1>1, StreamNumbers
    <3> QED BY <2>n, <3>1
  <2>4. \/ Len(got) = 0 /\ request[1] > layout.entries
        \/ layout.entries = request[1] + Len(got) /\ request[2] > layout.entries
    <3>1. layout.entries = (request[1] - skipping) + Len(got)
      BY <2>1, <2>2 DEF InStep
    <3> QED BY <2>3, <2>n, <3>1
  <2>5. Len(got) = Smaller(request[2], layout.entries) - Smaller(request[1], layout.entries)
    BY <2>3, <2>4, <2>n DEF Smaller
  <2>6. \A i \in DOMAIN got : got[i].entry = Smaller(request[1], layout.entries) + i - 1
    <3>1. CASE Len(got) = 0
      BY <3>1 DEF StreamInv, StreamType
    <3>2. CASE layout.entries = request[1] + Len(got)
      <4>1. Smaller(request[1], layout.entries) = request[1]
        BY <2>n, <3>2 DEF Smaller
      <4> QED BY <2>1, <4>1 DEF InStep
    <3> QED BY <2>4, <3>1, <3>2
  <2>7. UNCHANGED <<layout, request, got>>
    BY <1>1 DEF TakeEnd
  <2> QED BY <2>1, <2>5, <2>6, <2>7 DEF ChunkIsItsRange, Smaller
<1>4. chunkLen' \in 0 .. chunkSize /\ chunkRow' \in 0 .. chunkLen'
  BY <1>1, StreamNumbers
<1> QED BY <1>1, <1>2, <1>3, <1>4, TakeEndInv

LEMMA LoadNextChunkInv == StreamInv /\ LoadNextChunk => StreamInv'
<1> SUFFICES ASSUME StreamInv, LoadNextChunk PROVE StreamInv'
  OBVIOUS
<1> PICK from : from = nextEntry
  OBVIOUS
<1> PICK to : to = nextEntry + Smaller(chunkSize, layout.entries - nextEntry)
  OBVIOUS
<1>1. /\ OpenWindow(from, to) /\ chunkRow >= chunkLen /\ nextEntry < layout.entries
      /\ result = "running" /\ taking > 0 /\ state = "idle" /\ state' = "column"
      /\ UNCHANGED <<iterator, consumer>> /\ UNCHANGED <<layout, faults>>
  BY DEF LoadNextChunk, Calling, OpenWindow
<1>2. from \in Nat /\ to \in Nat /\ from < to /\ to <= layout.entries
  <2>1. /\ layout.entries \in Nat /\ chunkSize \in Nat /\ chunkSize > 0 /\ nextEntry \in Nat
        /\ nextEntry < layout.entries
    BY <1>1, StreamNumbers
  <2> QED BY <2>1 DEF Smaller
<1>3. ReaderInv'
  BY <1>1, <1>2, OpenWindowInv DEF StreamInv
<1>4. StreamType'
  BY <1>1 DEF StreamInv, StreamType, iterator, consumer
<1>5. WindowAsked'
  <2>1. lo' = from /\ hi' = to
    BY <1>1 DEF OpenWindow
  <2> QED BY <1>1, <2>1 DEF WindowAsked, iterator, consumer
<1>6. WindowHeld' /\ EventsAreTheirOwn' /\ SteadyChunkIsItsRange'
  BY <1>1 DEF StreamInv, WindowHeld, EventsAreTheirOwn, SteadyChunkIsItsRange, ChunkIsItsRange,
    RowsFrom, RowOf, Offset, Counts, iterator, consumer
<1>7. Numbered'
  <2>1. Stuck => Stuck'
    BY <1>1 DEF Stuck, Broken, Covered, BasketStart, BasketEnd, iterator, consumer
  <2> QED BY <1>1, <2>1 DEF StreamInv, Numbered, InStep, Position, iterator, consumer
<1> QED BY <1>3, <1>4, <1>5, <1>6, <1>7 DEF StreamInv

LEMMA ReadInv == StreamInv /\ Read => StreamInv'
<1> SUFFICES ASSUME StreamInv, Read PROVE StreamInv'
  OBVIOUS
<1>1. /\ ReadStep /\ UNCHANGED <<iterator, consumer>>
      /\ UNCHANGED <<layout, lo, hi>> /\ state # "idle"
      /\ faults' = faults \/ faults' = faults + 1
  BY DEF Read, ReadStep, BeginColumn, BranchMissing, ReadBasket, FetchFails, EndColumn,
    EndWindow, DropOrFail
<1>2. ReaderInv'
  BY <1>1, ReadStepInv DEF StreamInv
<1>3. StreamType'
  BY <1>1 DEF StreamInv, StreamType, iterator, consumer
<1>4. WindowAsked'
  BY <1>1 DEF StreamInv, WindowAsked, iterator, consumer
<1>5. WindowHeld'
  BY <1>1, SameTree DEF StreamInv, WindowHeld, iterator
<1>6. EventsAreTheirOwn'
  BY <1>1 DEF StreamInv, EventsAreTheirOwn, RowOf, Offset, Counts, consumer
<1>7. faults' = 0 => faults = 0
  BY <1>1 DEF StreamInv, ReaderInv, ReaderType
<1>8. SteadyChunkIsItsRange'
  BY <1>1, <1>7 DEF StreamInv, SteadyChunkIsItsRange, ChunkIsItsRange, consumer
<1>9. Numbered'
  <2>1. Stuck /\ faults' = 0 => Stuck'
    BY <1>1, SameTree DEF Stuck, Broken, Covered, BasketStart, BasketEnd, iterator, consumer
  <2>2. Stuck => request[1] # 0
    BY DEF Stuck
  <2> QED BY <1>1, <1>7, <2>1, <2>2 DEF StreamInv, Numbered, InStep, Position, iterator, consumer
<1> QED BY <1>2, <1>3, <1>4, <1>5, <1>6, <1>8, <1>9 DEF StreamInv

LEMMA WindowFailedInv == StreamInv /\ WindowFailed => StreamInv'
<1> SUFFICES ASSUME StreamInv, WindowFailed PROVE StreamInv'
  OBVIOUS
<1>1. /\ state = "failed" /\ state' = "idle" /\ TakeError
      /\ UNCHANGED <<layout, lo, hi, col, todo, out, columns, cache, fetched, faults>>
      /\ UNCHANGED iterator /\ UNCHANGED <<request, taking, got>>
      /\ result = "running" /\ taking > 0 /\ chunkRow >= chunkLen
      /\ lo = nextEntry /\ nextEntry < layout.entries
  BY DEF WindowFailed, TakeError, StreamInv, WindowAsked
<1>2. ReaderInv'
  BY <1>1, CloseWindowInv DEF StreamInv
<1>3. /\ skipping > 0 => skipping' = skipping - 1 /\ result' = "running"
      /\ ~ skipping > 0 => skipping' = skipping /\ result' = "error"
  BY <1>1 DEF TakeError
<1>4. skipping' \in 0 .. request[1]
  <2>1. skipping \in Nat /\ skipping <= request[1] /\ request[1] \in Nat
    BY StreamNumbers
  <2> QED BY <1>3, <2>1
<1>5. StreamType'
  BY <1>1, <1>3, <1>4 DEF StreamInv, StreamType, iterator
<1>6. WindowAsked' /\ WindowHeld'
  BY <1>1, SameTree DEF StreamInv, WindowAsked, WindowHeld, iterator
<1>7. EventsAreTheirOwn' /\ SteadyChunkIsItsRange'
  BY <1>1, <1>3 DEF StreamInv, EventsAreTheirOwn, SteadyChunkIsItsRange, ChunkIsItsRange, RowOf,
    Offset, Counts
<1>8. Numbered'
  <2>1. skipping' > 0 => got' = << >>
    <3>1. skipping \in Nat
      BY StreamNumbers
    <3> QED BY <1>1, <1>3, <3>1 DEF StreamInv, Numbered
  <2>2. taking' = (request'[2] - request'[1]) - Len(got')
    BY <1>1 DEF StreamInv, Numbered
  <2>3. ASSUME faults = 0 \/ request[1] = 0 PROVE InStep' \/ Stuck'
    <3>1. CASE skipping > 0
      <4>1. request[1] # 0 /\ request[1] \in Nat
        BY <3>1, StreamNumbers
      <4>2. faults = 0 /\ Broken(lo)
        BY <1>1, <2>3, <4>1 DEF StreamInv, ReaderInv, Decided
      <4>3. Broken(nextEntry)'
        BY <1>1, <4>2 DEF Broken, Covered, BasketStart, BasketEnd, iterator
      <4> QED BY <1>1, <1>3, <3>1, <4>1, <4>2, <4>3 DEF Stuck, StreamInv, Numbered, iterator
    <3>2. CASE ~ skipping > 0
      <4>1. InStep => InStep'
        BY <1>1, <1>3, <3>2 DEF InStep, Position, iterator
      <4>2. Stuck => Stuck'
        BY <1>1, <1>3, <3>2 DEF Stuck, Broken, Covered, BasketStart, BasketEnd, iterator
      <4> QED BY <2>3, <4>1, <4>2 DEF StreamInv, Numbered
    <3> QED BY <3>1, <3>2
  <2> QED BY <1>1, <2>1, <2>2, <2>3 DEF Numbered
<1> QED BY <1>2, <1>5, <1>6, <1>7, <1>8 DEF StreamInv

LEMMA WindowReadyInv == StreamInv /\ WindowReady => StreamInv'
<1> SUFFICES ASSUME StreamInv, WindowReady PROVE StreamInv'
  OBVIOUS
<1> PICK event : event = EventAt(columns, lo, 0)
  OBVIOUS
<1>1. /\ state = "ready" /\ state' = "idle" /\ TakeEvent(event)
      /\ held' = columns /\ chunkStart' = lo /\ chunkLen' = hi - lo /\ chunkRow' = 1
      /\ nextEntry' = nextEntry + (hi - lo)
      /\ UNCHANGED <<layout, lo, hi, col, todo, out, columns, cache, fetched, faults>>
      /\ chunkSize' = chunkSize
      /\ result = "running" /\ taking > 0 /\ chunkRow >= chunkLen
      /\ lo = nextEntry /\ nextEntry < layout.entries
  BY DEF WindowReady, WindowKept, StreamInv, WindowAsked
<1>2. ReaderInv'
  BY <1>1, CloseWindowInv DEF StreamInv
<1>n. /\ lo \in Nat /\ hi \in Nat /\ lo < hi /\ hi <= layout.entries /\ layout.entries \in Nat
      /\ lo = nextEntry
  BY <1>1, StreamNumbers DEF StreamInv, ReaderInv, ReaderType
<1>3. hi - lo \in 1 .. chunkSize
  <2>1. /\ hi = nextEntry + Smaller(chunkSize, layout.entries - nextEntry)
        /\ chunkSize \in Nat
    BY <1>1, StreamNumbers DEF StreamInv, WindowAsked
  <2> QED BY <1>n, <2>1 DEF Smaller
<1>4. \A c \in DOMAIN Specs : Specs[c].name \in DOMAIN columns =>
        columns[Specs[c].name] = RowsFrom(Specs[c], lo, hi - lo)
  BY <1>1 DEF StreamInv, ReaderInv, ColumnsAreSlices, RowsFrom
<1>5. event.entry = lo
  <2>1. event.entry = lo + 0
    BY DEF EventAt
  <2> QED BY <1>n, <2>1
<1>6. event.entry \in 0 .. layout.entries - 1
  BY <1>5, <1>n
<1>7. ASSUME NEW c \in DOMAIN Specs, Specs[c].name \in DOMAIN event.values
      PROVE  event.values[Specs[c].name] = RowOf(Specs[c], event.entry)
  <2>1. /\ Specs[c].name \in DOMAIN columns
        /\ event.values[Specs[c].name] = columns[Specs[c].name][0 + 1]
    BY <1>7 DEF EventAt
  <2>2. columns[Specs[c].name] = RowsFrom(Specs[c], lo, hi - lo)
    BY <1>4, <2>1
  <2>3. 0 + 1 \in 1 .. hi - lo /\ lo + (0 + 1) - 1 = lo
    BY <1>n
  <2> QED BY <1>5, <2>1, <2>2, <2>3 DEF RowsFrom
<1>8. faults = 0 \/ request[1] = 0 => InStep
  BY <1>1 DEF StreamInv, ReaderInv, Decided, Numbered, Stuck
<1>9. Position = event.entry
  <2>1. chunkRow \in Nat /\ chunkLen \in Nat /\ chunkRow >= chunkLen
    BY <1>1, StreamNumbers
  <2> QED BY <1>5, <1>n, <2>1 DEF Position
<1>10. Position' = event.entry + 1
  <2>1. Position' = IF 1 < hi - lo THEN lo + 1 ELSE nextEntry + (hi - lo)
    BY <1>1 DEF Position
  <2> QED BY <1>5, <1>n, <2>1
<1>11. /\ request' \in Requests /\ skipping' \in 0 .. request'[1]
       /\ taking' \in 0 .. request'[2] - request'[1]
       /\ got' \in Seq({got'[i] : i \in DOMAIN got'})
       /\ \A i \in DOMAIN got' : got'[i].entry \in 0 .. layout'.entries - 1
       /\ result' \in {"running", "ok", "error"}
       /\ EventsAreTheirOwn' /\ Numbered' /\ SteadyChunkIsItsRange'
  BY <1>1, <1>6, <1>7, <1>8, <1>9, <1>10, TakeEventInv
<1>12. StreamType'
  <2>1. /\ nextEntry + (hi - lo) \in 0 .. layout.entries
        /\ lo \in 0 .. nextEntry + (hi - lo)
        /\ 1 \in 0 .. hi - lo
    BY <1>n
  <2>2. chunkSize \in Nat \ {0} /\ hi - lo \in 0 .. chunkSize
    BY <1>3 DEF StreamInv, StreamType
  <2>3. /\ chunkSize' \in Nat \ {0} /\ nextEntry' \in 0 .. layout'.entries
        /\ chunkStart' \in 0 .. nextEntry' /\ chunkLen' \in 0 .. chunkSize'
        /\ chunkRow' \in 0 .. chunkLen'
    BY <1>1, <2>1, <2>2
  <2> QED BY ONLY <1>11, <2>3 DEF StreamType
<1>13. WindowAsked'
  BY <1>1 DEF WindowAsked
<1>14. WindowHeld'
  <2>1. lo + (hi - lo) = nextEntry + (hi - lo)
    BY <1>n
  <2>2. \A spec, from, n : RowsFrom(spec, from, n)' = RowsFrom(spec, from, n)
    BY <1>1, SameTree
  <2> QED BY <1>1, <1>4, <2>1, <2>2 DEF WindowHeld
<1> QED BY ONLY <1>2, <1>11, <1>12, <1>13, <1>14 DEF StreamInv

LEMMA NextStreamInv == StreamInv /\ [Next]_vars => StreamInv'
<1> SUFFICES ASSUME StreamInv, [Next]_vars PROVE StreamInv'
  OBVIOUS
<1>1. CASE Next
  BY <1>1, NothingAskedInv, DeliverInv, EndOfTreeInv, LoadNextChunkInv, WindowReadyInv,
    WindowFailedInv, ReadInv DEF Next
<1>2. CASE UNCHANGED vars
  <2>1. UNCHANGED <<layout, reader>> /\ UNCHANGED <<iterator, consumer>>
    BY <1>2 DEF vars
  <2>2. ReaderInv' /\ UNCHANGED <<layout, lo, hi, state, faults>>
    BY <2>1, ReaderIdles DEF StreamInv, reader
  <2>3. StreamType' /\ WindowAsked'
    BY <2>1, <2>2 DEF StreamInv, StreamType, WindowAsked, iterator, consumer
  <2>4. WindowHeld' /\ EventsAreTheirOwn' /\ SteadyChunkIsItsRange'
    BY <2>1, <2>2 DEF StreamInv, WindowHeld, EventsAreTheirOwn, SteadyChunkIsItsRange,
      ChunkIsItsRange, RowsFrom, RowOf, Offset, Counts, iterator, consumer
  <2>5. Numbered'
    BY <2>1, <2>2 DEF StreamInv, Numbered, InStep, Stuck, Position, Broken, Covered,
      BasketStart, BasketEnd, iterator, consumer
  <2> QED BY <2>2, <2>3, <2>4, <2>5 DEF StreamInv
<1> QED BY <1>1, <1>2

LEMMA StreamInvariant == Spec => []StreamInv
BY InitStreamInv, NextStreamInv, PTL DEF Spec

LEMMA StreamTypes == StreamInv => TypeOK
<1> SUFFICES ASSUME StreamInv PROVE TypeOK
  OBVIOUS
<1>1. RowType = Rows
  BY DEF RowType, Rows
<1>2. ASSUME NEW b \in DOMAIN columns
      PROVE  b \in layout.has /\ columns[b] \in Seq(Rows)
  <2>1. PICK c \in DOMAIN Specs : Specs[c].name = b
    BY DEF StreamInv, ReaderInv, ColumnsRead
  <2>2. Required(Specs[c]) \subseteq layout.has /\ WholeColumn(Specs[c])
    BY <2>1 DEF StreamInv, ReaderInv, ColumnsRead
  <2>3. PICK from \in lo .. hi : columns[b] = RowsFrom(Specs[c], from, hi - from)
    BY <2>1, <2>2 DEF WholeColumn
  <2>4. /\ layout \in Layouts /\ from \in Nat /\ hi - from \in Nat
        /\ from + (hi - from) <= layout.entries
    <3>1. /\ layout \in Layouts /\ lo \in Nat /\ hi \in Nat /\ hi <= layout.entries
      BY DEF StreamInv, ReaderInv, ReaderType
    <3> QED BY <3>1
  <2>5. columns[b] \in Seq(RowType)
    BY <2>3, <2>4, RowsType
  <2> QED BY <1>1, <2>1, <2>2, <2>5 DEF Required
<1>3. /\ layout \in Layouts /\ lo \in Nat /\ hi \in Nat /\ lo <= hi
      /\ state \in {"idle", "column", "baskets", "ready", "failed"}
      /\ col \in 1 .. Len(Specs) + 1 /\ todo \subseteq Nat /\ out \in Seq(Rows)
      /\ cache \subseteq layout.has \X Nat /\ DOMAIN fetched \subseteq layout.has \X Nat
      /\ faults \in 0 .. MaxFaults
  BY <1>1 DEF StreamInv, ReaderInv, ReaderType, PayloadsHeld
<1> QED BY <1>2, <1>3 DEF StreamInv, StreamType, TypeOK

\* The variables of the reader, the iterator and the consumer have their types in
\* every reachable state, whatever the file says (EventIterator::next).
THEOREM StreamTypeCorrect == Spec => []TypeOK
BY StreamInvariant, StreamTypes, PTL

\* A window handed to the iterator has in every column the rows of its entries,
\* however the branch and its counter are cut into baskets and wherever the
\* window cuts them (read_scalar_range_inner, read_jagged_flat_range_inner).
THEOREM WindowsAreSlices == Spec => []ColumnsAreSlices
<1>1. StreamInv => ColumnsAreSlices
  BY DEF StreamInv, ReaderInv
<1> QED BY <1>1, StreamInvariant, PTL

\* No payload is fetched twice in one window, however many jagged columns share a
\* counter and whichever fetches fail (BasketPayloadCache).
THEOREM PayloadsFetchedOnce == Spec => []FetchedOnce
<1>1. StreamInv => FetchedOnce
  BY DEF StreamInv, ReaderInv, PayloadsHeld
<1> QED BY <1>1, StreamInvariant, PTL

\* Each event the consumer sees has its own entry's values in every column it
\* has, after any windows, errors and skips (EventIterator::next).
THEOREM EventsHaveTheirValues == Spec => []EventsAreTheirOwn
<1>1. StreamInv => EventsAreTheirOwn
  BY DEF StreamInv
<1> QED BY <1>1, StreamInvariant, PTL

\* A chunk that ends well has seen its range of the tree, each entry once and in
\* order, when no fetch failed or no error can be among its skipped items
\* (collect_chunk).
THEOREM SteadyChunkComplete == Spec => []SteadyChunkIsItsRange
<1>1. StreamInv => SteadyChunkIsItsRange
  BY DEF StreamInv
<1> QED BY <1>1, StreamInvariant, PTL
=============================================================================
