---------------------------- MODULE EventStream -----------------------------
(***************************************************************************)
(* `EventIterator` of crates/nano-io over the windows of WindowReader, and *)
(* the consumer that runs one chunk of a workflow over it: collect_chunk   *)
(* of crates/nano-workflow, `iterator.skip(start).take(end - start)`,      *)
(* which stops at the first error.  With start = 0 and end = the number of *)
(* entries it is also how the planner and the CLI read a whole input.      *)
(*                                                                         *)
(* A window that cannot be read is returned as an error item and leaves    *)
(* the iterator where it was, so that the next call tries it again.        *)
(***************************************************************************)
EXTENDS WindowReader

CONSTANTS
  WindowSizes,  \* chunk sizes the iterator may be opened with
  Requests      \* entry ranges that may be asked for, <<start, end>>

ASSUME StreamAssumption ==
  /\ WindowSizes \subseteq Nat
  /\ \A q \in Requests : q[1] \in Nat /\ q[2] \in Nat /\ q[1] <= q[2]

VARIABLES
  chunkSize,   \* of the iterator
  nextEntry,   \* first entry not yet loaded
  chunkStart,  \* first entry of the window held
  chunkLen,    \* entries of the window held
  chunkRow,    \* rows of it already returned
  held,        \* columns of the window held
  request,     \* the entry range asked for
  skipping,    \* items Skip has still to discard
  taking,      \* items Take still lets through
  got,         \* events the kernel has seen: [entry, values]
  result       \* "running", "ok" or "error"

iterator == <<chunkSize, nextEntry, chunkStart, chunkLen, chunkRow, held>>
consumer == <<request, skipping, taking, got, result>>
vars == <<layout, reader, iterator, consumer>>

Rows == [first : Nat, size : Nat]

TypeOK ==
  /\ layout \in Layouts
  /\ lo \in Nat /\ hi \in Nat /\ lo <= hi
  /\ state \in {"idle", "column", "baskets", "ready", "failed"}
  /\ col \in 1 .. Len(Specs) + 1
  /\ todo \subseteq Nat
  /\ out \in Seq(Rows)
  /\ \A b \in DOMAIN columns : b \in layout.has /\ columns[b] \in Seq(Rows)
  /\ cache \subseteq layout.has \X Nat
  /\ DOMAIN fetched \subseteq layout.has \X Nat
  /\ faults \in 0 .. MaxFaults
  /\ chunkSize \in Nat \ {0}
  /\ nextEntry \in 0 .. layout.entries
  /\ chunkStart \in 0 .. nextEntry
  /\ chunkLen \in 0 .. chunkSize
  /\ chunkRow \in 0 .. chunkLen
  /\ request \in Requests
  /\ skipping \in 0 .. request[1]
  /\ taking \in 0 .. request[2] - request[1]
  /\ \A i \in DOMAIN got : got[i].entry \in 0 .. layout.entries - 1
  /\ result \in {"running", "ok", "error"}

\* EventIterator::new takes chunk_size.max(1).
Init ==
  /\ WindowInit
  /\ \E size \in WindowSizes : chunkSize = Larger(size, 1)
  /\ nextEntry = 0
  /\ chunkStart = 0 /\ chunkLen = 0 /\ chunkRow = 0
  /\ held = << >>
  /\ request \in Requests
  /\ skipping = request[1]
  /\ taking = request[2] - request[1]
  /\ got = << >>
  /\ result = "running"
-----------------------------------------------------------------------------
(* What the consumer does with an item of the iterator.                    *)

\* Mutant: an error that is let through is tried again without end.
TakeError_TriesAgain ==
  /\ IF skipping > 0 THEN skipping' = skipping - 1 ELSE UNCHANGED skipping
  /\ UNCHANGED <<request, taking, got, result>>

\* Skip discards an item whatever it is; `event?` returns the error of one
\* that is let through.
TakeError ==
  /\ IF skipping > 0
     THEN skipping' = skipping - 1 /\ UNCHANGED result
     ELSE result' = "error" /\ UNCHANGED skipping
  /\ UNCHANGED <<request, taking, got>>

\* One past the last item Take lets through, the loop is over.
TakeEvent(event) ==
  /\ IF skipping > 0
     THEN skipping' = skipping - 1 /\ UNCHANGED <<taking, got, result>>
     ELSE /\ got' = Append(got, event)
          /\ taking' = taking - 1
          /\ result' = IF taking = 1 THEN "ok" ELSE result
          /\ UNCHANGED skipping
  /\ UNCHANGED request

TakeEnd ==
  /\ result' = "ok"
  /\ UNCHANGED <<request, skipping, taking, got>>

Calling == result = "running" /\ state = "idle" /\ taking > 0

\* take(0) does not call the iterator.
NothingAsked ==
  /\ result = "running"
  /\ taking = 0
  /\ TakeEnd
  /\ UNCHANGED <<layout, reader, iterator>>
-----------------------------------------------------------------------------
(* EventIterator::next                                                     *)

\* Event::from_validated_event_columns_at reads each column at row_index.
EventAt(columnsRead, start, row) ==
  [entry |-> start + row, values |-> [b \in DOMAIN columnsRead |-> columnsRead[b][row + 1]]]

\* The next row of the window held.
Deliver ==
  /\ Calling
  /\ chunkRow < chunkLen
  /\ chunkRow' = chunkRow + 1
  /\ TakeEvent(EventAt(held, chunkStart, chunkRow))
  /\ UNCHANGED <<layout, reader, chunkSize, nextEntry, chunkStart, chunkLen, held>>

\* load_next_chunk past the last entry: no window is held any more.
EndOfTree ==
  /\ Calling
  /\ chunkRow >= chunkLen
  /\ nextEntry >= layout.entries
  /\ held' = << >> /\ chunkLen' = 0 /\ chunkRow' = 0
  /\ TakeEnd
  /\ UNCHANGED <<layout, reader, chunkSize, nextEntry, chunkStart>>

LoadNextChunk ==
  /\ Calling
  /\ chunkRow >= chunkLen
  /\ nextEntry < layout.entries
  /\ OpenWindow(nextEntry, nextEntry + Smaller(chunkSize, layout.entries - nextEntry))
  /\ UNCHANGED <<iterator, consumer>>

\* What installing a window leaves alone.
WindowKept ==
  UNCHANGED <<layout, lo, hi, col, todo, out, columns, cache, fetched, faults, chunkSize>>

\* Mutants: the row is taken from the window held before; the first row is not
\* counted as returned.
WindowReady_OldColumns ==
  /\ state = "ready" /\ state' = "idle"
  /\ held' = columns /\ chunkStart' = lo /\ chunkLen' = hi - lo /\ chunkRow' = 1
  /\ nextEntry' = nextEntry + (hi - lo)
  /\ TakeEvent(EventAt(held, lo, 0))
  /\ WindowKept
WindowReady_RowNotCounted ==
  /\ state = "ready" /\ state' = "idle"
  /\ held' = columns /\ chunkStart' = lo /\ chunkLen' = hi - lo /\ chunkRow' = 0
  /\ nextEntry' = nextEntry + (hi - lo)
  /\ TakeEvent(EventAt(columns, lo, 0))
  /\ WindowKept

\* The window becomes the one held, and the call returns its first row.
WindowReady ==
  /\ state = "ready"
  /\ state' = "idle"
  /\ held' = columns
  /\ chunkStart' = lo
  /\ chunkLen' = hi - lo
  /\ nextEntry' = nextEntry + (hi - lo)
  /\ chunkRow' = 1
  /\ TakeEvent(EventAt(columns, lo, 0))
  /\ WindowKept

\* The call returns the error; nothing has advanced.
WindowFailed ==
  /\ state = "failed"
  /\ state' = "idle"
  /\ TakeError
  /\ UNCHANGED <<layout, lo, hi, col, todo, out, columns, cache, fetched, faults, iterator>>

Read == ReadStep /\ UNCHANGED <<iterator, consumer>>

Next ==
  \/ NothingAsked \/ Deliver \/ EndOfTree \/ LoadNextChunk
  \/ WindowReady \/ WindowFailed
  \/ Read

Spec == Init /\ [][Next]_vars

\* One thread runs the loop; nothing in it waits.
FairSpec == Spec /\ WF_vars(Next)
-----------------------------------------------------------------------------
\* An event shows the values of its own entry in every column it has, whatever
\* windows and errors came before it: the window held, its first entry and the
\* row agree (EventIterator::next).
EventsAreTheirOwn ==
  \A i \in DOMAIN got : \A c \in DOMAIN Specs :
    Specs[c].name \in DOMAIN got[i].values =>
      got[i].values[Specs[c].name] = RowOf(Specs[c], got[i].entry)

\* A chunk that ends well has seen exactly the events of its range, in order, as
\* far as the tree has them: `run-chunk` and `merge` composed by hand equal the
\* single-pass result (docs/orchestrator.md:192).
ChunkIsItsRange ==
  result = "ok" =>
    LET start == Smaller(request[1], layout.entries)
        end == Smaller(request[2], layout.entries)
    IN /\ Len(got) = end - start
       /\ \A i \in DOMAIN got : got[i].entry = start + i - 1

\* A chunk is its range whenever no fetch fails, and whenever it starts at the
\* first entry, so that an error is never among the items skipped (collect_chunk).
SteadyChunkIsItsRange == faults = 0 \/ request[1] = 0 => ChunkIsItsRange

\* Every chunk ends, with its events or an error, when only finitely many
\* fetches fail; a window that fails again and again uses up the items to skip
\* and then ends the chunk.
ChunkEnds == <>(result # "running")
=============================================================================
