---------------------------- MODULE WindowReader ----------------------------
(***************************************************************************)
(* Reading one window of entries of a TTree: `read_columns_window` of      *)
(* crates/nano-io, with the basket reads of crates/nano-rootio under it    *)
(* (read_scalar_range_inner, read_jagged_range_inner,                      *)
(* read_jagged_flat_range_inner, read_basket_payload_for).                 *)
(*                                                                         *)
(* A branch is stored in baskets, each with the entries from its first one *)
(* up to the next basket's.  A jagged branch has as many elements per      *)
(* entry as its counter branch says, and the two are cut into baskets      *)
(* independently.  The columns of a window are read in schema order,       *)
(* basket by basket; payloads are kept in a cache that lives as long as    *)
(* the window.  A fetch may fail (a file or an HTTP range request): an     *)
(* optional column is then left out, a required one fails the window.      *)
(*                                                                         *)
(* Entries and elements are numbered from 0, baskets from 1.  An element   *)
(* is represented by its position in the branch, a row by the position of  *)
(* its first element and its length.  Types, byte widths and compression   *)
(* are left out.                                                           *)
(***************************************************************************)
EXTENDS Integers, Sequences, FiniteSets

CONSTANTS
  Layouts,    \* trees that may be read, see Layout
  Specs,      \* the schema: Seq([name, counter, optional]) in order, no name twice
  NoCounter,  \* the counter of a scalar branch
  MaxFaults   \* bound: fetches that fail

\* [has |-> branches of the tree, entries |-> Nat,
\*  counts |-> [0 .. entries - 1 -> Nat], starts |-> [branch -> Seq(Nat)]]
\* The reader takes it from the file, unchecked, that no basket starts before the
\* one in front of it, and that the baskets of a counter hold all entries: with
\* fewer counts than entries it slices past their end (tree.rs:391-394).
Counters == {Specs[c].counter : c \in DOMAIN Specs}
IsLayout(t) ==
  /\ t.entries \in Nat
  /\ t.counts \in [0 .. t.entries - 1 -> Nat]
  /\ DOMAIN t.starts = t.has
  /\ \A b \in t.has :
       /\ t.starts[b] \in Seq(0 .. t.entries)
       /\ \A i, j \in DOMAIN t.starts[b] : i < j => t.starts[b][i] <= t.starts[b][j]
       /\ b \in Counters /\ t.entries # 0 => t.starts[b] # << >> /\ t.starts[b][1] = 0

\* BranchSchema::new refuses a name it has seen (Error::DuplicateBranch).
ASSUME ReaderAssumption ==
  /\ \A t \in Layouts : IsLayout(t)
  /\ MaxFaults \in Nat
  /\ Specs \in Seq({Specs[c] : c \in DOMAIN Specs})
  /\ \A c \in DOMAIN Specs : Specs[c].optional \in BOOLEAN
  /\ \A c, d \in DOMAIN Specs : Specs[c].name = Specs[d].name => c = d

VARIABLES
  layout,   \* the tree that is read
  lo, hi,   \* the window [lo, hi)
  state,    \* "idle", "column" (between columns), "baskets", "ready", "failed"
  col,      \* the column of Specs being read
  todo,     \* baskets of it still to be read
  out,      \* rows of it read so far
  columns,  \* columns read so far: name -> rows
  cache,    \* payloads held: <<branch, basket>>
  fetched,  \* history: fetches of this window, <<branch, basket>> -> how many
  faults    \* fetches that failed so far

reader == <<lo, hi, state, col, todo, out, columns, cache, fetched, faults>>

BasketStart(b, i) == layout.starts[b][i]
BasketEnd(b, i) ==
  IF i < Len(layout.starts[b]) THEN layout.starts[b][i + 1] ELSE layout.entries

Overlapping(b, from, to) ==
  {i \in DOMAIN layout.starts[b] :
     from # to /\ BasketStart(b, i) < to /\ BasketEnd(b, i) > from}

Larger(x, y) == IF x > y THEN x ELSE y
Smaller(x, y) == IF x < y THEN x ELSE y

SumCounts(counts) ==
  LET sum[k \in 0 .. Len(counts)] == IF k = 0 THEN 0 ELSE sum[k - 1] + counts[k]
  IN sum[Len(counts)]

\* The counts of the entries [from, to).
Counts(from, to) == [k \in 1 .. to - from |-> layout.counts[from + k - 1]]

\* Where the writer put the elements of entry e: after those of all before it.
Offset(e) == SumCounts(Counts(0, e))

WindowInit ==
  /\ layout \in Layouts
  /\ lo = 0 /\ hi = 0
  /\ state = "idle"
  /\ col = 1
  /\ todo = {}
  /\ out = << >>
  /\ columns = << >>
  /\ cache = {}
  /\ fetched = << >>
  /\ faults = 0

\* read_columns_window is called with a fresh BasketPayloadCache.
OpenWindow(from, to) ==
  /\ lo' = from /\ hi' = to
  /\ state' = "column"
  /\ col' = 1
  /\ todo' = {}
  /\ out' = << >>
  /\ columns' = << >>
  /\ cache' = {}
  /\ fetched' = << >>
  /\ UNCHANGED <<layout, faults>>

Required(spec) == {spec.name} \cup ({spec.counter} \ {NoCounter})

\* Mutant: every column starts with an empty cache.
BeginColumn_FreshCache ==
  /\ state = "column"
  /\ col <= Len(Specs)
  /\ Required(Specs[col]) \subseteq layout.has
  /\ state' = "baskets"
  /\ todo' = Overlapping(Specs[col].name, lo, hi)
  /\ out' = << >>
  /\ cache' = {}
  /\ UNCHANGED <<layout, lo, hi, col, columns, fetched, faults>>

BeginColumn ==
  /\ state = "column"
  /\ col <= Len(Specs)
  /\ Required(Specs[col]) \subseteq layout.has
  /\ state' = "baskets"
  /\ todo' = Overlapping(Specs[col].name, lo, hi)
  /\ out' = << >>
  /\ UNCHANGED <<layout, lo, hi, col, columns, cache, fetched, faults>>

\* What an error of the present column does to the window.
DropOrFail ==
  /\ IF Specs[col].optional
     THEN state' = "column" /\ col' = col + 1
     ELSE state' = "failed" /\ UNCHANGED col
  /\ UNCHANGED <<layout, lo, hi, todo, out, columns>>

\* Error::MissingBranch
BranchMissing ==
  /\ state = "column"
  /\ col <= Len(Specs)
  /\ ~ Required(Specs[col]) \subseteq layout.has
  /\ DropOrFail
  /\ UNCHANGED <<cache, fetched, faults>>
-----------------------------------------------------------------------------
(* One basket of the present column.                                       *)

Basket == CHOOSE i \in todo : \A k \in todo : i <= k

\* The counter is read from the start of the basket to the end of the overlap.
CounterBaskets(spec, i) ==
  IF spec.counter = NoCounter THEN {}
  ELSE {<<spec.counter, k>> :
          k \in Overlapping(spec.counter, BasketStart(spec.name, i),
                            Smaller(hi, BasketEnd(spec.name, i)))}

Payloads(spec, i) == CounterBaskets(spec, i) \cup {<<spec.name, i>>}

\* Counter payloads are fetched before the branch's own, each in basket order.
Before(spec, p, q) ==
  \/ p[1] = q[1] /\ p[2] < q[2]
  \/ p[1] = spec.counter /\ q[1] = spec.name

\* A scalar basket holds one element per entry.
ScalarRows(b, i) ==
  LET from == Larger(lo, BasketStart(b, i))
      to == Smaller(hi, BasketEnd(b, i))
      local == from - BasketStart(b, i)
  IN [k \in 1 .. to - from |-> [first |-> BasketStart(b, i) + local + k - 1, size |-> 1]]

\* What one basket of a counter holds of the entries [from, to).
CountsPart(c, i, from, to) ==
  IF i \in Overlapping(c, from, to)
  THEN Counts(Larger(from, BasketStart(c, i)), Smaller(to, BasketEnd(c, i)))
  ELSE << >>

\* The counts of the entries [from, to), put together from the counter's baskets.
CountsRead(c, from, to) ==
  LET read[i \in 0 .. Len(layout.starts[c])] ==
        IF i = 0 THEN << >> ELSE read[i - 1] \o CountsPart(c, i, from, to)
  IN read[Len(layout.starts[c])]

\* Mutant: the elements before the window's first entry are not skipped.
JaggedRows_NoPrefix(spec, i) ==
  LET b == spec.name
      from == Larger(lo, BasketStart(b, i))
      to == Smaller(hi, BasketEnd(b, i))
      wanted == CountsRead(spec.counter, from, to)
  IN [k \in 1 .. to - from |->
       [first |-> Offset(BasketStart(b, i)) + SumCounts(SubSeq(wanted, 1, k - 1)),
        size |-> wanted[k]]]

\* In a jagged basket the elements of the entries before the overlap come
\* first; then each row takes as many elements as its count.
JaggedRows(spec, i) ==
  LET b == spec.name
      from == Larger(lo, BasketStart(b, i))
      to == Smaller(hi, BasketEnd(b, i))
      counts == CountsRead(spec.counter, BasketStart(b, i), to)
      local == from - BasketStart(b, i)
      prefix == SumCounts(SubSeq(counts, 1, local))
      wanted == SubSeq(counts, local + 1, Len(counts))
  IN [k \in 1 .. to - from |->
       [first |-> Offset(BasketStart(b, i)) + prefix + SumCounts(SubSeq(wanted, 1, k - 1)),
        size |-> wanted[k]]]

Fetched(p) == IF p \in DOMAIN fetched THEN fetched[p] ELSE 0

ReadBasket ==
  LET spec == Specs[col]
      missing == Payloads(spec, Basket) \ cache
  IN /\ state = "baskets"
     /\ todo # {}
     /\ out' = out \o (IF spec.counter = NoCounter THEN ScalarRows(spec.name, Basket)
                                                   ELSE JaggedRows(spec, Basket))
     /\ todo' = todo \ {Basket}
     /\ cache' = cache \cup missing
     /\ fetched' = [p \in DOMAIN fetched \cup missing |->
                      Fetched(p) + (IF p \in missing THEN 1 ELSE 0)]
     /\ UNCHANGED <<layout, lo, hi, state, col, columns, faults>>

\* A fetch fails; the payloads fetched before it stay in the cache.
FetchFails ==
  LET spec == Specs[col]
      missing == Payloads(spec, Basket) \ cache
  IN /\ state = "baskets"
     /\ todo # {}
     /\ faults < MaxFaults
     /\ \E p \in missing :
          LET arrived == {q \in missing : Before(spec, q, p)}
          IN /\ cache' = cache \cup arrived
             /\ fetched' = [q \in DOMAIN fetched \cup arrived |->
                              Fetched(q) + (IF q \in arrived THEN 1 ELSE 0)]
     /\ faults' = faults + 1
     /\ DropOrFail

EndColumn ==
  /\ state = "baskets"
  /\ todo = {}
  /\ columns' = [b \in DOMAIN columns \cup {Specs[col].name} |->
                   IF b = Specs[col].name THEN out ELSE columns[b]]
  /\ state' = "column"
  /\ col' = col + 1
  /\ UNCHANGED <<layout, lo, hi, todo, out, cache, fetched, faults>>

\* All columns are read and Event::validate_event_columns finds in each a row
\* for the window's last entry, and no required one missing.
Valid ==
  /\ \A b \in DOMAIN columns : Len(columns[b]) >= hi - lo
  /\ \A c \in DOMAIN Specs : Specs[c].optional \/ Specs[c].name \in DOMAIN columns

EndWindow ==
  /\ state = "column"
  /\ col > Len(Specs)
  /\ state' = IF Valid THEN "ready" ELSE "failed"
  /\ UNCHANGED <<layout, lo, hi, col, todo, out, columns, cache, fetched, faults>>

ReadStep ==
  \/ BeginColumn \/ BranchMissing \/ ReadBasket \/ FetchFails \/ EndColumn
  \/ EndWindow
-----------------------------------------------------------------------------
\* The row of entry e in a branch, as the writer laid it out.
RowOf(spec, e) ==
  IF spec.counter = NoCounter THEN [first |-> e, size |-> 1]
  ELSE [first |-> Offset(e), size |-> layout.counts[e]]

\* Every column of a window that is read holds the rows of the window's entries,
\* each once and in order, wherever the window and the counter's baskets cut the
\* branch's baskets (read_scalar_range_inner, read_jagged_flat_range_inner).
ColumnsAreSlices ==
  state = "ready" =>
    \A c \in DOMAIN Specs : Specs[c].name \in DOMAIN columns =>
      columns[Specs[c].name] = [k \in 1 .. hi - lo |-> RowOf(Specs[c], lo + k - 1)]

\* Within one window no payload is fetched a second time, though all jagged
\* columns of a collection read the same counter (BasketPayloadCache).
FetchedOnce == \A p \in DOMAIN fetched : fetched[p] = 1
=============================================================================
