------------------------------ MODULE RootFile ------------------------------
(***************************************************************************)
(* A ROOT file that is written while it is read (crates/nano-rootio).      *)
(*                                                                         *)
(* A writer truncates the file and writes it front to back; it may stop at *)
(* any byte.  A reader opens the file (header, directory, key list and     *)
(* streamer infos, each by a fetch of its own), fetches the tree and goes  *)
(* through a range of entries in chunks (`ChunkedReader`), column by       *)
(* column, basket by basket.  Nothing is locked and no handle is kept: a   *)
(* local file is opened anew for every fetch, a URL is asked anew, so each *)
(* fetch meets the bytes of its moment.  Over HTTP a fetch follows         *)
(* redirects, MaxRedirects at most, and takes nothing but a partial answer *)
(* of the length it asked for.                                             *)
(*                                                                         *)
(* Bytes that do not begin with a record of the kind expected do not parse *)
(* (they could by accident; no property looks at files replaced under the  *)
(* reader by others).                                                      *)
(***************************************************************************)
EXTENDS RootReader

CONSTANTS
  Contents,      \* what may be written: version -> [foreign, branches], and the
                 \* records if another program writes them
  TreeChars,     \* length of the name of the tree
  Remote,        \* TRUE for a URL, FALSE for a local file
  MaxRedirects,  \* of one fetch
  Windows,       \* ranges and chunk sizes a reader may ask for
  MaxWrites      \* bound: files written

\* What a record says of its own place, and a directory of the key list's.
IsRecord(r) ==
  /\ r.at \in Nat /\ r.len \in Nat
  /\ r.kind = "directory" => r.holds.keysAt \in Nat /\ r.holds.keysLen \in Nat

IsContents(c) ==
  /\ c.foreign \in BOOLEAN
  /\ c.branches \in Seq({b \in ToSet(c.branches) : IsBranch(b)})
  /\ c.foreign => \A r \in ToSet(c.records) : IsRecord(r)

ASSUME RootFileAssumption ==
  /\ \A v \in DOMAIN Contents : IsContents(Contents[v])
  /\ Remote \in BOOLEAN
  /\ MaxRedirects \in Nat /\ MaxWrites \in Nat /\ TreeChars \in Nat \ {0}
  /\ \A w \in Windows : w.start \in Nat /\ w.len \in Nat /\ w.size \in Nat

VARIABLES
  file,     \* [version, branches, records, size]: what it holds, how many bytes exist
  writing,  \* whether a writer is at work
  writes,   \* how many have begun
  step,     \* what the reader does
  want,     \* the bytes it asks for, [at, len], or Nothing
  hops,     \* redirects followed for these bytes
  dir,      \* what the open found: [infosAt, infosLen, treeAt, treeLen]
  tree,     \* the parsed tree
  window,   \* what the chunked reader goes through
  next,     \* the first entry of the next chunk
  chunk,    \* the chunk being read, [start, len], or Nothing
  columns,  \* its columns so far
  todo,     \* baskets of the column being read that are still to be had
  got,      \* payloads of those before them
  items,    \* history: what the chunked reader returned
  touched,  \* history: a write began after the open did
  replaced  \* history: ... and of another version

vars == <<file, writing, writes, step, want, hops, dir, tree, window, next, chunk,
          columns, todo, got, items, touched, replaced>>

Nothing == [none |-> TRUE]

Init ==
  /\ file = [version |-> "none", branches |-> <<>>, records |-> <<>>, size |-> 0]
  /\ writing = FALSE /\ writes = 0
  /\ step = "idle" /\ want = Nothing /\ hops = 0
  /\ dir = Nothing /\ tree = Nothing /\ window = Nothing
  /\ next = 0 /\ chunk = Nothing /\ columns = <<>> /\ todo = <<>> /\ got = <<>>
  /\ items = <<>> /\ touched = FALSE /\ replaced = FALSE

fileVars == <<file, writing, writes, touched, replaced>>
chunkVars == <<window, next, chunk, columns, todo, got, items>>
readerVars == <<step, want, hops, dir, tree, chunkVars>>

(***************************************************************************)
(* The writer                                                              *)
(***************************************************************************)
BytesOf(v) ==
  IF Contents[v].foreign THEN Contents[v].records
  ELSE WriteTree(v, TreeChars, Contents[v].branches)

EndOf(record) == record.at + record.len
FileEnd(records) == EndOf(records[Len(records)])

\* write_tree checks all branches before File::create empties the file.
Create(v) ==
  /\ ~writing /\ writes < MaxWrites
  /\ Contents[v].foreign \/ Writable(Contents[v].branches)
  /\ file' = [version |-> v, branches |-> Contents[v].branches,
              records |-> BytesOf(v), size |-> 0]
  /\ writing' = TRUE /\ writes' = writes + 1
  /\ touched' = (touched \/ step # "idle")
  /\ replaced' = (replaced \/ (step # "idle" /\ v # file.version))
  /\ UNCHANGED readerVars

\* A write_all is any number of writes.
Write ==
  /\ writing
  /\ \E r \in ToSet(file.records) :
       /\ EndOf(r) > file.size
       /\ file' = [file EXCEPT !.size = EndOf(r)]
       /\ writing' = (EndOf(r) # FileEnd(file.records))
  /\ UNCHANGED <<writes, touched, replaced, readerVars>>

\* A full disk or a kill; what has been written stays.
WriteStops ==
  /\ writing
  /\ writing' = FALSE
  /\ UNCHANGED <<file, writes, touched, replaced, readerVars>>

(***************************************************************************)
(* One fetch                                                               *)
(***************************************************************************)
Ask(at, len) == want' = [at |-> at, len |-> len] /\ hops' = 0
AskNothing == want' = Nothing /\ hops' = 0

\* The record the bytes asked for begin with, of the kind the reader expects.
Found(kind) ==
  {r \in ToSet(file.records) : r.kind = kind /\ r.at = want.at /\ r.len <= want.len}

Available == want.at + want.len <= file.size

\* Something else was asked: redirects 301, 302, 303, 307 and 308.
Redirected ==
  /\ Remote /\ want # Nothing
  /\ hops < MaxRedirects
  /\ hops' = hops + 1
  /\ UNCHANGED <<fileVars, step, want, dir, tree, chunkVars>>

(***************************************************************************)
(* Opening                                                                 *)
(***************************************************************************)
Open ==
  /\ step = "idle"
  /\ step' = "header" /\ Ask(0, 75)
  /\ UNCHANGED <<fileVars, dir, tree, chunkVars>>

ReadHeader ==
  /\ step = "header" /\ Available
  /\ \E r \in Found("header") :
       /\ dir' = [infosAt |-> r.holds.infosAt, infosLen |-> r.holds.infosLen]
       /\ step' = "directory" /\ Ask(FileBegin, 42)
  /\ UNCHANGED <<fileVars, tree, chunkVars>>

ReadDirectory ==
  /\ step = "directory" /\ Available
  /\ \E r \in Found("directory") :
       step' = "keys" /\ Ask(r.holds.keysAt, r.holds.keysLen)
  /\ UNCHANGED <<fileVars, dir, tree, chunkVars>>

ReadKeys ==
  /\ step = "keys" /\ Available
  /\ \E r \in Found("keys") :
       /\ dir' = [infosAt |-> dir.infosAt, infosLen |-> dir.infosLen,
                  treeAt |-> r.holds.treeAt, treeLen |-> r.holds.treeLen]
       /\ step' = "infos" /\ Ask(dir.infosAt, dir.infosLen + 4)
  /\ UNCHANGED <<fileVars, tree, chunkVars>>

\* parse_streamer_infos(..).unwrap_or_default(): an error counts for nothing.
ReadInfos ==
  /\ step = "infos"
  /\ step' = "opened" /\ AskNothing
  /\ UNCHANGED <<fileVars, dir, tree, chunkVars>>

FetchTree ==
  /\ step = "opened"
  /\ step' = "tree" /\ Ask(dir.treeAt, dir.treeLen)
  /\ UNCHANGED <<fileVars, dir, tree, chunkVars>>

ReadTree ==
  /\ step = "tree" /\ Available
  /\ \E r \in Found("tree") :
       \E parsed \in {ParseTree(r.holds)} :
          /\ step' = IF parsed.failed THEN "failed" ELSE "parsed"
          /\ tree' = IF parsed.failed THEN tree ELSE parsed.is
  /\ AskNothing
  /\ UNCHANGED <<fileVars, dir, chunkVars>>

\* A fetch that failed or does not parse.  Over HTTP also a status other than
\* 206, another length, a redirect too many or to nowhere, a timeout.
OpenFails ==
  /\ step \in {"header", "directory", "keys", "tree"}
  /\ step' = "failed" /\ AskNothing
  /\ UNCHANGED <<fileVars, dir, tree, chunkVars>>

(***************************************************************************)
(* Chunks                                                                  *)
(***************************************************************************)
ChunkedReader(w) ==
  /\ step = "parsed"
  /\ step' = IF w.size > 0 /\ w.start + w.len <= tree.entries THEN "reading" ELSE "failed"
  /\ window' = w /\ next' = w.start
  /\ UNCHANGED <<fileVars, want, hops, dir, tree, chunk, columns, todo, got, items>>

AfterWindow == window.start + window.len

\* Before the baskets of a column: those it will need.
BeginColumn(c, of) ==
  /\ \E b \in {Branch(tree, window.columns[c])} :
       todo' = ColumnBaskets(tree, b, of.start, of.start + of.len)
  /\ got' = <<>>

\* The iterator has moved on before anything is read.
NextChunk ==
  /\ step = "reading" /\ chunk = Nothing /\ next < AfterWindow
  /\ LET len == Lesser(AfterWindow - next, window.size)
     IN /\ chunk' = [start |-> next, len |-> len]
        /\ next' = next + len
        /\ BeginColumn(1, [start |-> next, len |-> len])
  /\ columns' = <<>>
  /\ UNCHANGED <<fileVars, step, want, hops, dir, tree, window, items>>

Got(payload) == got' = Append(got, payload) /\ todo' = Tail(todo)

AskBasket ==
  /\ chunk # Nothing /\ want = Nothing
  /\ todo # <<>> /\ ~Head(todo).inMemory
  /\ Ask(Head(todo).seek, Head(todo).len)
  /\ UNCHANGED <<fileVars, step, dir, tree, chunkVars>>

ReadBasket ==
  /\ chunk # Nothing /\ want # Nothing /\ Available
  /\ \E r \in Found("basket") : Got(r.holds)
  /\ AskNothing
  /\ UNCHANGED <<fileVars, step, dir, tree, window, next, chunk, columns, items>>

ReadEmbedded ==
  /\ chunk # Nothing /\ todo # <<>> /\ Head(todo).inMemory
  /\ Got(Head(todo).holds)
  /\ UNCHANGED <<fileVars, step, want, hops, dir, tree, window, next, chunk, columns, items>>

Emit(item) ==
  /\ items' = Append(items, item)
  /\ chunk' = Nothing /\ columns' = <<>> /\ todo' = <<>> /\ got' = <<>>

Column == Branch(tree, window.columns[Len(columns) + 1])

\* All baskets are there: the rows of the column, the last of which ends the
\* chunk.
ReadColumn ==
  /\ chunk # Nothing /\ todo = <<>>
  /\ \E b \in {Column} :
     \E column \in {Decode(tree, b, got, chunk.start, chunk.start + chunk.len)} :
       \/ column.failed /\ Emit(Error)
       \/ /\ ~column.failed /\ Len(columns) + 1 = Len(window.columns)
          /\ Emit(Fine([start |-> chunk.start, len |-> chunk.len,
                        columns |-> Append(columns, column.is)]))
       \/ /\ ~column.failed /\ Len(columns) + 1 < Len(window.columns)
          /\ columns' = Append(columns, column.is)
          /\ BeginColumn(Len(columns) + 2, chunk)
          /\ UNCHANGED <<items, chunk>>
  /\ UNCHANGED <<fileVars, step, want, hops, dir, tree, window, next>>

\* As if a chunk that failed were tried again, and again.
BasketFails_Retried ==
  /\ chunk # Nothing /\ want # Nothing
  /\ next' = chunk.start
  /\ chunk' = Nothing /\ columns' = <<>> /\ todo' = <<>> /\ got' = <<>>
  /\ AskNothing
  /\ UNCHANGED <<fileVars, step, dir, tree, window, items>>

\* An error is an item like any other.
BasketFails ==
  /\ chunk # Nothing /\ want # Nothing
  /\ Emit(Error) /\ AskNothing
  /\ UNCHANGED <<fileVars, step, dir, tree, window, next>>

\* The iterator has nothing more, whatever failed before.
Exhausted ==
  /\ step = "reading" /\ chunk = Nothing /\ next >= AfterWindow
  /\ step' = "done"
  /\ UNCHANGED <<fileVars, want, hops, dir, tree, chunkVars>>

\* The consumer drops the iterator.
Dropped ==
  /\ step = "reading" /\ chunk = Nothing /\ items # <<>>
  /\ step' = "done"
  /\ UNCHANGED <<fileVars, want, hops, dir, tree, chunkVars>>

WriterStep == (\E v \in DOMAIN Contents : Create(v)) \/ Write \/ WriteStops

ReaderStep ==
  \/ ReadHeader \/ ReadDirectory \/ ReadKeys \/ ReadInfos \/ FetchTree \/ ReadTree
  \/ OpenFails \/ Redirected \/ NextChunk \/ AskBasket \/ ReadBasket
  \/ ReadEmbedded \/ ReadColumn \/ BasketFails \/ Exhausted

Next ==
  \/ WriterStep \/ Open \/ ReaderStep \/ Dropped
  \/ \E w \in Windows : ChunkedReader(w)

Spec == Init /\ [][Next]_vars

\* A fetch returns or runs into its timeout (30 s to connect, 120 s to read),
\* and the loop over the chunks goes on; nothing is assumed of the writer.
FairSpec == Spec /\ WF_vars(ReaderStep)

(***************************************************************************)
(* Properties                                                              *)
(***************************************************************************)
Opened == step \in {"opened", "tree", "parsed", "reading", "done"}

\* A file that could be opened is whole up to its last basket, however far its
\* writer had come by then and wherever it stopped: write_tree puts the key
\* list after the baskets, and RootFile::from_source needs the key list.
Whole == \A r \in ToSet(file.records) : r.kind \in {"tree", "basket"} => EndOf(r) <= file.size

OpenedIsWhole == Opened /\ ~touched => Whole

Written == file.branches

\* What write_tree accepts, parse_tree reads back and never refuses: every
\* branch with its name and its entries, a jagged one with the counter it was
\* checked against, and its baskets where there are baskets.
IsWritten(b, w, records) ==
  /\ b.name = w.name /\ b.entries = Len(w.rows)
  /\ b.counter = IF w.jagged THEN CounterName(w) ELSE NoName
  /\ \A k \in ToSet(b.baskets) : k.inMemory \/
       \E r \in ToSet(records) :
         r.kind = "basket" /\ r.at = k.seek /\ r.len = k.len

ReadsAs(holds, branches, records) ==
  LET parsed == ParseTree(holds)
  IN /\ ~parsed.failed
     /\ Len(parsed.is.branches) = Len(branches)
     /\ \A i \in DOMAIN branches : IsWritten(parsed.is.branches[i], branches[i], records)

ReadsBack ==
  step = "tree" /\ ~touched =>
    \E r \in Found("tree") : ReadsAs(r.holds, Written, file.records)

\* Baskets in memory come before those on disk, while their first entries are
\* listed in the order of the file: such branches are read at wrong entries.
Misplaced(name) == \E k \in ToSet(Branch(tree, name).baskets) : k.inMemory

RowsOf(name, from, to) ==
  LET b == FirstNamed(Written, name)
  IN IF b.jagged THEN [e \in 1 .. to - from |-> RowCells(file.version, b, from + e)]
     ELSE Cells(file.version, b, from + 1, to)

ItemIsSlice(item, start) ==
  /\ item.start = start
  /\ \A c \in DOMAIN window.columns :
       ~Misplaced(window.columns[c]) =>
         item.columns[c] = RowsOf(window.columns[c], start, start + item.len)

\* The chunks that ChunkedReader returns are the consecutive slices of the
\* range it was asked for, column by column the entries that were written,
\* also when the file is being written again with the same contents; a chunk
\* that failed leaves a gap of its own size, and no other.
ChunksAreSlices ==
  step = "reading" /\ ~replaced =>
    /\ \A k \in DOMAIN items :
         items[k].failed \/ ItemIsSlice(items[k].is, window.start + (k - 1) * window.size)
    /\ chunk = Nothing =>
         next = Lesser(AfterWindow, window.start + Len(items) * window.size)

\* An open, a fetch of the tree and a loop over all chunks come to an end,
\* through redirects and failures, whatever happens to the file.
ReaderEnds ==
  (want # Nothing \/ step = "reading") ~> step \in {"parsed", "done", "failed"}
=============================================================================
