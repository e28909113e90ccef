----------------------------- MODULE RootReader -----------------------------
(***************************************************************************)
(* What crates/nano-rootio makes of the bytes of a tree: `parse_tree` with *)
(* the object references of parse.rs, and the decoding of the baskets that *)
(* `read_chunk` fetches for a column (tree.rs).                            *)
(*                                                                         *)
(* A parsed tree is [entries, branches]; a branch is [name, entries,       *)
(* counter, basketEntry, baskets], with a basket either in memory or       *)
(* [seek, len].  Entries are numbered from 0, baskets from 1.              *)
(***************************************************************************)
EXTENDS RootWriter, SequencesExt

Error == [failed |-> TRUE]
Fine(x) == [failed |-> FALSE, is |-> x]

Lesser(a, b) == IF a < b THEN a ELSE b
Greater(a, b) == IF a > b THEN a ELSE b

(***************************************************************************)
(* Objects and references                                                  *)
(***************************************************************************)
\* The objects of the first n branches in the order they are read: branch,
\* leaf, embedded baskets, branch, ...
ObjectsOf(tree, n) ==
  Joined([i \in DOMAIN tree.branches |->
            LET b == tree.branches[i]
            IN <<[class |-> "TBranch", at |-> b.at, name |-> b.name],
                 [class |-> "TLeaf", at |-> b.leaf.at, name |-> b.leaf.name]>>
                 \o [k \in DOMAIN b.embedded |->
                       [class |-> "TBasket", at |-> 0, name |-> b.name]]], n)

\* ref_at, else raw_at_class_tag: a tag is first taken for the number of an
\* object that has been read, then for a place.
Resolve(tree, objects, known, tag) ==
  IF tag - MapOffset \in 1 .. known THEN {objects[tag - MapOffset]}
  ELSE {o \in ToSet(objects) : o.at + tree.keyLen + MapOffset = tag}

\* parse_leaf takes no other class.
LeafAtTag(tree, objects, known, tag) ==
  {o \in Resolve(tree, objects, known, tag) : o.class = "TLeaf"}

(***************************************************************************)
(* A branch: its embedded baskets first, then those with a place           *)
(***************************************************************************)
OnDisk(b) ==
  Joined([i \in DOMAIN b.basketSeek |->
            IF b.basketSeek[i] # 0 /\ b.basketBytes[i] > 0
            THEN <<[inMemory |-> FALSE, seek |-> b.basketSeek[i], len |-> b.basketBytes[i]]>>
            ELSE <<>>],
         Lesser(b.writeBasket, Len(b.basketSeek)))

InMemory(b) ==
  [i \in DOMAIN b.embedded |-> [inMemory |-> TRUE, holds |-> b.embedded[i]]]

\* {} when the branch does not parse.
ParseBranch(tree, objects, i) ==
  LET b == tree.branches[i]
      known == Len(ObjectsOf(tree, i - 1)) + 2
      counters == IF b.leaf.count < 2 THEN {NoName}
                  ELSE {o.name : o \in LeafAtTag(tree, objects, known, b.leaf.count)}
  IN {[name |-> b.name, entries |-> b.entries, counter |-> c,
       basketEntry |-> SubSeq(b.basketEntry, 1, Lesser(b.writeBasket, Len(b.basketEntry))),
       baskets |-> InMemory(b) \o OnDisk(b)] : c \in counters}

ParseTree(tree) ==
  LET objects == ObjectsOf(tree, Len(tree.branches))
      branches == [i \in DOMAIN tree.branches |-> ParseBranch(tree, objects, i)]
      leavesParse == \A i \in DOMAIN tree.leaves :
                       LeafAtTag(tree, objects, Len(objects), tree.leaves[i]) # {}
  IN IF leavesParse /\ \A i \in DOMAIN branches : branches[i] # {}
     THEN Fine([entries |-> tree.entries,
                branches |-> [i \in DOMAIN branches |-> CHOOSE b \in branches[i] : TRUE]])
     ELSE Error

(***************************************************************************)
(* Which baskets a column of a window needs, in the order they are fetched.*)
(* Of the baskets up to the n-th, those that overlap the entries asked for. *)
(***************************************************************************)
\* The first of some branches that has this name.
FirstNamed(bs, name) ==
  bs[CHOOSE i \in DOMAIN bs : bs[i].name = name /\ \A k \in 1 .. i - 1 : bs[k].name # name]

Branch(tree, name) == FirstNamed(tree.branches, name)

BasketStart(b, i) == b.basketEntry[i]
BasketEnd(b, i) == IF i < Len(b.basketEntry) THEN b.basketEntry[i + 1] ELSE b.entries

Listed(b) == IF Len(b.baskets) < Len(b.basketEntry) THEN Len(b.baskets) ELSE Len(b.basketEntry)

Overlaps(b, i, from, to) == from < to /\ BasketStart(b, i) < to /\ BasketEnd(b, i) > from

BasketsUpTo(b, n, from, to) ==
  Joined([i \in 1 .. Listed(b) |->
            IF Overlaps(b, i, from, to) THEN <<b.baskets[i]>> ELSE <<>>], n)

\* The counts of a jagged basket: from its first entry to the end of the window.
CountsEnd(b, i, to) == Lesser(to, BasketEnd(b, i))
CountBaskets(tree, b, i, to) ==
  LET counter == Branch(tree, b.counter)
  IN BasketsUpTo(counter, Listed(counter), BasketStart(b, i), CountsEnd(b, i, to))

\* Before each basket of a jagged column the baskets of its counts.
JaggedBasketsUpTo(tree, b, n, from, to) ==
  Joined([i \in 1 .. Listed(b) |->
            IF Overlaps(b, i, from, to) THEN CountBaskets(tree, b, i, to) \o <<b.baskets[i]>>
            ELSE <<>>], n)

ColumnBaskets(tree, b, from, to) ==
  IF b.counter = NoName THEN BasketsUpTo(b, Listed(b), from, to)
  ELSE JaggedBasketsUpTo(tree, b, Listed(b), from, to)

(***************************************************************************)
(* Decoding: `payloads` are those of the baskets above, in the same order. *)
(* The result is Fine(rows) or Error.                                      *)
(***************************************************************************)
\* The part of one scalar basket that lies in the window, and whether the
\* payload holds it.
ScalarFits(b, i, payload, to) ==
  /\ payload.entries <= Len(payload.cells)
  /\ Lesser(to, BasketEnd(b, i)) - BasketStart(b, i) <= Len(payload.cells)

ScalarPart(b, i, payload, from, to) ==
  SubSeq(payload.cells, Greater(from, BasketStart(b, i)) - BasketStart(b, i) + 1,
         Lesser(to, BasketEnd(b, i)) - BasketStart(b, i))

\* The payload of a basket that overlaps.
ScalarPayload(b, i, payloads, from, to) == payloads[Len(BasketsUpTo(b, i, from, to))]

ScalarsFit(b, payloads, from, to) ==
  \A i \in 1 .. Listed(b) :
    Overlaps(b, i, from, to) => ScalarFits(b, i, ScalarPayload(b, i, payloads, from, to), to)

Scalars(b, payloads, from, to) ==
  Joined([i \in 1 .. Listed(b) |->
            IF Overlaps(b, i, from, to)
            THEN ScalarPart(b, i, ScalarPayload(b, i, payloads, from, to), from, to)
            ELSE <<>>], Listed(b))

\* One basket of a jagged branch, the baskets of its counts before it.  The
\* counts begin with the basket's first entry, `skipped` of them before the
\* window.  Too few counts are a slice out of bounds: the reader panics, which
\* is no answer either.
CellsAt(counts, k) == Total([e \in 1 .. k |-> counts[e][4]])

JaggedFits(b, counter, i, payloads, to) ==
  LET start == BasketStart(b, i)
      counts == Scalars(counter, payloads, start, CountsEnd(b, i, to))
  IN /\ ScalarsFit(counter, payloads, start, CountsEnd(b, i, to))
     /\ Len(counts) = CountsEnd(b, i, to) - start
     /\ CellsAt(counts, Len(counts)) <= Len(payloads[Len(payloads)].cells)

JaggedPart(b, counter, i, payloads, from, to) ==
  LET start == BasketStart(b, i)
      counts == Scalars(counter, payloads, start, CountsEnd(b, i, to))
      skipped == Greater(from, start) - start
  IN [k \in 1 .. Len(counts) - skipped |->
        SubSeq(payloads[Len(payloads)].cells,
               CellsAt(counts, skipped + k - 1) + 1, CellsAt(counts, skipped + k))]

\* The payloads of a jagged basket that overlaps.
JaggedPayloads(tree, b, i, payloads, from, to) ==
  SubSeq(payloads, Len(JaggedBasketsUpTo(tree, b, i - 1, from, to)) + 1,
         Len(JaggedBasketsUpTo(tree, b, i, from, to)))

DecodeJagged(tree, b, counter, payloads, from, to) ==
  LET of(i) == JaggedPayloads(tree, b, i, payloads, from, to)
  IN IF /\ counter.entries = b.entries
        /\ \A i \in 1 .. Listed(b) :
             Overlaps(b, i, from, to) => JaggedFits(b, counter, i, of(i), to)
     THEN Fine(Joined([i \in 1 .. Listed(b) |->
                         IF Overlaps(b, i, from, to)
                         THEN JaggedPart(b, counter, i, of(i), from, to) ELSE <<>>], Listed(b)))
     ELSE Error

Decode(tree, b, payloads, from, to) ==
  IF b.counter # NoName
  THEN DecodeJagged(tree, b, Branch(tree, b.counter), payloads, from, to)
  ELSE IF ScalarsFit(b, payloads, from, to) THEN Fine(Scalars(b, payloads, from, to))
  ELSE Error
=============================================================================
