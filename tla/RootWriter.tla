----------------------------- MODULE RootWriter -----------------------------
(***************************************************************************)
(* The ROOT files of crates/nano-rootio (write.rs): which branches          *)
(* `write_tree` accepts, where it puts each record of the file, and which   *)
(* tags stand for an object that is referred to rather than written.        *)
(*                                                                          *)
(* A branch is [name, chars, type, jagged, declared, prefixed, rows]:       *)
(* `chars` is the length of the name; `declared` the counter it was given   *)
(* (NoName without), `prefixed` the counter its name implies (nMuon for     *)
(* Muon_pt); `rows` the value of each entry of a scalar branch, the number  *)
(* of elements of each entry of a jagged one.  Places and lengths are in    *)
(* bytes.  The contents of a record are what its reader gets out of them.   *)
(***************************************************************************)
EXTENDS Naturals, Sequences

NoName == "no name"

Width(type) ==
  CASE type \in {"bool", "u8", "i8"} -> 1
    [] type \in {"u16", "i16"} -> 2
    [] type \in {"u32", "i32", "f32"} -> 4
    [] type \in {"u64", "i64", "f64"} -> 8

\* A branch that can be made: a name, a type, and a list of values or of lists.
IsBranch(b) ==
  /\ b.name # NoName /\ b.chars \in Nat /\ b.jagged \in BOOLEAN
  /\ b.type \in {"bool", "u8", "i8", "u16", "i16", "u32", "i32", "f32", "u64", "i64", "f64"}
  /\ Len(b.rows) \in Nat
  /\ b.jagged => b.rows \in Seq(Nat)

\* The first n of some sequences, one after the other.
Joined(parts, n) ==
  LET upto[k \in 0 .. n] == IF k = 0 THEN <<>> ELSE upto[k - 1] \o parts[k]
  IN upto[n]

Total(seq) ==
  LET upto[k \in 0 .. Len(seq)] == IF k = 0 THEN 0 ELSE upto[k - 1] + seq[k]
  IN upto[Len(seq)]

(***************************************************************************)
(* What is accepted                                                        *)
(***************************************************************************)
CounterName(b) == IF b.declared # NoName THEN b.declared ELSE b.prefixed

\* The first branch before the i-th that has its counter's name; 0 without one.
CounterOf(bs, i) ==
  LET earlier == {j \in 1 .. i - 1 : bs[j].name = CounterName(bs[i])}
  IN IF ~bs[i].jagged \/ earlier = {} THEN 0
     ELSE CHOOSE j \in earlier : \A k \in earlier : j <= k

\* As if the lengths of a jagged branch were not compared with its counter.
CountsMatch_Unchecked(bs, i, c) == TRUE

CountsMatch(bs, i, c) == \A e \in DOMAIN bs[i].rows : bs[i].rows[e] = bs[c].rows[e]

CounterFits(bs, i) ==
  LET c == CounterOf(bs, i)
  IN /\ c # 0
     /\ bs[c].type \in {"u32", "i32"} /\ ~bs[c].jagged
     /\ CountsMatch(bs, i, c)

Writable(bs) ==
  /\ bs # <<>>
  /\ \A i \in DOMAIN bs :
       /\ bs[i].chars > 0
       /\ Len(bs[i].rows) = Len(bs[1].rows)
       /\ bs[i].jagged => CounterFits(bs, i)

(***************************************************************************)
(* Lengths of what is written                                              *)
(***************************************************************************)
StringLen(n) == IF n < 255 THEN 1 + n ELSE 5 + n
Checked(n) == 4 + n
Named(name, title) == Checked(12 + StringLen(name) + StringLen(title))
ObjArray == 21
RawPrefix(class) == 4 + class + 1
Raw(class, body) == RawPrefix(class) + Checked(body)
KeyHeader(class, name, title) ==
  34 + StringLen(class) + StringLen(name) + StringLen(title)

\* "name[counter]" of a leaf; its branch adds "/" and the code of the type.
LeafTitle(bs, i) ==
  bs[i].chars + (IF bs[i].jagged THEN 2 + bs[CounterOf(bs, i)].chars ELSE 0)
BranchTitle(bs, i) == LeafTitle(bs, i) + 2

LeafBody(bs, i) ==
  2 + Checked(2 + Named(bs[i].chars, LeafTitle(bs, i)) + 18) + 2 * Width(bs[i].type)

\* A branch up to its leaf array, that array, the empty basket array and the
\* three arrays of one basket each.
BeforeLeaves(bs, i) ==
  2 + Named(bs[i].chars, BranchTitle(bs, i)) + Checked(6) + 68 + Checked(ObjArray)
BranchBody(bs, i) ==
  BeforeLeaves(bs, i) + Checked(ObjArray + Raw(6, LeafBody(bs, i)))
    + Checked(ObjArray) + 24

BeforeBranches(t) ==
  2 + Named(t, t) + Checked(8) + Checked(6) + Checked(10) + 5 * 8 + 8 + 4 * 4 + 6 * 8

\* Places in the tree object, whose first four bytes hold its length.
BranchAt(t, bs, i) ==
  4 + BeforeBranches(t) + 4 + ObjArray
    + Total([j \in 1 .. i - 1 |-> Raw(7, BranchBody(bs, j))])
LeafAt(t, bs, i) ==
  BranchAt(t, bs, i) + RawPrefix(7) + 4 + BeforeLeaves(bs, i) + 4 + ObjArray

TreeLen(t, bs) ==
  BranchAt(t, bs, Len(bs) + 1) + Checked(ObjArray + 4 * Len(bs)) + 28

(***************************************************************************)
(* References.  In the order of reading, branch i is object 2i - 1 and its *)
(* leaf object 2i.  A jagged leaf names its counter's leaf by that number, *)
(* the tree's list of leaves names each by its place; both add 2.          *)
(***************************************************************************)
MapOffset == 2
ReadOrderTag(object) == MapOffset + object
ByteTag(t, bs, i) == KeyHeader(5, t, t) + MapOffset + LeafAt(t, bs, i)

\* As if a branch and its leaf were one object.
CounterTag_OneObject(bs, i) ==
  IF CounterOf(bs, i) = 0 THEN 0 ELSE ReadOrderTag(CounterOf(bs, i))

CounterTag(bs, i) ==
  IF CounterOf(bs, i) = 0 THEN 0 ELSE ReadOrderTag(2 * CounterOf(bs, i))

(***************************************************************************)
(* The records of the file, in order: [kind, at, len, holds].  The cells of *)
(* a basket are what it holds: <<version, branch, entry, element>> for a    *)
(* jagged branch, <<version, branch, entry, value>> for a scalar one.       *)
(***************************************************************************)
RowCells(v, b, e) ==
  IF b.jagged THEN [k \in 1 .. b.rows[e] |-> <<v, b.name, e, k>>]
  ELSE << <<v, b.name, e, b.rows[e]>> >>

Cells(v, b, from, to) ==
  Joined([k \in 1 .. to + 1 - from |-> RowCells(v, b, from + k - 1)], to + 1 - from)

BasketLen(t, b) ==
  KeyHeader(7, b.chars, t + 12 + b.chars) + 19
    + (IF b.jagged THEN Total(b.rows) * Width(b.type) + 4 * (Len(b.rows) + 2)
       ELSE Len(b.rows) * Width(b.type))

\* Where record `from + i` of a row of records with these lengths begins.
Place(from, lens, i) == from + Total(SubSeq(lens, 1, i - 1))

FileBegin == 100
TreeOffset == FileBegin + 30
TreeEnd(t, bs) == TreeOffset + KeyHeader(5, t, t) + TreeLen(t, bs)

BasketsLen(t, bs) == Total([i \in DOMAIN bs |-> BasketLen(t, bs[i])])
KeysLen(t) == KeyHeader(5, 9, 9) + 4 + KeyHeader(5, t, t)
InfosLen == KeyHeader(5, 12, 18) + Checked(17)

\* As if what is looked up first were written first.
Places_KeysFirst(t, bs) ==
  [baskets |-> TreeEnd(t, bs) + KeysLen(t) + InfosLen + 4,
   keys |-> TreeEnd(t, bs),
   infos |-> TreeEnd(t, bs) + KeysLen(t)]

\* Tree, baskets, key list and streamer infos follow one another.
Places(t, bs) ==
  [baskets |-> TreeEnd(t, bs),
   keys |-> TreeEnd(t, bs) + BasketsLen(t, bs),
   infos |-> TreeEnd(t, bs) + BasketsLen(t, bs) + KeysLen(t)]

TreeObject(t, bs, basketsAt) ==
  [entries |-> Len(bs[1].rows), keyLen |-> KeyHeader(5, t, t),
   branches |->
     [i \in DOMAIN bs |->
        [at |-> BranchAt(t, bs, i), name |-> bs[i].name, entries |-> Len(bs[1].rows),
         embedded |-> <<>>, writeBasket |-> 1,
         basketBytes |-> <<BasketLen(t, bs[i])>>, basketEntry |-> <<0>>,
         basketSeek |-> <<Place(basketsAt, [j \in DOMAIN bs |-> BasketLen(t, bs[j])], i)>>,
         leaf |-> [at |-> LeafAt(t, bs, i), name |-> bs[i].name,
                   count |-> CounterTag(bs, i)]]],
   leaves |-> [i \in DOMAIN bs |-> ByteTag(t, bs, i)]]

Record(kind, at, len, holds) == [kind |-> kind, at |-> at, len |-> len, holds |-> holds]

HeadRecords(infosAt, infosLen, keysAt, keysLen) ==
  <<Record("header", 0, 75, [infosAt |-> infosAt, infosLen |-> infosLen]),
    Record("directory", FileBegin, 30, [keysAt |-> keysAt, keysLen |-> keysLen])>>

BasketRecords(v, t, bs, at) ==
  [i \in DOMAIN bs |->
     Record("basket", Place(at, [j \in DOMAIN bs |-> BasketLen(t, bs[j])], i),
            BasketLen(t, bs[i]),
            [entries |-> Len(bs[i].rows), cells |-> Cells(v, bs[i], 1, Len(bs[i].rows))])]

\* The bytes of version v, a tree named with t characters and branches bs.
WriteTree(v, t, bs) ==
  LET at == Places(t, bs)
      treeAt == TreeOffset + KeyHeader(5, t, t)
  IN HeadRecords(at.infos, InfosLen, at.keys, KeysLen(t))
       \o <<Record("tree", treeAt, TreeLen(t, bs), TreeObject(t, bs, at.baskets))>>
       \o BasketRecords(v, t, bs, at.baskets)
       \o <<Record("keys", at.keys, KeysLen(t),
                   [treeAt |-> treeAt, treeLen |-> TreeLen(t, bs)]),
            Record("infos", at.infos, InfosLen + 4, {})>>
=============================================================================
