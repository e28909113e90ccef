----------------------------- MODULE MCRootFile -----------------------------
(* Instances of RootFile for TLC: trees of four entries and of none, with   *)
(* muons whose counter is implied by their names or declared.               *)
EXTENDS RootFile, TLC

Scalar(name, chars, type, rows) ==
  [name |-> name, chars |-> chars, type |-> type, jagged |-> FALSE,
   declared |-> NoName, prefixed |-> NoName, rows |-> rows]
Jagged(name, chars, type, declared, rows) ==
  [name |-> name, chars |-> chars, type |-> type, jagged |-> TRUE,
   declared |-> declared, prefixed |-> "nMuon", rows |-> rows]

Muons == <<2, 0, 1, 3>>
Good == <<1, 0, 1, 2>>
Run == Scalar("run", 3, "u32", <<7, 7, 8, 8>>)
NMuon(type) == Scalar("nMuon", 5, type, Muons)
MuonPt(declared, rows) == Jagged("Muon_pt", 7, "f32", declared, rows)
MuonId == Jagged("Muon_id", 7, "u8", NoName, Muons)
NGood == Scalar("nGood", 5, "i32", Good)

Ours(branches) == [foreign |-> FALSE, branches |-> branches]

Implied == Ours(<<Run, NMuon("u32"), MuonPt(NoName, Muons), MuonId>>)
Declared == Ours(<<NMuon("i32"), NGood, MuonId, MuonPt("nGood", Good)>>)
NoEntries ==
  Ours(<<Scalar("nMuon", 5, "u32", <<>>), Jagged("Muon_pt", 7, "f32", NoName, <<>>)>>)
\* ParseTree(TreeObject(6, Wide(n).branches, 0)) is Error from n = 220 on: the
\* place of the first leaf is then also the number of a branch that was read.
Wide(n) ==
  Ours([i \in 1 .. n |-> IF i = 1 THEN NMuon("u32")
                         ELSE IF i = n THEN MuonPt(NoName, Muons)
                         ELSE Scalar("HLT_x", 5, "f64", <<1, 2, 3, 4>>)])

\* Lists that must not be written.
CounterLate == Ours(<<MuonPt(NoName, Muons), NMuon("u32")>>)
CounterOff == Ours(<<NMuon("u32"), MuonPt(NoName, Good)>>)
CounterFloat == Ours(<<NMuon("f32"), MuonPt(NoName, Muons)>>)

(***************************************************************************)
(* A file of another program, with several baskets to a branch: cuts[i] are *)
(* the first entries of branch i's baskets, of which the last `embedded`    *)
(* are still in the tree object.                                            *)
(***************************************************************************)
Basket(v, b, cuts, k) ==
  LET from == cuts[k] + 1
      to == IF k < Len(cuts) THEN cuts[k + 1] ELSE Len(b.rows)
  IN [entries |-> to - from + 1, cells |-> Cells(v, b, from, to)]

ForeignTree(v, branches, cuts, embedded) ==
  [entries |-> Len(branches[1].rows), keyLen |-> 54,
   branches |-> [i \in DOMAIN branches |->
     LET disk == Len(cuts[i]) - embedded IN
     [at |-> 500 + 1000 * i, name |-> branches[i].name, entries |-> Len(branches[i].rows),
      embedded |-> [k \in 1 .. embedded |-> Basket(v, branches[i], cuts[i], disk + k)],
      writeBasket |-> disk, basketEntry |-> cuts[i],
      basketBytes |-> [k \in DOMAIN cuts[i] |-> IF k <= disk THEN 100 ELSE 0],
      basketSeek |-> [k \in DOMAIN cuts[i] |-> IF k <= disk THEN 10000 * i + 100 * k ELSE 0],
      leaf |-> [at |-> 900 + 1000 * i, name |-> branches[i].name,
                count |-> IF branches[i].jagged THEN 54 + 2 + 900 + 1000 * CounterOf(branches, i)
                          ELSE 0]]],
   leaves |-> [i \in DOMAIN branches |-> 54 + 2 + 900 + 1000 * i]]

Theirs(v, branches, cuts, embedded) ==
  [foreign |-> TRUE, branches |-> branches,
   records |->
     HeadRecords(60000, 100, 50000, 200)
       \o <<Record("tree", 1000, 8000, ForeignTree(v, branches, cuts, embedded))>>
       \o FlattenSeq([i \in DOMAIN branches |->
            [k \in 1 .. Len(cuts[i]) - embedded |->
               Record("basket", 10000 * i + 100 * k, 100, Basket(v, branches[i], cuts[i], k))]])
       \o <<Record("keys", 50000, 200, [treeAt |-> 1000, treeLen |-> 8000]),
            Record("infos", 60000, 104, {})>>]

TwoBranches == <<NMuon("u32"), MuonPt(NoName, Muons)>>
Cuts == << <<0, 2>>, <<0, 1, 3>> >>

AllContents ==
  ("implied" :> Implied) @@ ("declared" :> Declared) @@ ("empty" :> NoEntries)
  @@ ("late" :> CounterLate) @@ ("off" :> CounterOff)
  @@ ("float" :> CounterFloat)
  @@ ("cut" :> Theirs("cut", TwoBranches, Cuts, 0))
  @@ ("embedded" :> Theirs("embedded", TwoBranches, Cuts, 1))

Window(start, len, size, names) ==
  [start |-> start, len |-> len, size |-> size, columns |-> names]

AllWindows ==
  {Window(0, 4, 3, <<"Muon_pt">>), Window(1, 3, 2, <<"nMuon", "Muon_pt">>),
   Window(0, 4, 0, <<"nMuon">>), Window(3, 2, 1, <<"nMuon">>)}
=============================================================================
