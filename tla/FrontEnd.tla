------------------------------- MODULE FrontEnd -------------------------------
(***************************************************************************)
(* The way of a spec through the front end of crates/nano-spec and         *)
(* crates/nano-review: somebody types an expression; somebody drafts a     *)
(* document, with slips that the repair loop is to undo or with an edit    *)
(* that a reviewer is to see; a document is loaded, parsed and validated;  *)
(* the accepted plan is certified, written as ADL and read again.          *)
(***************************************************************************)
EXTENDS SpecRepair, Certificate, AdlText
LOCAL INSTANCE SequencesExt

CONSTANTS
  Documents,  \* the drafts as they are meant, all of them accepted
  Specs,      \* accepted specs that are not written as documents here
  Keys,       \* the tokens an expression is typed with
  MaxKeys, MaxOpen,  \* bounds: tokens of a typed expression, and open parentheses in it
  RevisionsOf(_),  \* spec -> accepted specs it may be revised to
  SlipsOf,    \* token -> what it may be misspelt as
  EditsOf,    \* token -> what a reviewed edit may put in its place
  MaxSlips    \* bound: slips in a draft

VARIABLES
  stage,    \* "typing", "draft", "loaded", "repairing", "accepted", "refused",
            \* "certified", "written", "reread"
  typed,    \* the expression typed so far
  meant,    \* the document the draft was meant to be
  intended, \* the plan of that, or of a spec before its revision
  doc,      \* the draft
  slips,    \* the slips and edits in it: <<kind, line, token>>, line 0 in a spec
  round,    \* rounds of repair begun
  pending,  \* suggestions of this round not yet applied
  changed,  \* whether this round has changed the draft
  loaded,   \* spec, errors and branches of the draft when it was last loaded
  cert,     \* the certificate of the accepted plan
  adl,      \* the ADL text written for it
  again     \* what reading that gave

vars == <<stage, typed, meant, intended, doc, slips, round, pending, changed, loaded, cert, adl,
          again>>
intentVars == <<meant, intended>>
draftVars == <<typed, intentVars, slips>>
repairVars == <<round, pending, changed>>
planVars == <<cert, adl, again>>

Plan(s) == [spec |-> s, errors |-> {}, reads |-> Validate(s).reads]
Nothing == [spec |-> NoParse, errors |-> {}, reads |-> {}]

Init ==
  /\ typed = <<>> /\ round = 0 /\ pending = {} /\ changed = TRUE
  /\ cert = NoCertificate /\ adl = <<>> /\ again = NoParse
  /\ \/ /\ stage = "typing" /\ doc = <<>> /\ slips = {}
        /\ intended = Nothing /\ loaded = Nothing
     \/ /\ stage = "draft" /\ doc \in Documents /\ slips = {}
        /\ intended = ParseAndValidate(doc) /\ loaded = Nothing
     \/ /\ stage = "accepted" /\ doc = <<>>
        /\ \E s \in Specs :
             /\ intended = Plan(s)
             /\ \/ loaded = intended /\ slips = {}
                \/ loaded \in {Plan(v) : v \in RevisionsOf(s)} /\ slips = {<<"edit", 0, 0>>}
  /\ meant = doc

(***************************************************************************)
(* Typing and drafting                                                     *)
(***************************************************************************)
\* a key that may follow in an expression
Follows(t, key) ==
  LET open == Depth(t, Len(t) + 1, Round)
      last == IF t = <<>> THEN "(" ELSE t[Len(t)]
      operand == last \in DOMAIN ArithOf \cup {"("}
  IN CASE key = "("             -> operand /\ open < MaxOpen
       [] key = ")"             -> ~operand /\ open > 0
       [] key = "-"             -> last # "-"
       [] key \in DOMAIN ArithOf \ {"-"} -> ~operand
       [] OTHER                 -> operand

Type(key) ==
  /\ stage = "typing" /\ Len(typed) < MaxKeys /\ Follows(typed, key)
  /\ typed' = Append(typed, key)
  /\ UNCHANGED <<stage, intentVars, doc, slips, repairVars, loaded, planVars>>

Put(i, j, token) == [doc EXCEPT ![i].line[j] = token]

Misspell(i, j) ==
  /\ stage = "draft" /\ Cardinality(slips) < MaxSlips
  /\ \A s \in slips : s[1] # "edit"
  /\ doc[i].line[j] \in DOMAIN SlipsOf
  /\ \E w \in SlipsOf[doc[i].line[j]] : doc' = Put(i, j, w)
  /\ slips' = slips \cup {<<"misspelt", i, j>>}
  /\ UNCHANGED <<stage, typed, intentVars, repairVars, loaded, planVars>>

ForgetUnit(i, j) ==
  /\ stage = "draft" /\ Cardinality(slips) < MaxSlips
  /\ \A s \in slips : s[1] # "edit"
  /\ doc[i].line[j] = "GeV"
  /\ doc' = [doc EXCEPT ![i].line = RemoveAt(@, j)]
  /\ slips' = slips \cup {<<"unit", i, j>>}
  /\ UNCHANGED <<stage, typed, intentVars, repairVars, loaded, planVars>>

Edit(i, j) ==
  /\ stage = "draft" /\ slips = {}
  /\ doc[i].line[j] \in DOMAIN EditsOf
  /\ \E w \in EditsOf[doc[i].line[j]] : doc' = Put(i, j, w)
  /\ slips' = {<<"edit", i, j>>}
  /\ UNCHANGED <<stage, typed, intentVars, repairVars, loaded, planVars>>

Edited == \E s \in slips : s[1] = "edit"

(***************************************************************************)
(* Loading, and repairing: repair_spec with apply                          *)
(***************************************************************************)
MaxRepairIterations == 5

\* a draft, or what a round of repair has made of it, is parsed and validated
Load ==
  /\ \/ stage = "draft"
     \/ stage = "repairing" /\ pending = {}
  /\ stage' = "loaded"
  /\ loaded' = ParseAndValidate(doc)
  /\ UNCHANGED <<doc, draftVars, repairVars, planVars>>

Accept ==
  /\ stage = "loaded" /\ loaded.errors = {}
  /\ stage' = "accepted"
  /\ UNCHANGED <<doc, draftVars, repairVars, loaded, planVars>>

\* a draft with slips is repaired, as long as rounds change it and are left
Repairable == slips # {} /\ ~Edited /\ changed /\ round < MaxRepairIterations

BeginRound ==
  /\ stage = "loaded" /\ loaded.errors # {} /\ Repairable
  /\ stage' = "repairing"
  /\ round' = round + 1
  /\ pending' = SuggestRepairs(loaded)
  /\ changed' = FALSE
  /\ UNCHANGED <<doc, draftVars, loaded, planVars>>

\* the errors come in an order of their own; any is taken here
ApplySuggestion ==
  /\ stage = "repairing"
  /\ \E s \in pending :
       /\ doc' = ApplyReplacement(doc, s)
       /\ pending' = pending \ {s}
  /\ changed' = (changed \/ doc' # doc)
  /\ UNCHANGED <<stage, draftVars, round, loaded, planVars>>

GiveUp ==
  /\ stage = "loaded" /\ loaded.errors # {} /\ ~Repairable
  /\ stage' = "refused"
  /\ UNCHANGED <<doc, draftVars, repairVars, loaded, planVars>>

(***************************************************************************)
(* Certifying, writing and reading again                                   *)
(***************************************************************************)
TryCertify ==
  /\ stage = "accepted"
  /\ stage' = "certified"
  /\ cert' = Certify(loaded)
  /\ UNCHANGED <<doc, draftVars, repairVars, loaded, adl, again>>

Write ==
  /\ stage = "certified" /\ Representable(loaded.spec)
  /\ stage' = "written"
  /\ adl' = ToAdl(loaded.spec)
  /\ UNCHANGED <<doc, draftVars, repairVars, loaded, cert, again>>

ReadAgain ==
  /\ stage = "written"
  /\ stage' = "reread"
  /\ again' = ParseAdl(adl)
  /\ UNCHANGED <<doc, draftVars, repairVars, loaded, cert, adl>>

Next ==
  \/ \E key \in Keys : Type(key)
  \/ \E i \in DOMAIN doc : \E j \in DOMAIN doc[i].line :
       Misspell(i, j) \/ ForgetUnit(i, j) \/ Edit(i, j)
  \/ Load \/ Accept \/ BeginRound \/ ApplySuggestion \/ GiveUp
  \/ TryCertify \/ Write \/ ReadAgain

Spec == Init /\ [][Next]_vars
-----------------------------------------------------------------------------
(***************************************************************************)
(* Expressions                                                             *)
(***************************************************************************)
\* the ordinary grammar, as the set of the readings of a text: sums and products
\* group to the left, powers to the right, and a sign belongs to its number
RECURSIVE Sums(_), Products(_), Powers(_)
Joins(t, ops, i) == 1 < i /\ i < Len(t) /\ t[i] \in ops /\ Depth(t, i, Round) = 0
Binary(t, i, l, r) == [k |-> "bin", op |-> ArithOf[t[i]], l |-> l, r |-> r]
Atoms(t) ==
  CASE IsNumber(t) -> {[k |-> "lit", v |-> NumberValue(t)]}
    [] IsWord(t)   -> {[k |-> "scalar", b |-> t[1]]}
    [] Wrapped(t)  -> Sums(Inside(t))
    [] OTHER       -> {}
Powers(t) ==
  Atoms(t) \cup UNION {{Binary(t, i, l, r) : l \in Atoms(Before(t, i)), r \in Powers(After(t, i))} :
                       i \in {j \in DOMAIN t : Joins(t, {"^"}, j)}}
Products(t) ==
  Powers(t) \cup UNION {{Binary(t, i, l, r) : l \in Products(Before(t, i)), r \in Powers(After(t, i))} :
                        i \in {j \in DOMAIN t : Joins(t, {"*", "/"}, j)}}
Sums(t) ==
  Products(t) \cup UNION {{Binary(t, i, l, r) : l \in Sums(Before(t, i)), r \in Products(After(t, i))} :
                          i \in {j \in DOMAIN t : Joins(t, {"+", "-"}, j)}}

\* An expression is read as the ordinary grammar reads it or refused: the
\* precedence climbing of parse_expr_prec from the right (lib.rs:3528-3713),
\* which strips parentheses on the way, regroups nothing.
ConventionalReading == stage = "typing" /\ Parsed(ParseValue(typed)) => ParseValue(typed) \in Sums(typed)

\* where an alias x is used
Uses == {<<"x">>, <<"2", "*", "x">>, <<"x", "*", "2">>, <<"2", "-", "x">>, <<"x", "-", "2">>,
         <<"x", "^", "2">>, <<"2", "^", "x">>, <<"abs", "(", "x", ")">>, <<"2", "-", "2", "*", "x">>}

RECURSIVE Instead(_, _)
Instead(e, x) ==
  CASE e.k = "bin" -> [e EXCEPT !.l = Instead(@, x), !.r = Instead(@, x)]
    [] e.k = "abs" -> [e EXCEPT !.x = Instead(@, x)]
    [] e.k = "scalar" /\ e.b = "x" -> x
    [] OTHER -> e

\* An alias is one operand wherever it is used: its text, put in place by
\* expand_aliases (adl.rs:1719-1752) before anything is parsed, does not
\* regroup with what stands beside it.
AliasIsOneOperand ==
  stage = "typing" /\ Parsed(ParseValue(typed)) =>
    \A use \in Uses :
      LET r == ParseValue(ExpandAliases([x |-> typed], use))
      IN Parsed(r) => r = Instead(ParseValue(use), ParseValue(typed))

(***************************************************************************)
(* Plans                                                                   *)
(***************************************************************************)
\* Every accepted spec is certified, although certifying lowers it once more
\* against a catalogue of the branches it reads alone, and the required branches
\* of the certificate are those of the plan and of the Core IR effects
\* (docs/preservation.md:57-60).
CertifiesAccepted ==
  stage = "certified" =>
    /\ cert # NoCertificate
    /\ {b.name : b \in cert.required} = loaded.reads
    /\ ReadBranches(cert.effects) = loaded.reads

\* A spec survives being written as ADL and read again (adl.rs:35-38), and so
\* does every expression that was read.
RoundTrip ==
  /\ stage = "reread" => again = [k |-> "spec", spec |-> loaded.spec]
  /\ stage = "typing" /\ Parsed(ParseValue(typed)) =>
       ParseValue(ExprToText(ParseValue(typed))) = ParseValue(typed)

(***************************************************************************)
(* What a review sees                                                      *)
(***************************************************************************)
\* the cuts of an object but for those before one with the same left side and
\* operator
LastCuts(o) ==
  LET Shadows(n, j) == n > j /\ o.cuts[n].lhs = o.cuts[j].lhs /\ o.cuts[n].op = o.cuts[j].op
  IN {o.cuts[j] : j \in {i \in DOMAIN o.cuts : ~ \E n \in DOMAIN o.cuts : Shadows(n, i)}}

\* The parts of a spec that semantic_diff sees.  It sees nothing of the source of
\* an object, of derived objects, histograms, nominal weights, systematics,
\* corrections, the lumi mask and channels, nor the order of named parts; some of
\* these show in the branches that are read.
ReviewedParts(s) ==
  [objects |-> {<<s.objects[i].name, LastCuts(s.objects[i])>> : i \in DOMAIN s.objects},
   regions |-> ToSet(s.regions), outputs |-> ToSet(s.outputs), models |-> ToSet(s.models)]

Diff(old, new) == SemanticDiff(old.spec, new.spec, old.reads, new.reads)
Unchanged(old, new) == Diff(old, new) = Diff(new, new)
ReviewedAlike(old, new) ==
  ReviewedParts(old.spec) = ReviewedParts(new.spec) /\ old.reads = new.reads

\* An accepted edit of an accepted spec that touches the names or the cuts of its
\* objects, its regions, its outputs or its models, or that changes what is read,
\* shows in the semantic difference (nano-review lib.rs:159-167), and one that is
\* made where it does not look and reads the same does not.
DiffSeesEdits ==
  stage = "certified" /\ Edited =>
    (Unchanged(intended, loaded) <=> ReviewedAlike(intended, loaded))

(***************************************************************************)
(* What a certificate sees                                                 *)
(***************************************************************************)
\* An expression as a node of the Core IR keeps it: objects and candidates that a
\* call only refers to have lost their names (call_ref, lib.rs:1363-1380), those
\* of attributes have not.
RECURSIVE Unnamed(_)
Unnamed(e) ==
  CASE e.k = "bin"           -> [e EXCEPT !.l = Unnamed(@), !.r = Unnamed(@)]
    [] e.k \in {"abs", "sqrt"} -> [e EXCEPT !.x = Unnamed(@)]
    [] e.k \in {"count", "countWhere", "any", "all"} -> [e EXCEPT !.o = ""]
    [] e.k \in {"eitherPairPt", "closestMass", "otherMass"} -> [e EXCEPT !.l = "", !.r = ""]
    [] OTHER -> e

\* of a pair the way it is chosen, with the filters of a leading one and the
\* target of a nearest one; of a combination the kinds of its items and its filters
CertifiedDerived(s, d) ==
  LET kinds == [n \in DOMAIN d.items |-> d.items[n] \in Names(s.objects)]
  IN CASE d.kind = "candidate" -> <<d.name, kinds, d.filters>>
       [] d.kind = "pair" /\ d.select = "leading" -> <<d.name, d.select, d.filters>>
       [] d.kind = "pair" /\ d.select # "leading" -> <<d.name, d.select, d.target>>

\* The parts of a spec that the certificate of its plan depends on.  Missing are the object of
\* a pair, its constraints and exclusions, and its filters when it is nearest; the
\* items of a combination, but for the order in which all are built; what a
\* histogram counts or which candidates it compares, unless it is filled in the
\* loop over the systematics; of the scale factors all but whether that loop has
\* any; nominal weights, the literal values and sources of inputs, the order of
\* systematics and models, the contents of the lumi mask, and channels.  When the
\* plan does not lower to kernel IR and its Core IR is printed instead, the same
\* objects of requirements and outputs are missing, and the lumi mask.  Some of
\* these show in the branches that are read.
CertifiedParts(s, printed) ==
  LET Text(e) == IF printed THEN e ELSE Unnamed(e)
      Filled(h) == IF printed /\ LoopsOverSystematics(s) THEN h.expr ELSE Unnamed(h.expr)
      requirements == AllRequirements(s)
  IN [objects      |-> [i \in DOMAIN s.objects |-> <<s.objects[i].name, s.objects[i].source>>],
      cuts         |-> Flat([i \in DOMAIN s.objects |-> s.objects[i].cuts]),
      derived      |-> [i \in DOMAIN s.derived |-> CertifiedDerived(s, s.derived[i])],
      built        |-> IF printed THEN NameList(OrderedDerived(s)) ELSE <<>>,
      regions      |-> NameList(s.regions),
      requirements |-> [i \in DOMAIN requirements |-> [requirements[i] EXCEPT !.lhs = Text(@)]],
      outputs      |-> [i \in DOMAIN s.outputs |-> [s.outputs[i] EXCEPT !.expr = Text(@)]],
      histograms   |-> [i \in DOMAIN s.histograms |->
                          [s.histograms[i] EXCEPT !.expr = Filled(s.histograms[i])]],
      systematics  |-> ToSet(s.systematics),
      factors      |-> printed /\ LoopsOverSystematics(s) /\ s.sfs # <<>>,
      shapes       |-> [i \in DOMAIN s.shapes |-> [s.shapes[i] EXCEPT !.inputs = InputNames(@)]],
      models       |-> {[s.models[i] EXCEPT !.provider = @.kind] : i \in DOMAIN s.models},
      lumi         |-> IF printed /\ s.lumi.on THEN Cardinality(s.lumi.certified) ELSE 0]

CertifiedAlike(plans) ==
  Cardinality({<<CertifiedParts(p.spec, Lowers(p)), p.reads>> : p \in plans}) = 1

\* An accepted edit of an accepted spec changes its certificate exactly when it
\* changes a part the certificate depends on, or the branches that are read.  That
\* is less than the meaning docs/preservation.md:50-60 has it depend on: two
\* certificates of one hash need not stand for the same selection.
CertificateSeesEdits ==
  stage = "certified" /\ Edited =>
    (cert = Certify(intended) <=> CertifiedAlike({intended, loaded}))

(***************************************************************************)
(* Repair                                                                  *)
(***************************************************************************)
\* a misspelt attribute, or name of an object, whose misspelling is no other
\* word of the draft; collections, outputs and derived objects are not suggested
PlainMisspelling(i, j) ==
  /\ meant[i].at[3] \notin {"source", "name"}
  /\ meant[i].line[j] \notin NamesOf(meant, "derived")
  /\ \A n \in DOMAIN meant : \A w \in SlipsOf[meant[i].line[j]] :
       w \notin {meant[n].line[m] : m \in DOMAIN meant[n].line}

\* the unit of the one comparison of its line, after no line that compares a
\* ratio of momenta
PlainUnit(i, j) ==
  LET InLine(words) == {n \in DOMAIN meant[i].line : meant[i].line[n] \in words}
  IN /\ Cardinality(InLine(DOMAIN CmpOf)) = 1 /\ InLine({"GeV"}) = {j}
     /\ \A n \in 1 .. i - 1 : AboutMomentum(meant[n].line) => AddUnitToLine(meant[n].line) = meant[n].line

Plain(s) == IF s[1] = "unit" THEN PlainUnit(s[2], s[3]) ELSE PlainMisspelling(s[2], s[3])

\* A draft that is repaired of plain slips comes out as the spec that was meant:
\* the suggestions of one round, each computed for the text before the round,
\* are applied one after another (lib.rs:231-251) and do not spoil each other.
RepairRestores ==
  stage \in {"accepted", "refused"} /\ round > 0 /\ (\A s \in slips : Plain(s)) => loaded = intended
===============================================================================
