----------------------------- MODULE FightProofs -----------------------------
(***************************************************************************)
(* `squabble fight --apply` beside somebody who edits the same workflow    *)
(* files, for any number of files, edits and failures: whose work is lost, *)
(* what the report may claim, and what came of each escalation and each    *)
(* check.  At the end, what the admission of a request promises, for every *)
(* policy, request and snapshot.                                           *)
(***************************************************************************)
EXTENDS Fight, Admission, FiniteSetTheorems, SequenceTheorems, TLAPS

\* While a text waits to be written, it has every edit of its file but those
\* that came since it was read.
TextIsCurrent ==
  pc = "write" =>
    /\ Mine.workflow \in File
    /\ text \in Info
    /\ Mine.workflow \notin raced \cup damaged => text.body = edited[Mine.workflow]

EditsInv ==
  /\ tree \in Tree
  /\ edited \in [File -> Nat]
  /\ OnlyARaceLosesAnEdit
  /\ TextIsCurrent

\* Stripping and truncating yield a workflow file; stripping leaves the rest of
\* the text alone.
LEMMA StripKeepsTheRest ==
  ASSUME NEW w \in Info
  PROVE  /\ RemoveOnPaths(w) \in Info /\ RemoveOnPaths(w).body = w.body
         /\ Truncated(w) \in Info
<1> DEFINE U == Use \cup {LocalCall}
           T(t) == IF t = "paths" THEN "every" ELSE t
<1> HIDE DEF U
<1>1. Info = [title : Context \cup {NoTitle}, jobs : SUBSET Context,
              pull : Trigger, push : Trigger, uses : Seq(U),
              retired : BOOLEAN, empty : BOOLEAN, kind : Kind, body : Nat]
  BY DEF Info, U
<1>2. RemoveOnPaths(w) = [w EXCEPT !.pull = T(w.pull), !.push = T(w.push)]
  BY <1>1 DEF RemoveOnPaths
<1>3. \A t \in Trigger : T(t) \in Trigger
  BY DEF Trigger
<1>4. RemoveOnPaths(w) \in Info /\ RemoveOnPaths(w).body = w.body
  <2> HIDE DEF T
  <2> QED
    BY <1>1, <1>2, <1>3
<1>5. Truncated(w) \in Info
  <2>1. << >> \in Seq(U)
    OBVIOUS
  <2>2. "off" \in Trigger
    BY DEF Trigger
  <2> QED
    BY <1>1, <2>1, <2>2 DEF Truncated
<1> QED
  BY <1>4, <1>5

\* So does an edit of somebody else.
LEMMA EditIsInfo ==
  ASSUME NEW w \in Info, NEW t \in Trigger
  PROVE  LET new == [w EXCEPT !.pull = t, !.body = w.body + 1]
         IN  new \in Info /\ new.body = w.body + 1
<1> DEFINE U == Use \cup {LocalCall}
<1> HIDE DEF U
<1>1. Info = [title : Context \cup {NoTitle}, jobs : SUBSET Context,
              pull : Trigger, push : Trigger, uses : Seq(U),
              retired : BOOLEAN, empty : BOOLEAN, kind : Kind, body : Nat]
  BY DEF Info, U
<1>2. w.body + 1 \in Nat
  BY <1>1
<1> QED
  BY <1>1, <1>2

\* At first nobody has edited anything.
LEMMA EditsInit ==
  ASSUME Init
  PROVE  EditsInv
<1>1. PICK s \in Situations :
        /\ tree = s.tree /\ edited = [f \in File |-> 0] /\ pc = "load"
  BY DEF Init
<1>2. s.tree \in Tree /\ \A f \in File : s.tree.files[f].body = 0
  BY SituationAssumption DEF Situation
<1> QED
  BY <1>1, <1>2 DEF EditsInv, OnlyARaceLosesAnEdit, TextIsCurrent, Tree

\* A step that touches neither a file nor the record of edits, and reads no text.
LEMMA EditsKept ==
  ASSUME EditsInv, UNCHANGED <<tree, edited, raced, damaged>>, pc' # "write"
  PROVE  EditsInv'
BY DEF EditsInv, OnlyARaceLosesAnEdit, TextIsCurrent

\* An edit or removal by another is recorded as one.
LEMMA EditsByOthers ==
  ASSUME EditsInv, NEW f \in File, Edit(f) \/ Unlink(f)
  PROVE  EditsInv'
<1>1. /\ f \in tree.present
      /\ raced' = raced \cup ({f} \cap AtHand)
      /\ UNCHANGED <<pc, report, next, text, damaged>>
  BY DEF Edit, Unlink, Meanwhile, process
<1>2. UNCHANGED <<Mine, AtHand>>
  BY <1>1 DEF Mine, AtHand
<1>3. pc = "write" => AtHand = {Mine.workflow}
  BY DEF AtHand, Mine
<1>4. CASE Edit(f)
  <2>1. PICK t \in Edits(tree.files[f].pull) :
          tree' = [tree EXCEPT !.files[f].pull = t, !.files[f].body = @ + 1]
    BY <1>4 DEF Edit
  <2>2. edited' = [edited EXCEPT ![f] = @ + 1]
    BY <1>4 DEF Edit
  <2>3. tree.files \in [File -> Info] /\ tree.files[f] \in Info
    BY DEF EditsInv, Tree
  <2>4. t \in Trigger
    BY <2>1, <2>3, EditsAssumption DEF Info
  <2>5. /\ tree' = [tree EXCEPT !.files = [tree.files EXCEPT ![f] = [tree.files[f] EXCEPT !.pull = t, !.body = tree.files[f].body + 1]]]
    BY <2>1 DEF EditsInv, Tree, Info
  <2> DEFINE new == [tree.files[f] EXCEPT !.pull = t, !.body = tree.files[f].body + 1]
  <2>6. new \in Info /\ new.body = tree.files[f].body + 1
    BY <2>3, <2>4, EditIsInfo
  <2> HIDE DEF new
  <2>7. /\ tree'.files = [tree.files EXCEPT ![f] = new]
        /\ tree'.present = tree.present
        /\ tree' \in Tree
    BY <2>3, <2>5, <2>6 DEF EditsInv, Tree, new
  <2>8. edited' \in [File -> Nat]
    BY <2>2 DEF EditsInv
  <2>9. OnlyARaceLosesAnEdit'
    BY <1>1, <2>2, <2>3, <2>6, <2>7 DEF EditsInv, OnlyARaceLosesAnEdit, Tree
  <2>10. TextIsCurrent'
    BY <1>1, <1>2, <1>3, <2>2 DEF EditsInv, TextIsCurrent
  <2> QED
    BY <2>7, <2>8, <2>9, <2>10 DEF EditsInv
<1>5. CASE Unlink(f)
  <2>1. /\ tree' = [tree EXCEPT !.present = @ \ {f}]
        /\ UNCHANGED edited
    BY <1>5 DEF Unlink
  <2>2. tree' \in Tree /\ tree'.files = tree.files /\ tree'.present = tree.present \ {f}
    BY <2>1 DEF EditsInv, Tree
  <2> QED
    BY <1>1, <1>2, <2>1, <2>2 DEF EditsInv, OnlyARaceLosesAnEdit, TextIsCurrent
<1> QED
  BY <1>4, <1>5

\* A file just read is the text at hand.
LEMMA EditsRead ==
  ASSUME EditsInv, ReadStrip
  PROVE  EditsInv'
<1>1. UNCHANGED <<tree, edited, raced, damaged>> /\ pc = "apply"
  BY DEF ReadStrip, World
<1>2. CASE pc' # "write"
  BY <1>1, <1>2, EditsKept
<1>3. CASE pc' = "write"
  <2> DEFINE f == Mine.workflow
  <2>1. /\ f \in tree.present
        /\ text' = RemoveOnPaths(tree.files[f])
        /\ UNCHANGED <<report, next>>
    BY <1>1, <1>3 DEF ReadStrip
  <2>2. f \in File /\ tree.files[f] \in Info
    BY <2>1 DEF EditsInv, Tree
  <2>3. text' \in Info /\ text'.body = tree.files[f].body
    BY <2>1, <2>2, StripKeepsTheRest
  <2>4. Mine' = Mine
    BY <2>1 DEF Mine
  <2> QED
    BY <1>1, <2>1, <2>2, <2>3, <2>4 DEF EditsInv, OnlyARaceLosesAnEdit, TextIsCurrent
<1> QED
  BY <1>2, <1>3

\* A write loses an edit only if it was made since the read.
LEMMA EditsWritten ==
  ASSUME EditsInv, WriteStrip
  PROVE  EditsInv'
<1> DEFINE f == Mine.workflow
<1>1. pc = "write" /\ pc' = "apply" /\ UNCHANGED <<edited, raced>>
  BY DEF WriteStrip
<1>2. f \in File /\ text \in Info /\ (f \notin raced \cup damaged => text.body = edited[f])
  BY <1>1 DEF EditsInv, TextIsCurrent
<1>3. TextIsCurrent'
  BY <1>1 DEF TextIsCurrent
<1>4. ASSUME NEW w \in Info, Holds(f, w)
      PROVE  /\ tree' \in Tree
             /\ tree'.present = tree.present \cup {f}
             /\ tree'.files = [tree.files EXCEPT ![f] = w]
  BY <1>2, <1>4 DEF Holds, EditsInv, Tree
<1>5. CASE Holds(f, text) /\ UNCHANGED damaged
  <2>1. /\ tree' \in Tree
        /\ tree'.present = tree.present \cup {f}
        /\ tree'.files = [tree.files EXCEPT ![f] = text]
    BY <1>2, <1>4, <1>5
  <2>2. tree.files \in [File -> Info] /\ tree'.files \in [File -> Info] /\ tree'.present \subseteq File
    BY <2>1 DEF EditsInv, Tree
  <2> HIDE DEF f
  <2>3. ASSUME NEW g \in tree'.present \ (raced' \cup damaged')
        PROVE  tree'.files[g].body = edited'[g]
    <3>1. CASE g = f
      BY <1>1, <1>2, <1>5, <2>1, <2>2, <2>3, <3>1
    <3>2. CASE g # f
      BY <1>1, <1>5, <2>1, <2>2, <2>3, <3>2 DEF EditsInv, OnlyARaceLosesAnEdit
    <3> QED
      BY <3>1, <3>2
  <2> QED
    BY <1>1, <1>3, <2>1, <2>3 DEF EditsInv, OnlyARaceLosesAnEdit
<1>6. CASE Holds(f, Truncated(text)) /\ damaged' = damaged \cup {f}
  <2>1. Truncated(text) \in Info
    BY <1>2, StripKeepsTheRest
  <2> QED
    BY <1>1, <1>2, <1>3, <1>4, <1>6, <2>1 DEF EditsInv, OnlyARaceLosesAnEdit, Tree
<1>7. CASE UNCHANGED <<tree, damaged>>
  BY <1>1, <1>7, EditsKept
<1> QED
  BY <1>5, <1>6, <1>7 DEF WriteStrip

\* Every step keeps the account of edits.
LEMMA EditsStep ==
  ASSUME EditsInv, [Next]_vars
  PROVE  EditsInv'
<1>1. CASE UNCHANGED vars
  BY <1>1 DEF vars, process, EditsInv, OnlyARaceLosesAnEdit, TextIsCurrent, Mine
<1>2. CASE \E f \in File : Edit(f) \/ Unlink(f)
  BY <1>2, EditsByOthers
<1>3. CASE ReadStrip
  BY <1>3, EditsRead
<1>4. CASE WriteStrip
  BY <1>4, EditsWritten
<1>5. CASE LoadFails \/ List \/ ReadFile \/ MakePlan \/ InspectGreen \/ GreensEnd
  <2>1. UNCHANGED <<tree, edited, raced, damaged>>
    BY <1>5 DEF LoadFails, List, ReadFile, MakePlan, InspectGreen, GreensEnd, World
  <2>2. pc' # "write"
    BY <1>5 DEF LoadFails, List, ReadFile, MakePlan, InspectGreen, GreensEnd, Goes, AfterGreens
  <2> QED
    BY <2>1, <2>2, EditsKept
<1>6. CASE PassOver \/ ApplyEnds \/ Refuse \/ Health \/ Invoke \/ InvokeEnds \/ PrintReport
  <2>1. UNCHANGED <<tree, edited, raced, damaged>>
    BY <1>6 DEF PassOver, ApplyEnds, Refuse, Health, Invoke, InvokeEnds, PrintReport, World
  <2>2. pc' # "write"
    BY <1>6 DEF PassOver, ApplyEnds, Refuse, Health, Invoke, InvokeEnds, PrintReport, Goes
  <2> QED
    BY <2>1, <2>2, EditsKept
<1> QED
  BY <1>1, <1>2, <1>3, <1>4, <1>5, <1>6 DEF Next, Process, Finished

\* Whatever the number of files, edits and failures: an edit of somebody else
\* that is not between the read and the write of one strip, and not in a file
\* that a failed write left in part, is in the file (apply.rs, strip_path_filter).
THEOREM EditsSurvive == Spec => []OnlyARaceLosesAnEdit
<1>1. Init => EditsInv
  BY EditsInit
<1>2. EditsInv /\ [Next]_vars => EditsInv'
  BY EditsStep
<1>3. EditsInv => OnlyARaceLosesAnEdit
  BY DEF EditsInv
<1> QED
  BY <1>1, <1>2, <1>3, PTL DEF Spec

-----------------------------------------------------------------------------
(***************************************************************************)
(* The report.                                                             *)
(***************************************************************************)
IsSeq(s) == s \in Seq(SetOf(s))

Shape(r) ==
  /\ DOMAIN r = {"moves", "escalations", "assignments", "verdicts", "applied", "blockers"}
  /\ IsSeq(r.moves) /\ IsSeq(r.applied)

\* There is a report that may still be printed.
Planned == pc \notin {"load", "read"} /\ exit \notin {2, 3}

ReportInv ==
  /\ begun \in Situations
  /\ next \in Nat \ {0}
  /\ exit = 0 - 1 \/ pc = "end"
  /\ pc \in {"load", "read"} => wrote = {} /\ damaged = {}
  /\ Planned => /\ Shape(report)
                /\ {a.file : a \in SetOf(report.applied)} = wrote
                /\ damaged \subseteq Skipped
  /\ pc = "write" => next \in DOMAIN report.moves /\ Appliable(Mine)

\* An entry that is appended is in the sequence, and nothing else is.
LEMMA AppendAdds ==
  ASSUME NEW s, IsSeq(s), NEW e
  PROVE  IsSeq(Append(s, e)) /\ SetOf(Append(s, e)) = SetOf(s) \cup {e}
<1> DEFINE S == SetOf(s) \cup {e}
<1>1. s \in Seq(S) /\ e \in S
  BY DEF IsSeq, SetOf
<1>2. /\ Append(s, e) \in Seq(S)
      /\ DOMAIN Append(s, e) = 1..(Len(s) + 1)
      /\ DOMAIN s = 1..Len(s) /\ Len(s) \in Nat
      /\ \A i \in 1..Len(s) : Append(s, e)[i] = s[i]
      /\ Append(s, e)[Len(s) + 1] = e
  <2> HIDE DEF S
  <2> QED
    BY <1>1
<1>3. SetOf(Append(s, e)) = S
  <2>1. ASSUME NEW x \in S
        PROVE  x \in SetOf(Append(s, e))
    <3>1. CASE x = e
      BY <1>2, <3>1 DEF SetOf
    <3>2. CASE x \in SetOf(s)
      <4>1. PICK i \in 1..Len(s) : x = s[i]
        BY <1>2, <3>2 DEF SetOf
      <4>2. i \in DOMAIN Append(s, e) /\ Append(s, e)[i] = x
        BY <1>2, <4>1
      <4> QED
        BY <4>2 DEF SetOf
    <3> QED
      BY <2>1, <3>1, <3>2
  <2>2. ASSUME NEW i \in DOMAIN Append(s, e)
        PROVE  Append(s, e)[i] \in S
    <3> HIDE DEF S
    <3> QED
      BY <1>2, <2>2
  <2> QED
    BY <2>1, <2>2 DEF SetOf
<1> QED
  BY <1>2, <1>3 DEF IsSeq

\* The moves of a section are a sequence.
LEMMA SectionIsSeq ==
  ASSUME NEW proposed, IsFiniteSet(DOMAIN proposed), NEW section
  PROVE  IsSeq(InSection(proposed, section))
<1> DEFINE set == {c \in DOMAIN proposed : Section(proposed[c]) = section}
           n   == Cardinality(set)
<1>1. n \in Nat
  BY FS_Subset, FS_CardinalityType
<1>2. DOMAIN InOrder(set) = 1..n
  BY DEF InOrder
<1>3. InSection(proposed, section) = [i \in 1..n |-> proposed[InOrder(set)[i]]]
  BY <1>2 DEF InSection
<1> HIDE DEF n, set
<1>4. \A i \in 1..n : InSection(proposed, section)[i] \in SetOf(InSection(proposed, section))
  BY <1>3 DEF SetOf
<1>5. InSection(proposed, section) \in [1..n -> SetOf(InSection(proposed, section))]
  BY <1>3, <1>4
<1> QED
  BY <1>1, <1>5 DEF IsSeq

\* A plan is a report in which nothing is applied.
LEMMA PlanIsAReport ==
  ASSUME NEW gate, IsFiniteSet(DOMAIN gate), NEW f, NEW t, NEW context, NEW posture, NEW refused
  PROVE  LET r == Plan(gate, f, t, context, posture, refused)
         IN  Shape(r) /\ r.applied = << >>
<1> DEFINE r == Plan(gate, f, t, context, posture, refused)
           hints == [c \in Unsatisfied(gate) |-> ClassifyWithPolicy(f, c, gate[c], posture, c \in refused)]
<1>1. /\ DOMAIN r = {"moves", "escalations", "assignments", "verdicts", "applied", "blockers"}
      /\ r.moves = InSection(DiagnoseWithHints(gate, hints), "own")
      /\ r.applied = << >>
  BY DEF Plan
<1>2. DOMAIN DiagnoseWithHints(gate, hints) = Unsatisfied(gate)
  BY DEF DiagnoseWithHints
<1>3. IsFiniteSet(Unsatisfied(gate))
  BY FS_Subset DEF Unsatisfied
<1>4. IsSeq(r.moves)
  BY <1>1, <1>2, <1>3, SectionIsSeq
<1>5. IsSeq(<< >>)
  BY DEF IsSeq
<1> QED
  BY <1>1, <1>4, <1>5 DEF Shape

\* What a step may do to a report without a word about files: other sections
\* change, and blockers are added.
Grows ==
  /\ Shape(report')
  /\ report'.moves = report.moves /\ report'.applied = report.applied
  /\ report.blockers \subseteq report'.blockers

\* Escalations, verdicts and blockers are apart from the applied edits.
LEMMA SectionsApart ==
  ASSUME Shape(report), NEW e, NEW v, NEW b, report.blockers \subseteq b,
         \/ report' = [report EXCEPT !.escalations = e]
         \/ report' = [report EXCEPT !.blockers = b]
         \/ report' = [report EXCEPT !.escalations = e, !.blockers = b]
         \/ report' = [report EXCEPT !.escalations = e, !.verdicts = v, !.blockers = b]
         \/ UNCHANGED report
  PROVE  Grows
BY DEF Grows, Shape

\* A step that only adds to the report keeps its truth.
LEMMA ReportKept ==
  ASSUME ReportInv, Planned, Grows, UNCHANGED <<begun, wrote, damaged>>,
         next' \in Nat \ {0}, pc' \notin {"load", "read", "write"},
         pc # "end", UNCHANGED exit \/ pc' = "end"
  PROVE  ReportInv'
<1>1. Skipped \subseteq Skipped'
  BY DEF Grows, Skipped
<1>2. /\ Shape(report')
      /\ {a.file : a \in SetOf(report'.applied)} = wrote'
      /\ damaged' \subseteq Skipped'
  BY <1>1 DEF ReportInv, Grows
<1> QED
  BY <1>2 DEF ReportInv, Planned

\* Before there is a plan, nothing is written.
LEMMA ReportBefore ==
  ASSUME ReportInv, LoadFails \/ List \/ ReadFile
  PROVE  ReportInv'
<1>1. /\ pc \in {"load", "read"} /\ UNCHANGED <<begun, wrote, damaged>>
      /\ next' = next \/ next' = 1
      /\ \/ exit' \in {2, 3} /\ pc' = "end"
         \/ UNCHANGED exit /\ pc' = "read"
  BY DEF LoadFails, List, ReadFile, World, Goes
<1>2. exit = 0 - 1
  BY <1>1 DEF ReportInv
<1> QED
  BY <1>1, <1>2 DEF ReportInv, Planned

\* The plan is the first report, and nothing is applied in it.
LEMMA ReportPlanned ==
  ASSUME ReportInv, MakePlan
  PROVE  ReportInv'
<1>1. /\ report' = Plan(begun.gate, facts, tree, begun.context, begun.posture, begun.refused)
      /\ next' = 1 /\ pc' \in {"greens", "apply", "summon"}
      /\ UNCHANGED <<begun, exit, wrote, damaged>>
      /\ pc = "read"
  BY DEF MakePlan, World, Goes, AfterGreens
<1>2. IsFiniteSet(DOMAIN begun.gate)
  BY SituationAssumption DEF ReportInv, Situation
<1>3. Shape(report') /\ report'.applied = << >>
  BY <1>1, <1>2, PlanIsAReport
<1>4. {a.file : a \in SetOf(report'.applied)} = {}
  BY <1>3 DEF SetOf
<1>5. wrote' = {} /\ damaged' = {}
  BY <1>1 DEF ReportInv
<1>6. begun' \in Situations /\ next' \in Nat \ {0} /\ exit' = 0 - 1
      /\ pc' \notin {"load", "read", "write"}
  BY <1>1 DEF ReportInv
<1>7. /\ Shape(report')
      /\ {a.file : a \in SetOf(report'.applied)} = wrote'
      /\ damaged' \subseteq Skipped'
  BY <1>3, <1>4, <1>5
<1> QED
  BY <1>6, <1>7 DEF ReportInv

\* The scan for vacuous greens only adds.
LEMMA ReportGreens ==
  ASSUME ReportInv, InspectGreen \/ GreensEnd
  PROVE  ReportInv'
<1>1. /\ pc = "greens" /\ UNCHANGED <<begun, wrote, damaged, exit>>
      /\ pc' \in {"greens", "apply", "summon"}
      /\ next' \in {next + 1, 1}
  BY DEF InspectGreen, GreensEnd, World, Goes, AfterGreens
<1>2. Planned /\ Shape(report) /\ next' \in Nat \ {0}
  BY <1>1 DEF ReportInv, Planned
<1>3. Grows
  <2>1. CASE \E e : report' = Add("escalations", e)
    <3>1. PICK e : report' = [report EXCEPT !.escalations = Append(report.escalations, e)]
      BY <1>2, <2>1 DEF Add, Shape
    <3> QED
      BY <1>2, <3>1, SectionsApart
  <2>2. CASE UNCHANGED report
    BY <1>2, <2>2, SectionsApart
  <2> QED
    BY <2>1, <2>2 DEF InspectGreen, GreensEnd
<1> QED
  BY <1>1, <1>2, <1>3, ReportKept

\* A move that is passed over or skipped, and the end of the moves.
LEMMA ReportTold ==
  ASSUME ReportInv, PassOver \/ (ReadStrip /\ pc' # "write") \/ ApplyEnds
  PROVE  ReportInv'
<1>1. /\ pc = "apply" /\ UNCHANGED <<begun, wrote, damaged, exit>>
      /\ pc' \in {"apply", "summon"}
      /\ next' \in {next + 1, 1}
  BY DEF PassOver, ReadStrip, ApplyEnds, World, Goes
<1>2. Planned /\ Shape(report) /\ next' \in Nat \ {0}
  BY <1>1 DEF ReportInv, Planned
<1>3. (\E c, what : report' = Tell(c, what)) \/ UNCHANGED report
  BY DEF PassOver, ReadStrip, ApplyEnds
<1>4. CASE \E c, what : report' = Tell(c, what)
  <2>1. PICK c, what : report' = [report EXCEPT !.blockers = report.blockers \cup {Blocker(c, what)}]
    BY <1>2, <1>4 DEF Tell, Shape
  <2>2. Grows
    BY <1>2, <2>1, SectionsApart
  <2> QED
    BY <1>1, <1>2, <2>2, ReportKept
<1>5. CASE UNCHANGED report
  BY <1>1, <1>2, <1>5, SectionsApart, ReportKept
<1> QED
  BY <1>3, <1>4, <1>5

\* A read leads to a write of the same move.
LEMMA ReportRead ==
  ASSUME ReportInv, ReadStrip, pc' = "write"
  PROVE  ReportInv'
<1>1. /\ pc = "apply" /\ next <= Len(report.moves) /\ Appliable(Mine)
      /\ UNCHANGED <<begun, wrote, damaged, exit, report, next>>
  BY DEF ReadStrip, World
<1>2. Planned /\ Shape(report)
  BY <1>1 DEF ReportInv, Planned
<1>3. next \in DOMAIN report.moves
  BY <1>1, <1>2 DEF Shape, IsSeq, ReportInv
<1>4. Mine' = Mine /\ Skipped' = Skipped
  BY <1>1 DEF Mine, Skipped
<1> QED
  BY <1>1, <1>2, <1>3, <1>4 DEF ReportInv, Planned

\* The write and its line in the report go together.
LEMMA ReportWritten ==
  ASSUME ReportInv, WriteStrip
  PROVE  ReportInv'
<1> DEFINE f == Mine.workflow
           entry == [check |-> Mine.check, file |-> f]
<1>1. /\ pc = "write" /\ pc' = "apply" /\ next' = next + 1
      /\ UNCHANGED <<begun, exit>>
  BY DEF WriteStrip
<1>2. /\ Planned /\ Shape(report) /\ next' \in Nat \ {0} /\ exit = 0 - 1
      /\ {a.file : a \in SetOf(report.applied)} = wrote /\ damaged \subseteq Skipped
  BY <1>1 DEF ReportInv, Planned
<1>3. CASE wrote' = wrote \cup {f} /\ UNCHANGED damaged /\ report' = Add("applied", entry)
  <2>1. report' = [report EXCEPT !.applied = Append(report.applied, entry)]
    BY <1>2, <1>3 DEF Add, Shape
  <2>2. IsSeq(Append(report.applied, entry)) /\ SetOf(Append(report.applied, entry)) = SetOf(report.applied) \cup {entry}
    BY <1>2, AppendAdds DEF Shape
  <2>3. Shape(report') /\ report'.moves = report.moves /\ report'.blockers = report.blockers
        /\ SetOf(report'.applied) = SetOf(report.applied) \cup {entry}
    BY <1>2, <2>1, <2>2 DEF Shape
  <2>4. {a.file : a \in SetOf(report'.applied)} = wrote'
    BY <1>2, <1>3, <2>3
  <2>5. Skipped' = Skipped
    BY <2>3 DEF Skipped
  <2> QED
    BY <1>1, <1>2, <1>3, <2>3, <2>4, <2>5 DEF ReportInv, Planned
<1>4. CASE /\ damaged' \in {damaged, damaged \cup {f}} /\ UNCHANGED wrote
           /\ report' = Tell(Mine.check, "skipped")
  <2>1. report' = [report EXCEPT !.blockers = report.blockers \cup {Blocker(Mine.check, "skipped")}]
    BY <1>2, <1>4 DEF Tell, Shape
  <2>2. Grows /\ Blocker(Mine.check, "skipped") \in report'.blockers
    BY <1>2, <2>1, SectionsApart DEF Shape
  <2>3. Mine \in SetOf(report'.moves) /\ Appliable(Mine)
    BY <1>1, <2>2 DEF ReportInv, Grows, Mine, SetOf
  <2>4. f \in Skipped'
    BY <2>2, <2>3 DEF Skipped
  <2>5. Skipped \subseteq Skipped'
    BY <2>2 DEF Grows, Skipped
  <2> HIDE DEF f
  <2>6. Shape(report') /\ {a.file : a \in SetOf(report'.applied)} = wrote'
        /\ damaged' \subseteq Skipped'
    BY <1>2, <1>4, <2>2, <2>4, <2>5 DEF Grows
  <2> QED
    BY <1>1, <1>2, <2>6 DEF ReportInv, Planned
<1> QED
  BY <1>3, <1>4 DEF WriteStrip

\* Summoning leaves the applied moves as they are.
LEMMA ReportSummoned ==
  ASSUME ReportInv, Refuse \/ Health \/ Invoke \/ InvokeEnds \/ PrintReport
  PROVE  ReportInv'
<1>1. /\ pc \in {"summon", "invoke", "print"} /\ UNCHANGED <<begun, wrote, damaged>>
      /\ pc' \in {"invoke", "print", "end"}
      /\ UNCHANGED exit \/ pc' = "end"
      /\ next' \in {next, next + 1, 1}
  BY DEF Refuse, Health, Invoke, InvokeEnds, PrintReport, World, Goes
<1>2. Planned /\ Shape(report) /\ next' \in Nat \ {0}
  BY <1>1 DEF ReportInv, Planned
<1>3. CASE UNCHANGED report
  BY <1>1, <1>2, <1>3, SectionsApart, ReportKept
<1>4. CASE \E e, v, b : /\ report.blockers \subseteq b
                        /\ \/ report' = [report EXCEPT !.blockers = b]
                           \/ report' = [report EXCEPT !.escalations = e, !.blockers = b]
                           \/ report' = [report EXCEPT !.escalations = e, !.verdicts = v, !.blockers = b]
  <2>1. Grows
    BY <1>2, <1>4, SectionsApart
  <2> QED
    BY <1>1, <1>2, <2>1, ReportKept
<1> DEFINE marked(i, mark) == [report.escalations EXCEPT ![i] = [report.escalations[i] EXCEPT !.evidence = Append(report.escalations[i].evidence, mark)]]
<1>5. \A i, mark : Noted(i, mark) = [report EXCEPT !.escalations = marked(i, mark)]
  BY <1>2 DEF Noted, Shape
<1>6. ASSUME NEW i, NEW mark, NEW ok, report' = Heard(i, mark, ok)
      PROVE  \E e, v, b : /\ report.blockers \subseteq b
                          /\ report' = [report EXCEPT !.escalations = e, !.verdicts = v, !.blockers = b]
  <2> DEFINE v == Append(report.verdicts, Verdict(report.escalations[i], ok))
             b == report.blockers \cup {Blocker(report.escalations[i].check, mark)}
             e == marked(i, mark)
  <2>1. report' = [[report EXCEPT !.escalations = e] EXCEPT !.verdicts = v, !.blockers = b]
    BY <1>2, <1>5, <1>6 DEF Heard, Shape
  <2>2. report' = [report EXCEPT !.escalations = e, !.verdicts = v, !.blockers = b]
    <3> HIDE DEF e, v, b
    <3> QED
      BY <1>2, <2>1 DEF Shape
  <2> QED
    BY <2>2
<1>7. CASE Health
  BY <1>2, <1>3, <1>4, <1>7 DEF Health, Tell, NotedAll, Shape
<1>8. CASE Invoke
  <2>1. CASE \E mark, ok : report' = Heard(next, mark, ok)
    BY <1>4, <1>6, <2>1
  <2>2. CASE report' = [Noted(next, "no_path") EXCEPT !.blockers = @ \cup {Blocker(report.escalations[next].check, "no_path")}]
    BY <1>2, <1>4, <1>5, <2>2 DEF Shape
  <2> QED
    BY <1>8, <2>1, <2>2 DEF Invoke
<1> QED
  BY <1>3, <1>7, <1>8 DEF Refuse, InvokeEnds, PrintReport

\* Every step keeps the report true.
LEMMA ReportStep ==
  ASSUME ReportInv, [Next]_vars
  PROVE  ReportInv'
<1>1. CASE UNCHANGED <<begun, pc, next, exit, report, wrote, damaged>>
  BY <1>1 DEF ReportInv, Planned, Mine, Skipped
<1>2. CASE UNCHANGED vars
  BY <1>1, <1>2 DEF vars, process
<1>3. CASE \E f \in File : Edit(f) \/ Unlink(f)
  BY <1>1, <1>3 DEF Edit, Unlink, Meanwhile, process
<1> QED
  BY <1>2, <1>3, ReportBefore, ReportPlanned, ReportGreens, ReportTold, ReportRead,
     ReportWritten, ReportSummoned DEF Next, Process, Finished

\* Whatever the number of files, moves, edits and failures: a printed report
\* lists under `applied` exactly the files that the process wrote in full, and
\* every file that a failed write left in part is one of a move that a blocker
\* calls skipped (fight.rs, apply_moves).
THEOREM ReportsAreTrue == Spec => []ReportIsTheTree
<1>1. Init => ReportInv
  BY DEF Init, ReportInv, Planned
<1>2. ReportInv /\ [Next]_vars => ReportInv'
  BY ReportStep
<1>3. ReportInv => ReportIsTheTree
  BY DEF ReportInv, Planned, ReportIsTheTree, Printed
<1> QED
  BY <1>1, <1>2, <1>3, PTL DEF Spec

-----------------------------------------------------------------------------
(***************************************************************************)
(* The escalations.                                                        *)
(***************************************************************************)
Bears(e, marks) == "evidence" \in DOMAIN e /\ e.evidence = marks

\* No expert was asked yet.
Fresh(r) ==
  /\ IsSeq(r.escalations) /\ r.verdicts = << >>
  /\ \A e \in SetOf(r.escalations) : "evidence" \in DOMAIN e /\ e.evidence = << >>

Marked(r, mark) == {i \in DOMAIN r.escalations : r.escalations[i].evidence = <<mark>>}
Called(r) == Marked(r, "ok") \cup Marked(r, "failed") \cup Marked(r, "no_cartridge")
Good(r)   == {v \in DOMAIN r.verdicts : r.verdicts[v].ok}

\* What came of the first n - 1 escalations is told, the others are as the plan
\* has them, and the verdicts are counted.
ClosedUpTo(r, n, ok) ==
  /\ IsSeq(r.escalations) /\ IsSeq(r.verdicts)
  /\ \A i \in DOMAIN r.escalations : "evidence" \in DOMAIN r.escalations[i]
  /\ \A i \in DOMAIN r.escalations : i >= n => r.escalations[i].evidence = << >>
  /\ {i \in DOMAIN r.escalations : i < n} =
       Called(r) \cup Marked(r, "unreachable") \cup Marked(r, "no_path")
  /\ Marked(r, "ok") = ok
  /\ Len(r.verdicts) = Cardinality(Called(r))
  /\ Cardinality(Good(r)) = Cardinality(ok)

ClosedInv ==
  /\ pc \in {"load", "read", "greens", "apply", "write", "summon"} => answers = {}
  /\ pc \in {"greens", "apply", "write", "summon"} => Fresh(report)
  /\ pc = "invoke" => ClosedUpTo(report, next, answers)
  /\ (pc = "print" \/ Printed) /\ begun.summon =>
       ClosedUpTo(report, Len(report.escalations) + 1, answers)

\* A sequence over a set is one.
LEMMA SeqIsSeq ==
  ASSUME NEW S, NEW s \in Seq(S)
  PROVE  IsSeq(s)
<1>1. PICK n \in Nat : s \in [1..n -> S]
  BY SeqDef
<1>2. s \in [1..n -> SetOf(s)]
  BY <1>1 DEF SetOf
<1> QED
  BY <1>2, SeqDef DEF IsSeq

\* Before a call, nothing is told.
LEMMA FreshIsOpen ==
  ASSUME NEW r, Fresh(r)
  PROVE  ClosedUpTo(r, 1, {})
<1>1. PICK S : r.escalations \in Seq(S)
  BY DEF Fresh, IsSeq
<1>2. DOMAIN r.escalations = 1..Len(r.escalations) /\ Len(r.escalations) \in Nat
  BY <1>1
<1>3. \A i \in DOMAIN r.escalations :
        "evidence" \in DOMAIN r.escalations[i] /\ r.escalations[i].evidence = << >>
  BY DEF Fresh, SetOf
<1>4. \A mark : Marked(r, mark) = {}
  <2>1. \A mark : << >> # <<mark>>
    OBVIOUS
  <2> QED
    BY <1>3, <2>1 DEF Marked
<1>5. {i \in DOMAIN r.escalations : i < 1} = {}
  BY <1>2
<1>6. IsSeq(r.verdicts) /\ Len(r.verdicts) = 0 /\ Good(r) = {}
  BY DEF Fresh, IsSeq, Good
<1>7. Called(r) = {} /\ Cardinality({}) = 0
  BY <1>4, FS_EmptySet DEF Called
<1> QED
  BY <1>3, <1>4, <1>5, <1>6, <1>7 DEF ClosedUpTo, Fresh

\* A plan asks no expert.
LEMMA PlanIsFresh ==
  ASSUME NEW gate, IsFiniteSet(DOMAIN gate), NEW f, NEW t, NEW context, NEW posture, NEW refused
  PROVE  Fresh(Plan(gate, f, t, context, posture, refused))
<1> DEFINE r == Plan(gate, f, t, context, posture, refused)
           hints == [c \in Unsatisfied(gate) |-> ClassifyWithPolicy(f, c, gate[c], posture, c \in refused)]
           experts == InSection(DiagnoseWithHints(gate, hints), "expert")
           told == [i \in DOMAIN experts |-> Escalation(experts[i].check, experts[i].group)]
           found == MissingWellKnown(Unsatisfied(gate), t)
           S == SetOf(told) \cup SetOf(found)
<1>1. r.escalations = told \o found /\ r.verdicts = << >>
  BY DEF Plan
<1>2. IsSeq(experts)
  <2>1. DOMAIN DiagnoseWithHints(gate, hints) = Unsatisfied(gate)
    BY DEF DiagnoseWithHints
  <2>2. IsFiniteSet(Unsatisfied(gate))
    BY FS_Subset DEF Unsatisfied
  <2> QED
    BY <2>1, <2>2, SectionIsSeq
<1>3. told \in Seq(S)
  <2> HIDE DEF experts
  <2>1. \A i \in DOMAIN experts : told[i] \in S
    BY DEF SetOf
  <2> HIDE DEF S
  <2>2. DOMAIN experts = 1..Len(experts) /\ Len(experts) \in Nat
    BY <1>2 DEF IsSeq
  <2> QED
    BY <2>1, <2>2
<1>4. found \in Seq(S)
  <2>1. CASE found = << >>
    BY <2>1
  <2>2. CASE found = <<Escalation(WellKnownGate, "HypatiaFleet")>>
    <3>1. Escalation(WellKnownGate, "HypatiaFleet") \in S
      BY <2>2 DEF SetOf
    <3> QED
      BY <2>2, <3>1
  <2> QED
    BY <2>1, <2>2 DEF MissingWellKnown
<1>5. \A e \in S : "evidence" \in DOMAIN e /\ e.evidence = << >>
  <2>1. \A c, g : "evidence" \in DOMAIN Escalation(c, g) /\ Escalation(c, g).evidence = << >>
    BY DEF Escalation
  <2>2. \A e \in SetOf(told) : \E c, g : e = Escalation(c, g)
    <3> HIDE DEF experts
    <3> QED
      BY DEF SetOf
  <2>3. \A e \in SetOf(found) : \E c, g : e = Escalation(c, g)
    BY DEF SetOf, MissingWellKnown
  <2> HIDE DEF told, found
  <2> QED
    BY <2>1, <2>2, <2>3
<1> HIDE DEF told, found, S
<1>6. told \o found \in Seq(S)
  BY <1>3, <1>4
<1>7. SetOf(told \o found) \subseteq S
  BY <1>6 DEF SetOf
<1>8. IsSeq(told \o found)
  BY <1>6, SeqIsSeq
<1> QED
  BY <1>1, <1>5, <1>7, <1>8 DEF Fresh

\* One more call is told: its mark, and its verdict if it could be made.
LEMMA OneMoreIsTold ==
  ASSUME NEW r, NEW s, NEW n \in DOMAIN r.escalations, NEW told,
         NEW mark \in {"ok", "failed", "no_cartridge", "no_path"},
         ClosedUpTo(r, n, told), IsSeq(s.escalations),
         DOMAIN s.escalations = DOMAIN r.escalations,
         Bears(s.escalations[n], <<mark>>),
         \A i \in DOMAIN r.escalations \ {n} : s.escalations[i] = r.escalations[i],
         mark = "no_path" => s.verdicts = r.verdicts,
         mark # "no_path" => \E v : s.verdicts = Append(r.verdicts, v) /\ (v.ok <=> mark = "ok")
  PROVE  ClosedUpTo(s, n + 1, IF mark = "ok" THEN told \cup {n} ELSE told)
<1> DEFINE D == DOMAIN r.escalations
<1>1. /\ r.escalations \in Seq(SetOf(r.escalations))
      /\ r.verdicts \in Seq(SetOf(r.verdicts))
      /\ r.escalations[n].evidence = << >>
  <2>1. n >= n
    <3>1. r.escalations \in Seq(SetOf(r.escalations))
      BY DEF ClosedUpTo, IsSeq
    <3> QED
      BY <3>1
  <2> QED
    BY <2>1 DEF ClosedUpTo, IsSeq
<1>2. D = 1..Len(r.escalations) /\ Len(r.escalations) \in Nat /\ n \in Nat
  BY <1>1
<1>3. \A x : << >> # <<x>>
  OBVIOUS
<1>4. ASSUME NEW x
      PROVE  /\ Marked(s, x) = Marked(r, x) \cup (IF x = mark THEN {n} ELSE {})
             /\ n \notin Marked(r, x) /\ Marked(r, x) \subseteq D
  <2>1. n \notin Marked(r, x) /\ Marked(r, x) \subseteq D
    BY <1>1, <1>3 DEF Marked
  <2>2. \A i \in D \ {n} : i \in Marked(s, x) <=> i \in Marked(r, x)
    BY DEF Marked
  <2>3. n \in Marked(s, x) <=> x = mark
    <3>1. <<mark>> = <<x>> <=> x = mark
      OBVIOUS
    <3> QED
      BY <3>1 DEF Marked, Bears
  <2>4. Marked(s, x) \subseteq D
    BY DEF Marked
  <2> QED
    BY <2>1, <2>2, <2>3, <2>4
<1>5. IsFiniteSet(D)
  BY <1>2, FS_Interval
<1>6. \A x : IsFiniteSet(Marked(r, x))
  BY <1>4, <1>5, FS_Subset
<1>7. IsFiniteSet(Called(r)) /\ n \notin Called(r)
  <2>1. Called(r) \subseteq D
    BY <1>4 DEF Called
  <2> QED
    BY <1>4, <1>5, <2>1, FS_Subset DEF Called
<1>8. Called(s) = Called(r) \cup (IF mark = "no_path" THEN {} ELSE {n})
  BY <1>4 DEF Called
<1>9. Marked(r, "ok") = told
  BY DEF ClosedUpTo
<1> DEFINE good == IF mark = "ok" THEN told \cup {n} ELSE told
<1>10. Marked(s, "ok") = good
  BY <1>4, <1>9
<1>11. /\ \A i \in DOMAIN s.escalations : "evidence" \in DOMAIN s.escalations[i]
       /\ \A i \in DOMAIN s.escalations : i >= n + 1 => s.escalations[i].evidence = << >>
  <2>1. \A i \in D : i = n \/ s.escalations[i] = r.escalations[i]
    OBVIOUS
  <2>2. \A i \in D : i >= n + 1 => i # n /\ i >= n
    BY <1>2
  <2> QED
    BY <2>1, <2>2 DEF ClosedUpTo, Bears
<1>12. {i \in DOMAIN s.escalations : i < n + 1} =
         Called(s) \cup Marked(s, "unreachable") \cup Marked(s, "no_path")
  <2>1. {i \in D : i < n + 1} = {i \in D : i < n} \cup {n}
    BY <1>2
  <2>2. Called(s) \cup Marked(s, "unreachable") \cup Marked(s, "no_path")
          = Called(r) \cup Marked(r, "unreachable") \cup Marked(r, "no_path") \cup {n}
    BY <1>4, <1>8
  <2> QED
    BY <2>1, <2>2 DEF ClosedUpTo
<1>13. /\ IsSeq(s.verdicts) /\ Len(s.verdicts) = Cardinality(Called(s))
       /\ Cardinality(Good(s)) = Cardinality(good)
  <2>1. Cardinality(Called(r) \cup {n}) = Cardinality(Called(r)) + 1
    BY <1>7, FS_AddElement
  <2>2. Cardinality(told \cup {n}) = Cardinality(told) + 1
    BY <1>4, <1>6, <1>9, FS_AddElement
  <2>3. Len(r.verdicts) = Cardinality(Called(r)) /\ Cardinality(Good(r)) = Cardinality(told)
    BY DEF ClosedUpTo
  <2>4. CASE mark = "no_path"
    <3>1. s.verdicts = r.verdicts /\ Called(s) = Called(r) /\ good = told
      BY <1>8, <2>4
    <3> QED
      BY <1>1, <2>3, <3>1 DEF Good, IsSeq
  <2>5. CASE mark # "no_path"
    <3>1. PICK v : s.verdicts = Append(r.verdicts, v) /\ (v.ok <=> mark = "ok")
      BY <2>5
    <3> DEFINE V == SetOf(r.verdicts) \cup {v}
               m == Len(r.verdicts)
    <3>2. r.verdicts \in Seq(V) /\ v \in V
      BY <1>1
    <3>3. /\ s.verdicts \in Seq(V) /\ m \in Nat /\ DOMAIN r.verdicts = 1..m
          /\ DOMAIN s.verdicts = 1..(m + 1) /\ Len(s.verdicts) = m + 1
          /\ \A i \in 1..m : s.verdicts[i] = r.verdicts[i]
          /\ s.verdicts[m + 1] = v
      <4> HIDE DEF V
      <4> QED
        BY <3>1, <3>2
    <3>4. Good(r) \subseteq 1..m /\ IsFiniteSet(Good(r)) /\ m + 1 \notin Good(r)
      <4>1. Good(r) \subseteq 1..m
        BY <3>3 DEF Good
      <4>2. IsFiniteSet(1..m)
        BY <3>3, FS_Interval
      <4>3. IsFiniteSet(Good(r))
        BY <4>1, <4>2, FS_Subset
      <4>4. m + 1 \notin 1..m
        BY <3>3
      <4> QED
        BY <4>1, <4>3, <4>4
    <3>5. Good(s) = Good(r) \cup (IF mark = "ok" THEN {m + 1} ELSE {})
      <4>1. \A i \in 1..m : i \in Good(s) <=> i \in Good(r)
        BY <3>3 DEF Good
      <4>2. m + 1 \in Good(s) <=> mark = "ok"
        BY <3>1, <3>3 DEF Good
      <4>3. Good(s) \subseteq 1..(m + 1)
        BY <3>3 DEF Good
      <4> QED
        BY <3>3, <3>4, <4>1, <4>2, <4>3
    <3>6. Cardinality(Good(r) \cup {m + 1}) = Cardinality(Good(r)) + 1
      BY <3>4, FS_AddElement
    <3>7. Cardinality(Good(s)) = Cardinality(good)
      BY <2>2, <2>3, <3>5, <3>6
    <3> QED
      BY <1>8, <2>1, <2>3, <2>5, <3>3, <3>7, SeqIsSeq
  <2> QED
    BY <2>4, <2>5
<1> QED
  BY <1>10, <1>11, <1>12, <1>13 DEF ClosedUpTo

\* An unreachable server is told at each escalation.
LEMMA AllAreTold ==
  ASSUME NEW r, NEW s, Fresh(r), IsSeq(s.escalations),
         DOMAIN s.escalations = DOMAIN r.escalations, s.verdicts = r.verdicts,
         \A i \in DOMAIN r.escalations : Bears(s.escalations[i], <<"unreachable">>)
  PROVE  ClosedUpTo(s, Len(s.escalations) + 1, {})
<1>1. r.escalations \in Seq(SetOf(r.escalations))
  BY DEF Fresh, IsSeq
<1>2. DOMAIN r.escalations = 1..Len(r.escalations) /\ Len(r.escalations) \in Nat
  BY <1>1
<1>4. DOMAIN s.escalations = 1..Len(s.escalations) /\ Len(s.escalations) \in Nat
  BY DEF IsSeq
<1>5. \A x : <<"unreachable">> = <<x>> <=> x = "unreachable"
  OBVIOUS
<1>6. \A x : Marked(s, x) = IF x = "unreachable" THEN DOMAIN s.escalations ELSE {}
  BY <1>5 DEF Marked, Bears
<1>7. Called(s) = {}
  BY <1>6 DEF Called
<1>8. IsSeq(s.verdicts) /\ Len(s.verdicts) = 0 /\ Good(s) = {}
  BY DEF Fresh, IsSeq, Good
<1>9. /\ \A i \in DOMAIN s.escalations : ~ (i >= Len(s.escalations) + 1)
      /\ {i \in DOMAIN s.escalations : i < Len(s.escalations) + 1} = DOMAIN s.escalations
  BY <1>4
<1>10. Cardinality({}) = 0
  BY FS_EmptySet
<1>11. \A i \in DOMAIN s.escalations : "evidence" \in DOMAIN s.escalations[i]
  BY DEF Bears
<1>12. {i \in DOMAIN s.escalations : i < Len(s.escalations) + 1} =
         Called(s) \cup Marked(s, "unreachable") \cup Marked(s, "no_path")
  BY <1>6, <1>7, <1>9
<1> QED
  BY <1>6, <1>7, <1>8, <1>9, <1>10, <1>11, <1>12 DEF ClosedUpTo

\* Only the escalations and the verdicts matter.
LEMMA ClosedElsewhere ==
  ASSUME NEW r, NEW s, s.escalations = r.escalations, s.verdicts = r.verdicts
  PROVE  /\ Fresh(r) => Fresh(s)
         /\ \A n, ok : ClosedUpTo(r, n, ok) => ClosedUpTo(s, n, ok)
BY DEF Fresh, ClosedUpTo, Marked, Called, Good

\* The health check closes all escalations or begins with the first.
LEMMA ClosedAtHealth ==
  ASSUME ReportInv, ClosedInv, Health
  PROVE  ClosedInv'
<1>1. /\ pc = "summon" /\ next' = 1 /\ UNCHANGED <<begun, exit, answers>>
      /\ pc' \in {"print", "invoke"} /\ answers = {} /\ Fresh(report)
      /\ exit = 0 - 1 /\ Shape(report)
  BY DEF Health, World, Goes, ClosedInv, ReportInv, Planned
<1>2. report.escalations \in Seq(SetOf(report.escalations))
  BY <1>1 DEF Fresh, IsSeq
<1>3. ASSUME report.escalations = << >>, report' = Tell(0, "nothing_to_summon_for"), pc' = "print"
      PROVE  ClosedInv'
  <2>1. report'.escalations = report.escalations /\ report'.verdicts = report.verdicts
    BY <1>1, <1>3 DEF Tell, Shape
  <2>2. Len(report'.escalations) + 1 = 1
    BY <1>3, <2>1
  <2>3. ClosedUpTo(report', 1, {})
    BY <1>1, <2>1, FreshIsOpen, ClosedElsewhere
  <2> QED
    BY <1>1, <1>3, <2>2, <2>3 DEF ClosedInv, Printed
<1>4. ASSUME report' = NotedAll("unreachable"), pc' = "print"
      PROVE  ClosedInv'
  <2> DEFINE Told(e) == [e EXCEPT !.evidence = Append(e.evidence, "unreachable")]
  <2>1. /\ report'.escalations = [i \in DOMAIN report.escalations |-> Told(report.escalations[i])]
        /\ report'.verdicts = report.verdicts
    BY <1>1, <1>4 DEF NotedAll, Shape
  <2>2. \A e : Bears(e, << >>) => Bears(Told(e), <<"unreachable">>)
    BY DEF Bears
  <2>3. \A i \in DOMAIN report.escalations : Bears(report.escalations[i], << >>)
    BY <1>1 DEF Fresh, Bears, SetOf
  <2> HIDE DEF Told
  <2>5. /\ DOMAIN report'.escalations = DOMAIN report.escalations
        /\ \A i \in DOMAIN report.escalations : Bears(report'.escalations[i], <<"unreachable">>)
    BY <2>1, <2>2, <2>3
  <2>6. IsSeq(report'.escalations)
    <3>1. report'.escalations \in [1..Len(report.escalations) -> SetOf(report'.escalations)]
      BY <1>2, <2>1 DEF SetOf
    <3>2. Len(report.escalations) \in Nat
      BY <1>2
    <3> QED
      BY <3>1, <3>2, SeqDef DEF IsSeq
  <2>4. ClosedUpTo(report', Len(report'.escalations) + 1, {})
    BY <1>1, <2>1, <2>5, <2>6, AllAreTold
  <2> QED
    BY <1>1, <1>4, <2>4 DEF ClosedInv, Printed
<1>5. ASSUME UNCHANGED report, pc' = "invoke"
      PROVE  ClosedInv'
  <2>1. ClosedUpTo(report, 1, {})
    BY <1>1, FreshIsOpen
  <2> QED
    BY <1>1, <1>5, <2>1 DEF ClosedInv, Printed
<1> QED
  BY <1>3, <1>4, <1>5 DEF Health, Goes

\* A call closes the escalation at hand and no other.
LEMMA ClosedByCall ==
  ASSUME ReportInv, ClosedInv, Invoke
  PROVE  ClosedInv'
<1> DEFINE n == next
           e == report.escalations[next]
           Told(mark) == [e EXCEPT !.evidence = Append(e.evidence, mark)]
           es(mark) == [report.escalations EXCEPT ![next] = Told(mark)]
<1>1. /\ pc = "invoke" /\ pc' = "invoke" /\ next' = next + 1 /\ UNCHANGED exit
      /\ ClosedUpTo(report, next, answers) /\ next \in Nat \ {0} /\ Shape(report)
      /\ exit = 0 - 1 /\ next <= Len(report.escalations)
  BY DEF Invoke, World, ClosedInv, ReportInv, Planned
<1>2. report.escalations \in Seq(SetOf(report.escalations))
  BY <1>1 DEF ClosedUpTo, IsSeq
<1>3. /\ next \in DOMAIN report.escalations
      /\ DOMAIN report.escalations = 1..Len(report.escalations) /\ Len(report.escalations) \in Nat
  BY <1>1, <1>2
<1>4. Bears(e, << >>)
  <2>1. next >= next
    BY <1>1
  <2> QED
    BY <1>1, <1>3, <2>1 DEF ClosedUpTo, Bears
<1>5. \A mark : Bears(Told(mark), <<mark>>)
  BY <1>4 DEF Bears
<1>6. \A mark : Noted(next, mark) = [report EXCEPT !.escalations = es(mark)]
  BY <1>1 DEF Noted, Shape
<1> HIDE DEF Told
<1>7. ASSUME NEW mark
      PROVE  /\ DOMAIN es(mark) = DOMAIN report.escalations
             /\ es(mark)[next] = Told(mark) /\ IsSeq(es(mark))
             /\ \A i \in DOMAIN report.escalations \ {next} : es(mark)[i] = report.escalations[i]
  <2>1. /\ DOMAIN es(mark) = DOMAIN report.escalations
        /\ es(mark)[next] = Told(mark)
        /\ \A i \in DOMAIN report.escalations \ {next} : es(mark)[i] = report.escalations[i]
    BY <1>3
  <2>2. es(mark) \in Seq(SetOf(report.escalations) \cup {Told(mark)})
    BY <1>2, <1>3
  <2> QED
    BY <2>1, <2>2, SeqIsSeq
<1>8. ASSUME NEW mark \in {"ok", "failed", "no_cartridge"}, NEW good,
             report' = Heard(next, mark, good), good <=> mark = "ok",
             answers' = IF mark = "ok" THEN answers \cup {next} ELSE answers
      PROVE  ClosedInv'
  <2> DEFINE v == Verdict(e, good)
             b == report.blockers \cup {Blocker(e.check, mark)}
  <2>1. report' = [[report EXCEPT !.escalations = es(mark)] EXCEPT
                     !.verdicts = Append(report.verdicts, v), !.blockers = b]
    <3> HIDE DEF es
    <3>1. Noted(next, mark) = [report EXCEPT !.escalations = es(mark)]
      BY <1>6
    <3>2. Noted(next, mark).verdicts = report.verdicts /\ Noted(next, mark).blockers = report.blockers
      BY <1>1, <3>1 DEF Shape
    <3>3. report' = [Noted(next, mark) EXCEPT !.verdicts = Append(Noted(next, mark).verdicts, v),
                                             !.blockers = Noted(next, mark).blockers \cup {Blocker(e.check, mark)}]
      BY <1>8 DEF Heard
    <3> QED
      BY <3>1, <3>2, <3>3
  <2>2. v.ok <=> mark = "ok"
    BY <1>8 DEF Verdict
  <2> HIDE DEF es, v, b
  <2>3. report'.escalations = es(mark) /\ report'.verdicts = Append(report.verdicts, v)
    BY <1>1, <2>1 DEF Shape
  <2>4. ClosedUpTo(report', next + 1, IF mark = "ok" THEN answers \cup {next} ELSE answers)
    BY <1>1, <1>3, <1>5, <1>7, <2>2, <2>3, OneMoreIsTold
  <2> QED
    BY <1>1, <1>8, <2>4 DEF ClosedInv, Printed
<1>9. ASSUME report' = [Noted(next, "no_path") EXCEPT !.blockers = @ \cup {Blocker(e.check, "no_path")}],
             UNCHANGED answers
      PROVE  ClosedInv'
  <2>1. /\ report'.escalations = es("no_path") /\ report'.verdicts = report.verdicts
    <3> HIDE DEF es
    <3> QED
      BY <1>1, <1>6, <1>9 DEF Shape
  <2> HIDE DEF es
  <2>2. ClosedUpTo(report', next + 1, answers)
    BY <1>1, <1>3, <1>5, <1>7, <2>1, OneMoreIsTold
  <2> QED
    BY <1>1, <1>9, <2>2 DEF ClosedInv, Printed
<1> QED
  BY <1>8, <1>9 DEF Invoke

\* Before the experts: a green more, a blocker or an applied move more.
LEMMA ClosedBeforeExperts ==
  ASSUME ReportInv, ClosedInv,
         MakePlan \/ InspectGreen \/ GreensEnd \/ PassOver \/ ReadStrip \/ WriteStrip \/ ApplyEnds
  PROVE  ClosedInv'
<1>1. /\ pc \in {"read", "greens", "apply", "write"} /\ UNCHANGED <<exit, answers>>
      /\ pc' \in {"greens", "apply", "write", "summon"}
  <2>1. CASE MakePlan \/ InspectGreen \/ GreensEnd
    BY <2>1 DEF MakePlan, InspectGreen, GreensEnd, Goes, AfterGreens
  <2>2. CASE PassOver \/ ReadStrip \/ WriteStrip \/ ApplyEnds
    BY <2>2 DEF PassOver, ReadStrip, WriteStrip, ApplyEnds, Goes
  <2> QED
    BY <2>1, <2>2
<1>2. exit = 0 - 1 /\ answers = {} /\ (pc # "read" => Fresh(report) /\ Shape(report))
  BY <1>1 DEF ReportInv, ClosedInv, Planned
<1>3. SUFFICES Fresh(report')
  BY <1>1, <1>2 DEF ClosedInv, Printed
<1>4. CASE MakePlan
  <2>1. IsFiniteSet(DOMAIN begun.gate)
    BY SituationAssumption DEF ReportInv, Situation
  <2> QED
    BY <1>4, <2>1, PlanIsFresh DEF MakePlan
<1>5. CASE report'.escalations = report.escalations /\ report'.verdicts = report.verdicts /\ pc # "read"
  BY <1>2, <1>5, ClosedElsewhere
<1>6. CASE InspectGreen
  <2>1. pc # "read"
    BY <1>6 DEF InspectGreen
  <2>2. CASE \E c : report' = Add("escalations", Escalation(c, "GateTriage"))
    <3>1. PICK c : report' = Add("escalations", Escalation(c, "GateTriage"))
      BY <2>2
    <3> DEFINE e == Escalation(c, "GateTriage")
    <3>2. /\ report'.escalations = Append(report.escalations, e)
          /\ report'.verdicts = report.verdicts
      BY <1>2, <2>1, <3>1 DEF Add, Shape
    <3>3. "evidence" \in DOMAIN e /\ e.evidence = << >>
      BY DEF Escalation
    <3>4. IsSeq(report'.escalations) /\ SetOf(report'.escalations) = SetOf(report.escalations) \cup {e}
      BY <1>2, <2>1, <3>2, AppendAdds DEF Fresh
    <3> HIDE DEF e
    <3> QED
      BY <1>2, <2>1, <3>2, <3>3, <3>4 DEF Fresh
  <2>3. CASE UNCHANGED report
    BY <1>5, <2>1, <2>3
  <2> QED
    BY <1>6, <2>2, <2>3 DEF InspectGreen
<1>7. CASE GreensEnd \/ PassOver \/ ReadStrip \/ ApplyEnds
  <2>1. pc # "read"
    BY <1>7 DEF GreensEnd, PassOver, ReadStrip, ApplyEnds
  <2>2. (\E c, what : report' = Tell(c, what)) \/ UNCHANGED report
    BY <1>7 DEF GreensEnd, PassOver, ReadStrip, ApplyEnds
  <2>3. report'.escalations = report.escalations /\ report'.verdicts = report.verdicts
    BY <1>2, <2>1, <2>2 DEF Tell, Shape
  <2> QED
    BY <1>5, <2>1, <2>3
<1>8. CASE WriteStrip
  <2>1. pc # "read"
    BY <1>8 DEF WriteStrip
  <2>2. (\E c, what : report' = Tell(c, what)) \/ (\E e : report' = Add("applied", e))
    BY <1>8 DEF WriteStrip
  <2>3. report'.escalations = report.escalations /\ report'.verdicts = report.verdicts
    BY <1>2, <2>1, <2>2 DEF Tell, Add, Shape
  <2> QED
    BY <1>5, <2>1, <2>3
<1> QED
  BY <1>4, <1>6, <1>7, <1>8

\* What follows the calls leaves the marks alone.
LEMMA ClosedAfterExperts ==
  ASSUME ReportInv, ClosedInv, Refuse \/ InvokeEnds \/ PrintReport
  PROVE  ClosedInv'
<1>1. UNCHANGED <<begun, report, answers>> /\ pc' \in {"print", "end"}
  BY DEF Refuse, InvokeEnds, PrintReport, World, Goes
<1>2. CASE Refuse
  BY <1>1, <1>2 DEF Refuse, ClosedInv, Printed
<1>3. CASE InvokeEnds
  <2>1. ClosedUpTo(report, next, answers) /\ next > Len(report.escalations) /\ next \in Nat
    BY <1>3 DEF InvokeEnds, ClosedInv, ReportInv
  <2>2. report.escalations \in Seq(SetOf(report.escalations))
    BY <2>1 DEF ClosedUpTo, IsSeq
  <2>3. DOMAIN report.escalations = 1..Len(report.escalations) /\ Len(report.escalations) \in Nat
    BY <2>2
  <2>4. \A i \in DOMAIN report.escalations :
          i < next /\ i < Len(report.escalations) + 1 /\ ~ (i >= Len(report.escalations) + 1)
    BY <2>1, <2>3
  <2>5. {i \in DOMAIN report.escalations : i < next}
          = {i \in DOMAIN report.escalations : i < Len(report.escalations) + 1}
    BY <2>4
  <2>6. ClosedUpTo(report, Len(report.escalations) + 1, answers)
    BY <2>1, <2>4, <2>5 DEF ClosedUpTo
  <2> QED
    BY <1>1, <1>3, <2>6 DEF InvokeEnds, Goes, ClosedInv
<1>4. CASE PrintReport
  <2>1. pc' = "end" /\ (pc = "print" \/ ~begun.summon)
    BY <1>4 DEF PrintReport
  <2> QED
    BY <1>1, <2>1 DEF ClosedInv
<1> QED
  BY <1>2, <1>3, <1>4

\* Every step keeps the account of marks.
LEMMA ClosedStep ==
  ASSUME ReportInv, ClosedInv, [Next]_vars
  PROVE  ClosedInv'
<1>1. CASE UNCHANGED <<begun, pc, next, exit, report, answers>>
  BY <1>1 DEF ClosedInv, Printed
<1>2. CASE UNCHANGED vars
  BY <1>1, <1>2 DEF vars, process
<1>3. CASE \E f \in File : Edit(f) \/ Unlink(f)
  BY <1>1, <1>3 DEF Edit, Unlink, Meanwhile, process
<1>4. CASE LoadFails \/ List \/ ReadFile
  <2>1. /\ pc \in {"load", "read"} /\ pc' \in {"read", "end"} /\ UNCHANGED answers
        /\ exit' \in {2, 3} \/ UNCHANGED exit
    BY <1>4 DEF LoadFails, List, ReadFile, World, Goes
  <2>2. exit = 0 - 1
    BY <2>1 DEF ReportInv
  <2> QED
    BY <2>1, <2>2 DEF ClosedInv, Printed
<1> QED
  BY <1>2, <1>3, <1>4, ClosedBeforeExperts, ClosedAtHealth, ClosedByCall, ClosedAfterExperts
     DEF Next, Process, Finished

\* Whatever the number of escalations and failures: if experts were asked, each
\* escalation of a printed report carries one mark, has a verdict unless no call
\* could be made, and is answered only if an expert answered (boj.rs, summon).
THEOREM EveryEscalationIsClosedAlways == Spec => []EveryEscalationIsClosed
<1>1. Init => ReportInv /\ ClosedInv
  BY DEF Init, ReportInv, Planned, ClosedInv, Printed
<1>2. ReportInv /\ ClosedInv /\ [Next]_vars => (ReportInv /\ ClosedInv)'
  BY ReportStep, ClosedStep
<1>3. ReportInv /\ ClosedInv => EveryEscalationIsClosed
  <2> SUFFICES ASSUME ClosedInv, Printed, begun.summon
               PROVE  EveryEscalationIsClosed
    BY DEF EveryEscalationIsClosed
  <2>1. ClosedUpTo(report, Len(report.escalations) + 1, answers)
    BY DEF ClosedInv
  <2>2. report.escalations \in Seq(SetOf(report.escalations))
    BY <2>1 DEF ClosedUpTo, IsSeq
  <2>3. {i \in DOMAIN report.escalations : i < Len(report.escalations) + 1} = DOMAIN report.escalations
    BY <2>2
  <2> QED
    BY <2>1, <2>3 DEF ClosedUpTo, EveryEscalationIsClosed, Marked, Called, Good
<1> QED
  BY <1>1, <1>2, <1>3, PTL DEF Spec

-----------------------------------------------------------------------------
(***************************************************************************)
(* The checks.                                                             *)
(***************************************************************************)
\* A concatenation lists what its parts list.
LEMMA ConcatAdds ==
  ASSUME NEW a, IsSeq(a), NEW b, IsSeq(b)
  PROVE  IsSeq(a \o b) /\ SetOf(a \o b) = SetOf(a) \cup SetOf(b)
<1> DEFINE S == SetOf(a) \cup SetOf(b)
<1>1. a \in Seq(S) /\ b \in Seq(S)
  BY DEF IsSeq
<1>2. /\ a \o b \in Seq(S) /\ Len(a) \in Nat /\ Len(b) \in Nat
      /\ DOMAIN a = 1..Len(a) /\ DOMAIN b = 1..Len(b)
      /\ DOMAIN (a \o b) = 1..(Len(a) + Len(b))
      /\ \A i \in 1..Len(a) : (a \o b)[i] = a[i]
      /\ \A i \in 1..Len(b) : (a \o b)[Len(a) + i] = b[i]
  <2> HIDE DEF S
  <2> QED
    BY <1>1
<1>3. ASSUME NEW x \in S
      PROVE  x \in SetOf(a \o b)
  <2>1. CASE x \in SetOf(a)
    <3>1. PICK i \in 1..Len(a) : x = a[i]
      BY <1>2, <2>1 DEF SetOf
    <3>2. i \in DOMAIN (a \o b) /\ (a \o b)[i] = x
      BY <1>2, <3>1
    <3> QED
      BY <3>2 DEF SetOf
  <2>2. CASE x \in SetOf(b)
    <3>1. PICK i \in 1..Len(b) : x = b[i]
      BY <1>2, <2>2 DEF SetOf
    <3>2. Len(a) + i \in DOMAIN (a \o b) /\ (a \o b)[Len(a) + i] = x
      BY <1>2, <3>1
    <3> QED
      BY <3>2 DEF SetOf
  <2> QED
    BY <1>3, <2>1, <2>2
<1>4. ASSUME NEW i \in DOMAIN (a \o b)
      PROVE  (a \o b)[i] \in S
  <2> HIDE DEF S
  <2> QED
    BY <1>2, <1>4
<1>5. SetOf(a \o b) = S
  BY <1>3, <1>4 DEF SetOf
<1> QED
  BY <1>2, <1>5, SeqIsSeq

\* The empty sequence and one of one entry.
LEMMA ShortSeqs ==
  /\ IsSeq(<< >>) /\ SetOf(<< >>) = {}
  /\ \A x : IsSeq(<<x>>) /\ SetOf(<<x>>) = {x}
<1>1. IsSeq(<< >>) /\ SetOf(<< >>) = {}
  BY DEF IsSeq, SetOf
<1>2. ASSUME NEW x
      PROVE  IsSeq(<<x>>) /\ SetOf(<<x>>) = {x}
  <2>1. SetOf(<<x>>) = {x}
    BY DEF SetOf
  <2> QED
    BY <2>1 DEF IsSeq
<1> QED
  BY <1>1, <1>2

\* Of a finite set of numbers, InOrder lists each once: no two have the same
\* number of smaller ones, and there are as many such numbers as members.
LEMMA InOrderListsAll ==
  ASSUME NEW S \in SUBSET Nat, IsFiniteSet(S)
  PROVE  /\ Cardinality(S) \in Nat
         /\ InOrder(S) \in [1..Cardinality(S) -> S]
         /\ \A x \in S : \E i \in 1..Cardinality(S) : InOrder(S)[i] = x
<1> DEFINE n == Cardinality(S)
           below(x) == {y \in S : y < x}
           rank == [x \in S |-> Cardinality(below(x)) + 1]
<1>1. n \in Nat
  BY FS_CardinalityType
<1>2. \A x \in S : IsFiniteSet(below(x)) /\ Cardinality(below(x)) \in Nat
  BY FS_Subset, FS_CardinalityType
<1>3. ASSUME NEW x \in S
      PROVE  Cardinality(below(x)) < n
  <2>1. /\ IsFiniteSet(S \ {x}) /\ Cardinality(S \ {x}) = n - 1
    BY FS_RemoveElement
  <2>2. below(x) \subseteq S \ {x}
    OBVIOUS
  <2>3. Cardinality(below(x)) <= n - 1
    BY <2>1, <2>2, FS_Subset
  <2> HIDE DEF n, below
  <2> QED
    BY <1>1, <1>2, <2>3
<1>4. ASSUME NEW x \in S, NEW y \in S, x < y
      PROVE  Cardinality(below(x)) < Cardinality(below(y))
  <2>1. below(x) \subseteq below(y) /\ x \in below(y) /\ x \notin below(x)
    <3>1. x \in Nat /\ y \in Nat /\ \A z \in S : z \in Nat
      OBVIOUS
    <3>2. \A z \in S : z < x => z < y
      BY <1>4, <3>1
    <3>3. ~ (x < x)
      BY <3>1
    <3>4. \A u \in S, v \in S : u \in below(v) <=> u < v
      OBVIOUS
    <3>5. below(x) \subseteq S
      OBVIOUS
    <3> HIDE DEF below
    <3> QED
      BY <1>4, <3>2, <3>3, <3>4, <3>5
  <2> HIDE DEF below
  <2>2. Cardinality(below(x) \cup {x}) = Cardinality(below(x)) + 1
    BY <1>2, <2>1, FS_AddElement
  <2>3. below(x) \cup {x} \subseteq below(y)
    BY <2>1
  <2>4. Cardinality(below(x) \cup {x}) <= Cardinality(below(y))
    BY <1>2, <2>3, FS_Subset
  <2> QED
    BY <1>2, <2>2, <2>4
<1> HIDE DEF n, below
<1>5. rank \in Injection(S, 1..n)
  <2>1. rank \in [S -> 1..n]
    BY <1>1, <1>2, <1>3
  <2>2. ASSUME NEW x \in S, NEW y \in S, x # y
        PROVE  rank[x] # rank[y]
    <3>1. x < y \/ y < x
      BY <2>2
    <3>2. Cardinality(below(x)) # Cardinality(below(y))
      BY <1>2, <1>4, <3>1
    <3> QED
      BY <1>2, <3>2
  <2> QED
    BY <2>1, <2>2 DEF Injection, IsInjective
<1>6. rank \in Surjection(S, 1..n)
  <2>1. IsFiniteSet(1..n) /\ Cardinality(1..n) = n
    BY <1>1, FS_Interval
  <2>2. Cardinality(S) = Cardinality(1..n)
    BY <2>1 DEF n
  <2> QED
    BY <1>5, <2>1, <2>2, FS_Injection
<1>7. \A i \in 1..n : \E x \in S : Cardinality(below(x)) = i - 1
  <2>1. ASSUME NEW i \in 1..n
        PROVE  \E x \in S : Cardinality(below(x)) = i - 1
    <3>1. PICK x \in S : rank[x] = i
      BY <1>6 DEF Surjection
    <3>2. Cardinality(below(x)) + 1 = i
      BY <3>1
    <3> QED
      BY <1>2, <3>2
  <2> QED
    BY <2>1
<1>8. InOrder(S) = [i \in 1..n |-> CHOOSE x \in S : Cardinality(below(x)) = i - 1]
  BY DEF InOrder, n, below
<1>9. ASSUME NEW i \in 1..n
      PROVE  InOrder(S)[i] \in S /\ Cardinality(below(InOrder(S)[i])) = i - 1
  <2>1. InOrder(S)[i] = CHOOSE x \in S : Cardinality(below(x)) = i - 1
    BY <1>8
  <2> QED
    BY <1>7, <2>1
<1>10. ASSUME NEW x \in S
       PROVE  \E i \in 1..n : InOrder(S)[i] = x
  <2>1. PICK i \in 1..n : i = rank[x]
    BY <1>5 DEF Injection
  <2>2. i - 1 = Cardinality(below(x))
    BY <1>2, <2>1
  <2>3. InOrder(S)[i] \in S /\ Cardinality(below(InOrder(S)[i])) = Cardinality(below(x))
    BY <1>9, <2>2
  <2>4. rank[InOrder(S)[i]] = rank[x]
    BY <2>3
  <2>5. InOrder(S)[i] = x
    BY <1>5, <2>3, <2>4 DEF Injection, IsInjective
  <2> QED
    BY <2>5
<1>11. InOrder(S) \in [1..n -> S]
  <2>1. \A i \in 1..n : InOrder(S)[i] \in S
    BY <1>9
  <2>2. DOMAIN InOrder(S) = 1..n /\ InOrder(S) = [i \in 1..n |-> InOrder(S)[i]]
    BY <1>8
  <2> QED
    BY <2>1, <2>2
<1> QED
  BY <1>1, <1>10, <1>11 DEF n

InLane(proposed, section) == {c \in DOMAIN proposed : Section(proposed[c]) = section}

\* A section of the plan lists the moves of its lane, each once.
LEMMA SectionListsLane ==
  ASSUME NEW proposed, IsFiniteSet(DOMAIN proposed), DOMAIN proposed \subseteq Nat, NEW section
  PROVE  /\ IsSeq(InSection(proposed, section))
         /\ Len(InSection(proposed, section)) = Cardinality(InLane(proposed, section))
         /\ SetOf(InSection(proposed, section)) = {proposed[c] : c \in InLane(proposed, section)}
<1> DEFINE set == InLane(proposed, section)
           n   == Cardinality(set)
           lane == InSection(proposed, section)
<1>1. IsFiniteSet(set) /\ set \in SUBSET Nat
  BY FS_Subset DEF InLane
<1>2. /\ n \in Nat /\ InOrder(set) \in [1..n -> set]
      /\ \A x \in set : \E i \in 1..n : InOrder(set)[i] = x
  <2> HIDE DEF set
  <2> QED
    BY <1>1, InOrderListsAll
<1>3. lane = [i \in 1..n |-> proposed[InOrder(set)[i]]]
  <2>1. DOMAIN InOrder(set) = 1..n
    BY <1>2
  <2> QED
    BY <2>1 DEF InSection, InLane
<1> HIDE DEF n, set, lane
<1>4. DOMAIN lane = 1..n /\ \A i \in 1..n : lane[i] = proposed[InOrder(set)[i]]
  BY <1>3
<1>5. SetOf(lane) = {proposed[c] : c \in set}
  <2>1. ASSUME NEW i \in DOMAIN lane
        PROVE  lane[i] \in {proposed[c] : c \in set}
    BY <1>2, <1>4
  <2>2. ASSUME NEW c \in set
        PROVE  proposed[c] \in SetOf(lane)
    <3>1. PICK i \in 1..n : InOrder(set)[i] = c
      BY <1>2
    <3> QED
      BY <1>4, <3>1 DEF SetOf
  <2> QED
    BY <2>1, <2>2 DEF SetOf
<1>6. lane \in [1..n -> SetOf(lane)]
  BY <1>3, <1>4 DEF SetOf
<1>7. lane \in Seq(SetOf(lane))
  BY <1>2, <1>6, SeqDef
<1>8. Len(lane) = n
  BY <1>2, <1>4, <1>7
<1> QED
  BY <1>5, <1>7, <1>8 DEF IsSeq, n, set, lane

\* The moves that a plan starts from.
Proposal(gate, f, posture, refused) ==
  DiagnoseWithHints(gate, [c \in Unsatisfied(gate) |->
                             ClassifyWithPolicy(f, c, gate[c], posture, c \in refused)])

HandOff == {"EscalateToExpert", "AssignGateOwner"}

\* A hand-off names the check it is for.
LEMMA HandOffNamesItsCheck ==
  ASSUME NEW gate, NEW f, NEW posture, NEW refused, NEW c \in Unsatisfied(gate)
  PROVE  LET m == Proposal(gate, f, posture, refused)[c]
         IN  m.move \in HandOff => m.check = c
<1> DEFINE hint == ClassifyWithPolicy(f, c, gate[c], posture, c \in refused)
           m == Proposal(gate, f, posture, refused)[c]
<1>1. m = IF hint # NoMove THEN hint ELSE ProposeFor(c)
  BY DEF Proposal, DiagnoseWithHints
<1>2. ProposeFor(c).move \notin HandOff
  BY DEF ProposeFor, GroundTruth, HandOff
<1>3. \A p, file, w : PolicyMove(p, file, w).move \notin HandOff
  BY DEF PolicyMove, HandOff, NoMove
<1>4. ASSUME NEW run, NEW file, NEW w
      PROVE  WorkflowMove(c, run, file, w).move \in HandOff => WorkflowMove(c, run, file, w).check = c
  BY DEF WorkflowMove, HandOff, NonFunctional, AssignUpstream, Inject, GroundTruth, NoMove, Escalate
<1>5. hint.move \in HandOff => hint.check = c
  <2> DEFINE file == FindEmitting(f, c)
             policy == IF c \in refused /\ posture # NoPosture
                         THEN PolicyMove(posture, file, f[file]) ELSE NoMove
  <2>1. \/ hint = NoMove
        \/ hint = policy
        \/ hint = WorkflowMove(c, gate[c], file, f[file])
    BY DEF ClassifyWithPolicy
  <2>2. NoMove.move \notin HandOff
    BY DEF NoMove, HandOff
  <2>3. policy.move \notin HandOff
    BY <1>3, <2>2
  <2> HIDE DEF hint, policy
  <2> QED
    BY <1>4, <2>1, <2>2, <2>3
<1> HIDE DEF hint
<1> QED
  BY <1>1, <1>2, <1>5

Lanes == {"own", "expert", "owner"}

\* Every move has a lane, and two lanes one kind of move each.
LEMMA SectionsAreLanes ==
  ASSUME NEW m
  PROVE  /\ Section(m) \in Lanes
         /\ Section(m) = "expert" <=> m.move = "EscalateToExpert"
         /\ Section(m) = "owner" <=> m.move = "AssignGateOwner"
BY DEF Section, Lanes

Answers(r, c) == {s \in Lanes : Blocker(c, s) \in r.blockers}
Hands(r)      == {<<e.check, e.group>> : e \in SetOf(r.escalations)}
HandedUp(r, c) == \E a \in SetOf(r.assignments) : a.check = c /\ a.why = "OwnedUpstream"
Own(r) ==
  \A m \in SetOf(r.moves), a \in SetOf(r.assignments) :
    Appliable(m) /\ a.why = "PathTrap" => m.workflow \notin a.subject

\* ChecksAreAnswered, of a report that may still grow, but for the greens that
\* were not inspected.
Answered(r, gate) ==
  /\ IsSeq(r.escalations)
  /\ \A e \in SetOf(r.escalations) : {"check", "group"} \subseteq DOMAIN e
  /\ \A c \in Unsatisfied(gate) :
       /\ Cardinality(Answers(r, c)) = 1
       /\ "expert" \in Answers(r, c) <=> \E g : <<c, g>> \in Hands(r)
       /\ "owner" \in Answers(r, c) <=> HandedUp(r, c)
  /\ \A c \in DOMAIN gate \ Unsatisfied(gate) :
       /\ \A g : <<c, g>> \in Hands(r) => g = "GateTriage"
       /\ Answers(r, c) = {} /\ ~HandedUp(r, c)
  /\ Len(r.moves) = Cardinality({c \in Unsatisfied(gate) : Answers(r, c) = {"own"}})
  /\ Own(r)

\* A function on an initial segment of the naturals is a sequence.
LEMMA SeqByIndex ==
  ASSUME NEW n \in Nat, NEW t, t = [i \in 1..n |-> t[i]]
  PROVE  IsSeq(t)
<1>1. t \in [1..n -> SetOf(t)]
  BY DEF SetOf
<1> QED
  BY <1>1, SeqDef DEF IsSeq

\* The assignments of the scan are no answers to a check, and a filter that is
\* assigned is not stripped.
LEMMA ScanAssigns ==
  ASSUME NEW f, IsFiniteSet(DOMAIN f), DOMAIN f \subseteq Nat, NEW won, NEW owner, NEW t, NEW posture
  PROVE  LET s == TrapAssignments(f, won, owner) \o Licences(t) \o LatentPolicy(f, posture)
         IN  /\ IsSeq(TrapAssignments(f, won, owner)) /\ IsSeq(Licences(t)) /\ IsSeq(LatentPolicy(f, posture))
             /\ \A a \in SetOf(s) :
                  /\ a.why # "OwnedUpstream"
                  /\ a.why = "PathTrap" => \E g : a.subject = {g} /\ g \notin won
<1> DEFINE traps == InOrder(PathTraps(f, won))
           A == TrapAssignments(f, won, owner)
           B == Licences(t)
           C == LatentPolicy(f, posture)
<1>1. /\ IsSeq(A)
      /\ \A a \in SetOf(A) : a.why = "PathTrap" /\ \E g : a.subject = {g} /\ g \notin won
  <2>1. PathTraps(f, won) \subseteq DOMAIN f \ won
    BY DEF PathTraps
  <2>2. IsFiniteSet(PathTraps(f, won)) /\ PathTraps(f, won) \in SUBSET Nat
    BY <2>1, FS_Subset
  <2> DEFINE n == Cardinality(PathTraps(f, won))
  <2>3. n \in Nat /\ traps \in [1..n -> PathTraps(f, won)]
    BY <2>2, InOrderListsAll
  <2>4. A = [i \in 1..n |-> Assignment(TitleOf(traps[i], f[traps[i]]), owner, "PathTrap", {traps[i]})]
    BY <2>3 DEF TrapAssignments
  <2> HIDE DEF A, traps, n
  <2>5. IsSeq(A)
    <3>1. A = [i \in 1..n |-> A[i]]
      BY <2>4
    <3> QED
      BY <2>3, <3>1, SeqByIndex
  <2>6. ASSUME NEW i \in 1..n
        PROVE  A[i].why = "PathTrap" /\ A[i].subject = {traps[i]} /\ traps[i] \notin won
    BY <2>1, <2>3, <2>4 DEF Assignment
  <2>7. DOMAIN A = 1..n
    BY <2>4
  <2> QED
    BY <2>5, <2>6, <2>7 DEF SetOf
<1> DEFINE licence(r) == IF r \in t.agpl
                           THEN <<Assignment(ContainerBuild, Slug, "Licence", r)>> ELSE << >>
<1>2. ASSUME NEW r
      PROVE  IsSeq(licence(r)) /\ \A a \in SetOf(licence(r)) : a.why = "Licence"
  <2>1. Assignment(ContainerBuild, Slug, "Licence", r).why = "Licence"
    BY DEF Assignment
  <2> QED
    BY <2>1, ShortSeqs
<1>3. B = licence("Containerfile") \o licence("Dockerfile")
  BY DEF Licences
<1> HIDE DEF licence
<1>4. IsSeq(B) /\ \A a \in SetOf(B) : a.why = "Licence"
  <2>1. IsSeq(B) /\ SetOf(B) = SetOf(licence("Containerfile")) \cup SetOf(licence("Dockerfile"))
    BY <1>2, <1>3, ConcatAdds
  <2> QED
    BY <1>2, <2>1
<1>5. IsSeq(C) /\ \A a \in SetOf(C) : a.why \in {"Uncovered", "TagPinned"}
  <2>1. CASE posture = NoPosture
    BY <2>1, ShortSeqs DEF LatentPolicy
  <2>2. CASE posture # NoPosture
    <3> DEFINE uncovered == {FirstUncovered(posture, f[g]) : g \in DOMAIN f} \ {NoRepo}
               pinned == {g \in DOMAIN f : TagPinned(f[g]) # {}}
               a == Assignment(RepoPermissions, Slug, "Uncovered", uncovered)
               b == Assignment(ShaPinning, Slug, "TagPinned", pinned)
               x == IF uncovered = {} THEN << >> ELSE <<a>>
               y == IF ~posture.pinning \/ pinned = {} THEN << >> ELSE <<b>>
    <3>1. C = x \o y
      BY <2>2 DEF LatentPolicy
    <3>2. a.why = "Uncovered" /\ b.why = "TagPinned"
      BY DEF Assignment
    <3> HIDE DEF a, b
    <3>3. IsSeq(x) /\ SetOf(x) \subseteq {a} /\ IsSeq(y) /\ SetOf(y) \subseteq {b}
      <4> HIDE DEF uncovered, pinned
      <4> QED
        BY ShortSeqs
    <3> HIDE DEF x, y
    <3>4. IsSeq(C) /\ SetOf(C) = SetOf(x) \cup SetOf(y)
      BY <3>1, <3>3, ConcatAdds
    <3> QED
      BY <3>2, <3>3, <3>4
  <2> QED
    BY <2>1, <2>2
<1> HIDE DEF A, B, C
<1>6. IsSeq(A \o B) /\ SetOf(A \o B) = SetOf(A) \cup SetOf(B)
  BY <1>1, <1>4, ConcatAdds
<1>7. IsSeq((A \o B) \o C) /\ SetOf((A \o B) \o C) = SetOf(A) \cup SetOf(B) \cup SetOf(C)
  BY <1>5, <1>6, ConcatAdds
<1>8. \A a \in SetOf(A) \cup SetOf(B) \cup SetOf(C) :
        /\ a.why # "OwnedUpstream"
        /\ a.why = "PathTrap" => \E g : a.subject = {g} /\ g \notin won
  BY <1>1, <1>4, <1>5
<1> QED
  BY <1>1, <1>4, <1>5, <1>7, <1>8 DEF A, B, C

\* The plan has one answer for each unsatisfied check.
LEMMA PlanIsAnswered ==
  ASSUME NEW gate, IsFiniteSet(DOMAIN gate), DOMAIN gate \subseteq Context,
         NEW f, IsFiniteSet(DOMAIN f), DOMAIN f \subseteq File,
         NEW t, NEW context, NEW posture, NEW refused
  PROVE  Answered(Plan(gate, f, t, context, posture, refused), gate)
<1> DEFINE r == Plan(gate, f, t, context, posture, refused)
           p == Proposal(gate, f, posture, refused)
           U == Unsatisfied(gate)
           moves == InSection(p, "own")
           experts == InSection(p, "expert")
           owners == InSection(p, "owner")
           won == {m.workflow : m \in {n \in SetOf(moves) : n.move = "InjectPathFilterPassThrough"}}
           trapOwner == IF context.owner # NoRepo THEN context.owner ELSE Slug
           told == [i \in DOMAIN experts |-> Escalation(experts[i].check, experts[i].group)]
           found == MissingWellKnown(U, t)
           ups == [i \in DOMAIN owners |->
                     Assignment(owners[i].check, owners[i].owner, "OwnedUpstream", {})]
           scan == TrapAssignments(f, won, trapOwner) \o Licences(t) \o LatentPolicy(f, posture)
           apart == IF ~context.found /\ DOMAIN f = {} THEN {Blocker(0, "ungrounded")} ELSE {}
<1>1. /\ r.moves = moves /\ r.escalations = told \o found
      /\ r.assignments = ((ups \o TrapAssignments(f, won, trapOwner)) \o Licences(t)) \o LatentPolicy(f, posture)
      /\ r.blockers = {Blocker(c, Section(p[c])) : c \in U} \cup apart
  BY DEF Plan, Proposal
<1>2. DOMAIN p = U /\ IsFiniteSet(U) /\ U \subseteq Nat \ {0}
  <2>1. DOMAIN p = U
    BY DEF Proposal, DiagnoseWithHints
  <2>2. U \subseteq DOMAIN gate
    BY DEF Unsatisfied
  <2> QED
    BY <2>1, <2>2, FS_Subset, ContextAssumption
<1>3. \A c \in U : p[c].move \in HandOff => p[c].check = c
  BY HandOffNamesItsCheck
<1> HIDE DEF p, U, r
<1>4. ASSUME NEW lane
      PROVE  /\ IsSeq(InSection(p, lane))
             /\ Len(InSection(p, lane)) = Cardinality({c \in U : Section(p[c]) = lane})
             /\ SetOf(InSection(p, lane)) = {p[c] : c \in {d \in U : Section(p[d]) = lane}}
  <2>1. InLane(p, lane) = {c \in U : Section(p[c]) = lane}
    BY <1>2 DEF InLane
  <2>2. DOMAIN p \subseteq Nat /\ IsFiniteSet(DOMAIN p)
    BY <1>2
  <2> QED
    BY <2>1, <2>2, SectionListsLane
<1>5. \A c, s : s \in Lanes => (Blocker(c, s) \in r.blockers <=> c \in U /\ s = Section(p[c]))
  <2>1. \A c, s : s \in Lanes => Blocker(c, s) \notin apart
    BY DEF Blocker, Lanes
  <2>2. \A c, s, d, u : Blocker(c, s) = Blocker(d, u) <=> c = d /\ s = u
    <3>1. \A c, s : Blocker(c, s).check = c /\ Blocker(c, s).what = s
      BY DEF Blocker
    <3> QED
      BY <3>1
  <2> HIDE DEF apart
  <2> QED
    BY <1>1, <2>1, <2>2
<1>6. /\ \A c \in U : Answers(r, c) = {Section(p[c])}
      /\ \A c : c \notin U => Answers(r, c) = {}
  <2>1. \A m : Section(m) \in Lanes
    BY SectionsAreLanes
  <2> QED
    BY <1>5, <2>1 DEF Answers
<1>7. /\ IsSeq(told)
      /\ SetOf(told) = {Escalation(p[c].check, p[c].group) : c \in {d \in U : Section(p[d]) = "expert"}}
  <2>1. IsSeq(experts) /\ SetOf(experts) = {p[c] : c \in {d \in U : Section(p[d]) = "expert"}}
    BY <1>4
  <2> HIDE DEF experts
  <2>2. DOMAIN experts = 1..Len(experts) /\ Len(experts) \in Nat
    BY <2>1 DEF IsSeq
  <2>3. IsSeq(told)
    BY <2>2, SeqByIndex
  <2>4. SetOf(told) = {Escalation(m.check, m.group) : m \in SetOf(experts)}
    BY DEF SetOf
  <2> QED
    BY <2>1, <2>3, <2>4
<1>8. /\ IsSeq(ups)
      /\ SetOf(ups) = {Assignment(p[c].check, p[c].owner, "OwnedUpstream", {})
                         : c \in {d \in U : Section(p[d]) = "owner"}}
  <2>1. IsSeq(owners) /\ SetOf(owners) = {p[c] : c \in {d \in U : Section(p[d]) = "owner"}}
    BY <1>4
  <2> HIDE DEF owners
  <2>2. DOMAIN owners = 1..Len(owners) /\ Len(owners) \in Nat
    BY <2>1 DEF IsSeq
  <2>3. IsSeq(ups)
    BY <2>2, SeqByIndex
  <2>4. SetOf(ups) = {Assignment(m.check, m.owner, "OwnedUpstream", {}) : m \in SetOf(owners)}
    BY DEF SetOf
  <2> QED
    BY <2>1, <2>3, <2>4
<1>9. IsSeq(found) /\ \A e \in SetOf(found) : e = Escalation(WellKnownGate, "HypatiaFleet")
  BY ShortSeqs DEF MissingWellKnown
<1>10. /\ IsSeq(r.escalations)
       /\ SetOf(r.escalations) = SetOf(told) \cup SetOf(found)
  <2> HIDE DEF told, found
  <2> QED
    BY <1>1, <1>7, <1>9, ConcatAdds
<1>11. SetOf(r.assignments) = SetOf(ups) \cup SetOf(scan)
  <2> DEFINE A == TrapAssignments(f, won, trapOwner)
             B == Licences(t)
             C == LatentPolicy(f, posture)
  <2>1. IsSeq(A) /\ IsSeq(B) /\ IsSeq(C)
    <3>1. DOMAIN f \subseteq Nat
      BY NameAssumption
    <3> HIDE DEF won, trapOwner
    <3> QED
      BY <3>1, ScanAssigns
  <2> HIDE DEF ups, A, B, C
  <2>2. IsSeq(A \o B) /\ SetOf(A \o B) = SetOf(A) \cup SetOf(B)
    BY <2>1, ConcatAdds
  <2>3. SetOf((A \o B) \o C) = SetOf(A) \cup SetOf(B) \cup SetOf(C)
    BY <2>1, <2>2, ConcatAdds
  <2>4. IsSeq(ups \o A) /\ SetOf(ups \o A) = SetOf(ups) \cup SetOf(A)
    BY <1>8, <2>1, ConcatAdds
  <2>5. IsSeq((ups \o A) \o B) /\ SetOf((ups \o A) \o B) = SetOf(ups) \cup SetOf(A) \cup SetOf(B)
    BY <2>1, <2>4, ConcatAdds
  <2>6. SetOf(((ups \o A) \o B) \o C) = SetOf(ups) \cup SetOf(A) \cup SetOf(B) \cup SetOf(C)
    BY <2>1, <2>5, ConcatAdds
  <2>7. r.assignments = ((ups \o A) \o B) \o C
    BY <1>1 DEF A, B, C
  <2>8. scan = (A \o B) \o C
    BY DEF A, B, C
  <2> QED
    BY <2>3, <2>6, <2>7, <2>8
<1>12. \A a \in SetOf(scan) : /\ a.why # "OwnedUpstream"
                              /\ a.why = "PathTrap" => \E g : a.subject = {g} /\ g \notin won
  <2>1. DOMAIN f \subseteq Nat
    BY NameAssumption
  <2> HIDE DEF won, trapOwner
  <2> QED
    BY <2>1, ScanAssigns
<1>13. \A c, g : /\ Escalation(c, g).check = c
                 /\ {"check", "group"} \subseteq DOMAIN Escalation(c, g)
  BY DEF Escalation
<1>14. \A c, o, w, s : Assignment(c, o, w, s).check = c /\ Assignment(c, o, w, s).why = w
  BY DEF Assignment
<1>15. \A c \in U : Section(p[c]) \in {"expert", "owner"} => p[c].check = c
  <2>1. \A m : Section(m) \in {"expert", "owner"} => m.move \in HandOff
    BY SectionsAreLanes DEF HandOff
  <2> QED
    BY <1>3, <2>1
<1> HIDE DEF told, found, ups, scan
<1>16. \A e \in SetOf(r.escalations) : {"check", "group"} \subseteq DOMAIN e
  <2>1. \A e \in SetOf(told) : \E c, g : e = Escalation(c, g)
    BY <1>7
  <2> QED
    BY <1>9, <1>10, <1>13, <2>1
<1>17. ASSUME NEW c \in Nat
       PROVE  (\E g : <<c, g>> \in Hands(r)) <=> c \in U /\ Section(p[c]) = "expert"
  <2>1. (\E g : <<c, g>> \in Hands(r)) <=> \E e \in SetOf(r.escalations) : e.check = c
    BY DEF Hands
  <2>2. ~ \E e \in SetOf(found) : e.check = c
    <3>1. WellKnownGate # c
      BY DEF WellKnownGate
    <3> QED
      BY <1>9, <1>13, <3>1
  <2>3. ASSUME NEW e \in SetOf(told), e.check = c
        PROVE  c \in U /\ Section(p[c]) = "expert"
    <3>1. PICK d \in U : Section(p[d]) = "expert" /\ e = Escalation(p[d].check, p[d].group)
      BY <1>7
    <3>2. e.check = d
      BY <1>13, <1>15, <3>1
    <3> QED
      BY <2>3, <3>1, <3>2
  <2>4. ASSUME c \in U, Section(p[c]) = "expert"
        PROVE  \E e \in SetOf(told) : e.check = c
    <3>1. Escalation(p[c].check, p[c].group) \in SetOf(told)
      BY <1>7, <2>4
    <3>2. Escalation(p[c].check, p[c].group).check = c
      BY <1>13, <1>15, <2>4
    <3> QED
      BY <3>1, <3>2
  <2> QED
    BY <1>10, <2>1, <2>2, <2>3, <2>4
<1>18. ASSUME NEW c
       PROVE  HandedUp(r, c) <=> c \in U /\ Section(p[c]) = "owner"
  <2>1. ASSUME NEW a \in SetOf(ups), a.check = c
        PROVE  c \in U /\ Section(p[c]) = "owner"
    <3>1. PICK d \in U : /\ Section(p[d]) = "owner"
                         /\ a = Assignment(p[d].check, p[d].owner, "OwnedUpstream", {})
      BY <1>8
    <3>2. a.check = d
      BY <1>14, <1>15, <3>1
    <3> QED
      BY <2>1, <3>1, <3>2
  <2>2. ASSUME c \in U, Section(p[c]) = "owner"
        PROVE  \E a \in SetOf(ups) : a.check = c /\ a.why = "OwnedUpstream"
    <3> DEFINE a == Assignment(p[c].check, p[c].owner, "OwnedUpstream", {})
    <3>1. a \in SetOf(ups)
      BY <1>8, <2>2
    <3>2. a.check = c /\ a.why = "OwnedUpstream"
      BY <1>14, <1>15, <2>2
    <3> HIDE DEF a
    <3> QED
      BY <3>1, <3>2
  <2> QED
    BY <1>11, <1>12, <2>1, <2>2 DEF HandedUp
<1>19. \A c \in U : Cardinality(Answers(r, c)) = 1
  BY <1>6, FS_Singleton
<1>20. Len(r.moves) = Cardinality({c \in U : Answers(r, c) = {"own"}})
  <2>1. {c \in U : Answers(r, c) = {"own"}} = {c \in U : Section(p[c]) = "own"}
    BY <1>6
  <2>2. Len(moves) = Cardinality({c \in U : Section(p[c]) = "own"})
    BY <1>4
  <2> QED
    BY <1>1, <2>1, <2>2
<1>21. Own(r)
  <2>1. ASSUME NEW m \in SetOf(r.moves), Appliable(m)
        PROVE  m.workflow \in won
    BY <1>1, <2>1 DEF Appliable
  <2>2. \A a \in SetOf(ups) : a.why # "PathTrap"
    BY <1>8, <1>14
  <2>3. ASSUME NEW a \in SetOf(r.assignments), a.why = "PathTrap"
        PROVE  \E g : a.subject = {g} /\ g \notin won
    BY <1>11, <1>12, <2>2, <2>3
  <2> HIDE DEF won
  <2> QED
    BY <2>1, <2>3 DEF Own
<1>22. DOMAIN gate \subseteq Nat
  BY ContextAssumption
<1>23. ASSUME NEW c \in U
       PROVE  /\ "expert" \in Answers(r, c) <=> \E g : <<c, g>> \in Hands(r)
              /\ "owner" \in Answers(r, c) <=> HandedUp(r, c)
  <2>1. c \in Nat
    BY <1>2
  <2> QED
    BY <1>6, <1>17, <1>18, <2>1
<1>24. ASSUME NEW c \in DOMAIN gate \ U
       PROVE  /\ \A g : <<c, g>> \in Hands(r) => g = "GateTriage"
              /\ Answers(r, c) = {} /\ ~HandedUp(r, c)
  <2>1. c \in Nat
    BY <1>22
  <2> QED
    BY <1>6, <1>17, <1>18, <2>1
<1>25. Answered(r, gate)
  BY <1>10, <1>16, <1>19, <1>20, <1>21, <1>23, <1>24 DEF Answered, U
<1> QED
  BY <1>25 DEF r

\* s says of the checks what r says.
SameAnswers(r, s) ==
  /\ s.moves = r.moves /\ s.assignments = r.assignments
  /\ IsSeq(s.escalations)
  /\ \A e \in SetOf(s.escalations) : {"check", "group"} \subseteq DOMAIN e
  /\ Hands(s) = Hands(r)
  /\ \A c : Answers(s, c) = Answers(r, c)

\* Reports with the same answers answer alike.
LEMMA AnsweredKept ==
  ASSUME NEW r, NEW s, NEW gate, Answered(r, gate), SameAnswers(r, s)
  PROVE  Answered(s, gate)
<1>1. /\ s.moves = r.moves /\ s.assignments = r.assignments
      /\ Hands(s) = Hands(r) /\ \A c : Answers(s, c) = Answers(r, c)
  BY DEF SameAnswers
<1>2. \A c : HandedUp(s, c) <=> HandedUp(r, c)
  BY <1>1 DEF HandedUp
<1>3. Own(s)
  BY <1>1 DEF Answered, Own
<1>4. /\ IsSeq(s.escalations)
      /\ \A e \in SetOf(s.escalations) : {"check", "group"} \subseteq DOMAIN e
  BY DEF SameAnswers
<1>5. \A c \in Unsatisfied(gate) :
        /\ Cardinality(Answers(s, c)) = 1
        /\ "expert" \in Answers(s, c) <=> \E g : <<c, g>> \in Hands(s)
        /\ "owner" \in Answers(s, c) <=> HandedUp(s, c)
  BY <1>1, <1>2 DEF Answered
<1>6. \A c \in DOMAIN gate \ Unsatisfied(gate) :
        /\ \A g : <<c, g>> \in Hands(s) => g = "GateTriage"
        /\ Answers(s, c) = {} /\ ~HandedUp(s, c)
  BY <1>1, <1>2 DEF Answered
<1>7. Len(s.moves) = Cardinality({c \in Unsatisfied(gate) : Answers(s, c) = {"own"}})
  BY <1>1 DEF Answered
<1> QED
  BY <1>3, <1>4, <1>5, <1>6, <1>7 DEF Answered

\* A blocker that marks no lane answers no check.
LEMMA NotAnAnswer ==
  ASSUME NEW r, NEW s, NEW d, NEW what, what \notin Lanes,
         s.blockers = r.blockers \cup {Blocker(d, what)}
  PROVE  \A c : Answers(s, c) = Answers(r, c)
<1>1. \A c, lane : lane \in Lanes => Blocker(c, lane) # Blocker(d, what)
  <2>1. \A c, x : Blocker(c, x).what = x
    BY DEF Blocker
  <2> QED
    BY <2>1
<1> QED
  BY <1>1 DEF Answers

\* A mark changes neither the check nor the group of an escalation.
LEMMA MarksKeepHands ==
  ASSUME NEW r, NEW s, IsSeq(r.escalations), IsSeq(s.escalations),
         \A e \in SetOf(r.escalations) : {"check", "group"} \subseteq DOMAIN e,
         DOMAIN s.escalations = DOMAIN r.escalations,
         \A i \in DOMAIN r.escalations :
           \/ s.escalations[i] = r.escalations[i]
           \/ \E x : s.escalations[i] = [r.escalations[i] EXCEPT !.evidence = x]
  PROVE  /\ \A e \in SetOf(s.escalations) : {"check", "group"} \subseteq DOMAIN e
         /\ Hands(s) = Hands(r)
<1> DEFINE a == r.escalations
           b == s.escalations
<1>1. ASSUME NEW i \in DOMAIN a
      PROVE  /\ {"check", "group"} \subseteq DOMAIN b[i]
             /\ b[i].check = a[i].check /\ b[i].group = a[i].group
  <2>1. {"check", "group"} \subseteq DOMAIN a[i]
    BY DEF SetOf
  <2>2. \A e, x : {"check", "group"} \subseteq DOMAIN e =>
          LET f == [e EXCEPT !.evidence = x]
          IN  {"check", "group"} \subseteq DOMAIN f /\ f.check = e.check /\ f.group = e.group
    OBVIOUS
  <2> HIDE DEF a, b
  <2>3. b[i] = a[i] \/ \E x : b[i] = [a[i] EXCEPT !.evidence = x]
    BY DEF a, b
  <2> QED
    BY <2>1, <2>2, <2>3
<1>2. \A e \in SetOf(b) : {"check", "group"} \subseteq DOMAIN e
  BY <1>1 DEF SetOf
<1>3. Hands(r) = {<<a[i].check, a[i].group>> : i \in DOMAIN a}
  BY DEF Hands, SetOf
<1>4. Hands(s) = {<<b[i].check, b[i].group>> : i \in DOMAIN b}
  BY DEF Hands, SetOf
<1> QED
  BY <1>1, <1>2, <1>3, <1>4

\* What apply and scan tell changes no answer.
LEMMA TellSaysTheSame ==
  ASSUME Shape(report), NEW gate, Answered(report, gate),
         \/ UNCHANGED report
         \/ \E e : report' = Add("applied", e)
         \/ \E c, what : what \notin Lanes /\ report' = Tell(c, what)
  PROVE  SameAnswers(report, report')
<1>1. /\ IsSeq(report.escalations)
      /\ \A e \in SetOf(report.escalations) : {"check", "group"} \subseteq DOMAIN e
  BY DEF Answered
<1>2. CASE UNCHANGED report
  BY <1>1, <1>2 DEF SameAnswers
<1>3. CASE \E e : report' = Add("applied", e)
  <2>1. /\ report'.moves = report.moves /\ report'.assignments = report.assignments
        /\ report'.escalations = report.escalations /\ report'.blockers = report.blockers
    BY <1>3 DEF Add, Shape
  <2> QED
    BY <1>1, <2>1 DEF SameAnswers, Hands, Answers
<1>4. CASE \E c, what : what \notin Lanes /\ report' = Tell(c, what)
  <2>1. PICK c, what : what \notin Lanes /\ report' = Tell(c, what)
    BY <1>4
  <2>2. /\ report'.moves = report.moves /\ report'.assignments = report.assignments
        /\ report'.escalations = report.escalations
        /\ report'.blockers = report.blockers \cup {Blocker(c, what)}
    BY <2>1 DEF Tell, Shape
  <2>3. \A d : Answers(report', d) = Answers(report, d)
    BY <2>1, <2>2, NotAnAnswer
  <2> QED
    BY <1>1, <2>2, <2>3 DEF SameAnswers, Hands
<1> QED
  BY <1>2, <1>3, <1>4

\* s is r with the evidence of some escalations changed, and one more blocker.
Remarked(r, s, blocker) ==
  /\ s.moves = r.moves /\ s.assignments = r.assignments
  /\ s.escalations = [i \in 1..Len(r.escalations) |-> s.escalations[i]]
  /\ \A i \in 1..Len(r.escalations) :
       \/ s.escalations[i] = r.escalations[i]
       \/ \E x : s.escalations[i] = [r.escalations[i] EXCEPT !.evidence = x]
  /\ s.blockers = r.blockers \cup {blocker}

\* A remark on one escalation changes no answer.
LEMMA RemarksSayTheSame ==
  ASSUME NEW r, NEW s, NEW gate, Answered(r, gate), NEW d, NEW mark, mark \notin Lanes,
         Remarked(r, s, Blocker(d, mark))
  PROVE  SameAnswers(r, s)
<1> DEFINE a == r.escalations
           b == s.escalations
<1>1. /\ IsSeq(a)
      /\ \A e \in SetOf(a) : {"check", "group"} \subseteq DOMAIN e
  BY DEF Answered
<1>2. DOMAIN a = 1..Len(a) /\ Len(a) \in Nat
  <2> HIDE DEF a
  <2> QED
    BY <1>1 DEF IsSeq
<1>3. b = [i \in 1..Len(a) |-> b[i]]
  BY DEF Remarked
<1>4. IsSeq(b) /\ DOMAIN b = DOMAIN a
  <2> HIDE DEF a, b
  <2> QED
    BY <1>2, <1>3, SeqByIndex
<1>5. \A i \in DOMAIN a : b[i] = a[i] \/ \E x : b[i] = [a[i] EXCEPT !.evidence = x]
  BY <1>2 DEF Remarked
<1>6. /\ \A e \in SetOf(b) : {"check", "group"} \subseteq DOMAIN e
      /\ Hands(s) = Hands(r)
  BY <1>1, <1>4, <1>5, MarksKeepHands
<1>7. \A c : Answers(s, c) = Answers(r, c)
  BY NotAnAnswer DEF Remarked
<1> QED
  BY <1>4, <1>6, <1>7 DEF SameAnswers, Remarked

\* What the experts say changes no answer.
LEMMA ExpertsSayTheSame ==
  ASSUME Shape(report), NEW gate, Answered(report, gate),
         \/ report' = NotedAll("unreachable")
         \/ /\ next \in DOMAIN report.escalations
            /\ \/ \E mark, ok : mark \notin Lanes /\ report' = Heard(next, mark, ok)
               \/ report' = [Noted(next, "no_path") EXCEPT
                               !.blockers = @ \cup {Blocker(report.escalations[next].check, "no_path")}]
  PROVE  SameAnswers(report, report')
<1> DEFINE a == report.escalations
           Told(e, mark) == [e EXCEPT !.evidence = Append(e.evidence, mark)]
           es(mark) == [a EXCEPT ![next] = Told(a[next], mark)]
           Kept(t) == /\ t = [i \in 1..Len(a) |-> t[i]]
                      /\ \A i \in 1..Len(a) : t[i] = a[i] \/ \E m : t[i] = Told(a[i], m)
<1>1. IsSeq(a)
  BY DEF Answered
<1>2. DOMAIN a = 1..Len(a) /\ Len(a) \in Nat /\ a = [i \in 1..Len(a) |-> a[i]]
  <2> HIDE DEF a
  <2> QED
    BY <1>1 DEF IsSeq
<1>3. ASSUME NEW d, NEW mark, mark \notin Lanes, NEW t,
             report'.moves = report.moves, report'.assignments = report.assignments,
             report'.escalations = t, Kept(t),
             report'.blockers = report.blockers \cup {Blocker(d, mark)}
      PROVE  SameAnswers(report, report')
  <2>1. PICK s : s = report'
    OBVIOUS
  <2>2. /\ s.moves = report.moves /\ s.assignments = report.assignments
        /\ s.escalations = t /\ s.blockers = report.blockers \cup {Blocker(d, mark)}
    BY <1>3, <2>1
  <2>3. t = [i \in 1..Len(report.escalations) |-> t[i]]
    BY <1>3
  <2>4. ASSUME NEW i \in 1..Len(report.escalations)
        PROVE  \/ t[i] = report.escalations[i]
               \/ \E x : t[i] = [report.escalations[i] EXCEPT !.evidence = x]
    <3>1. t[i] = a[i] \/ \E m : t[i] = Told(a[i], m)
      BY <1>3
    <3> QED
      BY <3>1
  <2>6. Remarked(report, s, Blocker(d, mark))
    BY <2>2, <2>3, <2>4, Zenon DEF Remarked
  <2>7. SameAnswers(report, s)
    BY <1>3, <2>6, RemarksSayTheSame
  <2> QED
    BY <2>1, <2>7
<1>4. "unreachable" \notin Lanes /\ "no_path" \notin Lanes
  BY DEF Lanes
<1>5. CASE report' = NotedAll("unreachable")
  <2> DEFINE t == [i \in DOMAIN a |-> Told(a[i], "unreachable")]
  <2>1. /\ report'.moves = report.moves /\ report'.assignments = report.assignments
        /\ report'.escalations = t
        /\ report'.blockers = report.blockers \cup {Blocker(0, "unreachable")}
    BY <1>5 DEF NotedAll, Shape
  <2> HIDE DEF a, Told
  <2>2. t = [i \in 1..Len(a) |-> t[i]]
    BY <1>2
  <2>3. \A i \in 1..Len(a) : t[i] = Told(a[i], "unreachable")
    BY <1>2
  <2> HIDE DEF t
  <2>4. Kept(t)
    BY <2>2, <2>3
  <2> HIDE DEF Kept
  <2> QED
    BY <1>3, <1>4, <2>1, <2>4
<1>6. \A mark : Noted(next, mark) = [report EXCEPT !.escalations = es(mark)]
  BY DEF Noted, Shape
<1> HIDE DEF a, Told
<1>7. ASSUME NEW mark, next \in DOMAIN a
      PROVE  Kept(es(mark))
  BY <1>2, <1>7
<1> HIDE DEF es, Kept
<1>8. ASSUME NEW mark
      PROVE  /\ Noted(next, mark).moves = report.moves /\ Noted(next, mark).assignments = report.assignments
             /\ Noted(next, mark).escalations = es(mark) /\ Noted(next, mark).blockers = report.blockers
             /\ DOMAIN Noted(next, mark) = DOMAIN report
  BY <1>6 DEF Shape
<1>9. CASE next \in DOMAIN a /\ \E mark, ok : mark \notin Lanes /\ report' = Heard(next, mark, ok)
  <2>1. PICK mark, good : mark \notin Lanes /\ report' = Heard(next, mark, good)
    BY <1>9
  <2>2. /\ report'.moves = report.moves /\ report'.assignments = report.assignments
        /\ report'.escalations = es(mark)
        /\ report'.blockers = report.blockers \cup {Blocker(report.escalations[next].check, mark)}
    BY <1>8, <2>1 DEF Heard, Shape
  <2>3. Kept(es(mark))
    BY <1>7, <1>9
  <2> QED
    BY <1>3, <2>1, <2>2, <2>3
<1>11. CASE /\ next \in DOMAIN a
            /\ report' = [Noted(next, "no_path") EXCEPT
                            !.blockers = @ \cup {Blocker(report.escalations[next].check, "no_path")}]
  <2>1. /\ report'.moves = report.moves /\ report'.assignments = report.assignments
        /\ report'.escalations = es("no_path")
        /\ report'.blockers = report.blockers \cup {Blocker(report.escalations[next].check, "no_path")}
    BY <1>8, <1>11 DEF Shape
  <2>2. Kept(es("no_path"))
    BY <1>7, <1>11
  <2> QED
    BY <1>3, <1>4, <2>1, <2>2
<1> QED
  BY <1>5, <1>9, <1>11 DEF a
\* The greens that are yet to be inspected, and the vacuous ones among the others
\* that no escalation tells.
ToInspect ==
  IF pc = "greens" THEN {begun.greens[j] : j \in {i \in DOMAIN begun.greens : i >= next}} ELSE {}
Untold(s, r, left) == {c \in s.vacuous : <<c, "GateTriage">> \notin Hands(r) /\ c \notin left}

AnsweredInv ==
  /\ IsFiniteSet(DOMAIN facts) /\ DOMAIN facts \subseteq File
  /\ faults \in Nat /\ faults <= begun.faults
  /\ Planned => Answered(report, begun.gate)
  /\ Planned /\ begun.directive =>
       Cardinality(Untold(begun, report, ToInspect)) <= begun.faults - faults

\* Vacuous greens are listed, and are satisfied checks.
LEMMA VacuousAreSatisfied ==
  ASSUME NEW s \in Situations
  PROVE  /\ IsFiniteSet(s.vacuous) /\ DOMAIN s.greens = 1..Len(s.greens) /\ Len(s.greens) \in Nat
         /\ \A j \in 1..Len(s.greens) : s.greens[j] \in DOMAIN s.gate \ Unsatisfied(s.gate)
         /\ \A c \in s.vacuous : \E j \in 1..Len(s.greens) : s.greens[j] = c
<1> DEFINE S == {c \in DOMAIN s.gate : Satisfied(s.gate[c])}
<1>1. /\ IsFiniteSet(DOMAIN s.gate) /\ s.greens \in Seq(S) /\ s.vacuous \subseteq SetOf(s.greens)
  BY SituationAssumption DEF Situation
<1>2. S = DOMAIN s.gate \ Unsatisfied(s.gate)
  BY DEF Unsatisfied
<1> HIDE DEF S
<1>3. /\ DOMAIN s.greens = 1..Len(s.greens) /\ Len(s.greens) \in Nat
      /\ \A j \in 1..Len(s.greens) : s.greens[j] \in S
  BY <1>1
<1>4. \A c \in s.vacuous : \E j \in 1..Len(s.greens) : s.greens[j] = c
  BY <1>1, <1>3 DEF SetOf
<1>5. s.vacuous \subseteq S
  BY <1>3, <1>4
<1>6. IsFiniteSet(s.vacuous)
  BY <1>1, <1>2, <1>5, FS_Subset
<1> QED
  BY <1>2, <1>3, <1>4, <1>5, <1>6

\* A report that says the same of the checks leaves nothing more untold.
LEMMA UntoldCounted ==
  ASSUME NEW s \in Situations, NEW r, NEW left
  PROVE  IsFiniteSet(Untold(s, r, left)) /\ Cardinality(Untold(s, r, left)) \in Nat
<1>1. IsFiniteSet(s.vacuous) /\ Untold(s, r, left) \subseteq s.vacuous
  BY VacuousAreSatisfied DEF Untold
<1> QED
  BY <1>1, FS_Subset, FS_CardinalityType

\* A step that changes no answer keeps the account.
LEMMA AnsweredStays ==
  ASSUME ReportInv, AnsweredInv, Planned, UNCHANGED <<begun, facts>>, NoFault \/ Fault,
         ToInspect' = ToInspect, SameAnswers(report, report')
  PROVE  AnsweredInv'
<1>1. Answered(report', begun.gate)
  BY AnsweredKept DEF AnsweredInv
<1>2. Untold(begun, report', ToInspect') = Untold(begun, report, ToInspect)
  BY DEF SameAnswers, Untold
<1> DEFINE n == Cardinality(Untold(begun, report, ToInspect))
           m == begun.faults
<1>3. faults' \in Nat /\ faults' <= faults /\ faults \in Nat /\ faults <= m
  BY DEF AnsweredInv, NoFault, Fault
<1>4. m \in Nat /\ n \in Nat
  BY SituationAssumption, UntoldCounted DEF Situation, ReportInv
<1>5. Cardinality(Untold(begun', report', ToInspect')) = n /\ begun'.faults = m
  BY <1>2
<1>6. begun.directive => n <= m - faults
  BY DEF AnsweredInv
<1> HIDE DEF n, m
<1>7. n <= m - faults => n <= m - faults'
  <2>1. \A a, b, c, d \in Nat : a <= b - c /\ d <= c => a <= b - d
    OBVIOUS
  <2> QED
    BY <1>3, <1>4, <2>1
<1>8. IsFiniteSet(DOMAIN facts') /\ DOMAIN facts' \subseteq File
  BY DEF AnsweredInv
<1>9. faults' <= m
  BY <1>3, <1>4
<1> QED
  BY <1>1, <1>3, <1>5, <1>6, <1>7, <1>8, <1>9 DEF AnsweredInv

\* Reading files, and the plan.
LEMMA AnsweredPlanned ==
  ASSUME ReportInv, EditsInv, AnsweredInv, LoadFails \/ List \/ ReadFile \/ MakePlan
  PROVE  AnsweredInv'
<1>1. /\ UNCHANGED begun /\ pc \in {"load", "read"} /\ (NoFault \/ Fault) /\ exit = 0 - 1
  BY DEF LoadFails, List, ReadFile, MakePlan, World, ReportInv
<1>2. begun \in Situations /\ begun.faults \in Nat /\ IsFiniteSet(DOMAIN begun.gate)
      /\ DOMAIN begun.gate \subseteq Context
  BY SituationAssumption DEF ReportInv, Situation
<1>3. faults' \in Nat /\ faults' <= begun.faults
  BY <1>1, <1>2 DEF AnsweredInv, NoFault, Fault
<1>4. IsFiniteSet(DOMAIN facts') /\ DOMAIN facts' \subseteq File
  <2>1. CASE UNCHANGED facts
    BY <2>1 DEF AnsweredInv
  <2>2. CASE /\ Least(unread) \in tree.present
             /\ facts' = [f \in DOMAIN facts \cup {Least(unread)} |->
                            IF f = Least(unread) THEN tree.files[f] ELSE facts[f]]
    <3>1. Least(unread) \in File
      BY <2>2 DEF EditsInv, Tree
    <3>2. DOMAIN facts' = DOMAIN facts \cup {Least(unread)}
      BY <2>2
    <3> QED
      BY <3>1, <3>2, FS_AddElement DEF AnsweredInv
  <2> QED
    BY <2>1, <2>2 DEF LoadFails, List, ReadFile, MakePlan
<1>5. CASE LoadFails \/ List \/ ReadFile
  <2>1. ~Planned'
    BY <1>1, <1>5 DEF LoadFails, List, ReadFile, Goes, Planned
  <2> QED
    BY <1>1, <1>3, <1>4, <2>1 DEF AnsweredInv
<1>6. CASE MakePlan
  <2>1. /\ report' = Plan(begun.gate, facts, tree, begun.context, begun.posture, begun.refused)
        /\ UNCHANGED <<begun, facts, faults>> /\ next' = 1
        /\ begun.directive => pc' = "greens"
    BY <1>6 DEF MakePlan, World, Goes, NoFault
  <2>2. Answered(report', begun.gate)
    BY <1>2, <2>1, PlanIsAnswered DEF AnsweredInv
  <2>3. ASSUME begun.directive
        PROVE  Untold(begun, report', ToInspect') = {}
    <3>1. ToInspect' = {begun.greens[j] : j \in {i \in DOMAIN begun.greens : i >= 1}}
      BY <2>1, <2>3 DEF ToInspect
    <3>2. \A c \in begun.vacuous : \E j \in DOMAIN begun.greens : j >= 1 /\ begun.greens[j] = c
      BY <1>2, VacuousAreSatisfied
    <3>3. begun.vacuous \subseteq ToInspect'
      BY <3>1, <3>2
    <3> QED
      BY <3>3 DEF Untold
  <2>4. begun.directive => Cardinality(Untold(begun', report', ToInspect')) = 0
    BY <2>1, <2>3, FS_EmptySet
  <2>5. 0 <= begun'.faults - faults'
    BY <1>1, <1>2, <1>3
  <2> QED
    BY <1>1, <1>3, <1>4, <2>1, <2>2, <2>4, <2>5 DEF AnsweredInv
<1> QED
  BY <1>5, <1>6

\* An escalated green is handed over and answers no other check.
LEMMA OneMoreGreen ==
  ASSUME NEW r, NEW s, NEW gate, Answered(r, gate), NEW c \in DOMAIN gate \ Unsatisfied(gate),
         s.moves = r.moves, s.assignments = r.assignments, s.blockers = r.blockers,
         s.escalations = Append(r.escalations, Escalation(c, "GateTriage"))
  PROVE  Answered(s, gate) /\ Hands(s) = Hands(r) \cup {<<c, "GateTriage">>}
<1> DEFINE e == Escalation(c, "GateTriage")
<1>1. {"check", "group"} \subseteq DOMAIN e /\ e.check = c /\ e.group = "GateTriage"
  BY DEF Escalation
<1> HIDE DEF e
<1>2. IsSeq(r.escalations) /\ \A x \in SetOf(r.escalations) : {"check", "group"} \subseteq DOMAIN x
  BY DEF Answered
<1>3. IsSeq(s.escalations) /\ SetOf(s.escalations) = SetOf(r.escalations) \cup {e}
  BY <1>2, AppendAdds DEF e
<1>4. \A x \in SetOf(s.escalations) : {"check", "group"} \subseteq DOMAIN x
  BY <1>1, <1>2, <1>3
<1>5. Hands(s) = Hands(r) \cup {<<c, "GateTriage">>}
  BY <1>1, <1>3 DEF Hands
<1>6. \A d : Answers(s, d) = Answers(r, d)
  BY DEF Answers
<1>7. \A d : HandedUp(s, d) <=> HandedUp(r, d)
  BY DEF HandedUp
<1>8. Own(s)
  BY DEF Own, Answered
<1>9. \A d \in Unsatisfied(gate) : \A g : <<d, g>> \in Hands(s) <=> <<d, g>> \in Hands(r)
  BY <1>5
<1>10. \A d \in Unsatisfied(gate) :
         /\ Cardinality(Answers(s, d)) = 1
         /\ "expert" \in Answers(s, d) <=> \E g : <<d, g>> \in Hands(s)
         /\ "owner" \in Answers(s, d) <=> HandedUp(s, d)
  BY <1>6, <1>7, <1>9 DEF Answered
<1>11. \A d \in DOMAIN gate \ Unsatisfied(gate) :
         /\ \A g : <<d, g>> \in Hands(s) => g = "GateTriage"
         /\ Answers(s, d) = {} /\ ~HandedUp(s, d)
  BY <1>5, <1>6, <1>7 DEF Answered
<1>12. Len(s.moves) = Cardinality({d \in Unsatisfied(gate) : Answers(s, d) = {"own"}})
  BY <1>6 DEF Answered
<1> QED
  BY <1>3, <1>4, <1>5, <1>8, <1>10, <1>11, <1>12 DEF Answered

\* A green that is not judged costs a failure.
LEMMA AnsweredGreens ==
  ASSUME ReportInv, AnsweredInv, InspectGreen
  PROVE  AnsweredInv'
<1> DEFINE s == begun
           check == begun.greens[next]
           U == Untold(begun, report, ToInspect)
           V == Untold(begun, report', ToInspect')
<1>1. /\ pc = "greens" /\ pc' = "greens" /\ next' = next + 1 /\ next <= Len(begun.greens)
      /\ UNCHANGED <<begun, facts, exit>>
  BY DEF InspectGreen, World
<1>2. s \in Situations /\ next \in Nat \ {0} /\ Planned /\ Shape(report)
  BY <1>1 DEF ReportInv, Planned
<1>3. /\ DOMAIN s.greens = 1..Len(s.greens) /\ Len(s.greens) \in Nat
      /\ check \in DOMAIN s.gate \ Unsatisfied(s.gate)
  <2>1. next \in 1..Len(s.greens)
    BY <1>1, <1>2, VacuousAreSatisfied
  <2> QED
    BY <1>2, <2>1, VacuousAreSatisfied
<1>4. ToInspect \subseteq ToInspect' \cup {check}
  <2>1. ASSUME NEW j \in DOMAIN s.greens, j >= next
        PROVE  s.greens[j] \in ToInspect' \cup {check}
    <3>1. CASE j = next
      BY <3>1
    <3>2. CASE j # next
      <4>1. j >= next + 1
        BY <1>2, <1>3, <2>1, <3>2
      <4> QED
        BY <1>1, <4>1 DEF ToInspect
    <3> QED
      BY <3>1, <3>2
  <2> QED
    BY <1>1, <2>1 DEF ToInspect
<1>5. IsFiniteSet(U) /\ Cardinality(U) \in Nat /\ Cardinality(V) \in Nat /\ s.faults \in Nat
  BY <1>2, UntoldCounted, SituationAssumption DEF Situation
<1>6. faults \in Nat /\ faults <= s.faults /\ Answered(report, s.gate)
      /\ (s.directive => Cardinality(U) <= s.faults - faults)
      /\ IsFiniteSet(DOMAIN facts) /\ DOMAIN facts \subseteq File
  BY <1>2 DEF AnsweredInv
<1>7. ASSUME NoFault, Answered(report', s.gate), V \subseteq U
      PROVE  AnsweredInv'
  <2>1. Cardinality(V) <= Cardinality(U)
    BY <1>5, <1>7, FS_Subset
  <2>2. Untold(begun', report', ToInspect') = V
    BY <1>1
  <2> HIDE DEF U, V
  <2>3. s.directive => Cardinality(V) <= s.faults - faults
    BY <1>5, <1>6, <2>1
  <2> QED
    BY <1>1, <1>6, <1>7, <2>2, <2>3 DEF AnsweredInv, NoFault
<1>8. CASE NoFault /\ check \in s.vacuous /\ report' = Add("escalations", Escalation(check, "GateTriage"))
  <2>1. PICK r : r = report'
    OBVIOUS
  <2>2. /\ r.moves = report.moves /\ r.assignments = report.assignments /\ r.blockers = report.blockers
        /\ r.escalations = Append(report.escalations, Escalation(check, "GateTriage"))
    BY <1>2, <1>8, <2>1 DEF Add, Shape
  <2>3. Answered(r, s.gate) /\ Hands(r) = Hands(report) \cup {<<check, "GateTriage">>}
    <3> HIDE DEF check
    <3> QED
      BY <1>3, <1>6, <2>2, OneMoreGreen
  <2>4. V \subseteq U
    BY <1>4, <2>1, <2>3 DEF Untold
  <2> QED
    BY <1>7, <1>8, <2>1, <2>3, <2>4
<1>9. CASE NoFault /\ check \notin s.vacuous /\ UNCHANGED report
  <2>1. V \subseteq U
    BY <1>4, <1>9 DEF Untold
  <2> QED
    BY <1>6, <1>7, <1>9, <2>1
<1>10. CASE Fault /\ UNCHANGED report
  <2>1. V \subseteq U \cup {check}
    BY <1>4, <1>10 DEF Untold
  <2>2. Cardinality(V) <= Cardinality(U) + 1
    <3>1. /\ IsFiniteSet(U \cup {check})
          /\ Cardinality(U \cup {check}) \in {Cardinality(U), Cardinality(U) + 1}
      BY <1>5, FS_AddElement
    <3>2. Cardinality(V) <= Cardinality(U \cup {check})
      BY <2>1, <3>1, FS_Subset
    <3> HIDE DEF U, V
    <3> QED
      BY <1>5, <3>1, <3>2
  <2>3. Untold(begun', report', ToInspect') = V
    BY <1>1
  <2>4. faults' = faults - 1 /\ faults > 0
    BY <1>10 DEF Fault
  <2> HIDE DEF U, V
  <2>5. s.directive => Cardinality(V) <= s.faults - faults'
    <3>1. \A a, b, c, d \in Nat : a <= b + 1 /\ b <= c - d => a <= c - (d - 1)
      OBVIOUS
    <3> QED
      BY <1>5, <1>6, <2>2, <2>4, <3>1
  <2>6. faults' \in Nat /\ faults' <= s.faults
    BY <1>5, <1>6, <2>4
  <2> QED
    BY <1>1, <1>6, <1>10, <2>3, <2>5, <2>6 DEF AnsweredInv
<1> QED
  BY <1>8, <1>9, <1>10 DEF InspectGreen

\* After the greens nothing is said of a check that the plan did not say.
LEMMA AnsweredTold ==
  ASSUME ReportInv, AnsweredInv,
         GreensEnd \/ PassOver \/ ReadStrip \/ WriteStrip \/ ApplyEnds
           \/ Refuse \/ InvokeEnds \/ PrintReport
  PROVE  AnsweredInv'
<1>1. /\ UNCHANGED <<begun, facts>> /\ (NoFault \/ Fault)
      /\ pc \in {"greens", "apply", "write", "summon", "invoke", "print"} /\ pc' # "greens"
      /\ pc = "greens" => next > Len(begun.greens)
  <2>1. CASE GreensEnd \/ PassOver \/ ReadStrip \/ ApplyEnds
    BY <2>1 DEF GreensEnd, PassOver, ReadStrip, ApplyEnds, World, Goes, AfterGreens
  <2>2. CASE WriteStrip
    BY <2>2 DEF WriteStrip
  <2>3. CASE Refuse \/ InvokeEnds \/ PrintReport
    BY <2>3 DEF Refuse, InvokeEnds, PrintReport, World, Goes
  <2> QED
    BY <2>1, <2>2, <2>3
<1>2. Planned /\ Shape(report) /\ Answered(report, begun.gate)
  BY <1>1 DEF ReportInv, Planned, AnsweredInv
<1>3. ToInspect' = ToInspect
  <2>1. ToInspect' = {}
    BY <1>1 DEF ToInspect
  <2>2. CASE pc = "greens"
    <3>1. DOMAIN begun.greens = 1..Len(begun.greens) /\ Len(begun.greens) \in Nat /\ next \in Nat
      BY VacuousAreSatisfied DEF ReportInv
    <3>2. \A i \in DOMAIN begun.greens : ~ (i >= next)
      BY <1>1, <2>2, <3>1
    <3> QED
      BY <2>1, <3>2 DEF ToInspect
  <2> QED
    BY <2>1, <2>2 DEF ToInspect
<1>4. {"skipped", "applied"} \cap Lanes = {}
  BY DEF Lanes
<1>5. \/ UNCHANGED report
      \/ \E e : report' = Add("applied", e)
      \/ \E c, what : what \notin Lanes /\ report' = Tell(c, what)
  <2>1. CASE GreensEnd \/ PassOver \/ Refuse \/ InvokeEnds \/ PrintReport
    BY <2>1 DEF GreensEnd, PassOver, Refuse, InvokeEnds, PrintReport
  <2>2. CASE ReadStrip \/ ApplyEnds
    BY <1>4, <2>2 DEF ReadStrip, ApplyEnds
  <2>3. CASE WriteStrip
    BY <1>4, <2>3 DEF WriteStrip
  <2> QED
    BY <2>1, <2>2, <2>3
<1>6. SameAnswers(report, report')
  BY <1>2, <1>5, TellSaysTheSame
<1> QED
  BY <1>1, <1>2, <1>3, <1>6, AnsweredStays

\* Summoning changes no answer.
LEMMA AnsweredSummoned ==
  ASSUME ReportInv, AnsweredInv, Health \/ Invoke
  PROVE  AnsweredInv'
<1>1. /\ UNCHANGED <<begun, facts>> /\ (NoFault \/ Fault)
      /\ pc \in {"summon", "invoke"} /\ pc' # "greens"
  BY DEF Health, Invoke, World, Goes
<1>2. Planned /\ Shape(report) /\ Answered(report, begun.gate) /\ next \in Nat \ {0}
  BY <1>1 DEF ReportInv, Planned, AnsweredInv
<1>3. ToInspect' = ToInspect
  BY <1>1 DEF ToInspect
<1>4. {"nothing_to_summon_for", "no_cartridge", "ok", "failed"} \cap Lanes = {}
  BY DEF Lanes
<1>5. CASE Health
  <2>1. CASE (\E c, what : what \notin Lanes /\ report' = Tell(c, what)) \/ UNCHANGED report
    BY <1>2, <2>1, TellSaysTheSame, AnsweredStays, <1>1, <1>3
  <2>2. CASE report' = NotedAll("unreachable")
    <3>1. SameAnswers(report, report')
      BY <1>2, <2>2, ExpertsSayTheSame
    <3> QED
      BY <1>1, <1>2, <1>3, <3>1, AnsweredStays
  <2> QED
    BY <1>4, <1>5, <2>1, <2>2 DEF Health
<1>6. CASE Invoke
  <2>1. report.escalations \in Seq(SetOf(report.escalations)) /\ next <= Len(report.escalations)
    BY <1>2, <1>6 DEF Answered, IsSeq, Invoke
  <2>2. next \in DOMAIN report.escalations
    BY <1>2, <2>1
  <2>3. \/ \E mark, ok : mark \notin Lanes /\ report' = Heard(next, mark, ok)
        \/ report' = [Noted(next, "no_path") EXCEPT
                        !.blockers = @ \cup {Blocker(report.escalations[next].check, "no_path")}]
    BY <1>4, <1>6 DEF Invoke
  <2>4. SameAnswers(report, report')
    BY <1>2, <2>2, <2>3, ExpertsSayTheSame
  <2> QED
    BY <1>1, <1>2, <1>3, <2>4, AnsweredStays
<1> QED
  BY <1>5, <1>6

\* Every step keeps one answer for each check.
LEMMA AnsweredStep ==
  ASSUME ReportInv, EditsInv, AnsweredInv, [Next]_vars
  PROVE  AnsweredInv'
<1>1. CASE UNCHANGED <<begun, faults, process>>
  BY <1>1 DEF process, AnsweredInv, Planned, ToInspect
<1>2. CASE UNCHANGED vars
  BY <1>1, <1>2 DEF vars
<1>3. CASE \E f \in File : Edit(f) \/ Unlink(f)
  BY <1>1, <1>3 DEF Edit, Unlink, Meanwhile
<1> QED
  BY <1>2, <1>3, AnsweredPlanned, AnsweredGreens, AnsweredTold, AnsweredSummoned
     DEF Next, Process, Finished

\* Whatever the gate, the workflow files, the edits and the failures: each check
\* that is not satisfied is in exactly one section of a printed report, and has
\* the hand-off of its section; nothing else is handed off but a vacuous green,
\* and one is missing only for a failure (lib.rs, plan_with_policy; fight.rs).
THEOREM ChecksAreAnsweredAlways == Spec => []ChecksAreAnswered
<1> DEFINE Inv == EditsInv /\ ReportInv /\ AnsweredInv
<1>1. Init => Inv
  <2> SUFFICES ASSUME Init
               PROVE  Inv
    OBVIOUS
  <2>1. PICK s \in Situations : begun = s /\ faults = s.faults /\ facts = << >> /\ pc = "load"
    BY DEF Init
  <2>2. s.faults \in Nat
    BY SituationAssumption DEF Situation
  <2>3. DOMAIN facts = {} /\ IsFiniteSet(DOMAIN facts)
    BY <2>1, FS_EmptySet
  <2>4. AnsweredInv
    BY <2>1, <2>2, <2>3 DEF AnsweredInv, Planned
  <2>5. ReportInv
    BY DEF Init, ReportInv, Planned
  <2> QED
    BY <2>4, <2>5, EditsInit
<1>2. Inv /\ [Next]_vars => Inv'
  BY EditsStep, ReportStep, AnsweredStep
<1>3. Inv => ChecksAreAnswered
  <2> SUFFICES ASSUME Inv, Printed
               PROVE  ChecksAreAnswered
    BY DEF ChecksAreAnswered
  <2> DEFINE r == report
             Handed(c) == {e.group : e \in {x \in SetOf(r.escalations) : x.check = c}}
             untold == {c \in begun.vacuous : "GateTriage" \notin Handed(c)}
  <2>1. pc = "end" /\ Planned /\ Answered(r, begun.gate)
    BY DEF Printed, ReportInv, Planned, AnsweredInv
  <2>2. \A c, g : g \in Handed(c) <=> <<c, g>> \in Hands(r)
    BY DEF Hands
  <2>3. untold = Untold(begun, r, ToInspect)
    BY <2>1, <2>2 DEF Untold, ToInspect
  <2>4. begun.directive => Cardinality(untold) <= begun.faults - faults
    BY <2>1, <2>3 DEF AnsweredInv
  <2> HIDE DEF Handed, untold
  <2>5. \A c \in Unsatisfied(begun.gate) :
          /\ Cardinality(Answers(r, c)) = 1
          /\ "expert" \in Answers(r, c) <=> Handed(c) # {}
          /\ "owner" \in Answers(r, c) <=> HandedUp(r, c)
    BY <2>1, <2>2 DEF Answered
  <2>6. \A c \in DOMAIN begun.gate \ Unsatisfied(begun.gate) :
          Handed(c) \subseteq {"GateTriage"} /\ Answers(r, c) = {} /\ ~HandedUp(r, c)
    BY <2>1, <2>2 DEF Answered
  <2>7. /\ Len(r.moves) = Cardinality({c \in Unsatisfied(begun.gate) : Answers(r, c) = {"own"}})
        /\ FixOrOwn
    BY <2>1 DEF Answered, Own, FixOrOwn
  <2> QED
    BY <2>4, <2>5, <2>6, <2>7 DEF ChecksAreAnswered, Handed, untold, Answers, HandedUp, Lanes
<1> QED
  BY <1>1, <1>2, <1>3, PTL DEF Spec

-----------------------------------------------------------------------------
(***************************************************************************)
(* Admission: what EvaluateAdmission promises, for every policy, request,  *)
(* snapshot and time.  Nothing here depends on what a commit id is.        *)
(***************************************************************************)
CONSTANT Sha

\* The same evidence, and no more load.
Lighter(light, heavy) ==
  /\ light.captured_at = heavy.captured_at
  /\ light.data_complete = heavy.data_complete
  /\ light.observed_head_sha = heavy.observed_head_sha
  /\ light.estate_inflight <= heavy.estate_inflight
  /\ light.repository_inflight <= heavy.repository_inflight
  /\ light.estate_open_automation_prs <= heavy.estate_open_automation_prs
  /\ light.repository_open_automation_prs <= heavy.repository_open_automation_prs
  /\ light.reserved_minutes_today <= heavy.reserved_minutes_today

\* The same evidence, and no load.
Drained(snapshot) ==
  [captured_at |-> snapshot.captured_at,
   data_complete |-> snapshot.data_complete,
   observed_head_sha |-> snapshot.observed_head_sha,
   estate_inflight |-> 0, repository_inflight |-> 0,
   estate_open_automation_prs |-> 0, repository_open_automation_prs |-> 0,
   reserved_minutes_today |-> 0]

\* The policy leaves room for one piece of work.
HasRoom(policy) ==
  /\ policy.max_inflight_estate > 0
  /\ policy.max_inflight_repository > 0
  /\ policy.max_open_automation_prs_estate > 0
  /\ policy.max_open_automation_prs_repository > 0

\* The widths are numbers; nothing else is used of them.
LEMMA Widths == MaxU32 \in Nat /\ MaxU64 \in Nat
BY SMT DEF MaxU32, MaxU64

\* The reserved minutes are a number, before any check.
LEMMA MinutesAreNat ==
  ASSUME NEW request \in Request(Sha)
  PROVE  ReservedMinutes(request.projected) \in Nat
<1> DEFINE cost == request.projected
<1>1. cost.runner_jobs \in Nat /\ cost.max_job_timeout_minutes \in Nat /\ cost.fixed_runner_minutes \in Nat
  BY Widths DEF Request, ProjectedCost, U32, U64
<1>2. \A a, b, c \in Nat : a * b + c \in Nat
  OBVIOUS
<1> QED
  BY <1>1, <1>2 DEF ReservedMinutes

\* A policy and a snapshot that are given are not missing.
LEMMA Given ==
  ASSUME NEW policy \in Policy, NEW snapshot \in Snapshot(Sha)
  PROVE  policy # Missing /\ snapshot # Missing
<1>1. "data_complete" \in DOMAIN snapshot /\ "max_inflight_estate" \in DOMAIN policy
  BY DEF Policy, Snapshot
<1>2. DOMAIN Missing = {"missing"}
  BY DEF Missing
<1> QED
  BY <1>1, <1>2

\* A reason that is not NoReason is one: the strings of a decision differ.
LEMMA Admitted ==
  ASSUME NEW policy, NEW request, NEW snapshot, NEW now
  PROVE  EvaluateAdmission(policy, request, snapshot, now).decision = "Admit" <=>
           /\ Evidence(policy, request, snapshot, now) = NoReason
           /\ Risk(policy, request) = NoReason
           /\ Shortage(policy, request, snapshot) = NoReason
BY DEF EvaluateAdmission, Admit, Deny, Quarantine, Queue

\* Load only hurts: what is admitted is admitted, with the same reservation, by
\* every snapshot of the same evidence with no more in flight, open or reserved
\* (evaluate_admission; a stale high count can delay work and never admit it).
THEOREM LoadOnlyHurts ==
  ASSUME NEW policy \in Policy, NEW request \in Request(Sha), NEW now \in U64,
         NEW heavy \in Snapshot(Sha), NEW light \in Snapshot(Sha), Lighter(light, heavy),
         EvaluateAdmission(policy, request, heavy, now).decision = "Admit"
  PROVE  EvaluateAdmission(policy, request, light, now)
           = EvaluateAdmission(policy, request, heavy, now)
<1>1. /\ Evidence(policy, request, heavy, now) = NoReason
      /\ Risk(policy, request) = NoReason
      /\ Shortage(policy, request, heavy) = NoReason
  BY Admitted
<1> DEFINE minutes == ReservedMinutes(request.projected)
<1>2. minutes \in Nat
  BY MinutesAreNat
<1>3. light.reserved_minutes_today + minutes <= heavy.reserved_minutes_today + minutes
  BY Widths, <1>2 DEF Lighter, Snapshot, U64
<1>4. DayAfter(request, light) <= DayAfter(request, heavy)
      /\ DayAfter(request, light) \in Nat /\ DayAfter(request, heavy) \in Nat
  BY Widths, <1>2, <1>3 DEF DayAfter, Snapshot, U64
<1>5. Evidence(policy, request, light, now) = NoReason
  BY Widths, <1>1, <1>4, Given DEF Evidence, NoReason, Lighter
<1>6. Shortage(policy, request, light) = NoReason
  BY Widths, <1>1, <1>4 DEF Shortage, NoReason, Lighter, Snapshot, Policy, U32, U64
<1> QED
  BY <1>1, <1>5, <1>6 DEF EvaluateAdmission

\* The reservation of an admitted request is within the cap of a change, keeps
\* the day's sum within the day's cap, and no sum overflowed on the way: the
\* checked sums of the code and those of the integers agree.
THEOREM ReservationFits ==
  ASSUME NEW policy \in Policy, NEW request \in Request(Sha), NEW now \in U64,
         NEW snapshot \in Snapshot(Sha),
         EvaluateAdmission(policy, request, snapshot, now).decision = "Admit"
  PROVE  LET minutes == EvaluateAdmission(policy, request, snapshot, now).reserved_minutes
         IN  /\ minutes = ReservedMinutes(request.projected)
             /\ minutes \in 0..policy.max_reserved_minutes_per_change
             /\ snapshot.reserved_minutes_today + minutes \in 0..policy.max_reserved_minutes_per_day
             /\ request.projected.runner_jobs * request.projected.max_job_timeout_minutes \in U64
<1>1. /\ Evidence(policy, request, snapshot, now) = NoReason
      /\ Risk(policy, request) = NoReason
      /\ Shortage(policy, request, snapshot) = NoReason
  BY Admitted
<1> DEFINE minutes == ReservedMinutes(request.projected)
           jobs    == request.projected.runner_jobs
           each    == request.projected.max_job_timeout_minutes
           fixed   == request.projected.fixed_runner_minutes
<1>2. minutes \in Nat /\ snapshot.reserved_minutes_today \in Nat
  BY Widths, MinutesAreNat DEF Snapshot, U64
<1>3. EvaluateAdmission(policy, request, snapshot, now) = Admit(minutes)
  BY <1>1 DEF EvaluateAdmission
<1>4. minutes <= policy.max_reserved_minutes_per_change
  BY Widths, <1>1, <1>2 DEF Shortage, NoReason, Policy, U64
<1>5. DayAfter(request, snapshot) <= policy.max_reserved_minutes_per_day
  BY Widths, <1>1, <1>2 DEF Shortage, NoReason, DayAfter, Policy, U64
<1>6. jobs * each \in U64
  <2>1. jobs \in Nat /\ each \in Nat /\ fixed \in Nat
    BY Widths DEF Request, ProjectedCost, U32, U64
  <2>2. jobs * each \in Nat
    BY <2>1
  <2>3. minutes = jobs * each + fixed
    BY DEF ReservedMinutes
  <2>4. policy.max_reserved_minutes_per_change \in U64
    BY DEF Policy
  <2> HIDE DEF jobs, each, fixed, minutes
  <2> QED
    BY Widths, <1>2, <1>4, <2>1, <2>2, <2>3, <2>4 DEF U64
<1> QED
  BY Widths, <1>2, <1>3, <1>4, <1>5, <1>6 DEF Admit, DayAfter, Policy, U64

\* What is denied stays denied when the load drains, whatever the reason, but
\* for the overflow of the day's sum (admission.rs: a malformed request "must not
\* become eligible merely because a queue later drains").
THEOREM DenialOutlivesLoad ==
  ASSUME NEW policy \in Policy, NEW request \in Request(Sha), NEW now \in U64,
         NEW snapshot \in Snapshot(Sha),
         Evidence(policy, request, snapshot, now) # NoReason,
         \/ Evidence(policy, request, snapshot, now) # "CostOverflow"
         \/ ReservedMinutes(request.projected) > MaxU64
  PROVE  EvaluateAdmission(policy, request, Drained(snapshot), now)
           = EvaluateAdmission(policy, request, snapshot, now)
<1> DEFINE idle == Drained(snapshot)
<1>1. /\ idle \in Snapshot(Sha)
      /\ idle.captured_at = snapshot.captured_at
      /\ idle.data_complete = snapshot.data_complete
      /\ idle.observed_head_sha = snapshot.observed_head_sha
      /\ idle.reserved_minutes_today = 0
  BY Widths DEF Drained, Snapshot, U32, U64
<1>2. ReservedMinutes(request.projected) \in Nat
  BY MinutesAreNat
<1>3. DayAfter(request, idle) = ReservedMinutes(request.projected)
  BY <1>1, <1>2 DEF DayAfter
<1>4. Evidence(policy, request, idle, now) = Evidence(policy, request, snapshot, now)
  <2> HIDE DEF idle
  <2> QED
    BY Widths, <1>1, <1>3, Given DEF Evidence, NoReason
<1> QED
  BY <1>4 DEF EvaluateAdmission

\* The one denial that draining cures: the cost fits, and so does nothing beside
\* it.  A full ledger denies where it would queue at any smaller sum.
THEOREM OverflowOfTheDayDrains ==
  ASSUME NEW policy \in Policy, NEW request \in Request(Sha), NEW now \in U64,
         NEW snapshot \in Snapshot(Sha),
         Evidence(policy, request, snapshot, now) = "CostOverflow",
         ReservedMinutes(request.projected) <= MaxU64
  PROVE  /\ EvaluateAdmission(policy, request, snapshot, now) = Deny("CostOverflow")
         /\ Evidence(policy, request, Drained(snapshot), now) = NoReason
<1> DEFINE idle == Drained(snapshot)
<1>1. /\ idle \in Snapshot(Sha)
      /\ idle.captured_at = snapshot.captured_at
      /\ idle.data_complete = snapshot.data_complete
      /\ idle.observed_head_sha = snapshot.observed_head_sha
      /\ idle.reserved_minutes_today = 0
  BY Widths DEF Drained, Snapshot, U32, U64
<1>2. ReservedMinutes(request.projected) \in Nat
  BY MinutesAreNat
<1>3. DayAfter(request, idle) = ReservedMinutes(request.projected)
  BY <1>1, <1>2 DEF DayAfter
<1>4. Evidence(policy, request, idle, now) = NoReason
  <2> HIDE DEF idle
  <2> QED
    BY Widths, <1>1, <1>2, <1>3, Given DEF Evidence, NoReason
<1> QED
  BY <1>4 DEF EvaluateAdmission, NoReason

\* Which queued work can start one day, under a policy with room for one piece of
\* work: exactly what is within the cap of a change and of a day.  The rest is
\* called Queue all the same, and waits for ever (AdmissionDecision::Queue, "until
\* transient capacity becomes available").
THEOREM QueueDrainsUnlessOversized ==
  ASSUME NEW policy \in Policy, NEW request \in Request(Sha), NEW now \in U64,
         NEW snapshot \in Snapshot(Sha), HasRoom(policy),
         EvaluateAdmission(policy, request, snapshot, now).decision = "Queue"
  PROVE  EvaluateAdmission(policy, request, Drained(snapshot), now).decision = "Admit" <=>
           /\ ReservedMinutes(request.projected) <= policy.max_reserved_minutes_per_change
           /\ ReservedMinutes(request.projected) <= policy.max_reserved_minutes_per_day
<1> DEFINE idle == Drained(snapshot)
           minutes == ReservedMinutes(request.projected)
<1>1. /\ idle \in Snapshot(Sha)
      /\ idle.captured_at = snapshot.captured_at
      /\ idle.data_complete = snapshot.data_complete
      /\ idle.observed_head_sha = snapshot.observed_head_sha
      /\ idle.estate_inflight = 0
      /\ idle.repository_inflight = 0
      /\ idle.estate_open_automation_prs = 0
      /\ idle.repository_open_automation_prs = 0
      /\ idle.reserved_minutes_today = 0
  BY Widths DEF Drained, Snapshot, U32, U64
<1>2. minutes \in Nat /\ snapshot.reserved_minutes_today \in Nat
  BY Widths, MinutesAreNat DEF Snapshot, U64
<1> HIDE DEF idle, minutes
<1>3. DayAfter(request, idle) = minutes
  BY <1>1, <1>2 DEF DayAfter, minutes
<1>4. /\ Evidence(policy, request, snapshot, now) = NoReason
      /\ Risk(policy, request) = NoReason
  BY DEF EvaluateAdmission, Admit, Deny, Quarantine, Queue
<1>5. minutes <= DayAfter(request, snapshot)
  BY <1>2 DEF DayAfter, minutes
<1>6. Evidence(policy, request, idle, now) = NoReason
  BY Widths, <1>1, <1>2, <1>3, <1>4, <1>5, Given DEF Evidence, NoReason, DayAfter, minutes
<1>7. Shortage(policy, request, idle) = NoReason <=>
        /\ minutes <= policy.max_reserved_minutes_per_change
        /\ minutes <= policy.max_reserved_minutes_per_day
  BY Widths, <1>1, <1>2, <1>3
  DEF Shortage, NoReason, HasRoom, Policy, U32, U64, minutes
<1> QED
  BY <1>4, <1>6, <1>7, Admitted DEF idle, minutes
=============================================================================
