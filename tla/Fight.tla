---------------------------------- MODULE Fight ----------------------------------
(***************************************************************************)
(* `squabble fight [--apply] [--summon]`: a process that takes the gate of *)
(* a pull request, reads the workflow files of a checkout one after the    *)
(* other, plans, inspects green checks, strips path filters in place and   *)
(* asks experts.  Somebody else edits the same files while it works; any   *)
(* call may fail.                                                          *)
(*                                                                         *)
(* Sources: crates/squabble-cli/src/fight.rs (the process),                *)
(* crates/squabble-fight/src/apply.rs (the writes) and                     *)
(* crates/squabble-cli/src/boj.rs (the experts).                           *)
(***************************************************************************)
EXTENDS FightPlan

CONSTANTS
  Situations,  \* gates, checkouts, arguments and bounds at first
  Edits(_)     \* what somebody else makes of the trigger of a file

\* `refused`: required checks whose run refused to start; `greens`: checks that
\* passed and whose steps can be asked for, `vacuous` those whose steps say that
\* nothing was done; `directive`: the checkout has a usable triage directive.
Situation(s) ==
  /\ DOMAIN s.gate \subseteq Context /\ IsFiniteSet(DOMAIN s.gate)
  /\ s.gate \in [DOMAIN s.gate -> CheckRun]
  /\ s.refused \subseteq {c \in DOMAIN s.gate : s.gate[c] = "Failed"}
  /\ s.posture \in Posture \cup {NoPosture} /\ (s.refused = {} => s.posture = NoPosture)
  /\ s.greens \in Seq({c \in DOMAIN s.gate : Satisfied(s.gate[c])})
  /\ s.vacuous \subseteq SetOf(s.greens)
  /\ s.tree \in Tree /\ \A f \in File : s.tree.files[f].body = 0
  /\ s.context \in RepoContext
  /\ {s.directive, s.rooted, s.apply, s.summon, s.boj} \subseteq BOOLEAN
  /\ ~s.rooted => s.tree.present = {} /\ s.tree.agpl = {} /\ ~s.directive /\ ~s.context.found
  /\ {s.changes, s.faults} \subseteq Nat

ASSUME SituationAssumption == \A s \in Situations : Situation(s)
ASSUME EditsAssumption == \A t \in Trigger : Edits(t) \subseteq Trigger

VARIABLES
  begun,    \* the situation
  tree,     \* the checkout
  changes,  \* edits left to somebody else
  faults,   \* failures left
  pc,       \* where the process is
  unread,   \* listed files that were not read yet
  facts,    \* WorkflowFacts: the files that were read
  report,   \* the report under construction
  next,     \* index of the green, the move or the escalation at hand
  text,     \* the stripped text of the file at hand
  exit,     \* exit code, or -1
  \* history
  edited,   \* per file the edits of somebody else
  raced,    \* files edited or removed between a read and a write of the process
  wrote,    \* files the process wrote
  damaged,  \* files a write of the process left in part
  answers   \* escalations an expert answered without an error

process == <<pc, unread, facts, report, next, text, exit>>
vars    == <<begun, tree, changes, faults, process, edited, raced, wrote, damaged, answers>>

NoText  == [none |-> TRUE]
NoPlan  == [none |-> TRUE]

\* What a write that fails half-way leaves: nothing before `jobs:`, no jobs.
Truncated(w) ==
  [w EXCEPT !.pull = "off", !.push = "off", !.jobs = {}, !.title = NoTitle,
            !.uses = <<>>, !.body = 0]

Init ==
  \E s \in Situations :
    /\ begun = s /\ tree = s.tree /\ changes = s.changes /\ faults = s.faults
    /\ pc = "load" /\ unread = {} /\ facts = <<>> /\ report = NoPlan
    /\ next = 1 /\ text = NoText /\ exit = 0 - 1
    /\ edited = [f \in File |-> 0] /\ raced = {} /\ wrote = {}
    /\ damaged = {} /\ answers = {}

-----------------------------------------------------------------------------
(***************************************************************************)
(* Somebody else.                                                          *)
(***************************************************************************)
AtHand == IF pc = "write" THEN {report.moves[next].workflow} ELSE {}

Meanwhile(f) ==
  /\ exit < 0 /\ changes > 0 /\ f \in tree.present
  /\ changes' = changes - 1
  /\ raced' = raced \cup ({f} \cap AtHand)
  /\ UNCHANGED <<begun, faults, process, wrote, damaged, answers>>

\* An edit leaves its mark in the rest of the text.
Edit(f) ==
  /\ Meanwhile(f)
  /\ edited' = [edited EXCEPT ![f] = @ + 1]
  /\ \E t \in Edits(tree.files[f].pull) :
       tree' = [tree EXCEPT !.files[f].pull = t, !.files[f].body = @ + 1]

Unlink(f) ==
  /\ Meanwhile(f)
  /\ tree' = [tree EXCEPT !.present = @ \ {f}]
  /\ UNCHANGED edited

-----------------------------------------------------------------------------
(***************************************************************************)
(* The process.                                                            *)
(***************************************************************************)
World   == <<begun, tree, changes, edited, raced>>
Fault   == faults > 0 /\ faults' = faults - 1
NoFault == UNCHANGED faults

Goes(place) == pc' = place /\ next' = 1

\* The gate cannot be had: exit 2, or 3 if there is none.
LoadFails ==
  /\ pc = "load" /\ Fault
  /\ exit' \in {2, 3} /\ pc' = "end"
  /\ UNCHANGED <<World, unread, facts, report, next, text, wrote, damaged, answers>>

\* The gate is at hand; the workflow directory is listed.
List ==
  /\ pc = "load" /\ NoFault
  /\ Goes("read")
  /\ unread' = tree.present
  /\ UNCHANGED <<World, facts, report, text, exit, wrote, damaged, answers>>

\* The files are read in order; one that cannot be, or is gone, is skipped
\* without a word.
ReadFile ==
  /\ pc = "read" /\ unread # {}
  /\ unread' = unread \ {Least(unread)}
  /\ \/ /\ Least(unread) \in tree.present /\ NoFault
        /\ facts' = [f \in DOMAIN facts \cup {Least(unread)} |->
                       IF f = Least(unread) THEN tree.files[f] ELSE facts[f]]
     \/ /\ Least(unread) \in tree.present /\ Fault
        /\ UNCHANGED facts
     \/ /\ Least(unread) \notin tree.present /\ NoFault
        /\ UNCHANGED facts
  /\ UNCHANGED <<World, pc, report, next, text, exit, wrote, damaged, answers>>

AfterGreens == IF begun.apply THEN "apply" ELSE "summon"

MakePlan ==
  /\ pc = "read" /\ unread = {} /\ NoFault
  /\ report' = Plan(begun.gate, facts, tree, begun.context, begun.posture, begun.refused)
  /\ Goes(IF begun.directive THEN "greens" ELSE AfterGreens)
  /\ UNCHANGED <<World, unread, facts, text, exit, wrote, damaged, answers>>

Add(section, entry) == [report EXCEPT ![section] = Append(@, entry)]
Tell(check, what)   == [report EXCEPT !.blockers = @ \cup {Blocker(check, what)}]

\* The steps of a green check cannot be had: it is not judged, on stderr.  A
\* vacuous green is one more escalation.
InspectGreen ==
  /\ pc = "greens" /\ next <= Len(begun.greens)
  /\ next' = next + 1
  /\ LET check == begun.greens[next]
     IN  \/ NoFault /\ check \in begun.vacuous
            /\ report' = Add("escalations", Escalation(check, "GateTriage"))
         \/ NoFault /\ check \notin begun.vacuous /\ UNCHANGED report
         \/ Fault /\ UNCHANGED report
  /\ UNCHANGED <<World, pc, unread, facts, text, exit, wrote, damaged, answers>>

GreensEnd ==
  /\ pc = "greens" /\ next > Len(begun.greens) /\ NoFault
  /\ Goes(AfterGreens)
  /\ UNCHANGED <<World, unread, facts, report, text, exit, wrote, damaged, answers>>

-----------------------------------------------------------------------------
(***************************************************************************)
(* --apply: a read, then a write, per move.                                *)
(***************************************************************************)
Appliable(m) == m.move = "InjectPathFilterPassThrough"

Mine == report.moves[next]

\* Another move of the lane is only proposed.
PassOver ==
  /\ pc = "apply" /\ next <= Len(report.moves) /\ ~Appliable(Mine) /\ NoFault
  /\ next' = next + 1
  /\ UNCHANGED <<World, pc, unread, facts, report, text, exit, wrote, damaged, answers>>

\* Mutant: the text the plan was made from is what is stripped.
StripPlanned ==
  /\ pc = "apply" /\ next <= Len(report.moves) /\ Appliable(Mine)
  /\ LET f == Mine.workflow
     IN  \/ /\ f \in tree.present /\ PathFiltered(facts[f]) /\ NoFault
            /\ text' = RemoveOnPaths(facts[f]) /\ pc' = "write"
            /\ UNCHANGED <<report, next>>
         \/ /\ (f \notin tree.present /\ NoFault) \/ Fault
            /\ report' = Tell(Mine.check, "skipped")
            /\ next' = next + 1 /\ UNCHANGED <<text, pc>>
  /\ UNCHANGED <<World, unread, facts, exit, wrote, damaged, answers>>

\* The file is read again.  If it cannot be read, or nothing is left to strip,
\* the move is skipped with a blocker.
ReadStrip ==
  /\ pc = "apply" /\ next <= Len(report.moves) /\ Appliable(Mine)
  /\ LET f == Mine.workflow
     IN  \/ /\ f \in tree.present /\ PathFiltered(tree.files[f]) /\ NoFault
            /\ text' = RemoveOnPaths(tree.files[f]) /\ pc' = "write"
            /\ UNCHANGED <<report, next>>
         \/ /\ \/ (f \notin tree.present \/ ~PathFiltered(tree.files[f])) /\ NoFault
               \/ Fault
            /\ report' = Tell(Mine.check, "skipped")
            /\ next' = next + 1 /\ UNCHANGED <<text, pc>>
  /\ UNCHANGED <<World, unread, facts, exit, wrote, damaged, answers>>

Holds(f, w) == tree' = [tree EXCEPT !.present = @ \cup {f}, !.files[f] = w]

\* Mutant: an edit is claimed before the write is known to have succeeded.
WriteClaimed ==
  /\ pc = "write"
  /\ LET f == Mine.workflow
     IN  /\ report' = Add("applied", [check |-> Mine.check, file |-> f])
         /\ \/ NoFault /\ Holds(f, text) /\ wrote' = wrote \cup {f} /\ UNCHANGED damaged
            \/ Fault /\ Holds(f, Truncated(text)) /\ damaged' = damaged \cup {f} /\ UNCHANGED wrote
            \/ Fault /\ UNCHANGED <<tree, wrote, damaged>>
  /\ pc' = "apply" /\ next' = next + 1 /\ text' = NoText
  /\ UNCHANGED <<begun, changes, edited, raced, unread, facts, exit, answers>>

\* The whole text is written back, over whatever is there now; a file that was
\* removed is there again.  A write that fails may have emptied the file.
WriteStrip ==
  /\ pc = "write"
  /\ LET f == Mine.workflow
     IN  \/ /\ NoFault /\ Holds(f, text)
            /\ wrote' = wrote \cup {f} /\ UNCHANGED damaged
            /\ report' = Add("applied", [check |-> Mine.check, file |-> f])
         \/ /\ Fault /\ Holds(f, Truncated(text))
            /\ damaged' = damaged \cup {f} /\ UNCHANGED wrote
            /\ report' = Tell(Mine.check, "skipped")
         \/ /\ Fault /\ UNCHANGED <<tree, wrote, damaged>>
            /\ report' = Tell(Mine.check, "skipped")
  /\ pc' = "apply" /\ next' = next + 1 /\ text' = NoText
  /\ UNCHANGED <<begun, changes, edited, raced, unread, facts, exit, answers>>

ApplyEnds ==
  /\ pc = "apply" /\ next > Len(report.moves) /\ NoFault
  /\ Goes("summon")
  /\ report' = IF report.applied = <<>> THEN report ELSE Tell(0, "applied")
  /\ UNCHANGED <<World, unread, facts, text, exit, wrote, damaged, answers>>

-----------------------------------------------------------------------------
(***************************************************************************)
(* --summon: the health of the server, then one call per escalation.       *)
(***************************************************************************)
\* This build has no client: exit 2, and no report is printed.
Refuse ==
  /\ pc = "summon" /\ begun.summon /\ ~begun.boj /\ NoFault
  /\ exit' = 2 /\ pc' = "end"
  /\ UNCHANGED <<World, unread, facts, report, next, text, wrote, damaged, answers>>

Noted(i, mark) == [report EXCEPT !.escalations[i].evidence = Append(@, mark)]

NotedAll(mark) ==
  LET Told(e) == [e EXCEPT !.evidence = Append(@, mark)]
  IN  [report EXCEPT
         !.escalations = [i \in DOMAIN report.escalations |-> Told(report.escalations[i])],
         !.blockers = @ \cup {Blocker(0, "unreachable")}]

\* Nothing to ask, an unreachable server (told once, and at each escalation), or
\* the calls may start.
Health ==
  /\ pc = "summon" /\ begun.summon /\ begun.boj
  /\ \/ /\ report.escalations = <<>> /\ NoFault
        /\ report' = Tell(0, "nothing_to_summon_for") /\ Goes("print")
     \/ /\ report.escalations # <<>> /\ Fault
        /\ report' = NotedAll("unreachable") /\ Goes("print")
     \/ /\ report.escalations # <<>> /\ NoFault
        /\ UNCHANGED report /\ Goes("invoke")
  /\ UNCHANGED <<World, unread, facts, text, exit, wrote, damaged, answers>>

Verdict(e, ok) == [check |-> e.check, group |-> e.group, ok |-> ok]

\* What a call leaves in the report.
Heard(i, mark, ok) ==
  [Noted(i, mark) EXCEPT !.verdicts = Append(@, Verdict(report.escalations[i], ok)),
                         !.blockers = @ \cup {Blocker(report.escalations[i].check, mark)}]

\* Mutant: an answer is a verdict, whatever its body says.
InvokeTrusting ==
  /\ pc = "invoke" /\ next <= Len(report.escalations)
  /\ next' = next + 1
  /\ LET e == report.escalations[next]
     IN  \/ e.group = "GateTriage" /\ NoFault
            /\ report' = Heard(next, "no_cartridge", FALSE) /\ UNCHANGED answers
         \/ e.group # "GateTriage" /\ NoFault
            /\ report' = Heard(next, "ok", TRUE) /\ answers' = answers \cup {next}
         \/ e.group # "GateTriage" /\ Fault
            /\ report' = Heard(next, "ok", TRUE) /\ UNCHANGED answers
  /\ UNCHANGED <<World, pc, unread, facts, text, exit, wrote, damaged>>

\* The expert groups that have a cartridge.
Routed(e) == e.group # "GateTriage"

\* No path to send, a group without a cartridge, an answer, or a failure: a
\* status, a timeout, or an error inside an answer.
Invoke ==
  /\ pc = "invoke" /\ next <= Len(report.escalations)
  /\ next' = next + 1
  /\ LET e == report.escalations[next]
     IN  \/ ~begun.rooted /\ NoFault
            /\ report' = [Noted(next, "no_path") EXCEPT
                            !.blockers = @ \cup {Blocker(e.check, "no_path")}]
            /\ UNCHANGED answers
         \/ begun.rooted /\ ~Routed(e) /\ NoFault
            /\ report' = Heard(next, "no_cartridge", FALSE) /\ UNCHANGED answers
         \/ begun.rooted /\ Routed(e) /\ NoFault
            /\ report' = Heard(next, "ok", TRUE) /\ answers' = answers \cup {next}
         \/ begun.rooted /\ Routed(e) /\ Fault
            /\ report' = Heard(next, "failed", FALSE) /\ UNCHANGED answers
  /\ UNCHANGED <<World, pc, unread, facts, text, exit, wrote, damaged>>

InvokeEnds ==
  /\ pc = "invoke" /\ next > Len(report.escalations) /\ NoFault
  /\ Goes("print")
  /\ UNCHANGED <<World, unread, facts, report, text, exit, wrote, damaged, answers>>

\* The report is printed, and the process ends with 0: red is not a failure.
PrintReport ==
  /\ pc = "print" \/ (pc = "summon" /\ ~begun.summon)
  /\ NoFault
  /\ exit' = 0 /\ pc' = "end"
  /\ UNCHANGED <<World, unread, facts, report, next, text, wrote, damaged, answers>>

Finished == exit >= 0 /\ UNCHANGED vars

Process ==
  \/ LoadFails \/ List \/ ReadFile \/ MakePlan \/ InspectGreen \/ GreensEnd
  \/ PassOver \/ ReadStrip \/ WriteStrip \/ ApplyEnds
  \/ Refuse \/ Health \/ Invoke \/ InvokeEnds \/ PrintReport

Next ==
  \/ Process
  \/ \E f \in File : Edit(f) \/ Unlink(f)
  \/ Finished

Spec == Init /\ [][Next]_vars

-----------------------------------------------------------------------------
(***************************************************************************)
(* Properties.                                                             *)
(***************************************************************************)
Printed == exit = 0

Skipped == {m.workflow : m \in {n \in SetOf(report.moves) :
              Appliable(n) /\ Blocker(n.check, "skipped") \in report.blockers}}

\* A printed report is true to the tree: under `applied` are the files that the
\* process wrote in full and no others, and a file that a failed write left in
\* part is told in the blocker of a skipped move (fight.rs, apply.rs).
ReportIsTheTree ==
  Printed => /\ {a.file : a \in SetOf(report.applied)} = wrote
             /\ damaged \subseteq Skipped

\* An edit of somebody else is lost only if it came between the read and the
\* write of one strip, whatever the plan had read before (apply.rs).
OnlyARaceLosesAnEdit ==
  \A f \in tree.present \ (raced \cup damaged) : tree.files[f].body = edited[f]

\* Every escalation of a plan is in the printed report and, if experts were
\* asked, carries one mark: what came of it.  It has a verdict unless no call
\* could be made, and the verdict is good only if an expert answered so (boj.rs).
EveryEscalationIsClosed ==
  Printed /\ begun.summon =>
    LET Marked(mark) == {i \in DOMAIN report.escalations :
                           report.escalations[i].evidence = <<mark>>}
        called == Marked("ok") \cup Marked("failed") \cup Marked("no_cartridge")
    IN  /\ DOMAIN report.escalations =
             called \cup Marked("unreachable") \cup Marked("no_path")
        /\ Marked("ok") = answers
        /\ Len(report.verdicts) = Cardinality(called)
        /\ Cardinality({v \in DOMAIN report.verdicts : report.verdicts[v].ok})
             = Cardinality(answers)

\* A filter that the squabbler strips itself is not put to an owner as well.
FixOrOwn ==
  \A m \in SetOf(report.moves), a \in SetOf(report.assignments) :
    Appliable(m) /\ a.why = "PathTrap" => m.workflow \notin a.subject

\* Each check that is not satisfied is in exactly one section of the printed
\* report, and a satisfied one is escalated only as vacuous; a vacuous green is
\* missing only if its inspection failed, and no filter is both fixed and owned
\* (outcome.rs: "nothing is silently dropped"; lib.rs, fight.rs).
ChecksAreAnswered ==
  Printed =>
    LET Answer(c)   == {s \in {"own", "expert", "owner"} : Blocker(c, s) \in report.blockers}
        Handed(c)   == {e.group : e \in {x \in SetOf(report.escalations) : x.check = c}}
        HandedUp(c) == \E a \in SetOf(report.assignments) : a.check = c /\ a.why = "OwnedUpstream"
        untold      == {c \in begun.vacuous : "GateTriage" \notin Handed(c)}
    IN  /\ \A c \in Unsatisfied(begun.gate) :
             /\ Cardinality(Answer(c)) = 1
             /\ "expert" \in Answer(c) <=> Handed(c) # {}
             /\ "owner" \in Answer(c) <=> HandedUp(c)
        /\ \A c \in DOMAIN begun.gate \ Unsatisfied(begun.gate) :
             Handed(c) \subseteq {"GateTriage"} /\ Answer(c) = {} /\ ~HandedUp(c)
        /\ Len(report.moves) =
             Cardinality({c \in Unsatisfied(begun.gate) : Answer(c) = {"own"}})
        /\ FixOrOwn
        /\ begun.directive => Cardinality(untold) <= begun.faults - faults

\* Refuted: an upstream owner is a repository (workflows.rs: "the job delegates to
\* a reusable workflow living in another repo").
UpstreamIsARepository ==
  report # NoPlan =>
    \A a \in SetOf(report.assignments) : a.why = "OwnedUpstream" => a.owner \in Repo
=============================================================================
