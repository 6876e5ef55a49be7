-------------------------------- MODULE Startup --------------------------------
(***************************************************************************)
(* Why a run died before any job existed, as operators: which coordinates  *)
(* the caller's allow-list admits, what a coordinate's canonical name says *)
(* of it, and the cause and the move that follow.                          *)
(*                                                                         *)
(* A pattern of an allow-list stands for the names it covers; a coordinate *)
(* is a `uses:` reference of ChainGraph, its pin kept.                     *)
(*                                                                         *)
(* Sources: crates/squabble-core/src/startup.rs and                        *)
(* crates/squabble-fight/src/startup.rs.                                   *)
(***************************************************************************)
EXTENDS ChainGraph

CONSTANT GithubOwned   \* the names of actions/* and github/*

NoRepo == 0
NoPattern == {}
NoUse == [to |-> NoRepo]

Pattern == SUBSET Repo \ {{}}

AllowList == [patterns : SUBSET Pattern, github : BOOLEAN, verified : BOOLEAN]

\* The posture is not `selected`, or it could not be read.
NoList == [none |-> TRUE]

Named(is) == [is |-> is, canonical |-> NoRepo]
MovedTo(n) == [is |-> "Moved", canonical |-> n]

-----------------------------------------------------------------------------
(***************************************************************************)
(* The allow-list: a rule of names, whatever the pin.                      *)
(***************************************************************************)
Covers(list, name) ==
  \/ list.github /\ name \in GithubOwned
  \/ \E p \in list.patterns : name \in p

\* The pattern an owner must add, never a broader one.
MissingPattern(list, name) ==
  IF list = NoList THEN NoPattern
  ELSE IF Covers(list, name) THEN NoPattern ELSE {name}

\* Mutant: what no pattern covers is refused, whatever the posture.
AdmissionDecided(list, name, isAction) == FALSE

\* An action of a verified creator needs no pattern, and who is verified cannot
\* be told.
AdmissionUnknown(list, name, isAction) ==
  /\ list # NoList
  /\ isAction /\ list.verified /\ ~Covers(list, name)

-----------------------------------------------------------------------------
(***************************************************************************)
(* One coordinate.                                                         *)
(***************************************************************************)
IsAction(use) == use.call = NoFile

Attribution(workflow, use, canonical, pattern, class) ==
  [workflow |-> workflow, coordinate |-> use, canonical |-> canonical,
   pattern |-> pattern, class |-> class]

\* The name that must be admitted: the canonical one.
Effective(use, resolution) ==
  IF resolution.is = "Moved" THEN resolution.canonical ELSE use.to

\* A dead name first, then a moved reusable workflow, then what the allow-list
\* says of the name it resolves to.
AttributeZeroJob(workflow, use, resolution, list) ==
  LET name    == Effective(use, resolution)
      pattern == MissingPattern(list, name)
      Says(canonical, shown, class) ==
        Attribution(workflow, use, canonical, shown, class)
      moved   == resolution.is = "Moved" /\ ~IsAction(use)
      refused == pattern # NoPattern /\ ~AdmissionUnknown(list, name, IsAction(use))
  IN  CASE resolution.is = "NotFound" -> Says(NoRepo, pattern, "Unattributed")
        [] moved -> Says(resolution.canonical, pattern, "MovedCoordinate")
        [] resolution.is # "NotFound" /\ ~moved /\ refused ->
             Says(resolution.canonical, pattern, "AllowListAdmissionRequired")
        [] OTHER -> Says(resolution.canonical, NoPattern, "Unattributed")

NoMove == [move |-> "none"]

\* The one move of a cause: the pin is carried, the pattern is the recorded one.
ProposedMove(a) ==
  CASE a.class = "MovedCoordinate" /\ a.canonical # NoRepo ->
         [move |-> "RepointToCanonical", written |-> a.coordinate,
          canonical |-> a.canonical, pin |-> a.coordinate.pin]
    [] a.class = "AllowListAdmissionRequired" /\ a.pattern # NoPattern ->
         [move |-> "AllowListAdmissionRequired", written |-> a.coordinate,
          canonical |-> IF a.canonical # NoRepo THEN a.canonical ELSE a.coordinate.to,
          pattern |-> a.pattern]
    [] OTHER -> NoMove

-----------------------------------------------------------------------------
(***************************************************************************)
(* One workflow, and one run.  A revision is a number; none is NoRev.      *)
(***************************************************************************)
SameRevision(a, b) == a = b /\ a # NoRev

\* A name that was not resolved counts as unverified.
ResolutionOf(names, name) ==
  IF name \in DOMAIN names THEN names[name] ELSE Named("Unverified")

AttributeWorkflow(workflow, uses, names, list) ==
  {AttributeZeroJob(workflow, u, ResolutionOf(names, u.to), list) : u \in ToSet(uses)}

\* No coordinate is blamed.
Unattributed(workflow) ==
  Attribution(workflow, NoUse, NoRepo, NoPattern, "Unattributed")

\* The file a run's path denotes: the only one whose name it is, alone or with
\* a ref behind it.  NoFile: none or several.
ResolveRunWorkflow(denoted, present) ==
  LET candidates == denoted \cap present
  IN  IF Cardinality(candidates) = 1 THEN CHOOSE f \in candidates : TRUE ELSE NoFile

\* No lock evidence.
NoLock == [status |-> "none"]

\* A malformed lock stands for itself; a mismatch counts where it names the file.
LockClass(lock, file) ==
  IF lock.status = "Malformed" THEN "InvalidActionsLock"
  ELSE IF lock.status = "CoverageMismatch" /\ file \in lock.bad THEN "ActionsLockMismatch"
  ELSE "none"

\* Mutant: the first cause found is enough.
OnlyTheFirst(all) ==
  LET causes == {a \in all : a.class # "Unattributed"}
  IN  IF causes = {} THEN {} ELSE {CHOOSE a \in causes : TRUE}

\* Causes found in a workflow: each of them.
Primary(all) == {a \in all : a.class # "Unattributed"}

\* Of a workflow with no cause: one of its non-answers.
Unexplained(all, file) ==
  IF all = {} THEN {Unattributed(file)} ELSE {CHOOSE a \in all : TRUE}

\* Only an observed zero count at the checkout's revision is attributed; lock
\* evidence of another revision says nothing, an unverified probe is kept
\* beside what the coordinates say.
AttributeRun(run, source, names, list, head, lock) ==
  LET file     == ResolveRunWorkflow(run.denoted, source.present)
      observed == run.jobs = 0 /\ SameRevision(run.head, head)
      bound    == observed /\ (lock # NoLock => SameRevision(lock.head, head))
      defect   == LockClass(lock, file)
      kept     == IF lock.status = "Unverified" THEN {Unattributed(NoFile)} ELSE {}
      all      == AttributeWorkflow(file, source.files[file], names, list)
  IN  CASE bound /\ defect # "none" -> {[Unattributed(file) EXCEPT !.class = defect]}
        [] bound /\ defect = "none" /\ file # NoFile ->
             kept \cup (IF Primary(all) # {} THEN Primary(all) ELSE Unexplained(all, file))
        [] OTHER -> {Unattributed(NoFile)}
=============================================================================
