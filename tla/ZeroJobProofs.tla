----------------------------- MODULE ZeroJobProofs -----------------------------
(***************************************************************************)
(* `squabble zero-job` beside a world that changes, for every repository,  *)
(* every set of runs, every policy and any number of failures: what its    *)
(* report may say.  The report is the last thing a process does and the    *)
(* world stops with it, so each property is one of the step that reports,  *)
(* and the invariant says what the evidence at hand is worth until then.   *)
(***************************************************************************)
EXTENDS ZeroJob, FiniteSetTheorems, WellFoundedInduction, TLAPS

\* What is kept of a candidate: its jobs may be uncounted.
Candidate ==
  [conclusion : {"startup_failure", "failure", "none"}, head : Rev \cup {NoRev},
   file : File, denoted : SUBSET File, jobs : Nat \cup {NotCounted}]

\* Where the candidates are all there, and where the ordinary ones are dropped.
Sifted == {"after", "verify", "native", "recheck", "permissions", "selected",
           "names", "owner", "report"}

Places == {"before", "snapshot", "listing", "jobs", "end"} \cup Sifted

\* A run never changes its workflow or its revision, and its workflow was there.
RunsAreRuns ==
  /\ runs \in [Run -> RunRecord]
  /\ \A i \in Run :
       /\ runs[i].file \in runs[i].denoted
       /\ runs[i].head # NoRev => runs[i].file \in TreeOf[runs[i].head].present

WorldType ==
  /\ checkout \in Checkout
  /\ policy \in Policy
  /\ home \in [Repo -> Repo \cup {NoRepo}]
  /\ changes \in Nat /\ switches \in Nat /\ faults \in Nat
  /\ touched \in [runs : SUBSET Run, names : SUBSET Repo, policy : BOOLEAN]

\* There is a report, or the process failed, only at its end.
Ending ==
  /\ pc \in Places
  /\ pc # "end" => exit = 0 - 1 /\ report = <<>>
  /\ pc = "end" => exit \in {0, 2, 4}
  /\ exit = 2 => report = <<>>

\* A candidate is the run it was read of; what a new attempt changed is all that
\* may differ.
CandidatesAreRuns ==
  \A i \in DOMAIN listed :
    /\ i \in Run
    /\ listed[i] \in Candidate
    /\ listed[i].head = runs[i].head /\ listed[i].denoted = runs[i].denoted
    /\ i \notin touched.runs =>
         /\ listed[i].conclusion = runs[i].conclusion
         /\ listed[i].jobs \in {NotCounted, runs[i].jobs}

\* A run that failed and was not run again is a candidate, until it is known to
\* be an ordinary failure with jobs.
OrdinaryFailure(i) == runs[i].conclusion = "failure" /\ runs[i].jobs > 0

NoneForgotten ==
  \A i \in Run \ touched.runs :
    Failed(i) /\ (pc = "jobs" \/ (pc \in Sifted /\ ~OrdinaryFailure(i))) => i \in DOMAIN listed

RunsInv ==
  /\ RunsAreRuns
  /\ WorldType
  /\ Ending
  /\ CandidatesAreRuns
  /\ NoneForgotten

\* With one change of the checkout at most, the snapshot is of the revision read
\* before it, or of what the checkout became; once the revision is established,
\* the snapshot is of it.
SourceIsHeads ==
  Bound =>
    /\ pc = "snapshot" /\ before # NoRev =>
         checkout.tree = before \/ switches = 1
    /\ pc \in {"listing", "jobs", "after"} /\ before # NoRev =>
         \/ source = TreeOf[before]
         \/ switches = 1 /\ source = TreeOf[checkout.tree]
    /\ pc \in Sifted \ {"after"} /\ head # NoRev => source = TreeOf[head]

\* The same of what the native verifier was run on.
LockIs(rev) == lock.status = LockOf[rev].status /\ lock.bad = LockOf[rev].bad

LockIsHeads ==
  /\ Bound /\ pc \in Sifted \ {"after", "verify", "native", "recheck"} =>
       \/ lock.status \in {"none", "Unverified"}
       \/ LockIs(head)
  /\ Bound /\ pc = "native" => checkout.tree = head \/ switches = 1
  /\ Bound /\ pc = "recheck" =>
       \/ lock.status = "Unverified"
       \/ LockIs(head)
       \/ switches = 1 /\ LockIs(checkout.tree)
  /\ pc \in {"after", "verify", "native"} => lock = NoLock

EvidenceType ==
  /\ before \in Rev \cup {NoRev}
  /\ head \in Rev \cup {NoRev}
  /\ source \in Source /\ IsFiniteSet(source.present)
  /\ pc \in {"before", "snapshot", "listing", "jobs"} => lock = NoLock
  /\ pc \in {"verify", "native", "recheck"} => head # NoRev

EvidenceInv == EvidenceType /\ SourceIsHeads /\ LockIsHeads

\* The list is the one of the policy, and every name leads where it was seen to
\* lead, unless they changed since.
ListIsPolicy ==
  list # NoList /\ ~touched.policy => policy.allowed = "selected" /\ list = policy.list

NamesLead ==
  \A n \in DOMAIN names :
    /\ n \in Repo
    /\ names[n].is # "Moved" => names[n].canonical = NoRepo
    /\ names[n].is = "Moved" => names[n].canonical \in Repo
    /\ names[n].is = "Moved" /\ n \notin touched.names =>
         home[n] = names[n].canonical /\ names[n].canonical # n

TargetsLeft ==
  /\ targets \subseteq Repo
  /\ pc = "owner" => targets # {}

NamesInv == ListIsPolicy /\ NamesLead /\ TargetsLeft

\* When nothing failed and nothing changed so far, the evidence is complete.
Undisturbed == changes = begun.changes /\ faults = begun.faults

Complete ==
  /\ begun \in Situation
  /\ changes <= begun.changes /\ faults <= begun.faults
  /\ changes = begun.changes => switches = 0
  /\ Undisturbed =>
       /\ pc \in {"names", "owner", "report"} =>
            \/ ~\E i \in DOMAIN listed : Matching(i, head)
            \/ /\ policy.allowed = "selected" => list = policy.list
               /\ Wanted \subseteq DOMAIN names \cup targets
               /\ pc = "report" => targets = {}
       /\ pc = "owner" => home[NextName] = NoRepo
       /\ \A n \in DOMAIN names :
            /\ home[n] = n => names[n].is = "Canonical"
            /\ home[n] \notin {n, NoRepo} => names[n] = MovedTo(home[n])

-----------------------------------------------------------------------------
(***************************************************************************)
(* The candidates.                                                         *)
(***************************************************************************)
\* The marks of what is absent are none of the values.
LEMMA Numbers == NotCounted \notin Nat /\ NoRev \notin Rev /\ NoRepo \notin Repo /\ NoFile \notin File
BY SituationAssumption, NameAssumption DEF NotCounted, NoRev, NoRepo, NoFile

\* The runs are as they should be at first.
LEMMA RunsInit == Init => RunsInv
<1> SUFFICES ASSUME NEW s \in Situations,
                    checkout = s.checkout, runs = s.runs, policy = s.policy, home = s.home,
                    changes = s.changes, switches = 0,
                    touched = [runs |-> {}, names |-> {}, policy |-> FALSE],
                    pc = "before", exit = 0 - 1, listed = <<>>, report = <<>>,
                    faults = s.faults
             PROVE  RunsInv
  BY DEF Init
<1>1. s \in Situation
  BY SituationAssumption
<1>2. RunsAreRuns
  BY <1>1, SituationAssumption DEF RunsAreRuns, Situation
<1>3. WorldType
  BY <1>1 DEF WorldType, Situation
<1>4. Ending
  BY DEF Ending, Places
<1>5. CandidatesAreRuns
  BY DEF CandidatesAreRuns
<1>6. NoneForgotten
  BY DEF NoneForgotten, Sifted
<1> QED
  BY <1>2, <1>3, <1>4, <1>5, <1>6 DEF RunsInv

\* The world leaves the process where it was, and touches what it changes.
LEMMA RunsWorld ==
  ASSUME RunsInv, World
  PROVE  RunsInv'
<1> USE DEF RunsInv
<1>0. /\ UNCHANGED <<pc, listed, report, exit, faults>>
      /\ exit < 0 /\ changes > 0 /\ changes' = changes - 1
  BY DEF World, Switch, Rerun, Post, Rename, Change, reading
<1>1. Ending'
  BY <1>0 DEF Ending
<1>2. CASE Switch
  <2>1. UNCHANGED <<runs, policy, home, touched>> /\ checkout' \in Checkout /\ switches' = switches + 1
    BY <1>2 DEF Switch
  <2> QED
    BY <1>0, <1>1, <2>1 DEF RunsAreRuns, WorldType, CandidatesAreRuns, NoneForgotten, Failed, OrdinaryFailure
<1>3. ASSUME NEW i \in Run, Rerun(i)
      PROVE  RunsInv'
  <2>1. /\ runs' = [runs EXCEPT ![i].conclusion = "none", ![i].jobs = 1]
        /\ touched' = [touched EXCEPT !.runs = @ \cup {i}]
        /\ UNCHANGED <<checkout, policy, home, switches>>
    BY <1>3 DEF Rerun
  <2>2. RunsAreRuns'
    BY <2>1 DEF RunsAreRuns, RunRecord
  <2>3. WorldType'
    BY <1>0, <2>1 DEF WorldType
  <2>4. touched'.runs = touched.runs \cup {i}
    BY <2>1 DEF WorldType
  <2>5. \A j \in Run : runs'[j].head = runs[j].head /\ runs'[j].denoted = runs[j].denoted
                       /\ (j # i => runs'[j] = runs[j])
    BY <2>1 DEF RunsAreRuns, RunRecord
  <2>6. CandidatesAreRuns'
    BY <1>0, <2>4, <2>5 DEF CandidatesAreRuns
  <2>7. NoneForgotten'
    BY <1>0, <2>4, <2>5 DEF NoneForgotten, Failed, OrdinaryFailure
  <2> QED
    BY <1>1, <2>2, <2>3, <2>6, <2>7
<1>4. ASSUME NEW p \in Policies, Post(p)
      PROVE  RunsInv'
  <2>1. /\ policy' = p /\ touched' = [touched EXCEPT !.policy = TRUE]
        /\ UNCHANGED <<checkout, runs, home, switches>>
    BY <1>4 DEF Post
  <2>2. WorldType'
    <3>1. p \in Policy
      BY SituationAssumption
    <3>2. touched' \in [runs : SUBSET Run, names : SUBSET Repo, policy : BOOLEAN]
      BY <2>1 DEF WorldType
    <3> QED
      BY <1>0, <2>1, <3>1, <3>2 DEF WorldType
  <2>3. touched'.runs = touched.runs
    BY <2>1 DEF WorldType
  <2> QED
    BY <1>0, <1>1, <2>1, <2>2, <2>3 DEF RunsAreRuns, CandidatesAreRuns, NoneForgotten, Failed, OrdinaryFailure
<1>5. ASSUME NEW n \in Repo, NEW m \in Repo \cup {NoRepo}, Rename(n, m)
      PROVE  RunsInv'
  <2>1. /\ home' = [k \in Repo |-> IF home[k] = n \/ (k = m /\ m # NoRepo) THEN m ELSE home[k]]
        /\ touched' = [touched EXCEPT !.names = @ \cup {k \in Repo : home[k] = n} \cup ({m} \ {NoRepo})]
        /\ UNCHANGED <<checkout, runs, policy, switches>>
    BY <1>5 DEF Rename
  <2>2. WorldType'
    <3>1. touched.names \cup {k \in Repo : home[k] = n} \cup ({m} \ {NoRepo}) \subseteq Repo
      BY DEF WorldType
    <3>2. touched' \in [runs : SUBSET Run, names : SUBSET Repo, policy : BOOLEAN]
      BY <2>1, <3>1 DEF WorldType
    <3>3. home' \in [Repo -> Repo \cup {NoRepo}]
      BY <2>1 DEF WorldType
    <3> QED
      BY <1>0, <2>1, <3>2, <3>3 DEF WorldType
  <2>3. touched'.runs = touched.runs
    BY <2>1 DEF WorldType
  <2> QED
    BY <1>0, <1>1, <2>1, <2>2, <2>3 DEF RunsAreRuns, CandidatesAreRuns, NoneForgotten, Failed, OrdinaryFailure
<1> QED
  BY <1>2, <1>3, <1>4, <1>5 DEF World

\* A step of the process is no step of the world, and is struck by one failure at
\* most; before its report it says nothing.
LEMMA ProcessFrame ==
  ASSUME Process
  PROVE  /\ UNCHANGED world /\ UNCHANGED begun
         /\ NoFault \/ Fault
         /\ Report \/ (pc # "end" /\ UNCHANGED report /\ exit' \in {exit, 2})
<1>1. UNCHANGED world /\ UNCHANGED begun
  BY DEF Process, ReadBefore, TakeSnapshot, ListRuns, CountJobs, JobsEnd, ReadAfter, StartVerifier,
         RunVerifier, EndVerifier, ReadPermissions, ReadSelected, ResolveName, ProbeOwner, NamesEnd, Report
<1>2. NoFault \/ Fault
  BY DEF Process, ReadBefore, TakeSnapshot, ListRuns, CountJobs, JobsEnd, ReadAfter, StartVerifier,
         RunVerifier, EndVerifier, ReadPermissions, ReadSelected, ResolveName, ProbeOwner, NamesEnd, Report
<1>3. Report \/ (pc # "end" /\ UNCHANGED report)
  BY DEF Process, ReadBefore, TakeSnapshot, ListRuns, CountJobs, JobsEnd, ReadAfter, StartVerifier,
         RunVerifier, EndVerifier, ReadPermissions, ReadSelected, ResolveName, ProbeOwner, NamesEnd
<1>4. Report \/ exit' \in {exit, 2}
  <2>1. ASSUME ReadBefore \/ TakeSnapshot \/ ListRuns \/ CountJobs \/ JobsEnd \/ ReadAfter
        PROVE  exit' \in {exit, 2}
    BY <2>1 DEF ReadBefore, TakeSnapshot, ListRuns, CountJobs, JobsEnd, ReadAfter, Goes, ToolFailure
  <2>2. ASSUME StartVerifier \/ RunVerifier \/ EndVerifier \/ ReadPermissions \/ ReadSelected
        PROVE  exit' \in {exit, 2}
    BY <2>2 DEF StartVerifier, RunVerifier, EndVerifier, ReadPermissions, ReadSelected, PolicyRead, Goes
  <2>3. ASSUME ResolveName \/ ProbeOwner \/ NamesEnd
        PROVE  exit' \in {exit, 2}
    BY <2>3, Zenon DEF ResolveName, ProbeOwner, NamesEnd, NameIs, Goes
  <2> QED
    BY <2>1, <2>2, <2>3 DEF Process
<1> QED
  BY <1>1, <1>2, <1>3, <1>4

\* What the process does to its candidates: it lists the failed runs, writes the
\* counts it is given, drops the ordinary failures, and nothing else.
LEMMA RunsProcess ==
  ASSUME RunsInv, Process
  PROVE  RunsInv'
<1> USE DEF RunsInv
<1>0. UNCHANGED world
  BY ProcessFrame
<1>1. faults' \in Nat
  BY ProcessFrame DEF NoFault, Fault, WorldType
<1>2. RunsAreRuns' /\ WorldType'
  BY <1>0, <1>1 DEF world, RunsAreRuns, WorldType
<1>3. \A i \in Run : Failed(i)' = Failed(i) /\ OrdinaryFailure(i)' = OrdinaryFailure(i)
  BY <1>0 DEF world, Failed, OrdinaryFailure
<1>4. ASSUME UNCHANGED listed, pc # "listing", pc' # "jobs",
             pc' \in Sifted => pc \in Sifted
      PROVE  CandidatesAreRuns' /\ NoneForgotten'
  BY <1>0, <1>3, <1>4 DEF world, CandidatesAreRuns, NoneForgotten
<1>5. CASE ReadBefore
  BY <1>2, <1>4, <1>5 DEF ReadBefore, Goes, Ending, Places, Sifted
<1>6. CASE TakeSnapshot
  BY <1>2, <1>4, <1>6 DEF TakeSnapshot, Goes, ToolFailure, Ending, Places, Sifted
<1>7. CASE ListRuns
  <2>1. Ending'
    BY <1>7 DEF ListRuns, Goes, ToolFailure, Ending, Places
  <2>2. CASE pc' = "end"
    BY <1>2, <1>7, <2>1, <2>2 DEF ListRuns, Goes, CandidatesAreRuns, NoneForgotten, Sifted, world
  <2>3. CASE pc' # "end"
    <3>1. /\ pc' = "jobs"
          /\ listed' = [i \in {j \in Run : Failed(j)} |-> [runs[i] EXCEPT !.jobs = NotCounted]]
      BY <1>7, <2>3 DEF ListRuns, Goes, ToolFailure
    <3>2. CandidatesAreRuns'
      BY <1>0, <3>1 DEF world, CandidatesAreRuns, RunsAreRuns, RunRecord, Candidate
    <3>3. NoneForgotten'
      BY <1>0, <1>3, <3>1 DEF world, NoneForgotten, Sifted
    <3> QED
      BY <1>2, <2>1, <3>2, <3>3
  <2> QED
    BY <2>2, <2>3
<1>8. CASE CountJobs
  <2>1. Ending'
    BY <1>8 DEF CountJobs, Goes, ToolFailure, Ending, Places
  <2>2. CASE UNCHANGED listed
    BY <1>0, <1>2, <1>3, <1>8, <2>1, <2>2
       DEF CountJobs, Goes, ToolFailure, CandidatesAreRuns, NoneForgotten, Sifted, world
  <2>3. CASE listed' # listed
    <3> DEFINE i == CHOOSE n \in uncounted : \A m \in uncounted : n <= m
    <3>1. pc = "jobs" /\ pc' = "jobs" /\ listed' = [listed EXCEPT ![i].jobs = runs[i].jobs]
      BY <1>8, <2>3 DEF CountJobs, Goes, ToolFailure
    <3> HIDE DEF i
    <3>2. DOMAIN listed' = DOMAIN listed
      BY <3>1
    <3>3. ASSUME NEW j \in DOMAIN listed
          PROVE  listed'[j] = IF j = i THEN [listed[i] EXCEPT !.jobs = runs[i].jobs] ELSE listed[j]
      BY <3>1
    <3>4. CandidatesAreRuns'
      BY <1>0, <3>2, <3>3 DEF world, CandidatesAreRuns, RunsAreRuns, RunRecord, Candidate
    <3>5. NoneForgotten'
      BY <1>0, <1>3, <3>1, <3>2 DEF world, NoneForgotten, Sifted
    <3> QED
      BY <1>2, <2>1, <3>4, <3>5
  <2> QED
    BY <2>2, <2>3
<1>9. CASE JobsEnd
  <2>1. /\ pc = "jobs" /\ pc' = "after"
        /\ listed' = [i \in Retained |-> listed[i]]
        /\ UNCHANGED <<report, exit>>
    BY <1>9 DEF JobsEnd, Goes
  <2>2. Ending'
    BY <2>1 DEF Ending, Places, Sifted
  <2>3. CandidatesAreRuns'
    BY <1>0, <2>1 DEF world, CandidatesAreRuns, Retained
  <2>4. ASSUME NEW j \in Run \ touched.runs, Failed(j), ~OrdinaryFailure(j)
        PROVE  j \in DOMAIN listed'
    <3>1. j \in DOMAIN listed
      BY <2>1, <2>4 DEF NoneForgotten
    <3>2. listed[j].conclusion = runs[j].conclusion /\ listed[j].jobs \in {NotCounted, runs[j].jobs}
      BY <2>4, <3>1 DEF CandidatesAreRuns
    <3>3. j \in Retained
      BY <2>4, <3>1, <3>2 DEF Retained, OrdinaryFailure, NotCounted
    <3> QED
      BY <2>1, <3>3
  <2>5. NoneForgotten'
    BY <1>0, <1>3, <2>1, <2>4 DEF world, NoneForgotten
  <2> QED
    BY <1>2, <2>2, <2>3, <2>5
<1>10. CASE ReadAfter
  BY <1>2, <1>4, <1>10 DEF ReadAfter, Goes, Ending, Places, Sifted
<1>11. CASE StartVerifier \/ RunVerifier \/ EndVerifier
  BY <1>2, <1>4, <1>11 DEF StartVerifier, RunVerifier, EndVerifier, Goes, Ending, Places, Sifted
<1>12. CASE ReadPermissions \/ ReadSelected
  BY <1>2, <1>4, <1>12 DEF ReadPermissions, ReadSelected, PolicyRead, Goes, Ending, Places, Sifted
<1>13. CASE ResolveName \/ ProbeOwner
  BY <1>2, <1>4, <1>13 DEF ResolveName, ProbeOwner, NameIs, Goes, Ending, Places, Sifted
<1>14. CASE NamesEnd
  BY <1>2, <1>4, <1>14 DEF NamesEnd, reading, Goes, Ending, Places, Sifted
<1>15. CASE Report
  BY <1>2, <1>4, <1>15 DEF Report, reading, Ending, Places, Sifted
<1> QED
  BY <1>5, <1>6, <1>7, <1>8, <1>9, <1>10, <1>11, <1>12, <1>13, <1>14, <1>15 DEF Process

\* The candidates of every reachable state are runs, and none is missing.
THEOREM RunsAreKept == Spec => []RunsInv
<1>1. ASSUME RunsInv, UNCHANGED vars PROVE RunsInv'
  BY <1>1 DEF vars, world, reading, RunsInv, RunsAreRuns, WorldType, Ending, CandidatesAreRuns,
              NoneForgotten, Failed, OrdinaryFailure
<1>2. RunsInv /\ [Next]_vars => RunsInv'
  BY <1>1, RunsWorld, RunsProcess DEF Next, Finished
<1> QED
  BY RunsInit, <1>2, PTL DEF Spec

-----------------------------------------------------------------------------
(***************************************************************************)
(* The report: the last step of the process, after which nothing happens.  *)
(***************************************************************************)
\* A step reports, fails, or leaves the report empty.
LEMMA ReportIsLast ==
  ASSUME RunsInv, [Next]_vars
  PROVE  \/ Report
         \/ report' = <<>> /\ exit' \notin {0, 4}
         \/ UNCHANGED vars
<1>1. CASE UNCHANGED vars
  BY <1>1
<1>2. CASE World
  <2>1. exit < 0 /\ UNCHANGED <<report, exit>>
    BY <1>2 DEF World, Switch, Rerun, Post, Rename, Change
  <2> QED
    BY <2>1 DEF RunsInv, Ending
<1>3. CASE Process
  <2>1. Report \/ (pc # "end" /\ UNCHANGED report /\ exit' \in {exit, 2})
    BY <1>3, ProcessFrame
  <2> QED
    BY <2>1 DEF RunsInv, Ending
<1> QED
  BY <1>1, <1>2, <1>3 DEF Next, Finished

\* At first there is no report and no exit code.
LEMMA CandidatesInit == Init => CandidatesStay
BY DEF Init, CandidatesStay

\* A failed run that was not run again is in the report unless it is an ordinary
\* failure whose jobs were counted, whatever fails and whatever changes.
THEOREM CandidatesStayAlways == Spec => []CandidatesStay
<1>1. ASSUME RunsInv, CandidatesStay, [Next]_vars
      PROVE  CandidatesStay'
  <2>1. CASE UNCHANGED vars
    BY <1>1, <2>1 DEF vars, world, reading, CandidatesStay, Failed, Reported
  <2>2. CASE report' = <<>> /\ exit' \notin {0, 4}
    BY <1>1, <2>1, <2>2 DEF CandidatesStay
  <2>3. CASE Report
    <3>1. /\ UNCHANGED <<runs, touched>> /\ DOMAIN report' = DOMAIN listed
          /\ exit' = IF DOMAIN listed # {} THEN 4 ELSE 0
          /\ pc = "report"
      BY <2>3 DEF Report, world
    <3>2. ASSUME NEW i \in Run \ touched.runs, Failed(i), ~OrdinaryFailure(i)
          PROVE  i \in DOMAIN listed
      BY <1>1, <3>1, <3>2 DEF RunsInv, NoneForgotten, Sifted
    <3>3. exit' = 0 => DOMAIN report' = {}
      <4>1. exit' = 4 \/ DOMAIN report' = {}
        BY <3>1, Zenon
      <4> QED
        BY <4>1
    <3>4. ASSUME NEW i \in Run, i \notin touched'.runs, Failed(i)',
                 ~(runs'[i].conclusion = "failure" /\ runs'[i].jobs > 0)
          PROVE  i \in DOMAIN report'
      <4>1. i \in Run \ touched.runs /\ Failed(i) /\ ~OrdinaryFailure(i)
        BY <3>1, <3>4 DEF Failed, OrdinaryFailure
      <4> QED
        BY <3>1, <3>2, <4>1
    <3> QED
      BY <3>3, <3>4 DEF CandidatesStay, Reported
  <2> QED
    BY <1>1, <2>1, <2>2, <2>3, ReportIsLast
<1> QED
  BY CandidatesInit, <1>1, RunsAreKept, PTL DEF Spec

-----------------------------------------------------------------------------
(***************************************************************************)
(* The evidence, and the revision it is of.                                *)
(***************************************************************************)
\* Nothing is evidence of anything at first.
LEMMA EvidenceInit == Init => EvidenceInv
<1> SUFFICES ASSUME Init PROVE EvidenceInv
  OBVIOUS
<1>1. /\ pc = "before" /\ before = NoRev /\ head = NoRev /\ lock = NoLock
      /\ source = NoSource
  BY DEF Init
<1>2. NoSource \in Source /\ IsFiniteSet(NoSource.present)
  BY FS_EmptySet DEF NoSource, Source, NoFiles, Workflows
<1> QED
  BY <1>1, <1>2 DEF EvidenceInv, EvidenceType, SourceIsHeads, LockIsHeads, Sifted

\* A change of the checkout is the first, or nothing is claimed any more.
LEMMA EvidenceWorld ==
  ASSUME RunsInv, EvidenceInv, World
  PROVE  EvidenceInv'
<1>0. UNCHANGED <<pc, before, source, head, lock>>
  BY DEF World, reading
<1>1. \/ UNCHANGED <<checkout, switches>>
      \/ switches' = switches + 1
  BY DEF World, Switch, Rerun, Post, Rename
<1>2. Bound' => Bound /\ (UNCHANGED <<checkout, switches>> \/ (switches = 0 /\ switches' = 1))
  BY <1>1 DEF Bound, RunsInv, WorldType
<1>3. EvidenceType'
  BY <1>0 DEF EvidenceInv, EvidenceType
<1>4. SourceIsHeads'
  BY <1>0, <1>2 DEF EvidenceInv, SourceIsHeads
<1>5. LockIsHeads'
  BY <1>0, <1>2 DEF EvidenceInv, LockIsHeads, LockIs
<1> QED
  BY <1>3, <1>4, <1>5 DEF EvidenceInv

\* A revision that is read is that of the tree.
LEMMA RevisionRead ==
  ASSUME RunsInv, NEW full
  PROVE  /\ SourceRevision(full) \in Rev \cup {NoRev}
         /\ SourceRevision(full) # NoRev => checkout.tree = SourceRevision(full)
BY DEF SourceRevision, RunsInv, WorldType, Checkout

\* What the run reads is evidence of the source it is bound to.
LEMMA EvidenceProcess ==
  ASSUME RunsInv, EvidenceInv, Process
  PROVE  EvidenceInv'
<1> USE DEF EvidenceInv
<1>0. UNCHANGED <<checkout, switches>> /\ (Bound' <=> Bound)
  BY ProcessFrame DEF world, Bound
<1>a. Unverified.status = "Unverified"
  BY DEF Unverified
<1>b. NoLock.status = "none"
  BY DEF NoLock
<1>1. CASE ReadBefore
  <2>1. /\ pc' = "snapshot" /\ before' = SourceRevision(FALSE) /\ UNCHANGED <<head, source, lock>>
        /\ pc = "before"
    BY <1>1 DEF ReadBefore, Goes
  <2> QED
    BY <1>0, <2>1, RevisionRead DEF EvidenceType, SourceIsHeads, LockIsHeads, Sifted
<1>2. CASE TakeSnapshot
  <2>1. CASE pc' = "end"
    BY <1>2, <2>1 DEF TakeSnapshot, Goes, EvidenceType, SourceIsHeads, LockIsHeads, Sifted
  <2>2. CASE pc' # "end"
    <3>1. /\ pc = "snapshot" /\ pc' = "listing" /\ source' = TreeOf[checkout.tree]
          /\ UNCHANGED <<before, head, lock>>
      BY <1>2, <2>2 DEF TakeSnapshot, Goes, ToolFailure
    <3>2. source' \in Source /\ IsFiniteSet(source'.present)
      BY <3>1, SituationAssumption DEF RunsInv, WorldType, Checkout
    <3> QED
      BY <1>0, <3>1, <3>2 DEF EvidenceType, SourceIsHeads, LockIsHeads, Sifted
  <2> QED
    BY <2>1, <2>2
<1>3. CASE ListRuns \/ CountJobs \/ JobsEnd
  <2>1. /\ UNCHANGED <<before, source, head, lock>>
        /\ pc \in {"listing", "jobs"} /\ pc' \in {"jobs", "after", "end"}
    BY <1>3 DEF ListRuns, CountJobs, JobsEnd, Goes, ToolFailure
  <2> QED
    BY <1>0, <2>1 DEF EvidenceType, SourceIsHeads, LockIsHeads, Sifted
<1>4. CASE ReadAfter
  <2>1. /\ pc = "after" /\ pc' \in {"report", "verify", "permissions"}
        /\ head' = Established /\ UNCHANGED <<before, source, lock>>
    BY <1>4 DEF ReadAfter, Goes
  <2>2. pc' = "verify" => Established # NoRev
    BY <1>4, <2>1 DEF ReadAfter, Goes, Matching, SameRevision
  <2>3. Established # NoRev => Established = before /\ checkout.tree = before
    BY RevisionRead DEF Established, SameRevision
  <2>4. Established \in Rev \cup {NoRev}
    BY DEF Established, EvidenceType
  <2> QED
    BY <1>0, <1>b, <2>1, <2>2, <2>3, <2>4 DEF EvidenceType, SourceIsHeads, LockIsHeads, Sifted
<1>5. CASE StartVerifier
  <2>1. /\ pc = "verify" /\ UNCHANGED <<before, source, head>>
        /\ \/ pc' = "native" /\ UNCHANGED lock /\ checkout.tree = head
           \/ pc' = "permissions" /\ lock' = Unverified
    BY <1>5, RevisionRead DEF StartVerifier, Goes, SameRevision
  <2> QED
    BY <1>0, <1>a, <2>1 DEF EvidenceType, SourceIsHeads, LockIsHeads, Sifted
<1>6. CASE RunVerifier
  <2>1. /\ pc = "native" /\ pc' = "recheck" /\ UNCHANGED <<before, source, head>>
        /\ \/ lock'.status = "Unverified"
           \/ /\ lock'.status = LockOf[checkout.tree].status
              /\ lock'.bad = LockOf[checkout.tree].bad
    BY <1>6, <1>a DEF RunVerifier, Goes, Classify
  <2> QED
    BY <1>0, <2>1 DEF EvidenceType, SourceIsHeads, LockIsHeads, LockIs, Sifted
<1>7. CASE EndVerifier
  <2>1. /\ pc = "recheck" /\ pc' = "permissions" /\ UNCHANGED <<before, source, head>>
        /\ \/ lock' = Unverified
           \/ UNCHANGED lock /\ checkout.tree = head
    BY <1>7, RevisionRead DEF EndVerifier, Goes, Rechecked, SameRevision
  <2> QED
    BY <1>0, <1>a, <2>1 DEF EvidenceType, SourceIsHeads, LockIsHeads, LockIs, Sifted
<1>8. ASSUME UNCHANGED <<before, source, head, lock>>,
             pc \in {"permissions", "selected", "names", "owner", "report"},
             pc' \in {"selected", "names", "owner", "report", "end"}
      PROVE  EvidenceInv'
  BY <1>0, <1>8 DEF EvidenceType, SourceIsHeads, LockIsHeads, LockIs, Sifted
<1>9. CASE ReadPermissions \/ ReadSelected
  BY <1>8, <1>9 DEF ReadPermissions, ReadSelected, PolicyRead, Goes
<1>10. CASE ResolveName \/ ProbeOwner
  BY <1>8, <1>10, Zenon DEF ResolveName, ProbeOwner, NameIs, Goes
<1>11. CASE NamesEnd \/ Report
  BY <1>8, <1>11 DEF NamesEnd, Report, Goes, reading
<1> QED
  BY <1>1, <1>2, <1>3, <1>4, <1>5, <1>6, <1>7, <1>9, <1>10, <1>11 DEF Process

\* Every step keeps the evidence.
LEMMA EvidenceStep ==
  ASSUME RunsInv, EvidenceInv, [Next]_vars
  PROVE  EvidenceInv'
<1>1. CASE UNCHANGED vars
  BY <1>1 DEF vars, world, reading, EvidenceInv, EvidenceType, SourceIsHeads, LockIsHeads, LockIs, Bound
<1> QED
  BY <1>1, EvidenceWorld, EvidenceProcess DEF Next, Finished

\* Whatever happens to the checkout once, the snapshot and the lock are of the
\* revision that the report speaks of.
THEOREM EvidenceIsHeads == Spec => []EvidenceInv
BY EvidenceInit, EvidenceStep, RunsAreKept, PTL DEF Spec

-----------------------------------------------------------------------------
(***************************************************************************)
(* Attributions of one run.                                                *)
(***************************************************************************)
\* A path that denotes one file that is there denotes no other.
LEMMA ResolvesToItsFile ==
  ASSUME NEW denoted, NEW present, IsFiniteSet(present), present \subseteq File,
         NEW f \in denoted \cap present
  PROVE  ResolveRunWorkflow(denoted, present) \in {f, NoFile}
<1> DEFINE candidates == denoted \cap present
<1>1. CASE Cardinality(candidates) # 1
  BY <1>1 DEF ResolveRunWorkflow
<1>2. CASE Cardinality(candidates) = 1
  <2>1. IsFiniteSet(candidates)
    BY FS_Subset
  <2>2. PICK g : candidates = {g}
    BY <1>2, <2>1, FS_Singleton
  <2>3. g = f
    BY <2>2
  <2>4. (CHOOSE x \in candidates : TRUE) = f
    BY <2>2, <2>3
  <2> QED
    BY <1>2, <2>4 DEF ResolveRunWorkflow
<1> QED
  BY <1>1, <1>2

\* What is resolved is there.
LEMMA ResolvedIsPresent ==
  ASSUME NEW denoted, NEW present, IsFiniteSet(present),
         ResolveRunWorkflow(denoted, present) # NoFile
  PROVE  ResolveRunWorkflow(denoted, present) \in present
<1>1. Cardinality(denoted \cap present) = 1 /\ IsFiniteSet(denoted \cap present)
  BY FS_Subset DEF ResolveRunWorkflow
<1>2. denoted \cap present # {}
  BY <1>1, FS_EmptySet
<1>3. (CHOOSE f \in denoted \cap present : TRUE) \in denoted \cap present
  BY <1>2
<1> QED
  BY <1>1, <1>3 DEF ResolveRunWorkflow

\* The cause of one coordinate: its resolution decides, then the allow-list.
LEMMA CauseOfCoordinate ==
  ASSUME NEW workflow, NEW use, NEW resolution, NEW lst
  PROVE  LET a       == AttributeZeroJob(workflow, use, resolution, lst)
             name    == Effective(use, resolution)
             pattern == MissingPattern(lst, name)
             moved   == resolution.is = "Moved" /\ ~IsAction(use)
             refused == pattern # NoPattern /\ ~AdmissionUnknown(lst, name, IsAction(use))
         IN  /\ a.workflow = workflow /\ a.coordinate = use
             /\ resolution.is = "NotFound" => a.class = "Unattributed"
             /\ moved => a = Attribution(workflow, use, resolution.canonical, pattern, "MovedCoordinate")
             /\ resolution.is # "NotFound" /\ ~moved /\ refused =>
                  a = Attribution(workflow, use, resolution.canonical, pattern, "AllowListAdmissionRequired")
             /\ ~moved /\ ~refused => a.class = "Unattributed"
             /\ a.class \in {"Unattributed", "MovedCoordinate", "AllowListAdmissionRequired"}
<1> DEFINE name    == Effective(use, resolution)
           pattern == MissingPattern(lst, name)
           moved   == resolution.is = "Moved" /\ ~IsAction(use)
           refused == pattern # NoPattern /\ ~AdmissionUnknown(lst, name, IsAction(use))
           a       == AttributeZeroJob(workflow, use, resolution, lst)
<1>1. CASE resolution.is = "NotFound"
  <2>1. a = Attribution(workflow, use, NoRepo, pattern, "Unattributed")
    BY <1>1, Zenon DEF AttributeZeroJob
  <2> QED
    BY <1>1, <2>1 DEF Attribution
<1>2. CASE moved
  <2>1. a = Attribution(workflow, use, resolution.canonical, pattern, "MovedCoordinate")
    BY <1>2 DEF AttributeZeroJob
  <2> QED
    BY <1>2, <2>1 DEF Attribution
<1>3. CASE resolution.is # "NotFound" /\ ~moved /\ refused
  <2>1. a = Attribution(workflow, use, resolution.canonical, pattern, "AllowListAdmissionRequired")
    BY <1>3 DEF AttributeZeroJob
  <2> QED
    BY <1>3, <2>1 DEF Attribution
<1>4. CASE resolution.is # "NotFound" /\ ~moved /\ ~refused
  <2>1. a = Attribution(workflow, use, resolution.canonical, NoPattern, "Unattributed")
    BY <1>4 DEF AttributeZeroJob
  <2> QED
    BY <1>4, <2>1 DEF Attribution
<1> QED
  BY <1>1, <1>2, <1>3, <1>4

\* What an attribution rests on: without ground it blames nothing.
LEMMA AttributedBy ==
  ASSUME NEW run, NEW src, NEW nms, NEW lst, NEW rev, NEW lk,
         NEW a \in AttributeRun(run, src, nms, lst, rev, lk)
  PROVE  \/ a = Unattributed(NoFile)
         \/ /\ run.jobs = 0 /\ run.head = rev /\ rev # NoRev
            /\ LET file == ResolveRunWorkflow(run.denoted, src.present) IN
               \/ /\ LockClass(lk, file) # "none"
                  /\ a = [Unattributed(file) EXCEPT !.class = LockClass(lk, file)]
               \/ /\ file # NoFile
                  /\ \/ a = Unattributed(file)
                     \/ LET all == AttributeWorkflow(file, src.files[file], nms, lst) IN
                        /\ a \in all
                        /\ Primary(all) \subseteq AttributeRun(run, src, nms, lst, rev, lk)
<1> DEFINE file     == ResolveRunWorkflow(run.denoted, src.present)
           observed == run.jobs = 0 /\ SameRevision(run.head, rev)
           bound    == observed /\ (lk # NoLock => SameRevision(lk.head, rev))
           defect   == LockClass(lk, file)
           all      == AttributeWorkflow(file, src.files[file], nms, lst)
<1>1. CASE ~bound
  BY <1>1 DEF AttributeRun
<1>2. CASE bound /\ defect # "none"
  BY <1>2 DEF AttributeRun, SameRevision
<1>3. CASE bound /\ defect = "none" /\ file = NoFile
  BY <1>3 DEF AttributeRun
<1>4. CASE bound /\ defect = "none" /\ file # NoFile
  <2>1. AttributeRun(run, src, nms, lst, rev, lk) =
          (IF lk.status = "Unverified" THEN {Unattributed(NoFile)} ELSE {})
            \cup (IF Primary(all) # {} THEN Primary(all) ELSE Unexplained(all, file))
    BY <1>4 DEF AttributeRun
  <2>2. Primary(all) \subseteq all
    BY DEF Primary
  <2>3. Unexplained(all, file) \subseteq all \cup {Unattributed(file)}
    BY DEF Unexplained
  <2> QED
    BY <1>4, <2>1, <2>2, <2>3 DEF SameRevision
<1> QED
  BY <1>1, <1>2, <1>3, <1>4

\* A run that is attributed is one of the established revision, and its workflow
\* is the one that ran.
LEMMA AttributedRun ==
  ASSUME RunsInv, EvidenceInv, Bound, pc = "report",
         NEW i \in DOMAIN listed, listed[i].head = head, head # NoRev
  PROVE  /\ i \in Run /\ runs[i].head = head /\ head \in Rev /\ source = TreeOf[head]
         /\ ResolveRunWorkflow(listed[i].denoted, source.present) \in {runs[i].file, NoFile}
<1>1. i \in Run /\ listed[i].head = runs[i].head /\ listed[i].denoted = runs[i].denoted
  BY DEF RunsInv, CandidatesAreRuns
<1>2. head \in Rev /\ source = TreeOf[head]
  BY DEF EvidenceInv, EvidenceType, SourceIsHeads, Sifted
<1>3. IsFiniteSet(source.present) /\ source.present \subseteq File
  BY <1>2, SituationAssumption DEF Source
<1>4. runs[i].file \in runs[i].denoted \cap source.present
  BY <1>1, <1>2 DEF RunsInv, RunsAreRuns
<1> QED
  BY <1>1, <1>2, <1>3, <1>4, ResolvesToItsFile

\* At first no lock is blamed.
LEMMA LockInit == Init => LockBlamesItsSource
BY DEF Init, LockBlamesItsSource

\* A report blames a lock for what is wrong with it at the revision of the run.
LEMMA LockReport ==
  ASSUME RunsInv, EvidenceInv, Bound, Report,
         NEW i \in DOMAIN report', NEW a \in report'[i]
  PROVE  /\ a.class = "InvalidActionsLock" => LockOf[runs[i].head].status = "Malformed"
         /\ a.class = "ActionsLockMismatch" =>
              /\ LockOf[runs[i].head].status = "CoverageMismatch"
              /\ runs[i].file \in LockOf[runs[i].head].bad
<1> DEFINE file == ResolveRunWorkflow(listed[i].denoted, source.present)
<1>1. /\ pc = "report" /\ i \in DOMAIN listed
      /\ a \in AttributeRun(listed[i], source, names, list, head, lock)
  BY DEF Report
<1>2. SUFFICES ASSUME a.class \in {"InvalidActionsLock", "ActionsLockMismatch"}
               PROVE  /\ a.class = "InvalidActionsLock" => LockOf[runs[i].head].status = "Malformed"
                      /\ a.class = "ActionsLockMismatch" =>
                           /\ LockOf[runs[i].head].status = "CoverageMismatch"
                           /\ runs[i].file \in LockOf[runs[i].head].bad
  OBVIOUS
<1>3. Unattributed(NoFile).class = "Unattributed" /\ Unattributed(file).class = "Unattributed"
  BY DEF Unattributed, Attribution
<1>4. ASSUME a \in AttributeWorkflow(file, source.files[file], names, list)
      PROVE  FALSE
  <2>1. PICK u : a = AttributeZeroJob(file, u, ResolutionOf(names, u.to), list)
    BY <1>4 DEF AttributeWorkflow
  <2> QED
    BY <1>2, <2>1, CauseOfCoordinate DEF Attribution
<1>5. /\ listed[i].head = head /\ head # NoRev /\ LockClass(lock, file) # "none"
      /\ a.class = LockClass(lock, file)
  <2>1. \/ a = Unattributed(NoFile)
        \/ /\ listed[i].jobs = 0 /\ listed[i].head = head /\ head # NoRev
           /\ \/ /\ LockClass(lock, file) # "none"
                 /\ a = [Unattributed(file) EXCEPT !.class = LockClass(lock, file)]
              \/ /\ file # NoFile
                 /\ \/ a \in AttributeWorkflow(file, source.files[file], names, list)
                    \/ a = Unattributed(file)
    BY <1>1, AttributedBy
  <2>2. [Unattributed(file) EXCEPT !.class = LockClass(lock, file)].class = LockClass(lock, file)
    BY DEF Unattributed, Attribution
  <2> HIDE DEF file
  <2> QED
    BY <1>2, <1>3, <1>4, <2>1, <2>2
<1>6. i \in Run /\ runs[i].head = head /\ head \in Rev /\ file \in {runs[i].file, NoFile}
  BY <1>1, <1>5, AttributedRun
<1>7. lock.status = LockOf[head].status /\ lock.bad = LockOf[head].bad
  BY <1>1, <1>5 DEF EvidenceInv, LockIsHeads, LockIs, Sifted, LockClass
<1>8. NoFile \notin LockOf[head].bad
  BY <1>6, SituationAssumption, Numbers DEF Lock
<1> QED
  BY <1>5, <1>6, <1>7, <1>8 DEF LockClass

\* A lock is blamed only for a run whose own revision has that defect, for any
\* repository, runs and failures, when the checkout is changed at most once.
THEOREM LockBlamesItsSourceAlways == Spec => []LockBlamesItsSource
<1>1. ASSUME RunsInv, EvidenceInv, LockBlamesItsSource, [Next]_vars
      PROVE  LockBlamesItsSource'
  <2>1. CASE UNCHANGED vars
    BY <1>1, <2>1 DEF vars, world, reading, LockBlamesItsSource, Bound
  <2>2. CASE report' = <<>>
    BY <2>2 DEF LockBlamesItsSource
  <2>3. CASE Report
    <3>1. UNCHANGED <<runs, switches>>
      BY <2>3 DEF Report, world
    <3> QED
      BY <1>1, <2>3, <3>1, LockReport DEF LockBlamesItsSource, Bound
  <2> QED
    BY <1>1, <2>1, <2>2, <2>3, ReportIsLast
<1> QED
  BY LockInit, <1>1, RunsAreKept, EvidenceIsHeads, PTL DEF Spec

-----------------------------------------------------------------------------
(***************************************************************************)
(* The policy and the names.                                               *)
(***************************************************************************)
\* The next name is one of those that are left.
LEMMA NextIsLeft ==
  ASSUME targets \subseteq Repo, targets # {}
  PROVE  NextName \in targets
<1>1. targets \subseteq Nat
  BY NameAssumption
<1>2. IsWellFoundedOn(OpToRel(<, Nat), Nat)
  BY NatLessThanWellFounded, Zenon
<1>3. PICK n \in targets : \A m \in targets : ~ (<<m, n>> \in OpToRel(<, Nat))
  BY <1>1, <1>2, WFMin, Zenon
<1>4. \A m \in targets : ~ (m < n)
  BY <1>1, <1>3 DEF OpToRel
<1>5. \A m \in targets : n <= m
  BY <1>1, <1>4
<1> QED
  BY <1>5 DEF NextName

\* A resolved name is recorded, the others stay.
LEMMA NameIsLearnt ==
  ASSUME NEW resolution, NameIs(resolution)
  PROVE  /\ DOMAIN names' = DOMAIN names \cup {NextName}
         /\ names'[NextName] = resolution
         /\ \A n \in DOMAIN names \ {NextName} : names'[n] = names[n]
         /\ targets' = targets \ {NextName}
         /\ pc' = "names"
BY DEF NameIs, Goes

\* Names of references are names of repositories.
LEMMA WantedAreNames ==
  ASSUME EvidenceInv
  PROVE  Wanted \subseteq Repo
<1> SUFFICES ASSUME NEW n \in Wanted PROVE n \in Repo
  OBVIOUS
<1>1. PICK i \in DOMAIN listed :
        LET f == ResolveRunWorkflow(listed[i].denoted, source.present)
        IN  f # NoFile /\ \E u \in ToSet(source.files[f]) : n = u.to
  BY DEF Wanted
<1> DEFINE f == ResolveRunWorkflow(listed[i].denoted, source.present)
<1>0. PICK u \in ToSet(source.files[f]) : n = u.to
  BY <1>1
<1>2. f \in File
  BY <1>1, ResolvedIsPresent DEF EvidenceInv, EvidenceType, Source
<1> HIDE DEF f
<1>3. source.files[f] \in Seq(Use)
  BY <1>2 DEF EvidenceInv, EvidenceType, Source, Workflows
<1>4. u \in Use
  BY <1>0, <1>3 DEF ToSet
<1> QED
  BY <1>0, <1>4 DEF Use

\* At first no name is resolved.
LEMMA NamesInit == Init => NamesInv
BY DEF Init, NamesInv, ListIsPolicy, NamesLead, TargetsLeft

\* Who is renamed, and who moves there, is touched.
LEMMA NamesWorld ==
  ASSUME RunsInv, NamesInv, World
  PROVE  NamesInv'
<1>0. UNCHANGED <<pc, list, names, targets>>
  BY DEF World, reading
<1>1. TargetsLeft'
  BY <1>0 DEF NamesInv, TargetsLeft
<1>2. touched \in [runs : SUBSET Run, names : SUBSET Repo, policy : BOOLEAN]
  BY DEF RunsInv, WorldType
<1>3. \/ UNCHANGED policy /\ touched'.policy = touched.policy
      \/ touched'.policy = TRUE
  BY <1>2 DEF World, Switch, Rerun, Post, Rename
<1>4. ListIsPolicy'
  BY <1>0, <1>3 DEF NamesInv, ListIsPolicy
<1>5. ASSUME NEW n \in Repo, n \notin touched'.names
      PROVE  n \notin touched.names /\ home'[n] = home[n]
  <2>1. CASE UNCHANGED home /\ touched'.names = touched.names
    BY <1>5, <2>1
  <2>2. ASSUME NEW k \in Repo, NEW m \in Repo \cup {NoRepo}, Rename(k, m)
        PROVE  n \notin touched.names /\ home'[n] = home[n]
    <3>1. touched'.names = touched.names \cup {j \in Repo : home[j] = k} \cup ({m} \ {NoRepo})
      BY <1>2, <2>2 DEF Rename
    <3>2. home'[n] = IF home[n] = k \/ (n = m /\ m # NoRepo) THEN m ELSE home[n]
      BY <2>2 DEF Rename
    <3> QED
      BY <1>5, <3>1, <3>2
  <2> QED
    BY <1>2, <2>1, <2>2 DEF World, Switch, Rerun, Post
<1>6. NamesLead'
  BY <1>0, <1>5 DEF NamesInv, NamesLead
<1> QED
  BY <1>1, <1>4, <1>6 DEF NamesInv

\* A name is resolved to what it was when it was asked for.
LEMMA NamesProcess ==
  ASSUME RunsInv, EvidenceInv, NamesInv, Process
  PROVE  NamesInv'
<1> USE DEF NamesInv
<1>0. UNCHANGED <<policy, home, touched>>
  BY ProcessFrame DEF world
<1>1. ASSUME UNCHANGED <<list, names, targets>>, pc' # "owner"
      PROVE  NamesInv'
  BY <1>0, <1>1 DEF ListIsPolicy, NamesLead, TargetsLeft
<1>2. CASE ReadBefore \/ TakeSnapshot \/ ListRuns \/ CountJobs \/ JobsEnd
  BY <1>1, <1>2 DEF ReadBefore, TakeSnapshot, ListRuns, CountJobs, JobsEnd, Goes, ToolFailure
<1>3. CASE ReadAfter
  BY <1>1, <1>3 DEF ReadAfter, Goes
<1>4. CASE StartVerifier \/ RunVerifier \/ EndVerifier
  BY <1>1, <1>4 DEF StartVerifier, RunVerifier, EndVerifier, Goes
<1>5. CASE NamesEnd \/ Report
  BY <1>1, <1>5 DEF NamesEnd, Report, Goes, reading
<1>6. CASE ReadPermissions \/ ReadSelected
  <2>1. CASE pc' = "selected"
    BY <1>1, <1>6, <2>1 DEF ReadPermissions, ReadSelected, PolicyRead, Goes
  <2>2. CASE pc' # "selected"
    <3>1. /\ pc' = "names" /\ targets' = Wanted /\ UNCHANGED names
          /\ list' = NoList \/ (policy.allowed = "selected" /\ list' = policy.list)
      BY <1>6, <2>2 DEF ReadPermissions, ReadSelected, PolicyRead, Goes
    <3>2. Wanted \subseteq Repo
      BY WantedAreNames
    <3> QED
      BY <1>0, <3>1, <3>2 DEF ListIsPolicy, NamesLead, TargetsLeft
  <2> QED
    BY <2>1, <2>2
<1>7. ASSUME NEW is \in {"Canonical", "Unverified", "NotFound"}, NameIs(Named(is)),
             targets # {}, UNCHANGED list
      PROVE  NamesInv'
  <2>1. NextName \in Repo /\ NextName \in targets
    BY <1>7, NextIsLeft DEF TargetsLeft
  <2>2. Named(is).is # "Moved" /\ Named(is).canonical = NoRepo
    BY <1>7 DEF Named
  <2>3. NamesLead'
    BY <1>0, <1>7, <2>1, <2>2, NameIsLearnt DEF NamesLead
  <2> QED
    BY <1>0, <1>7, <2>3, NameIsLearnt DEF ListIsPolicy, TargetsLeft
<1>8. CASE ResolveName
  <2> DEFINE n == NextName
  <2>1. pc = "names" /\ targets # {} /\ UNCHANGED list /\ n \in Repo
    BY <1>8, NextIsLeft DEF ResolveName, TargetsLeft
  <2>2. CASE NameIs(Named("Canonical")) \/ NameIs(Named("Unverified"))
    BY <1>7, <2>1, <2>2
  <2>3. CASE home[n] \notin {n, NoRepo} /\ NameIs(MovedTo(home[n]))
    <3>1. MovedTo(home[n]).is = "Moved" /\ MovedTo(home[n]).canonical = home[n]
      BY DEF MovedTo
    <3>2. home[n] \in Repo
      BY <2>1, <2>3 DEF RunsInv, WorldType
    <3>3. NamesLead'
      BY <1>0, <2>1, <2>3, <3>1, <3>2, NameIsLearnt DEF NamesLead
    <3> QED
      BY <1>0, <2>1, <2>3, <3>3, NameIsLearnt DEF ListIsPolicy, TargetsLeft
  <2>4. CASE Goes("owner") /\ UNCHANGED <<names, targets>>
    BY <1>0, <2>1, <2>4 DEF ListIsPolicy, NamesLead, TargetsLeft, Goes
  <2> QED
    BY <1>8, <2>2, <2>3, <2>4, Zenon DEF ResolveName
<1>9. CASE ProbeOwner
  <2>1. targets # {} /\ UNCHANGED list
    BY <1>9 DEF ProbeOwner, TargetsLeft
  <2>2. PICK is \in {"Unverified", "NotFound"} : NameIs(Named(is))
    <3>1. NameIs(OwnerSays(NextName)) \/ NameIs(Named("Unverified"))
      BY <1>9, Zenon DEF ProbeOwner
    <3> QED
      BY <3>1, Zenon DEF OwnerSays
  <2> QED
    BY <1>7, <2>1, <2>2
<1> QED
  BY <1>2, <1>3, <1>4, <1>5, <1>6, <1>8, <1>9 DEF Process

\* Every step keeps the names.
LEMMA NamesStep ==
  ASSUME RunsInv, EvidenceInv, NamesInv, [Next]_vars
  PROVE  NamesInv'
<1>1. CASE UNCHANGED vars
  BY <1>1 DEF vars, world, reading, NamesInv, ListIsPolicy, NamesLead, TargetsLeft
<1> QED
  BY <1>1, NamesWorld, NamesProcess DEF Next, Finished

\* What was learnt of a name or of the policy holds until they change.
THEOREM NamesAreTrue == Spec => []NamesInv
BY NamesInit, NamesStep, RunsAreKept, EvidenceIsHeads, PTL DEF Spec

\* Only a cause of a coordinate gives a move.
LEMMA MoveIsOfCause ==
  ASSUME NEW a, ProposedMove(a) # NoMove
  PROVE  \/ /\ a.class = "MovedCoordinate" /\ a.canonical # NoRepo
            /\ ProposedMove(a) = [move |-> "RepointToCanonical", written |-> a.coordinate,
                                  canonical |-> a.canonical, pin |-> a.coordinate.pin]
         \/ /\ a.class = "AllowListAdmissionRequired"
            /\ ProposedMove(a) =
                 [move |-> "AllowListAdmissionRequired", written |-> a.coordinate,
                  canonical |-> IF a.canonical # NoRepo THEN a.canonical ELSE a.coordinate.to,
                  pattern |-> a.pattern]
BY Zenon DEF ProposedMove

\* A reported move has its ground in what was read.
LEMMA MovesReport ==
  ASSUME RunsInv, EvidenceInv, NamesInv, Bound, Report,
         NEW i \in DOMAIN report', NEW a \in report'[i], ProposedMove(a) # NoMove
  PROVE  LET m == ProposedMove(a) IN
         /\ i \notin touched.runs => runs[i].jobs = 0
         /\ runs[i].head # NoRev /\ m.written \in UsesOf(i) /\ a.workflow = runs[i].file
         /\ m.move = "RepointToCanonical" /\ m.written.to \notin touched.names =>
              home[m.written.to] = m.canonical /\ m.canonical # m.written.to /\ m.pin = m.written.pin
         /\ m.move = "AllowListAdmissionRequired" /\ ~touched.policy =>
              ~Admits(policy, m.canonical, IsAction(m.written))
<1> DEFINE file == ResolveRunWorkflow(listed[i].denoted, source.present)
           m    == ProposedMove(a)
<1>1. /\ pc = "report" /\ i \in DOMAIN listed
      /\ a \in AttributeRun(listed[i], source, names, list, head, lock)
  BY DEF Report
<1>2. a.class \in {"MovedCoordinate", "AllowListAdmissionRequired"}
  BY MoveIsOfCause
<1>3. Unattributed(NoFile).class = "Unattributed" /\ Unattributed(file).class = "Unattributed"
  BY DEF Unattributed, Attribution
<1>4. /\ listed[i].jobs = 0 /\ listed[i].head = head /\ head # NoRev /\ file # NoFile
      /\ a \in AttributeWorkflow(file, source.files[file], names, list)
  <2>1. \/ a = Unattributed(NoFile)
        \/ /\ listed[i].jobs = 0 /\ listed[i].head = head /\ head # NoRev
           /\ \/ /\ LockClass(lock, file) # "none"
                 /\ a = [Unattributed(file) EXCEPT !.class = LockClass(lock, file)]
              \/ /\ file # NoFile
                 /\ \/ a \in AttributeWorkflow(file, source.files[file], names, list)
                    \/ a = Unattributed(file)
    BY <1>1, AttributedBy
  <2>2. [Unattributed(file) EXCEPT !.class = LockClass(lock, file)].class = LockClass(lock, file)
    BY DEF Unattributed, Attribution
  <2>3. LockClass(lock, file) \in {"InvalidActionsLock", "ActionsLockMismatch", "none"}
    BY DEF LockClass
  <2> HIDE DEF file
  <2> QED
    BY <1>2, <1>3, <2>1, <2>2, <2>3
<1>5. /\ i \in Run /\ runs[i].head = head /\ head \in Rev /\ source = TreeOf[head]
      /\ file = runs[i].file
  BY <1>1, <1>4, AttributedRun
<1>6. i \notin touched.runs => runs[i].jobs = 0
  BY <1>1, <1>4 DEF RunsInv, CandidatesAreRuns, NotCounted
<1>7. PICK u \in ToSet(source.files[file]) :
        a = AttributeZeroJob(file, u, ResolutionOf(names, u.to), list)
  BY <1>4 DEF AttributeWorkflow
<1> HIDE DEF file
<1> DEFINE resolution == ResolutionOf(names, u.to)
           name       == Effective(u, resolution)
           pattern    == MissingPattern(list, name)
<1>8. a.workflow = file /\ a.coordinate = u
  BY <1>7, CauseOfCoordinate
<1>9. m.written = u
  BY <1>8, MoveIsOfCause
<1>10. u \in UsesOf(i)
  BY <1>5, <1>7 DEF UsesOf
<1>11. resolution.is = "Moved" =>
         /\ u.to \in DOMAIN names /\ resolution = names[u.to] /\ name = resolution.canonical
         /\ resolution.canonical # NoRepo
  BY Numbers DEF ResolutionOf, Named, Effective, NamesInv, NamesLead
<1>12. resolution.is # "Moved" => resolution.canonical = NoRepo /\ name = u.to
  BY DEF ResolutionOf, Named, Effective, NamesInv, NamesLead
<1>13. ASSUME m.move = "RepointToCanonical", u.to \notin touched.names
       PROVE  home[u.to] = m.canonical /\ m.canonical # u.to /\ m.pin = u.pin
  <2>1. a.class = "MovedCoordinate" /\ m.canonical = a.canonical /\ m.pin = u.pin
    BY <1>8, <1>13, MoveIsOfCause
  <2>2. resolution.is = "Moved" /\ a.canonical = resolution.canonical
    BY <1>7, <2>1, CauseOfCoordinate DEF Attribution
  <2> QED
    BY <1>11, <1>13, <2>1, <2>2 DEF NamesInv, NamesLead
<1>14. ASSUME m.move = "AllowListAdmissionRequired", ~touched.policy
       PROVE  ~Admits(policy, m.canonical, IsAction(u))
  <2>1. /\ a.class = "AllowListAdmissionRequired"
        /\ m.canonical = IF a.canonical # NoRepo THEN a.canonical ELSE u.to
    BY <1>8, <1>14, MoveIsOfCause
  <2>2. /\ pattern # NoPattern /\ ~AdmissionUnknown(list, name, IsAction(u))
        /\ a.canonical = resolution.canonical
    BY <1>7, <2>1, CauseOfCoordinate DEF Attribution
  <2>3. m.canonical = name
    BY <1>11, <1>12, <2>1, <2>2
  <2>4. list # NoList /\ ~Covers(list, name)
    BY <2>2 DEF MissingPattern
  <2>5. policy.allowed = "selected" /\ list = policy.list
    BY <1>14, <2>4 DEF NamesInv, ListIsPolicy
  <2>6. ~(IsAction(u) /\ list.verified)
    BY <2>2, <2>4 DEF AdmissionUnknown
  <2> QED
    BY <2>3, <2>4, <2>5, <2>6 DEF Admits
<1> QED
  BY <1>4, <1>5, <1>6, <1>8, <1>9, <1>10, <1>13, <1>14

\* At first no move is proposed.
LEMMA MovesInit == Init => MovesHaveGround
BY DEF Init, MovesHaveGround

\* A move is proposed only for a reference of the very file and revision that
\* died without jobs, and only for a name that leads elsewhere or that GitHub
\* refuses, for any runs, posture, names and failures.
THEOREM MovesHaveGroundAlways == Spec => []MovesHaveGround
<1>1. ASSUME RunsInv, EvidenceInv, NamesInv, MovesHaveGround, [Next]_vars
      PROVE  MovesHaveGround'
  <2>1. CASE UNCHANGED vars
    BY <1>1, <2>1 DEF vars, world, reading, MovesHaveGround, Bound, UsesOf, Admits, Covers
  <2>2. CASE report' = <<>>
    BY <2>2 DEF MovesHaveGround
  <2>3. CASE Report
    <3>1. UNCHANGED <<runs, switches, touched, home, policy>>
      BY <2>3 DEF Report, world
    <3> QED
      BY <1>1, <2>3, <3>1, MovesReport DEF MovesHaveGround, Bound, UsesOf
  <2> QED
    BY <1>1, <2>1, <2>2, <2>3, ReportIsLast
<1> QED
  BY MovesInit, <1>1, RunsAreKept, EvidenceIsHeads, NamesAreTrue, PTL DEF Spec

-----------------------------------------------------------------------------
(***************************************************************************)
(* The causes are all of them.                                             *)
(***************************************************************************)
\* At first nothing is missing.
LEMMA CompleteInit == Init => Complete
<1> SUFFICES ASSUME Init PROVE Complete
  OBVIOUS
<1>1. PICK s \in Situations : /\ begun = s /\ changes = s.changes /\ faults = s.faults
                              /\ switches = 0 /\ pc = "before" /\ names = <<>>
  BY DEF Init
<1>2. s \in Situation /\ s.changes \in Nat /\ s.faults \in Nat
  BY SituationAssumption DEF Situation
<1> QED
  BY <1>1, <1>2 DEF Complete

\* After a change or a failure nothing is claimed any more.
LEMMA CompleteDisturbed ==
  ASSUME RunsInv, Complete, World \/ (Process /\ Fault)
  PROVE  Complete'
<1>0. begun' = begun
  BY ProcessFrame DEF World
<1>1. changes \in Nat /\ faults \in Nat /\ begun.changes \in Nat /\ begun.faults \in Nat
  BY DEF RunsInv, WorldType, Complete, Situation
<1>2. CASE World
  <2>1. changes > 0 /\ changes' = changes - 1 /\ UNCHANGED faults
    BY <1>2 DEF World, Switch, Rerun, Post, Rename, Change
  <2> QED
    BY <1>0, <1>1, <2>1 DEF Complete, Undisturbed
<1>3. CASE Process /\ Fault
  <2>1. faults > 0 /\ faults' = faults - 1 /\ UNCHANGED <<changes, switches>>
    BY <1>3, ProcessFrame DEF Fault, world
  <2> QED
    BY <1>0, <1>1, <2>1 DEF Complete, Undisturbed
<1> QED
  BY <1>2, <1>3

\* Where no fault is used up, none happens.
LEMMA NoFaultNow ==
  ASSUME RunsInv, NoFault
  PROVE  ~Fault
BY DEF NoFault, Fault, RunsInv, WorldType

\* Without fault or change, a step of the run misses nothing.
LEMMA CompleteProcess ==
  ASSUME RunsInv, EvidenceInv, NamesInv, Complete, Process, NoFault
  PROVE  Complete'
<1>0. UNCHANGED <<changes, switches, begun, faults, home, policy>> /\ (Undisturbed' <=> Undisturbed)
  BY ProcessFrame DEF NoFault, world, Undisturbed
<1>1. ASSUME Undisturbed,
             pc' \in {"names", "owner", "report"} =>
               \/ ~\E i \in DOMAIN listed' : Matching(i, head)'
               \/ /\ policy.allowed = "selected" => list' = policy.list
                  /\ Wanted' \subseteq DOMAIN names' \cup targets'
                  /\ pc' = "report" => targets' = {},
             pc' = "owner" => home[NextName'] = NoRepo,
             \A n \in DOMAIN names' :
               /\ home[n] = n => names'[n].is = "Canonical"
               /\ home[n] \notin {n, NoRepo} => names'[n] = MovedTo(home[n])
      PROVE  Complete'
  BY <1>0, <1>1 DEF Complete
<1>2. CASE ~Undisturbed
  BY <1>0, <1>2 DEF Complete
<1> SUFFICES ASSUME Undisturbed PROVE Complete'
  BY <1>2
<1>3. /\ pc \in {"names", "owner", "report"} =>
            \/ ~\E i \in DOMAIN listed : Matching(i, head)
            \/ /\ policy.allowed = "selected" => list = policy.list
               /\ Wanted \subseteq DOMAIN names \cup targets
               /\ pc = "report" => targets = {}
      /\ pc = "owner" => home[NextName] = NoRepo
      /\ \A n \in DOMAIN names :
            /\ home[n] = n => names[n].is = "Canonical"
            /\ home[n] \notin {n, NoRepo} => names[n] = MovedTo(home[n])
  BY DEF Complete
<1>4. UNCHANGED <<listed, source, head>> =>
        Wanted' = Wanted /\ \A i : Matching(i, head)' = Matching(i, head)
  BY DEF Wanted, Matching
<1>5. ASSUME UNCHANGED names, pc' \notin {"names", "owner", "report"}
      PROVE  Complete'
  BY <1>1, <1>3, <1>5
<1>6. CASE ReadBefore \/ TakeSnapshot \/ ListRuns \/ CountJobs \/ JobsEnd
  BY <1>5, <1>6 DEF ReadBefore, TakeSnapshot, ListRuns, CountJobs, JobsEnd, Goes, ToolFailure
<1>7. CASE ReadAfter
  <2>1. /\ UNCHANGED <<names, listed>>
        /\ \/ pc' \in {"verify", "permissions"}
           \/ pc' = "report" /\ ~\E i \in DOMAIN listed : Matching(i, head')
    BY <1>7 DEF ReadAfter, Goes
  <2>2. \A i : Matching(i, head)' = Matching(i, head')
    BY <2>1 DEF Matching
  <2> QED
    BY <1>1, <1>3, <2>1, <2>2
<1>8. CASE StartVerifier \/ RunVerifier \/ EndVerifier
  BY <1>5, <1>8 DEF StartVerifier, RunVerifier, EndVerifier, Goes
<1>9. CASE ReadPermissions \/ ReadSelected
  <2>1. UNCHANGED <<names, listed, source, head>>
    BY <1>9 DEF ReadPermissions, ReadSelected
  <2>2. CASE pc' = "selected"
    BY <1>5, <2>1, <2>2
  <2>3. CASE pc' # "selected"
    <3>1. /\ pc' = "names" /\ targets' = Wanted
          /\ policy.allowed = "selected" => list' = policy.list
      BY <1>9, <2>3, NoFaultNow DEF ReadPermissions, ReadSelected, PolicyRead, Goes, NoFault, Fault
    <3> QED
      BY <1>1, <1>3, <1>4, <2>1, <3>1
  <2> QED
    BY <2>2, <2>3
<1>10. ASSUME NEW resolution, NameIs(resolution), UNCHANGED <<listed, source, head, list>>,
              pc \in {"names", "owner"},
              home[NextName] = NextName => resolution.is = "Canonical",
              home[NextName] \notin {NextName, NoRepo} => resolution = MovedTo(home[NextName])
       PROVE  Complete'
  <2>1. /\ DOMAIN names' \cup targets' = DOMAIN names \cup targets \cup {NextName}
        /\ pc' = "names"
    BY <1>10, NameIsLearnt
  <2>2. \A n \in DOMAIN names' :
            /\ home[n] = n => names'[n].is = "Canonical"
            /\ home[n] \notin {n, NoRepo} => names'[n] = MovedTo(home[n])
    BY <1>3, <1>10, NameIsLearnt
  <2> QED
    BY <1>1, <1>3, <1>4, <1>10, <2>1, <2>2
<1>11. CASE ResolveName
  <2> DEFINE n == NextName
  <2>1. pc = "names" /\ UNCHANGED <<listed, source, head, list>>
    BY <1>11 DEF ResolveName
  <2>2. \/ home[n] = n /\ NameIs(Named("Canonical"))
        \/ home[n] \notin {n, NoRepo} /\ NameIs(MovedTo(home[n]))
        \/ home[n] = NoRepo /\ pc' = "owner" /\ UNCHANGED <<names, targets>>
    BY <1>11, NoFaultNow, Zenon DEF ResolveName, Goes
  <2>3. CASE home[n] = n /\ NameIs(Named("Canonical"))
    BY <1>10, <2>1, <2>3 DEF Named
  <2>4. CASE home[n] \notin {n, NoRepo} /\ NameIs(MovedTo(home[n]))
    BY <1>10, <2>1, <2>4
  <2>5. CASE home[n] = NoRepo /\ pc' = "owner" /\ UNCHANGED <<names, targets>>
    <3>1. NextName' = NextName
      BY <2>5 DEF NextName
    <3> QED
      BY <1>1, <1>3, <1>4, <2>1, <2>5, <3>1
  <2> QED
    BY <2>2, <2>3, <2>4, <2>5
<1>12. CASE ProbeOwner
  <2>1. /\ pc = "owner" /\ UNCHANGED <<listed, source, head, list>>
        /\ NameIs(OwnerSays(NextName))
    BY <1>12, NoFaultNow, Zenon DEF ProbeOwner
  <2>2. NextName \in Repo
    BY <2>1, NextIsLeft DEF NamesInv, TargetsLeft
  <2>3. home[NextName] = NoRepo /\ NextName # NoRepo
    BY <1>3, <2>1, <2>2, Numbers
  <2> QED
    BY <1>10, <2>1, <2>3
<1>13. CASE NamesEnd
  <2>1. pc = "names" /\ targets = {} /\ pc' = "report" /\ UNCHANGED reading
    BY <1>13 DEF NamesEnd, Goes
  <2> QED
    BY <1>1, <1>3, <1>4, <2>1 DEF reading
<1>14. CASE Report
  BY <1>5, <1>14 DEF Report, reading
<1> QED
  BY <1>6, <1>7, <1>8, <1>9, <1>11, <1>12, <1>13, <1>14 DEF Process

\* Every step keeps the evidence complete.
LEMMA CompleteStep ==
  ASSUME RunsInv, EvidenceInv, NamesInv, Complete, [Next]_vars
  PROVE  Complete'
<1>1. CASE UNCHANGED vars
  BY <1>1 DEF vars, world, reading, Complete, Undisturbed, Wanted, Matching, NextName
<1> QED
  BY <1>1, CompleteDisturbed, CompleteProcess, ProcessFrame DEF Next, Finished

\* As long as nothing fails and nothing changes, what was read is all there is.
THEOREM EvidenceIsComplete == Spec => []Complete
BY CompleteInit, CompleteStep, RunsAreKept, EvidenceIsHeads, NamesAreTrue, PTL DEF Spec

\* With complete evidence, a run that blames one coordinate blames every one
\* there is to blame.
LEMMA CausesReport ==
  ASSUME RunsInv, EvidenceInv, NamesInv, Complete, Report, Undisturbed,
         NEW i \in DOMAIN report',
         NEW b \in Primary(report'[i]), b.coordinate # NoUse,
         NEW u \in UsesOf(i), home[u.to] # NoRepo
  PROVE  /\ ~IsAction(u) /\ home[u.to] # u.to =>
              \E a \in report'[i] : a.class = "MovedCoordinate" /\ a.coordinate = u
         /\ policy.allowed = "selected" =>
              \/ Covers(policy.list, home[u.to])
              \/ \E a \in report'[i] : a.class # "Unattributed" /\ a.pattern = {home[u.to]}
              \/ IsAction(u) /\ policy.list.verified
<1> DEFINE file == ResolveRunWorkflow(listed[i].denoted, source.present)
           all  == AttributeWorkflow(file, source.files[file], names, list)
<1>1. /\ pc = "report" /\ i \in DOMAIN listed
      /\ report'[i] = AttributeRun(listed[i], source, names, list, head, lock)
  BY DEF Report
<1>2. b \in report'[i] /\ b.class # "Unattributed"
  BY DEF Primary
<1>3. /\ Unattributed(NoFile).class = "Unattributed" /\ Unattributed(file).class = "Unattributed"
      /\ [Unattributed(file) EXCEPT !.class = LockClass(lock, file)].coordinate = NoUse
  BY DEF Unattributed, Attribution
<1>4. /\ listed[i].jobs = 0 /\ listed[i].head = head /\ head # NoRev /\ file # NoFile
      /\ Primary(all) \subseteq report'[i]
  <2>1. \/ b = Unattributed(NoFile)
        \/ /\ listed[i].jobs = 0 /\ listed[i].head = head /\ head # NoRev
           /\ \/ b = [Unattributed(file) EXCEPT !.class = LockClass(lock, file)]
              \/ /\ file # NoFile
                 /\ \/ b = Unattributed(file)
                    \/ Primary(all) \subseteq report'[i]
    BY <1>1, <1>2, AttributedBy
  <2> HIDE DEF file, all
  <2> QED
    BY <1>2, <1>3, <2>1
<1>5. Bound
  BY DEF Undisturbed, Complete, Bound
<1>6. /\ i \in Run /\ runs[i].head = head /\ head \in Rev /\ source = TreeOf[head]
      /\ file = runs[i].file
  BY <1>1, <1>4, <1>5, AttributedRun
<1>7. u \in ToSet(source.files[file])
  BY <1>6 DEF UsesOf
<1>8. Matching(i, head)
  BY <1>4 DEF Matching, SameRevision
<1>9. /\ policy.allowed = "selected" => list = policy.list
      /\ Wanted \subseteq DOMAIN names
  BY <1>1, <1>8 DEF Complete
<1>10. u.to \in DOMAIN names /\ u.to \in Repo /\ home[u.to] \in Repo
  <2>1. u.to \in Wanted
    BY <1>1, <1>4, <1>7, <1>8 DEF Wanted
  <2> QED
    BY <1>9, <2>1 DEF NamesInv, NamesLead, RunsInv, WorldType
<1> DEFINE resolution == ResolutionOf(names, u.to)
           a          == AttributeZeroJob(file, u, resolution, list)
<1> HIDE DEF file
<1>11. a \in all
  BY <1>7 DEF AttributeWorkflow
<1>12. a.class # "Unattributed" => a \in report'[i]
  BY <1>4, <1>11 DEF Primary
<1>13. /\ home[u.to] = u.to => resolution.is = "Canonical"
       /\ home[u.to] # u.to => resolution.is = "Moved" /\ resolution.canonical = home[u.to]
  BY <1>10 DEF Complete, ResolutionOf, MovedTo
<1>14. Effective(u, resolution) = home[u.to]
  BY <1>13 DEF Effective
<1>15. resolution.is # "NotFound"
  BY <1>13
<1>16. ASSUME ~IsAction(u), home[u.to] # u.to
       PROVE  \E c \in report'[i] : c.class = "MovedCoordinate" /\ c.coordinate = u
  <2>1. a.class = "MovedCoordinate" /\ a.coordinate = u
    BY <1>13, <1>16, CauseOfCoordinate DEF Attribution
  <2> QED
    BY <1>12, <2>1
<1>17. ASSUME policy.allowed = "selected", ~Covers(policy.list, home[u.to]),
              ~(IsAction(u) /\ policy.list.verified)
       PROVE  \E c \in report'[i] : c.class # "Unattributed" /\ c.pattern = {home[u.to]}
  <2>1. list = policy.list /\ list # NoList
    <3>1. policy.list \in AllowList
      BY DEF RunsInv, WorldType, Policy
    <3>2. policy.list # NoList
      BY <3>1 DEF AllowList, NoList
    <3> QED
      BY <1>9, <1>17, <3>2
  <2>2. MissingPattern(list, home[u.to]) = {home[u.to]}
    BY <1>17, <2>1 DEF MissingPattern
  <2>3. {home[u.to]} # NoPattern
    BY DEF NoPattern
  <2>4. ~AdmissionUnknown(list, home[u.to], IsAction(u))
    BY <1>17, <2>1 DEF AdmissionUnknown
  <2>5. a.class # "Unattributed" /\ a.pattern = {home[u.to]}
    BY <1>14, <1>15, <2>2, <2>3, <2>4, CauseOfCoordinate DEF Attribution
  <2> QED
    BY <1>12, <2>5
<1> QED
  BY <1>16, <1>17

\* At first no cause is reported.
LEMMA CausesInit == Init => CausesAreComplete
BY DEF Init, CausesAreComplete

\* When nothing failed and nothing changed, a run that blames a coordinate names
\* every reference of its workflow that is under an old name or refused, for any
\* workflow, names and allow-list.
THEOREM CausesAreCompleteAlways == Spec => []CausesAreComplete
<1>1. ASSUME RunsInv, EvidenceInv, NamesInv, Complete, CausesAreComplete, [Next]_vars
      PROVE  CausesAreComplete'
  <2>1. CASE UNCHANGED vars
    BY <1>1, <2>1 DEF vars, world, reading, CausesAreComplete, UsesOf, Admits, Admitting, Covers, Primary
  <2>2. CASE report' = <<>>
    BY <2>2 DEF CausesAreComplete
  <2>3. CASE Report
    <3>1. UNCHANGED <<runs, changes, faults, begun, home, policy>>
      BY <2>3 DEF Report, world, NoFault
    <3> SUFFICES ASSUME Undisturbed, NEW i \in DOMAIN report',
                        NEW b \in Primary(report'[i]), b.coordinate # NoUse,
                        NEW u \in UsesOf(i), home[u.to] # NoRepo
                 PROVE  /\ ~IsAction(u) /\ home[u.to] # u.to =>
                             \E a \in report'[i] : a.class = "MovedCoordinate" /\ a.coordinate = u
                        /\ policy.allowed = "selected" =>
                             \/ Admits(Admitting(i)', home[u.to], IsAction(u))
                             \/ IsAction(u) /\ policy.list.verified
      BY <3>1, Zenon DEF CausesAreComplete, Undisturbed, UsesOf
    <3>2. /\ ~IsAction(u) /\ home[u.to] # u.to =>
               \E a \in report'[i] : a.class = "MovedCoordinate" /\ a.coordinate = u
          /\ policy.allowed = "selected" =>
               \/ Covers(policy.list, home[u.to])
               \/ \E a \in report'[i] : a.class # "Unattributed" /\ a.pattern = {home[u.to]}
               \/ IsAction(u) /\ policy.list.verified
      BY <1>1, <2>3, CausesReport
    <3>3. policy \in Policy
      BY <1>1 DEF RunsInv, WorldType
    <3>4. /\ Admitting(i)'.allowed = policy.allowed
          /\ Admitting(i)'.list.github = policy.list.github
          /\ Admitting(i)'.list.patterns = policy.list.patterns \cup
               {a.pattern : a \in {c \in report'[i] : c.class # "Unattributed" /\ c.pattern # NoPattern}}
      BY <3>1, <3>3 DEF Admitting, Policy, AllowList
    <3>5. ASSUME Covers(policy.list, home[u.to])
          PROVE  Covers(Admitting(i)'.list, home[u.to])
      BY <3>4, <3>5 DEF Covers
    <3>6. ASSUME NEW a \in report'[i], a.class # "Unattributed", a.pattern = {home[u.to]}
          PROVE  Covers(Admitting(i)'.list, home[u.to])
      <4>1. a.pattern \in Admitting(i)'.list.patterns
        BY <3>4, <3>6 DEF NoPattern
      <4> QED
        BY <3>6, <4>1 DEF Covers
    <3> QED
      BY <3>2, <3>4, <3>5, <3>6 DEF Admits
  <2> QED
    BY <1>1, <2>1, <2>2, <2>3, ReportIsLast
<1> QED
  BY CausesInit, <1>1, RunsAreKept, EvidenceIsHeads, NamesAreTrue, EvidenceIsComplete, PTL DEF Spec

================================================================================
