---------------------------- MODULE VerifyProofs ----------------------------
(***************************************************************************)
(* Proofs about the definition of done, for every set of facts, and about  *)
(* `squabble verify-satisfied`, for every pull request, every page size    *)
(* and every interleaving of reads and changes.                            *)
(***************************************************************************)
EXTENDS VerifySatisfied, FiniteSetTheorems, SequenceTheorems, TLAPS

-----------------------------------------------------------------------------
(***************************************************************************)
(* The definition of done, for every pull request.                         *)
(***************************************************************************)

\* A context with a failed run is Failed, whatever else runs under its name: no
\* run ranks above a failed one, and no other run ranks with it.
LEMMA FailedDecides ==
  ASSUME NEW runs, runs \subseteq CheckRun, "Failed" \in runs
  PROVE  ForContext(runs) = "Failed"
<1>1. \A r, s \in CheckRun : Rank(r) <= Rank("Failed") /\ (Rank("Failed") <= Rank(s) => s = "Failed")
  BY DEF Rank, CheckRun
<1>2. \E r \in runs : \A s \in runs : Rank(s) <= Rank(r)
  BY <1>1
<1>3. /\ ForContext(runs) \in runs
      /\ \A s \in runs : Rank(s) <= Rank(ForContext(runs))
  BY <1>2 DEF ForContext
<1> QED
  BY <1>1, <1>3

\* An open pull request that is done has automerge armed, or something that a
\* person is named for: "armed and waiting for the owner" (done.rs).
THEOREM DoneHasAnOwner ==
  ASSUME NEW f, f.state = "Open", IsDone(f)
  PROVE  f.autoMerge \in Automatic \/ HumanItems(f) # {}
<1>1. MergeItems(f) = {}
  BY DEF IsDone, AgentItems, OpenItems
<1>2. ~Queue(f)
  BY <1>1 DEF MergeItems
<1>3. CASE f.autoMerge \in Automatic
  BY <1>3
<1>4. CASE f.autoMerge \notin Automatic
  <2>1. f.autoMerge = "none" /\ f.mergeState # "BLOCKED" /\ ~RequiredPending(f)
    BY <1>1, <1>2, <1>4 DEF MergeItems
  <2>2. <<"AwaitingHumanMerge", "pr">> \in HumanItems(f)
    BY <1>2, <2>1 DEF HumanItems
  <2> QED
    BY <2>2
<1> QED
  BY <1>3, <1>4

\* An open pull request that is done has no red check that is required, and
\* none that no line of its description acknowledges.
THEOREM DoneHasNoRed ==
  ASSUME NEW f, f.state = "Open", IsDone(f),
         \A o \in f.observed : o.run \in CheckRun,
         NEW o \in f.observed, o.run = "Failed"
  PROVE  o.name \notin f.required /\ Acknowledged(f, o.name)
<1>1. RequiredItems(f) = {} /\ FailedItems(f) = {}
  BY DEF IsDone, AgentItems, OpenItems
<1>2. o.name \notin f.required
  <2> SUFFICES ASSUME o.name \in f.required PROVE FALSE
    OBVIOUS
  <2> DEFINE runs == {x.run : x \in {y \in f.observed : y.name = o.name}}
  <2>1. runs \subseteq CheckRun /\ "Failed" \in runs
    OBVIOUS
  <2>2. ForContext(runs) = "Failed"
    BY <2>1, FailedDecides
  <2>3. RequiredGate(f)[o.name] = "Failed"
    BY <2>2 DEF RequiredGate, BuildGate
  <2> QED
    BY <1>1, <2>3 DEF RequiredItems
<1> QED
  BY <1>1, <1>2 DEF FailedItems

-----------------------------------------------------------------------------
(***************************************************************************)
(* The world.                                                              *)
(***************************************************************************)

\* The world starts and stays well typed.
LEMMA WorldType ==
  /\ InitWorld => WorldTypeOK
  /\ WorldTypeOK /\ World => WorldTypeOK'
<1> USE WorldAssumption DEF WorldTypeOK
<1>1. InitWorld => WorldTypeOK
  BY DEF InitWorld
<1>2. ASSUME WorldTypeOK, World PROVE WorldTypeOK'
  <2> USE <1>2
  <2>1. CASE Push
    BY <2>1 DEF Push, Change
  <2>2. ASSUME NEW run \in Runs, Report(run) PROVE WorldTypeOK'
    BY <2>2 DEF Report, Change
  <2>3. ASSUME NEW i \in DOMAIN rollup, NEW run \in Runs, Proceed(i, run)
        PROVE  WorldTypeOK'
    <3>1. i \in 1..Len(rollup)
      BY <2>3
    <3>2. rollup' \in Seq(Runs)
      BY <2>3, <3>1, ExceptSeq DEF Proceed
    <3> QED
      BY <2>3, <3>2 DEF Proceed, Change
  <2>4. CASE OpenThread
    BY <2>4 DEF OpenThread, Change
  <2>5. ASSUME NEW i \in DOMAIN threads, TurnThread(i) PROVE WorldTypeOK'
    <3>1. i \in 1..Len(threads) /\ (~threads[i]) \in BOOLEAN
      BY <2>5
    <3>2. threads' = [threads EXCEPT ![i] = ~threads[i]]
      BY <2>5 DEF TurnThread
    <3>3. threads' \in Seq(BOOLEAN)
      BY <3>1, <3>2, ExceptSeq
    <3> QED
      BY <2>5, <3>3 DEF TurnThread, Change
  <2>6. CASE Edit
    BY <2>6 DEF Edit, Change
  <2>7. CASE Protect
    BY <2>7 DEF Protect, Change
  <2> QED
    BY <2>1, <2>2, <2>3, <2>4, <2>5, <2>6, <2>7 DEF World
<1> QED
  BY <1>1, <1>2

\* A head only gains runs, and a run keeps its name and its producer; only a
\* push takes runs away, and it changes the head.
LEMMA HeadKeepsItsRuns ==
  ASSUME WorldTypeOK, World, head' = head
  PROVE  \A i \in DOMAIN rollup :
           /\ i \in DOMAIN rollup'
           /\ rollup'[i].name = rollup[i].name
           /\ rollup'[i].app = rollup[i].app
<1> USE DEF WorldTypeOK
<1>1. ~Push
  BY DEF Push
<1>2. ASSUME NEW run \in Runs, Report(run)
      PROVE  \A i \in DOMAIN rollup : i \in DOMAIN rollup' /\ rollup'[i] = rollup[i]
  BY <1>2 DEF Report
<1>3. ASSUME NEW j \in DOMAIN rollup, NEW run \in Runs, Proceed(j, run)
      PROVE  \A i \in DOMAIN rollup :
               /\ i \in DOMAIN rollup'
               /\ rollup'[i].name = rollup[i].name
               /\ rollup'[i].app = rollup[i].app
  BY <1>3 DEF Proceed
<1>4. ASSUME OpenThread \/ (\E i \in DOMAIN threads : TurnThread(i)) \/ Edit \/ Protect
      PROVE  rollup' = rollup
  BY <1>4 DEF OpenThread, TurnThread, Edit, Protect
<1> QED
  BY <1>1, <1>2, <1>3, <1>4 DEF World

\* Every conclusion of every status is mapped to a run (gate.rs, from_github).
LEMMA FromGithubType ==
  ASSUME NEW s, NEW c
  PROVE  FromGithub(s, c) \in CheckRun
BY DEF FromGithub, Recognised, CheckRun

-----------------------------------------------------------------------------
(***************************************************************************)
(* Type correctness.                                                       *)
(***************************************************************************)

\* The history variables are well typed after a change of the world.
LEMMA HappenType == TypeOK /\ Happen => TypeOK'
<1> SUFFICES ASSUME TypeOK, Happen PROVE TypeOK'
  OBVIOUS
<1>1. WorldTypeOK'
  BY WorldType DEF TypeOK, Happen
<1>2. standing' \subseteq DOMAIN threads'
  BY DEF Happen, Unresolved
<1>3. red' \subseteq DOMAIN rollup'
  <2>1. CASE head' # head
    BY <2>1 DEF Happen
  <2>2. CASE head' = head
    BY <2>2, HeadKeepsItsRuns DEF Happen, TypeOK, VerifyTypeOK
  <2> QED
    BY <2>1, <2>2
<1> QED
  BY <1>1, <1>2, <1>3
  DEF TypeOK, VerifyTypeOK, Happen, reading, gate, answer

\* Every step of the process keeps the types.
LEMMA VerifyStepType == TypeOK /\ Verify => TypeOK'
<1> SUFFICES ASSUME TypeOK, Verify PROVE TypeOK'
  OBVIOUS
<1> USE DEF TypeOK, VerifyTypeOK
<1>0. UNCHANGED world => WorldTypeOK'
  BY DEF WorldTypeOK, world
<1>1. CASE Begin
  <2>1. UNCHANGED world
    BY <1>1 DEF Begin
  <2>2. standing' \subseteq DOMAIN threads' /\ red' \subseteq DOMAIN rollup'
    BY <1>1, <2>1 DEF Begin, Unresolved, world
  <2> QED
    BY <1>0, <1>1, <2>1, <2>2 DEF Begin
<1>2. ASSUME NEW asked \in SUBSET requesters, FetchPage(asked) PROVE TypeOK'
  <2>1. UNCHANGED world /\ UNCHANGED <<answer, quiet, standing, red>>
    BY <1>2 DEF FetchPage
  <2>2. pos' \in [Connection -> Nat] /\ round' \in Nat /\ finished' \subseteq Connection
    BY <1>2, BoundAssumption DEF FetchPage
  <2>3. first'.a \in Attributes /\ first'.head \in Nat
    BY <1>2 DEF FetchPage, WorldTypeOK
  <2>4. \A i : Observed(rollup[i]).run \in CheckRun
    BY FromGithubType DEF Observed
  <2>5. \A o \in observed' : o.run \in CheckRun
    BY <1>2, <2>4 DEF FetchPage
  <2>6. /\ Page("threads") \subseteq Nat /\ Page("commits") \subseteq Nat
    BY DEF Page, List, WorldTypeOK
  <2>7. open' \subseteq Nat /\ unverified' \subseteq Nat
    BY <1>2, <2>6 DEF FetchPage
  <2>8. heads' \subseteq Nat
    BY <1>2 DEF FetchPage, WorldTypeOK
  <2>9. pc' \in {"idle", "query", "rules", "classic", "judge"}
    BY <1>2 DEF FetchPage
  <2> QED
    BY <1>0, <2>1, <2>2, <2>3, <2>5, <2>7, <2>8, <2>9 DEF answer, world
<1>3. CASE FetchFails \/ TooManyPages \/ BaseFails
  BY <1>0, <1>3 DEF FetchFails, TooManyPages, BaseFails, Exit, reading, past, world
<1>4. CASE ReadRules \/ ReadClassic
  BY <1>0, <1>4 DEF ReadRules, ReadClassic, Exit, reading, past, answer, world
<1>5. CASE Judge
  BY <1>0, <1>5 DEF Judge, Exit, reading, past, world
<1> QED
  BY <1>1, <1>2, <1>3, <1>4, <1>5 DEF Verify

\* Init is well typed.
LEMMA InitVerifyType == Init => TypeOK
<1> SUFFICES ASSUME Init PROVE TypeOK
  OBVIOUS
<1>1. WorldTypeOK
  BY WorldType DEF Init
<1>2. first.a \in Attributes /\ first.head \in Nat
  BY DEF Init, NothingRead, InitWorld
<1>3. pos \in [Connection -> Nat]
  BY DEF Init
<1> QED
  BY <1>1, <1>2, <1>3 DEF Init, TypeOK, VerifyTypeOK

\* Every reachable state is well typed, for every page size and bound.
THEOREM VerifyTypeCorrect == Spec => []TypeOK
<1>1. ASSUME TypeOK, UNCHANGED vars PROVE TypeOK'
  BY <1>1 DEF TypeOK, WorldTypeOK, VerifyTypeOK, vars, world, reading, answer, past
<1>2. TypeOK /\ [Next]_vars => TypeOK'
  BY <1>1, HappenType, VerifyStepType DEF Next
<1> QED
  BY InitVerifyType, <1>2, PTL DEF Spec

-----------------------------------------------------------------------------
(***************************************************************************)
(* The invariant behind the verdict.                                       *)
(***************************************************************************)

\* What is on the pages read so far, and what is after the cursor.
ThreadsRead ==
  \A t \in standing :
    /\ t \in Unresolved(threads)
    /\ t \in open \/ ("threads" \notin finished /\ t > pos["threads"])

RedsRead ==
  \A i \in red :
    /\ Failed(i)
    /\ \/ Observed(rollup[i]) \in observed
       \/ "contexts" \notin finished /\ i > pos["contexts"]
    /\ round > 0 => ~Acknowledged(first.a, rollup[i].name)

\* Where the process is, and what its last verdict came from.
Course ==
  /\ round = 0 => finished = {}
  /\ pc \in {"rules", "classic", "judge"} \/ Judged => finished = Connection
  /\ pc # "idle" => exit = "none"
  /\ Judged => items = AgentItems(FactsRead) /\ held = HumanItems(FactsRead)
  /\ exit = "0" => items = {}

ReadInv == TypeOK /\ ThreadsRead /\ RedsRead /\ Course

\* No page precedes the first one.
LEMMA InitRead == Init => ReadInv
<1> SUFFICES ASSUME Init PROVE ReadInv
  OBVIOUS
<1>1. TypeOK
  BY InitVerifyType
<1> QED
  BY <1>1 DEF Init, ReadInv, ThreadsRead, RedsRead, Course, Judged

\* A change of the world only removes threads and runs from the history, and
\* what stays there is unchanged: a run that stays red is observed as it was.
LEMMA HappenRead == ReadInv /\ Happen => ReadInv'
<1> SUFFICES ASSUME ReadInv, Happen PROVE ReadInv'
  OBVIOUS
<1> USE DEF ReadInv
<1>1. TypeOK'
  BY HappenType
<1>2. UNCHANGED <<pc, reading, gate, answer>> /\ standing' \subseteq standing
  BY DEF Happen
<1>3. ThreadsRead'
  BY <1>2 DEF ThreadsRead, reading, Happen
<1>4. FactsRead' = FactsRead
  BY <1>2 DEF FactsRead, reading, gate
<1>5. Course'
  BY <1>2, <1>4 DEF Course, Judged, reading, answer
<1>6. RedsRead'
  <2> SUFFICES ASSUME NEW i \in red'
               PROVE  /\ Failed(i)'
                      /\ \/ Observed(rollup[i])' \in observed'
                         \/ "contexts" \notin finished' /\ i > pos'["contexts"]
                      /\ round' > 0 => ~Acknowledged(first.a, rollup[i].name)'
    BY DEF RedsRead
  <2>1. head' = head /\ i \in red /\ Failed(i)'
    BY DEF Happen
  <2>2. rollup'[i].name = rollup[i].name /\ rollup'[i].app = rollup[i].app
    BY <2>1, HeadKeepsItsRuns DEF Happen, TypeOK, VerifyTypeOK
  <2>3. Failed(i)
    BY <2>1 DEF RedsRead
  <2>4. Observed(rollup'[i]) = Observed(rollup[i])
    BY <2>1, <2>2, <2>3 DEF Failed, Observed
  <2> QED
    BY <1>2, <2>1, <2>2, <2>4 DEF RedsRead, reading
<1> QED
  BY <1>1, <1>3, <1>5, <1>6

\* A query reads the nodes between the old cursor and the new one; a connection
\* counts as finished only when no node follows.
LEMMA PageRead ==
  ASSUME ReadInv, NEW asked \in SUBSET requesters, FetchPage(asked), TypeOK'
  PROVE  ReadInv'
<1> USE DEF ReadInv
<1>1. UNCHANGED <<world, gate, answer, quiet, standing, red>>
  BY DEF FetchPage
<1>2. \A c \in Connection :
        /\ c \in finished => c \in finished'
        /\ c \notin finished /\ c \in finished' => IsLast(c)
        /\ c \notin finished /\ c \notin finished' => pos'[c] = pos[c] + PageSize
  BY DEF FetchPage
<1>3. ThreadsRead'
  <2> SUFFICES ASSUME NEW t \in standing
               PROVE  t \in open' \/ ("threads" \notin finished' /\ t > pos'["threads"])
    BY <1>1 DEF ThreadsRead, world, Unresolved
  <2>1. /\ t \in DOMAIN threads /\ t \in Nat /\ t <= Len(threads)
        /\ t \in Unresolved(threads) /\ pos["threads"] \in Nat
    <3>1. threads \in Seq(BOOLEAN) /\ pos \in [Connection -> Nat]
      BY DEF TypeOK, VerifyTypeOK, WorldTypeOK
    <3>2. t \in Unresolved(threads) /\ t \in DOMAIN threads
      BY DEF ThreadsRead, Unresolved
    <3> QED
      BY ONLY <3>1, <3>2 DEF Connection
  <2>2. CASE t \in open
    BY <2>2 DEF FetchPage
  <2>3. CASE t \notin open
    <3>1. "threads" \notin finished /\ t > pos["threads"]
      BY <2>3 DEF ThreadsRead
    <3>2. List("threads") = threads
      BY DEF List
    <3>3. CASE t <= pos["threads"] + PageSize
      <4>1. t \in Page("threads")
        BY <2>1, <3>1, <3>2, <3>3 DEF Page
      <4> QED
        BY <2>1, <3>1, <4>1 DEF FetchPage
    <3>4. CASE t > pos["threads"] + PageSize
      <4>1. ~IsLast("threads")
        BY <2>1, <3>2, <3>4, BoundAssumption DEF IsLast, TypeOK, WorldTypeOK
      <4> QED
        BY <1>2, <3>1, <3>4, <4>1 DEF Connection
    <3> QED
      BY <2>1, <3>3, <3>4, BoundAssumption
  <2> QED
    BY <2>2, <2>3
<1>4. ASSUME NEW i \in red
      PROVE  \/ Observed(rollup[i]) \in observed'
             \/ "contexts" \notin finished' /\ i > pos'["contexts"]
  <2>1. /\ i \in DOMAIN rollup /\ i \in Nat /\ i <= Len(rollup)
        /\ pos["contexts"] \in Nat
    <3>1. /\ rollup \in Seq(Runs) /\ pos \in [Connection -> Nat]
          /\ i \in DOMAIN rollup
      BY DEF TypeOK, VerifyTypeOK, WorldTypeOK
    <3> QED
      BY ONLY <3>1 DEF Connection
  <2>2. CASE Observed(rollup[i]) \in observed
    BY <2>2 DEF FetchPage
  <2>3. CASE Observed(rollup[i]) \notin observed
    <3>1. "contexts" \notin finished /\ i > pos["contexts"]
      BY <2>3 DEF RedsRead
    <3>2. List("contexts") = rollup
      BY DEF List
    <3>3. CASE i <= pos["contexts"] + PageSize
      <4>1. i \in Page("contexts")
        BY <2>1, <3>1, <3>2, <3>3 DEF Page
      <4> QED
        BY <3>1, <4>1 DEF FetchPage
    <3>4. CASE i > pos["contexts"] + PageSize
      <4>1. ~IsLast("contexts")
        BY <2>1, <3>2, <3>4, BoundAssumption DEF IsLast, TypeOK, WorldTypeOK
      <4> QED
        BY <1>2, <3>1, <3>4, <4>1 DEF Connection
    <3> QED
      BY <2>1, <3>3, <3>4, BoundAssumption
  <2> QED
    BY <2>2, <2>3
<1>5. ASSUME NEW i \in red PROVE ~Acknowledged(first'.a, rollup[i].name)
  <2>1. CASE round = 0
    <3>1. first'.a = pr
      BY <2>1 DEF FetchPage
    <3> QED
      BY <3>1 DEF RedsRead, Failed
  <2>2. CASE round # 0
    <3>1. first' = first /\ round > 0
      BY <2>2 DEF FetchPage, TypeOK, VerifyTypeOK
    <3> QED
      BY <3>1 DEF RedsRead
  <2> QED
    BY <2>1, <2>2
<1>6. RedsRead'
  <2>1. \A i \in red : Failed(i)' <=> Failed(i)
    BY <1>1 DEF Failed, world
  <2>2. red' = red /\ rollup' = rollup
    BY <1>1 DEF world
  <2>3. \A i : Observed(rollup[i])' = Observed(rollup[i])
    BY <2>2 DEF Observed
  <2> SUFFICES ASSUME NEW i \in red
               PROVE  /\ Failed(i)'
                      /\ \/ Observed(rollup[i])' \in observed'
                         \/ "contexts" \notin finished' /\ i > pos'["contexts"]
                      /\ ~Acknowledged(first.a, rollup[i].name)'
    BY <2>2 DEF RedsRead
  <2>4. Acknowledged(first.a, rollup[i].name)' <=> Acknowledged(first'.a, rollup[i].name)
    BY <2>2 DEF Acknowledged
  <2> QED
    BY <1>4, <1>5, <2>1, <2>3, <2>4 DEF RedsRead
<1>7. Course'
  <2>1. exit = "none" /\ exit' = "none" /\ round' > 0
    BY <1>1 DEF Course, answer, FetchPage, TypeOK, VerifyTypeOK
  <2>2. pc' \in {"rules", "classic", "judge"} => finished' = Connection
    BY DEF FetchPage
  <2> QED
    BY <2>1, <2>2 DEF Course, Judged
<1> QED
  BY <1>3, <1>6, <1>7

\* The other steps of the process keep what has been read.
LEMMA StepRead == ReadInv /\ Verify => ReadInv'
<1> SUFFICES ASSUME ReadInv, Verify PROVE ReadInv'
  OBVIOUS
<1> USE DEF ReadInv
<1>0. TypeOK'
  BY VerifyStepType
<1>1. CASE Begin
  <2>1. UNCHANGED world /\ finished' = {} /\ round' = 0 /\ exit' = "none"
    BY <1>1 DEF Begin
  <2>2. /\ \A t \in standing' : t \in Unresolved(threads) /\ t > 0
        /\ \A i \in red' : Failed(i) /\ i > 0
        /\ pos'["threads"] = 0 /\ pos'["contexts"] = 0
    <3>1. \A t \in standing' : t \in Unresolved(threads)
      BY <1>1 DEF Begin
    <3>2. \A i \in red' : i \in DOMAIN rollup /\ Failed(i)
      BY <1>1 DEF Begin
    <3>3. DOMAIN threads = 1..Len(threads) /\ DOMAIN rollup = 1..Len(rollup)
      BY DEF TypeOK, WorldTypeOK
    <3>4. \A t \in Unresolved(threads) : t > 0
      BY <3>3 DEF Unresolved
    <3>5. \A i \in DOMAIN rollup : i > 0
      BY <3>3
    <3>6. pos'["threads"] = 0 /\ pos'["contexts"] = 0
      BY <1>1 DEF Begin, Connection
    <3> QED
      BY <3>1, <3>2, <3>4, <3>5, <3>6
  <2>3. ThreadsRead'
    BY <2>1, <2>2 DEF ThreadsRead, world, Unresolved
  <2>4. \A i : Failed(i)' <=> Failed(i)
    BY <2>1 DEF Failed, world, Observed, Acknowledged
  <2>5. RedsRead'
    BY <2>1, <2>2, <2>4 DEF RedsRead
  <2>6. Course'
    BY <1>1, <2>1 DEF Course, Judged, Begin
  <2> QED
    BY <1>0, <2>3, <2>5, <2>6
<1>2. ASSUME NEW asked \in SUBSET requesters, FetchPage(asked) PROVE ReadInv'
  BY <1>0, <1>2, PageRead
<1>3. ASSUME FetchFails \/ TooManyPages \/ ReadRules \/ ReadClassic \/ BaseFails \/ Judge
      PROVE  ReadInv'
  <2>1. UNCHANGED <<world, reading, past>>
    BY <1>3 DEF FetchFails, TooManyPages, ReadRules, ReadClassic, BaseFails, Judge
  <2>2. ThreadsRead'
    BY <2>1 DEF ThreadsRead, world, reading, past, Unresolved
  <2>3. \A i : Failed(i)' <=> Failed(i)
    BY <2>1 DEF Failed, world, Observed, Acknowledged
  <2>4. \A i : /\ Observed(rollup[i])' = Observed(rollup[i])
               /\ Acknowledged(first.a, rollup[i].name)'
                    <=> Acknowledged(first.a, rollup[i].name)
    BY <2>1 DEF world, reading, Observed, Acknowledged
  <2>5. RedsRead'
    BY <2>1, <2>3, <2>4 DEF RedsRead, reading, past
  <2>6. Course'
    <3>1. CASE FetchFails \/ TooManyPages \/ BaseFails
      BY <2>1, <3>1 DEF FetchFails, TooManyPages, BaseFails, Exit, Course, Judged, reading
    <3>2. CASE ReadRules \/ ReadClassic
      BY <2>1, <3>2 DEF ReadRules, ReadClassic, Exit, Course, Judged, reading, answer
    <3>3. CASE Judge
      <4>1. FactsRead' = FactsRead /\ UNCHANGED <<round, finished>>
        BY <2>1, <3>3 DEF Judge, FactsRead, reading, gate
      <4>2. /\ pc' = "idle" /\ exit' \in {"0", "5"} /\ finished = Connection
            /\ items' = AgentItems(FactsRead) /\ held' = HumanItems(FactsRead)
            /\ exit' = "0" => items' = {}
        BY <3>3 DEF Judge, Exit, Course, IsDone
      <4>3. AgentItems(FactsRead)' = AgentItems(FactsRead')
        OBVIOUS
      <4> QED
        BY <4>1, <4>2 DEF Course, Judged
    <3> QED
      BY <1>3, <3>1, <3>2, <3>3
  <2> QED
    BY <1>0, <2>2, <2>5, <2>6
<1> QED
  BY <1>1, <1>2, <1>3 DEF Verify

-----------------------------------------------------------------------------
(***************************************************************************)
(* What a verdict means.                                                   *)
(***************************************************************************)

\* The invariant holds in every reachable state.
LEMMA ReadInvariant == Spec => []ReadInv
<1>1. ASSUME ReadInv, UNCHANGED vars PROVE ReadInv'
  <2>1. TypeOK'
    BY <1>1 DEF ReadInv, TypeOK, WorldTypeOK, VerifyTypeOK, vars, world, reading,
                answer, past
  <2>2. FactsRead' = FactsRead
    BY <1>1 DEF FactsRead, vars, reading, gate
  <2>3. \A i : /\ Failed(i)' <=> Failed(i)
               /\ Observed(rollup[i])' = Observed(rollup[i])
               /\ Acknowledged(first.a, rollup[i].name)'
                    <=> Acknowledged(first.a, rollup[i].name)
    BY <1>1 DEF vars, world, reading, Failed, Observed, Acknowledged
  <2>4. ThreadsRead'
    BY <1>1 DEF ReadInv, ThreadsRead, vars, world, reading, past, Unresolved
  <2>5. RedsRead'
    BY <1>1, <2>3 DEF ReadInv, RedsRead, vars, reading, past
  <2>6. Course'
    BY <1>1, <2>2 DEF ReadInv, Course, Judged, vars, reading, answer
  <2> QED
    BY <2>1, <2>4, <2>5, <2>6 DEF ReadInv
<1>2. ReadInv /\ [Next]_vars => ReadInv'
  BY <1>1, HappenRead, StepRead DEF Next
<1> QED
  BY InitRead, <1>2, PTL DEF Spec

\* The attributes the verdict is about.
LEMMA FactsReadFields ==
  /\ FactsRead.state = first.a.state
  /\ FactsRead.autoMerge = first.a.autoMerge
  /\ FactsRead.threads = open
  /\ FactsRead.observed = observed
  /\ \A c : Acknowledged(FactsRead, c) <=> Acknowledged(first.a, c)
BY DEF FactsRead, Facts, Acknowledged

\* No thread that stays unresolved during a run escapes its verdict, for every
\* page size, every number of pages and every change in between.
THEOREM NoThreadEscapes == Spec => []NoThreadMissed
<1>1. ReadInv => NoThreadMissed
  <2> SUFFICES ASSUME ReadInv, Judged, first.a.state # "Closed",
                      NEW t \in standing
               PROVE  <<"UnresolvedThread", t>> \in items
    BY DEF NoThreadMissed
  <2>1. t \in open /\ items = AgentItems(FactsRead)
    BY DEF ReadInv, ThreadsRead, Course, Connection
  <2>2. <<"UnresolvedThread", t>> \in Threads(FactsRead)
    BY <2>1, FactsReadFields DEF Threads
  <2>3. FactsRead.state \in {"Open", "Merged"}
    BY FactsReadFields, WorldAssumption DEF ReadInv, TypeOK, VerifyTypeOK
  <2>4. Threads(FactsRead) \subseteq AgentItems(FactsRead)
    BY <2>3 DEF AgentItems, OpenItems, ReviewItems
  <2> QED
    BY <2>1, <2>2, <2>4
<1> QED
  BY <1>1, ReadInvariant, PTL

\* A run of the head that is red and unacknowledged all along keeps "done" away.
THEOREM NoRedEscapes == Spec => []NoRedMissed
<1>1. ReadInv => NoRedMissed
  <2> SUFFICES ASSUME ReadInv, exit = "0", first.a.state = "Open", NEW i \in red
               PROVE  FALSE
    BY DEF NoRedMissed
  <2> DEFINE o == Observed(rollup[i])
  <2>1. Judged /\ finished = Connection
    BY DEF ReadInv, Course, Judged
  <2>2. round > 0
    BY <2>1 DEF ReadInv, Course, TypeOK, VerifyTypeOK, Connection
  <2>3. /\ o \in observed /\ o.run = "Failed" /\ o.name = rollup[i].name
        /\ ~Acknowledged(first.a, rollup[i].name)
    BY <2>1, <2>2 DEF ReadInv, RedsRead, Failed, Observed, Connection
  <2>4. IsDone(FactsRead)
    BY <2>1 DEF ReadInv, Course, IsDone
  <2>5. \A x \in FactsRead.observed : x.run \in CheckRun
    BY FactsReadFields DEF ReadInv, TypeOK, VerifyTypeOK
  <2>6. FactsRead.state = "Open" /\ o \in FactsRead.observed
    BY <2>3, FactsReadFields
  <2> HIDE DEF o
  <2>7. Acknowledged(FactsRead, o.name)
    BY <2>3, <2>4, <2>5, <2>6, DoneHasNoRed
  <2> QED
    BY <2>3, <2>7, FactsReadFields
<1> QED
  BY <1>1, ReadInvariant, PTL

\* Exit 0 on an open pull request leaves automerge armed or a person named,
\* though its facts may stem from different moments.
THEOREM DoneIsNeverLimbo == Spec => []DoneIsNotLimbo
<1>1. ReadInv => DoneIsNotLimbo
  <2> SUFFICES ASSUME ReadInv, exit = "0", first.a.state = "Open"
               PROVE  first.a.autoMerge \in Automatic \/ held # {}
    BY DEF DoneIsNotLimbo
  <2>1. IsDone(FactsRead) /\ held = HumanItems(FactsRead)
    BY DEF ReadInv, Course, Judged, IsDone
  <2>2. FactsRead.state = "Open"
    BY FactsReadFields
  <2>3. FactsRead.autoMerge \in Automatic \/ HumanItems(FactsRead) # {}
    BY <2>1, <2>2, DoneHasAnOwner
  <2> QED
    BY <2>1, <2>3, FactsReadFields
<1> QED
  BY <1>1, ReadInvariant, PTL

\* A verdict rests on three connections read to their end.
THEOREM VerdictIsNeverPartial == Spec => []NeverPartial
<1>1. ReadInv => NeverPartial
  BY DEF ReadInv, Course, NeverPartial
<1> QED
  BY <1>1, ReadInvariant, PTL

-----------------------------------------------------------------------------
(***************************************************************************)
(* A run at rest.                                                          *)
(***************************************************************************)

\* The nodes of a connection that are on the pages read so far.
SeenOf(c, list, p, f) == {i \in DOMAIN list : i <= p[c] \/ c \in f}

\* While nothing changes, what has been read is what is there.
RestRead ==
  quiet =>
    /\ observed = {Observed(rollup[i]) : i \in SeenOf("contexts", rollup, pos, finished)}
    /\ open = SeenOf("threads", threads, pos, finished) \cap Unresolved(threads)
    /\ unverified = SeenOf("commits", commits, pos, finished) \cap Unresolved(commits)
    /\ round > 0 => first.a = pr /\ first.asked = requesters

GateIsRead ==
  IF pr.state = "Open"
    THEN /\ required = RequiredBy(rules, classic) /\ types = TypesOf(rules, classic)
         /\ classic.kind # "Hidden"
    ELSE required = {} /\ types = {}

RestGate ==
  quiet =>
    /\ pc = "query" => required = {} /\ types = {}
    /\ pc = "rules" => pr.state = "Open"
    /\ pc = "classic" => /\ pr.state = "Open"
                         /\ required = rules.contexts /\ types = rules.types
    /\ pc = "judge" \/ Judged => GateIsRead

\* Reviews are asked for once: only the first page of them is read.
ReviewsFit == \A r \in Reviewers : IsFiniteSet(r) /\ Cardinality(r) <= ReviewPage

\* A page adds the nodes between the old cursor and the new one; the last page
\* adds all that is left.
LEMMA PageSeen ==
  ASSUME NEW S, NEW list \in Seq(S), NEW c, NEW p, NEW q, NEW f, NEW g,
         p[c] \in Nat,
         c \in f => c \in g,
         c \notin f /\ Len(list) <= p[c] + PageSize => c \in g,
         c \notin f /\ ~ (Len(list) <= p[c] + PageSize) => q[c] = p[c] + PageSize /\ c \notin g
  PROVE  SeenOf(c, list, q, g) =
           SeenOf(c, list, p, f)
             \cup (IF c \in f THEN {}
                     ELSE {i \in DOMAIN list : p[c] < i /\ i <= p[c] + PageSize})
<1>1. /\ DOMAIN list = 1..Len(list) /\ Len(list) \in Nat /\ PageSize \in Nat
  BY BoundAssumption
<1>2. CASE c \in f
  BY <1>2 DEF SeenOf
<1>3. CASE c \notin f /\ Len(list) <= p[c] + PageSize
  <2>1. \A i \in 1..Len(list) : i <= p[c] \/ (p[c] < i /\ i <= p[c] + PageSize)
    BY <1>1, <1>3
  <2> QED
    BY <1>1, <1>3, <2>1 DEF SeenOf
<1>4. CASE c \notin f /\ ~ (Len(list) <= p[c] + PageSize)
  <2>1. \A i \in 1..Len(list) :
          i <= q[c] <=> i <= p[c] \/ (p[c] < i /\ i <= p[c] + PageSize)
    BY <1>1, <1>4
  <2> QED
    BY <1>1, <1>4, <2>1 DEF SeenOf
<1> QED
  BY <1>2, <1>3, <1>4

\* A page of a connection at rest moves its nodes from what is to come to what is read.
LEMMA RestPage ==
  ASSUME ReviewsFit, ReadInv, RestRead, RestGate, quiet,
         NEW asked \in SUBSET requesters, FetchPage(asked)
  PROVE  RestRead' /\ RestGate'
<1>1. /\ UNCHANGED <<world, gate, answer, quiet>> /\ pc = "query" /\ round' = round + 1
      /\ round \in Nat /\ exit = "none" /\ WorldTypeOK
      /\ required = {} /\ types = {}
  BY DEF FetchPage, ReadInv, Course, TypeOK, VerifyTypeOK, RestGate
<1>2. asked = requesters
  <2>1. IsFiniteSet(requesters) /\ Cardinality(requesters) <= ReviewPage
    BY <1>1 DEF ReviewsFit, WorldTypeOK
  <2>2. Cardinality(asked) = Cardinality(requesters)
    <3>1. Cardinality(requesters) \in Nat /\ ReviewPage \in Nat
      BY <2>1, FS_CardinalityType, PagesAssumption
    <3> QED
      BY <2>1, <3>1 DEF FetchPage
  <2> QED
    BY <2>1, <2>2, FS_Subset
<1>3. first'.a = pr /\ first'.asked = requesters
  <2>1. CASE round = 0
    BY <1>2, <2>1 DEF FetchPage
  <2>2. CASE round # 0
    BY <1>1, <2>2 DEF FetchPage, RestRead
  <2> QED
    BY <2>1, <2>2
<1>4. ASSUME NEW c \in Connection
      PROVE  /\ pos[c] \in Nat
             /\ c \in finished => c \in finished'
             /\ c \notin finished /\ Len(List(c)) <= pos[c] + PageSize => c \in finished'
             /\ c \notin finished /\ ~ (Len(List(c)) <= pos[c] + PageSize) =>
                  pos'[c] = pos[c] + PageSize /\ c \notin finished'
  BY DEF FetchPage, IsLast, ReadInv, TypeOK, VerifyTypeOK
<1>5. ASSUME NEW c \in Connection, NEW S, List(c) \in Seq(S)
      PROVE  SeenOf(c, List(c), pos', finished') =
               SeenOf(c, List(c), pos, finished) \cup (IF c \in finished THEN {} ELSE Page(c))
  <2>1. Page(c) = {i \in DOMAIN List(c) : pos[c] < i /\ i <= pos[c] + PageSize}
    BY DEF Page
  <2> QED
    BY <1>4, <1>5, <2>1, PageSeen
<1>6. /\ List("contexts") = rollup /\ List("threads") = threads /\ List("commits") = commits
  BY DEF List
<1>7. observed' = {Observed(rollup[i]) : i \in SeenOf("contexts", rollup, pos', finished')}
  <2>1. SeenOf("contexts", rollup, pos', finished') =
          SeenOf("contexts", rollup, pos, finished)
            \cup (IF "contexts" \in finished THEN {} ELSE Page("contexts"))
    BY <1>1, <1>5, <1>6 DEF WorldTypeOK, Connection
  <2>2. observed' = observed \cup (IF "contexts" \in finished THEN {}
                                    ELSE {Observed(rollup[i]) : i \in Page("contexts")})
    BY DEF FetchPage
  <2>3. observed = {Observed(rollup[i]) : i \in SeenOf("contexts", rollup, pos, finished)}
    BY DEF RestRead
  <2> QED
    BY <2>1, <2>2, <2>3
<1>8. open' = SeenOf("threads", threads, pos', finished') \cap Unresolved(threads)
  <2>1. SeenOf("threads", threads, pos', finished') =
          SeenOf("threads", threads, pos, finished)
            \cup (IF "threads" \in finished THEN {} ELSE Page("threads"))
    BY <1>1, <1>5, <1>6 DEF WorldTypeOK, Connection
  <2>2. open' = open \cup (IF "threads" \in finished THEN {}
                            ELSE Page("threads") \cap Unresolved(threads))
    BY DEF FetchPage
  <2> QED
    BY <2>1, <2>2 DEF RestRead
<1>9. unverified' = SeenOf("commits", commits, pos', finished') \cap Unresolved(commits)
  <2>1. SeenOf("commits", commits, pos', finished') =
          SeenOf("commits", commits, pos, finished)
            \cup (IF "commits" \in finished THEN {} ELSE Page("commits"))
    BY <1>1, <1>5, <1>6 DEF WorldTypeOK, Connection
  <2>2. unverified' = unverified \cup (IF "commits" \in finished THEN {}
                                        ELSE Page("commits") \cap Unresolved(commits))
    BY DEF FetchPage
  <2> QED
    BY <2>1, <2>2 DEF RestRead
<1>10. RestRead'
  <2>1. UNCHANGED <<pr, requesters, rollup, threads, commits>>
    BY <1>1 DEF world
  <2>2. Unresolved(threads)' = Unresolved(threads) /\ Unresolved(commits)' = Unresolved(commits)
    BY <2>1 DEF Unresolved
  <2>3. \A i : Observed(rollup[i])' = Observed(rollup[i])
    BY <2>1 DEF Observed
  <2>4. /\ SeenOf("contexts", rollup, pos, finished)' = SeenOf("contexts", rollup, pos', finished')
        /\ SeenOf("threads", threads, pos, finished)' = SeenOf("threads", threads, pos', finished')
        /\ SeenOf("commits", commits, pos, finished)' = SeenOf("commits", commits, pos', finished')
    BY <2>1 DEF SeenOf
  <2> QED
    BY <1>3, <1>7, <1>8, <1>9, <2>1, <2>2, <2>3, <2>4 DEF RestRead
<1>11. RestGate'
  <2>1. pc' \in {"query", "rules", "judge"} /\ (pc' = "rules" => pr.state = "Open")
        /\ (pc' = "judge" => pr.state # "Open")
    BY <1>3 DEF FetchPage
  <2> QED
    BY <1>1, <2>1 DEF RestGate, GateIsRead, Judged, gate, answer, world
<1> QED
  BY <1>10, <1>11

\* A step of the process that reads no page.
LEMMA RestKept ==
  ASSUME RestRead, UNCHANGED <<world, reading, quiet>>
  PROVE  RestRead'
BY DEF RestRead, world, reading, SeenOf, Unresolved, Observed

\* Every step keeps what is said of a run at rest.
LEMMA RestStep ==
  ASSUME ReviewsFit, ReadInv, RestRead, RestGate, [Next]_vars
  PROVE  RestRead' /\ RestGate'
<1>1. CASE ~quiet'
  BY <1>1 DEF RestRead, RestGate
<1>2. CASE UNCHANGED vars
  <2>1. RestRead'
    BY <1>2, RestKept DEF vars, past
  <2> QED
    BY <1>2, <2>1 DEF vars, world, past, gate, answer, RestGate, GateIsRead, Judged
<1>3. CASE Happen
  BY <1>1, <1>3 DEF Happen
<1>4. CASE Begin
  <2>1. UNCHANGED world /\ WorldTypeOK
    BY <1>4 DEF Begin, ReadInv, TypeOK
  <2>2. \A S : \A list \in Seq(S) : \A i \in DOMAIN list : ~ (i <= 0)
    OBVIOUS
  <2>3. ASSUME NEW c \in Connection, NEW S, NEW list \in Seq(S)
        PROVE  SeenOf(c, list, pos', finished') = {}
    <3>1. pos'[c] = 0 /\ finished' = {}
      BY <1>4 DEF Begin
    <3> QED
      BY <2>2, <3>1 DEF SeenOf
  <2>4. /\ SeenOf("contexts", rollup', pos', finished') = {}
        /\ SeenOf("threads", threads', pos', finished') = {}
        /\ SeenOf("commits", commits', pos', finished') = {}
    BY <2>1, <2>3 DEF world, WorldTypeOK, Connection
  <2>5. RestRead'
    BY <1>4, <2>4 DEF Begin, RestRead
  <2>6. RestGate'
    BY <1>4 DEF Begin, RestGate, Judged
  <2> QED
    BY <2>5, <2>6
<1>5. ASSUME NEW asked \in SUBSET requesters, FetchPage(asked)
      PROVE  RestRead' /\ RestGate'
  <2>1. quiet' = quiet
    BY <1>5 DEF FetchPage
  <2> QED
    BY <1>1, <1>5, <2>1, RestPage
<1>6. CASE FetchFails \/ TooManyPages \/ BaseFails
  <2>1. UNCHANGED <<world, reading, quiet, gate>> /\ pc' = "idle" /\ exit' = "2"
    BY <1>6 DEF FetchFails, TooManyPages, BaseFails, Exit, past
  <2> QED
    BY <2>1, RestKept DEF RestGate, Judged
<1>7. CASE ReadRules
  <2>1. UNCHANGED <<world, reading, quiet>> /\ exit' = "none"
    BY <1>7 DEF ReadRules, past, answer, ReadInv, Course
  <2> QED
    BY <1>7, <2>1, RestKept DEF ReadRules, RestGate, Judged, world
<1>8. CASE ReadClassic
  <2>1. UNCHANGED <<world, reading, quiet>> /\ exit = "none" /\ classic \in Protections
        /\ pc = "classic"
    BY <1>8 DEF ReadClassic, past, ReadInv, Course, TypeOK, WorldTypeOK
  <2>2. classic.kind = "NotProtected" => classic.contexts = {} /\ ~classic.signatures
    BY <2>1, UnprotectedAssumption
  <2>3. RestRead'
    BY <2>1, RestKept
  <2>4. RestGate'
    <3>1. CASE exit' = "2" /\ pc' = "idle"
      BY <3>1 DEF RestGate, Judged
    <3>2. CASE /\ classic.kind = "Protected" /\ pc' = "judge" /\ UNCHANGED exit
               /\ required' = required \cup classic.contexts
               /\ types' = types \cup TypesOf([types |-> {}], classic)
      BY <2>1, <3>2 DEF RestGate, Judged, GateIsRead, RequiredBy, TypesOf, world
    <3>3. CASE classic.kind = "NotProtected" /\ pc' = "judge" /\ UNCHANGED <<gate, exit>>
      BY <2>1, <2>2, <3>3 DEF RestGate, Judged, GateIsRead, RequiredBy, TypesOf, world, gate
    <3> QED
      BY <1>8, <3>1, <3>2, <3>3 DEF ReadClassic, Exit
  <2> QED
    BY <2>3, <2>4
<1>9. CASE Judge
  <2>1. UNCHANGED <<world, reading, quiet, gate>> /\ pc = "judge" /\ pc' = "idle"
    BY <1>9 DEF Judge, past, Exit
  <2> QED
    BY <2>1, RestKept DEF RestGate, Judged, GateIsRead, world, gate
<1> QED
  BY <1>2, <1>3, <1>4, <1>5, <1>6, <1>7, <1>8, <1>9 DEF Next, Verify

\* If nothing changes while it reads, the verdict is the one that the definition
\* of done gives for the pull request as it is, for every page size and every
\* length of the three connections, as long as the reviews fit in their page
\* (pr_done.rs, fetch_pr_done; verify.rs).
THEOREM QuietVerdictIsExact ==
  ASSUME ReviewsFit
  PROVE  Spec => []QuietVerdictExact
<1> DEFINE Inv == ReadInv /\ RestRead /\ RestGate
<1>1. Init => Inv
  BY InitRead DEF Init, RestRead, RestGate
<1>2. Inv /\ [Next]_vars => RestRead' /\ RestGate'
  BY RestStep
<1>3. Inv => QuietVerdictExact
  <2> SUFFICES ASSUME Inv, quiet, Judged
               PROVE  QuietVerdictExact
    BY DEF QuietVerdictExact
  <2> DEFINE now == IF pr.state = "Open" THEN FactsNow
                      ELSE [FactsNow EXCEPT !.required = {}, !.types = {}]
  <2>1. /\ finished = Connection /\ round > 0
        /\ items = AgentItems(FactsRead) /\ held = HumanItems(FactsRead)
    BY DEF ReadInv, Course, Connection, TypeOK, VerifyTypeOK
  <2>2. /\ first.a = pr /\ first.asked = requesters
        /\ observed = {Observed(rollup[i]) : i \in SeenOf("contexts", rollup, pos, finished)}
        /\ open = SeenOf("threads", threads, pos, finished) \cap Unresolved(threads)
        /\ unverified = SeenOf("commits", commits, pos, finished) \cap Unresolved(commits)
    BY <2>1 DEF RestRead
  <2>3. \A c \in Connection : \A list : SeenOf(c, list, pos, finished) = DOMAIN list
    BY <2>1 DEF SeenOf
  <2>4. /\ observed = {Observed(rollup[i]) : i \in DOMAIN rollup}
        /\ open = Unresolved(threads) /\ unverified = Unresolved(commits)
    BY <2>2, <2>3 DEF Connection, Unresolved
  <2>5. GateIsRead
    BY DEF RestGate
  <2>6. FactsRead = now
    <3>1. CASE pr.state = "Open"
      BY <2>2, <2>4, <2>5, <3>1 DEF FactsRead, FactsNow, GateIsRead
    <3>2. CASE pr.state # "Open"
      BY <2>2, <2>4, <2>5, <3>2 DEF FactsRead, FactsNow, GateIsRead, Facts
    <3> QED
      BY <3>1, <3>2
  <2> HIDE DEF now
  <2>7. items = AgentItems(now) /\ held = HumanItems(now)
    BY <2>1, <2>6
  <2> QED
    BY <2>5, <2>7 DEF QuietVerdictExact, GateIsRead, now
<1> QED
  BY <1>1, <1>2, <1>3, ReadInvariant, PTL DEF Spec
=============================================================================
