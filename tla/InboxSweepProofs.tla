-------------------------- MODULE InboxSweepProofs --------------------------
(***************************************************************************)
(* Proofs about InboxSweep for every set of threads and of sweepers, every *)
(* option and every bound: type correctness, the safety of the state file  *)
(* (what a later run skips really is cleared), that the sweep implements   *)
(* InboxPromise, what leaves the inbox, and the exit code.                 *)
(***************************************************************************)
EXTENDS InboxSweep, TLAPS

\* The types of the values the actions build.
USE DEF Memory, Entry, File, Budget, PC, SubjectState

\* The initial state is well typed.
LEMMA InitType == Init => TypeOK
<1> SUFFICES ASSUME Init PROVE TypeOK
  OBVIOUS
<1> USE ThreadAssumption, NumberAssumption
<1> QED BY DEF Init, TypeOK, Nothing, Absent, Unknown

\* Ending a run leaves its local state well typed.
LEMMA ExitType ==
  ASSUME TypeOK, NEW p \in Sweeper, NEW code \in {"none", "0", "2", "6"},
         Exit(p, code)
  PROVE  /\ pc' \in [Sweeper -> PC]
         /\ exit' \in [Sweeper -> {"none", "0", "2", "6"}]
         /\ memory' \in [Sweeper -> Memory]
         /\ unread' \in [Sweeper -> SUBSET Entry]
         /\ todo' \in [Sweeper -> SUBSET Entry]
         /\ cur' \in [Sweeper -> SUBSET Entry]
         /\ budget' \in [Sweeper -> Budget]
BY DEF TypeOK, Exit, Nothing, Unknown

\* Paying for a write keeps the budget a natural number.
LEMMA PayType ==
  ASSUME TypeOK, NEW outcome, Pay(outcome)
  PROVE  rest' \in Nat
BY NumberAssumption DEF TypeOK, Pay

\* What GitHub and its other users do keeps every variable in its type.
LEMMA GitHubType == TypeOK /\ GitHub => TypeOK'
<1> SUFFICES ASSUME TypeOK, GitHub PROVE TypeOK'
  OBVIOUS
<1> USE DEF TypeOK, service, disk, run, report, ends, history
<1>1. CASE \E t \in Thread : Notify(t)
  BY <1>1 DEF Notify
<1>2. CASE \E t \in Thread, state \in SubjectState : ChangeSubject(t, state)
  BY <1>2 DEF ChangeSubject
<1>3. CASE SpendElsewhere
  <2>1. rest' \in Nat
    BY <1>3, NumberAssumption DEF SpendElsewhere
  <2> QED BY <1>3, <2>1 DEF SpendElsewhere
<1>4. CASE ResetBudget
  BY <1>4, NumberAssumption DEF ResetBudget
<1> HIDE DEF TypeOK, service, disk, run, report, ends, history
<1> QED BY <1>1, <1>2, <1>3, <1>4 DEF GitHub

\* Every step of a sweep, its failures and its crash included, keeps the types.
LEMMA SweepType ==
  ASSUME TypeOK, NEW p \in Sweeper, Sweep(p)
  PROVE  TypeOK'
<1> USE DEF TypeOK, service, disk, run, report, ends, history
<1>1. CASE Start(p)
  <2>1. CASE Remember /\ file.kind = "torn"
    BY <1>1, <2>1 DEF Start
  <2>2. CASE ~(Remember /\ file.kind = "torn")
    <3>1. PICK a \in BOOLEAN : apply' = [apply EXCEPT ![p] = a]
      BY <1>1, <2>2 DEF Start
    <3>2. apply' \in [Sweeper -> BOOLEAN]
      BY <3>1
    <3>3. memory' = [memory EXCEPT ![p] = IF Remember THEN file.map ELSE Nothing]
      BY <1>1, <2>2 DEF Start
    <3>4. memory' \in [Sweeper -> Memory]
      BY <3>3 DEF Nothing
    <3>5. /\ pc' = [pc EXCEPT ![p] = "loaded"]
          /\ exit' = [exit EXCEPT ![p] = "none"]
          /\ due' = [due EXCEPT ![p] = {}]
          /\ cleared' = [cleared EXCEPT ![p] = {}]
          /\ left' = [left EXCEPT ![p] = {}]
          /\ budget' = [budget EXCEPT ![p] = Unknown]
          /\ overrun' = [overrun EXCEPT ![p] = 0]
          /\ UNCHANGED <<unread, todo, cur>>
          /\ UNCHANGED <<service, disk, fd, finishedOnce, done, again, faults>>
      BY <1>1, <2>2 DEF Start
    <3> QED BY <3>2, <3>4, <3>5 DEF Unknown
  <2> QED BY <2>1, <2>2
<1>2. CASE List(p)
  <2>1. PICK missed \in SUBSET Thread, twice \in SUBSET Thread :
          /\ faults' = IF missed = {} /\ twice = {} THEN faults ELSE faults + 1
          /\ memory' = [memory EXCEPT ![p] =
                          [t \in Thread |-> IF t \in missed THEN 0 ELSE @[t]]]
          /\ unread' = [unread EXCEPT ![p] =
                          {e \in Undecided(p, Thread \ missed, twice) :
                             e.id \in Supported}]
    BY <1>2 DEF List
  <2>2. Undecided(p, Thread \ missed, twice) \subseteq Entry
    BY DEF Undecided
  <2>3. unread' \in [Sweeper -> SUBSET Entry]
    BY <2>1, <2>2
  <2>4. memory' \in [Sweeper -> Memory] /\ faults' \in Nat
    BY <2>1
  <2> QED BY <1>2, <2>3, <2>4 DEF List
<1>3. CASE ListFails(p)
  BY <1>3, ExitType DEF ListFails
<1>4. ASSUME NEW batch \in SUBSET Thread, NEW exhausted \in BOOLEAN,
             NEW answered \in SUBSET batch,
             FetchBatch(p, batch, answered, exhausted)
      PROVE  TypeOK'
  BY <1>4 DEF FetchBatch
<1>5. CASE Decided(p)
  <2>1. due' \in [Sweeper -> SUBSET Thread]
    BY <1>5 DEF Decided, Ids
  <2> QED BY <1>5, <2>1, ExitType DEF Decided
<1>6. ASSUME NEW e \in todo[p], Leave(p, e)
      PROVE  TypeOK'
  BY <1>6 DEF Leave
<1>7. ASSUME NEW e \in todo[p], NEW outcome \in Outcome, NEW said \in BOOLEAN,
             Unsubscribe(p, e, outcome, said)
      PROVE  TypeOK'
  <2>1. rest' \in Nat
    BY <1>7, PayType DEF Unsubscribe
  <2>2. Told(p, said) \in [Sweeper -> Budget]
    BY <2>1 DEF Told, Known
  <2>3. Overran(p, said) \in [Sweeper -> Nat]
    BY DEF Overran, Least
  <2>4. e \in Entry /\ e.id \in Thread
    OBVIOUS
  <2>5. CASE outcome = "granted"
    <3>1. cur' = [cur EXCEPT ![p] = {e}]
      BY <1>7, <2>5 DEF Unsubscribe
    <3>2. cur' \in [Sweeper -> SUBSET Entry]
      BY <2>4, <3>1
    <3> QED BY <1>7, <2>1, <2>2, <2>3, <2>5, <3>2 DEF Unsubscribe
  <2>6. CASE outcome # "granted"
    <3>1. left' = [left EXCEPT ![p] = @ \cup {e.id}]
      BY <1>7, <2>6 DEF Unsubscribe
    <3>2. left' \in [Sweeper -> SUBSET Thread]
      BY <2>4, <3>1
    <3> QED BY <1>7, <2>1, <2>6, <3>2 DEF Unsubscribe
  <2> QED BY <2>5, <2>6
<1>8. ASSUME NEW e \in cur[p], NEW outcome \in Outcome, NEW said \in BOOLEAN,
             MarkDone(p, e, outcome, said)
      PROVE  TypeOK'
  <2>1. rest' \in Nat
    BY <1>8, PayType DEF MarkDone
  <2>2. Told(p, said) \in [Sweeper -> Budget]
    BY <2>1 DEF Told, Known
  <2>3. Overran(p, said) \in [Sweeper -> Nat]
    BY DEF Overran, Least
  <2>4. e.id \in Thread /\ e.at \in Nat
    OBVIOUS
  <2>5. again' \in [Thread -> Nat]
    BY <1>8, <2>4, NumberAssumption DEF MarkDone, Least
  <2>6. CASE outcome = "granted"
    <3>1. [memory[p] EXCEPT ![e.id] = e.at] \in Memory
      BY <2>4
    <3>2. memory' = [memory EXCEPT ![p] = [memory[p] EXCEPT ![e.id] = e.at]]
      BY <1>8, <2>6 DEF MarkDone
    <3>3. memory' \in [Sweeper -> Memory]
      BY <3>1, <3>2
    <3>4. /\ cleared' = [cleared EXCEPT ![p] = @ \cup {e.id}]
          /\ done' = done \cup {<<e.id, e.at>>}
      BY <1>8, <2>6 DEF MarkDone
    <3>5. cleared' \in [Sweeper -> SUBSET Thread] /\ done' \subseteq Thread \X Nat
      BY <2>4, <3>4
    <3> QED BY <1>8, <2>1, <2>2, <2>3, <2>5, <2>6, <3>3, <3>5 DEF MarkDone
  <2>7. CASE outcome # "granted"
    <3>1. left' = [left EXCEPT ![p] = @ \cup {e.id}]
      BY <1>8, <2>7 DEF MarkDone
    <3>2. left' \in [Sweeper -> SUBSET Thread]
      BY <2>4, <3>1
    <3> QED BY <1>8, <2>1, <2>5, <2>7, <3>2 DEF MarkDone
  <2> QED BY <2>6, <2>7
<1>9. CASE Swept(p)
  BY <1>9, ExitType DEF Swept, ExitCode
<1>10. CASE OpenTmp(p)
  BY <1>10 DEF OpenTmp, Torn, Nothing
<1>11. CASE WriteTmp(p)
  BY <1>11 DEF WriteTmp, Whole
<1>12. CASE Rename(p)
  BY <1>12, ExitType DEF Rename, ExitCode, Absent, Nothing
<1>13. CASE RenameFails(p)
  BY <1>13, ExitType DEF RenameFails
<1>14. CASE SaveFails(p)
  BY <1>14, ExitType DEF SaveFails
<1>15. CASE Crash(p)
  BY <1>15, ExitType DEF Crash
<1> HIDE DEF TypeOK, service, disk, run, report, ends, history
<1>16. {TRUE, ~Silent} \subseteq BOOLEAN
  BY NumberAssumption
<1>17. CASE \E batch \in SUBSET Thread, exhausted \in BOOLEAN :
               \E answered \in SUBSET batch :
                 FetchBatch(p, batch, answered, exhausted)
  BY <1>4, <1>17
<1>18. CASE \E e \in todo[p], outcome \in Outcome, said \in {TRUE, ~Silent} :
               Unsubscribe(p, e, outcome, said)
  BY <1>7, <1>16, <1>18
<1>19. CASE \E e \in cur[p], outcome \in Outcome, said \in {TRUE, ~Silent} :
               MarkDone(p, e, outcome, said)
  BY <1>8, <1>16, <1>19
<1> QED
  BY <1>1, <1>2, <1>3, <1>5, <1>6, <1>9, <1>10, <1>11, <1>12, <1>13, <1>14,
     <1>15, <1>17, <1>18, <1>19 DEF Sweep

\* Type correctness: every reachable state of the account, of the state file
\* and of every sweep is well formed (cli/inbox.rs, the fields of Sweep).
THEOREM TypeCorrect == Spec => []TypeOK
<1>1. Init => TypeOK
  BY InitType
<1>2. TypeOK /\ [Next]_vars => TypeOK'
  <2> SUFFICES ASSUME TypeOK, [Next]_vars PROVE TypeOK'
    OBVIOUS
  <2>1. CASE UNCHANGED vars
    BY <2>1 DEF TypeOK, vars, service, disk, run, report, ends, history
  <2> QED BY <2>1, GitHubType, SweepType DEF Next
<1> QED BY <1>1, <1>2, PTL DEF Spec

-----------------------------------------------------------------------------
(***************************************************************************)
(* The state file.  SkippedIsCleared is not inductive: that a thread which *)
(* matches the file is out of the inbox rests on what every sweep in       *)
(* flight and every pair ever cleared may claim.                           *)
(***************************************************************************)

\* What a sweep listed is never newer than the thread is now.
EntriesCurrent ==
  \A p \in Sweeper : \A e \in unread[p] \cup todo[p] \cup cur[p] :
    e.at <= activity[e.id]

\* A pair some sweep was told is done is no newer than the thread, and, while
\* the thread has had no activity since, the thread is gone from the inbox
\* and unsubscribed.
DoneIsGone ==
  \A t \in Thread, v \in Nat : <<t, v>> \in done =>
    /\ v <= activity[t]
    /\ v = activity[t] => t \notin inbox /\ t \notin subscribed

SafetyInv ==
  /\ TypeOK
  /\ EntriesCurrent
  /\ UnsubscribedFirst
  /\ DoneIsGone
  /\ MemorySound

\* Nothing is cleared and nothing remembered at first.
LEMMA InitSafe == Init => SafetyInv
<1> SUFFICES ASSUME Init PROVE SafetyInv
  OBVIOUS
<1>1. TypeOK
  BY InitType
<1>2. EntriesCurrent /\ UnsubscribedFirst /\ DoneIsGone
  BY DEF Init, EntriesCurrent, UnsubscribedFirst, DoneIsGone
<1>3. MemorySound
  BY DEF Init, MemorySound, Backed, Nothing, Absent
<1> QED BY <1>1, <1>2, <1>3 DEF SafetyInv

\* The invariant survives a step that only lets threads get newer, and that
\* touches no sweep, no file and no claim: a thread enters the inbox, or is
\* subscribed again, only with a new version.
LEMMA NewerIsSafe ==
  ASSUME SafetyInv, TypeOK',
         \A t \in Thread :
           \/ activity'[t] > activity[t]
           \/ /\ activity'[t] = activity[t]
              /\ t \in inbox' => t \in inbox
              /\ t \in subscribed' => t \in subscribed,
         UNCHANGED <<disk, memory, unread, todo, cur, done>>
  PROVE  SafetyInv'
<1> USE DEF SafetyInv, disk
<1>1. EntriesCurrent'
  <2> SUFFICES ASSUME NEW p \in Sweeper,
                      NEW e \in unread[p] \cup todo[p] \cup cur[p]
               PROVE  e.at <= activity'[e.id]
    BY DEF EntriesCurrent
  <2>1. e.id \in Thread /\ e.at \in Nat
    BY DEF TypeOK
  <2>2. e.at <= activity[e.id]
    BY DEF EntriesCurrent
  <2>3. activity[e.id] \in Nat /\ activity'[e.id] \in Nat
    BY <2>1 DEF TypeOK
  <2> QED BY <2>1, <2>2, <2>3
<1>2. UnsubscribedFirst'
  <2> SUFFICES ASSUME NEW p \in Sweeper, NEW e \in cur[p]
               PROVE  e.id \notin subscribed' \/ e.at < activity'[e.id]
    BY DEF UnsubscribedFirst
  <2>1. e.id \in Thread /\ e.at \in Nat
    BY DEF TypeOK
  <2>2. /\ e.id \notin subscribed \/ e.at < activity[e.id]
        /\ e.at <= activity[e.id]
    BY DEF UnsubscribedFirst, EntriesCurrent
  <2>3. activity[e.id] \in Nat /\ activity'[e.id] \in Nat
    BY <2>1 DEF TypeOK
  <2> QED BY <2>1, <2>2, <2>3
<1>3. DoneIsGone'
  <2> SUFFICES ASSUME NEW t \in Thread, NEW v \in Nat, <<t, v>> \in done
               PROVE  /\ v <= activity'[t]
                      /\ v = activity'[t] => t \notin inbox' /\ t \notin subscribed'
    BY DEF DoneIsGone
  <2>1. /\ v <= activity[t]
        /\ v = activity[t] => t \notin inbox /\ t \notin subscribed
    BY DEF DoneIsGone
  <2>2. activity[t] \in Nat /\ activity'[t] \in Nat
    BY DEF TypeOK
  <2> QED BY <2>1, <2>2
<1>4. MemorySound'
  BY DEF MemorySound, Backed
<1> QED BY <1>1, <1>2, <1>3, <1>4

\* New activity, a subject that changes and budget spent elsewhere disturb no
\* claim of the memory: a claim is about a version.
LEMMA GitHubSafe == SafetyInv /\ GitHub => SafetyInv'
<1> SUFFICES ASSUME SafetyInv, GitHub PROVE SafetyInv'
  OBVIOUS
<1>0. TypeOK /\ TypeOK'
  BY GitHubType DEF SafetyInv
<1> USE DEF service, disk, run
<1>1. ASSUME NEW t \in Thread, Notify(t) PROVE SafetyInv'
  BY <1>0, <1>1, NewerIsSafe DEF Notify, history, TypeOK
<1>2. ASSUME NEW t \in Thread, NEW state \in SubjectState,
             ChangeSubject(t, state)
      PROVE  SafetyInv'
  BY <1>0, <1>2, NewerIsSafe DEF ChangeSubject, TypeOK
<1>3. CASE SpendElsewhere
  BY <1>0, <1>3, NewerIsSafe DEF SpendElsewhere, history
<1>4. CASE ResetBudget
  BY <1>0, <1>4, NewerIsSafe DEF ResetBudget
<1> QED BY <1>1, <1>2, <1>3, <1>4 DEF GitHub

\* A step that lists nothing new, claims nothing new and starts no write keeps
\* the part of the invariant that relates sweeps to the account.
LEMMA QuietIsSafe ==
  ASSUME SafetyInv, TypeOK',
         UNCHANGED <<activity, done>>,
         inbox' \subseteq inbox, subscribed' \subseteq subscribed,
         \A p \in Sweeper :
           /\ cur'[p] \subseteq cur[p]
           /\ unread'[p] \cup todo'[p] \subseteq unread[p] \cup todo[p]
  PROVE  EntriesCurrent' /\ UnsubscribedFirst' /\ DoneIsGone'
<1>1. EntriesCurrent'
  <2> SUFFICES ASSUME NEW p \in Sweeper,
                      NEW e \in unread'[p] \cup todo'[p] \cup cur'[p]
               PROVE  e.at <= activity[e.id]
    BY DEF EntriesCurrent
  <2> QED BY DEF SafetyInv, EntriesCurrent
<1>2. UnsubscribedFirst'
  <2> SUFFICES ASSUME NEW p \in Sweeper, NEW e \in cur'[p]
               PROVE  e.id \notin subscribed' \/ e.at < activity[e.id]
    BY DEF UnsubscribedFirst
  <2> QED BY DEF SafetyInv, UnsubscribedFirst
<1>3. DoneIsGone'
  BY DEF SafetyInv, DoneIsGone
<1> QED BY <1>1, <1>2, <1>3

\* Ending a run drops everything it knew.
LEMMA ExitIsQuiet ==
  ASSUME TypeOK, NEW p \in Sweeper, NEW code, Exit(p, code)
  PROVE  /\ \A q \in Sweeper :
              /\ cur'[q] \subseteq cur[q]
              /\ unread'[q] \cup todo'[q] \subseteq unread[q] \cup todo[q]
         /\ \A q \in Sweeper : memory'[q] \in {Nothing, memory[q]}
BY DEF TypeOK, Exit

\* The empty memory claims nothing.
LEMMA NothingBacked == Backed(Nothing)
BY DEF Backed, Nothing

\* A listing records versions that exist, and forgets claims but invents none.
LEMMA ListSafe ==
  ASSUME SafetyInv, TypeOK', NEW p \in Sweeper, List(p)
  PROVE  SafetyInv'
<1> USE DEF service, disk
<1>1. PICK missed \in SUBSET Thread, twice \in SUBSET Thread :
        /\ memory' = [memory EXCEPT ![p] =
                        [t \in Thread |-> IF t \in missed THEN 0 ELSE @[t]]]
        /\ unread' = [unread EXCEPT ![p] =
                        {e \in Undecided(p, Thread \ missed, twice) :
                           e.id \in Supported}]
  BY DEF List
<1>2. /\ UNCHANGED <<activity, inbox, subscribed, done, file, tmp, cur>>
      /\ todo' = [todo EXCEPT ![p] = {}]
  BY DEF List
<1>3. EntriesCurrent'
  <2> SUFFICES ASSUME NEW q \in Sweeper,
                      NEW e \in unread'[q] \cup todo'[q] \cup cur'[q]
               PROVE  e.at <= activity[e.id]
    BY <1>2 DEF EntriesCurrent
  <2>1. CASE e \in unread[q] \cup todo[q] \cup cur[q]
    BY <2>1 DEF SafetyInv, EntriesCurrent
  <2>2. CASE e \in Undecided(p, Thread \ missed, twice)
    <3>1. e.at = activity[e.id] /\ e.id \in Thread
      BY <2>2 DEF Undecided
    <3>2. activity[e.id] \in Nat
      BY <3>1 DEF SafetyInv, TypeOK
    <3> QED BY <3>1, <3>2
  <2> QED BY <1>1, <1>2, <2>1, <2>2 DEF SafetyInv, TypeOK
<1>4. UnsubscribedFirst' /\ DoneIsGone'
  BY <1>2 DEF SafetyInv, UnsubscribedFirst, DoneIsGone
<1>5. MemorySound'
  <2>1. Backed(file.map)' /\ Backed(tmp.map)'
    BY <1>2 DEF SafetyInv, MemorySound, Backed
  <2>2. ASSUME NEW q \in Sweeper PROVE Backed(memory[q])'
    <3> SUFFICES ASSUME NEW t \in Thread, memory'[q][t] # 0
                 PROVE  <<t, memory'[q][t]>> \in done
      BY <1>2 DEF Backed
    <3>1. memory'[q][t] = memory[q][t]
      BY <1>1 DEF SafetyInv, TypeOK
    <3> QED BY <3>1 DEF SafetyInv, MemorySound, Backed
  <2> QED BY <2>1, <2>2 DEF MemorySound
<1> QED BY <1>3, <1>4, <1>5 DEF SafetyInv

\* A thread between the two writes is unsubscribed, or has newer activity.
LEMMA UnsubscribeSafe ==
  ASSUME SafetyInv, TypeOK', NEW p \in Sweeper, NEW e \in todo[p],
         NEW outcome, NEW said, Unsubscribe(p, e, outcome, said)
  PROVE  SafetyInv'
<1> USE DEF disk
<1>1. /\ UNCHANGED <<activity, inbox, done, file, tmp, memory, unread>>
      /\ todo' = [todo EXCEPT ![p] = @ \ {e}]
  BY DEF Unsubscribe, service, disk
<1>2. MemorySound'
  BY <1>1 DEF SafetyInv, MemorySound, Backed
<1>3. CASE outcome = "granted"
  <2>1. cur' = [cur EXCEPT ![p] = {e}] /\ subscribed' = subscribed \ {e.id}
    BY <1>3 DEF Unsubscribe
  <2>2. EntriesCurrent'
    BY <1>1, <2>1 DEF SafetyInv, EntriesCurrent, TypeOK
  <2>3. UnsubscribedFirst'
    <3> SUFFICES ASSUME NEW q \in Sweeper, NEW f \in cur'[q]
                 PROVE  f.id \notin subscribed' \/ f.at < activity[f.id]
      BY <1>1 DEF UnsubscribedFirst
    <3>1. f \in cur[q] \/ f = e
      BY <2>1 DEF SafetyInv, TypeOK
    <3> QED BY <2>1, <3>1 DEF SafetyInv, UnsubscribedFirst
  <2>4. DoneIsGone'
    BY <1>1, <2>1 DEF SafetyInv, DoneIsGone
  <2> QED BY <1>2, <2>2, <2>3, <2>4 DEF SafetyInv
<1>4. CASE outcome # "granted"
  <2>1. cur' = cur /\ subscribed' \subseteq subscribed
    BY <1>4 DEF Unsubscribe
  <2>2. EntriesCurrent' /\ UnsubscribedFirst' /\ DoneIsGone'
    BY <1>1, <2>1, QuietIsSafe DEF SafetyInv, TypeOK
  <2> QED BY <1>2, <2>2 DEF SafetyInv
<1> QED BY <1>3, <1>4

\* A granted mark-done records the listed version of a thread that has left the
\* inbox, or that is newer than that version.
LEMMA MarkDoneSafe ==
  ASSUME SafetyInv, TypeOK', NEW p \in Sweeper, NEW e \in cur[p],
         NEW outcome, NEW said, MarkDone(p, e, outcome, said)
  PROVE  SafetyInv'
<1> USE DEF disk
<1>1. /\ UNCHANGED <<activity, subscribed, file, tmp, unread, todo>>
      /\ cur' = [cur EXCEPT ![p] = {}]
      /\ inbox' \subseteq inbox
  BY DEF MarkDone, disk
<1>2. EntriesCurrent' /\ UnsubscribedFirst'
  BY <1>1 DEF SafetyInv, EntriesCurrent, UnsubscribedFirst, TypeOK
<1>3. CASE outcome = "granted"
  <2>1. /\ inbox' = inbox \ {e.id}
        /\ done' = done \cup {<<e.id, e.at>>}
        /\ memory' = [memory EXCEPT ![p] = [memory[p] EXCEPT ![e.id] = e.at]]
    BY <1>3 DEF MarkDone
  <2>2. e.id \in Thread /\ e.at \in Nat /\ e.at <= activity[e.id]
        /\ (e.id \notin subscribed \/ e.at < activity[e.id])
        /\ activity[e.id] \in Nat
    BY DEF SafetyInv, TypeOK, EntriesCurrent, UnsubscribedFirst
  <2>3. DoneIsGone'
    <3> SUFFICES ASSUME NEW t \in Thread, NEW v \in Nat, <<t, v>> \in done'
                 PROVE  /\ v <= activity[t]
                        /\ v = activity[t] => t \notin inbox' /\ t \notin subscribed
      BY <1>1 DEF DoneIsGone
    <3>1. CASE <<t, v>> \in done
      BY <1>1, <3>1 DEF SafetyInv, DoneIsGone
    <3>2. CASE t = e.id /\ v = e.at
      BY <2>1, <2>2, <3>2
    <3> QED BY <2>1, <3>1, <3>2
  <2>4. MemorySound'
    <3>1. Backed(file.map)' /\ Backed(tmp.map)'
      BY <1>1, <2>1 DEF SafetyInv, MemorySound, Backed
    <3>2. ASSUME NEW q \in Sweeper PROVE Backed(memory[q])'
      <4> SUFFICES ASSUME NEW t \in Thread, memory'[q][t] # 0
                   PROVE  <<t, memory'[q][t]>> \in done'
        BY DEF Backed
      <4>1. CASE q = p /\ t = e.id
        BY <2>1, <2>2, <4>1 DEF SafetyInv, TypeOK
      <4>2. CASE ~(q = p /\ t = e.id)
        <5>1. memory'[q][t] = memory[q][t]
          BY <2>1, <4>2 DEF SafetyInv, TypeOK
        <5> QED BY <2>1, <5>1 DEF SafetyInv, MemorySound, Backed
      <4> QED BY <4>1, <4>2
    <3> QED BY <3>1, <3>2 DEF MemorySound
  <2> QED BY <1>2, <2>3, <2>4 DEF SafetyInv
<1>4. CASE outcome # "granted"
  <2>1. UNCHANGED <<done, memory>>
    BY <1>4 DEF MarkDone
  <2>2. DoneIsGone' /\ MemorySound'
    BY <1>1, <2>1 DEF SafetyInv, DoneIsGone, MemorySound, Backed
  <2> QED BY <1>2, <2>2 DEF SafetyInv
<1> QED BY <1>3, <1>4

\* Every step of a sweep keeps the invariant.
LEMMA SweepSafe ==
  ASSUME SafetyInv, NEW p \in Sweeper, Sweep(p)
  PROVE  SafetyInv'
<1>0. TypeOK /\ TypeOK'
  BY SweepType DEF SafetyInv
<1> USE DEF service, disk, run, report
<1>1. CASE Start(p)
  <2>1. UNCHANGED <<activity, inbox, subscribed, done, file, tmp, unread, todo, cur>>
    BY <1>1 DEF Start
  <2>2. EntriesCurrent' /\ UnsubscribedFirst' /\ DoneIsGone'
    BY <1>0, <2>1, QuietIsSafe
  <2>3. \/ memory' = memory
        \/ memory' = [memory EXCEPT ![p] = file.map]
        \/ memory' = [memory EXCEPT ![p] = Nothing]
    BY <1>1 DEF Start
  <2>4. MemorySound'
    <3>1. /\ Backed(file.map) /\ Backed(tmp.map) /\ Backed(Nothing)
          /\ \A q \in Sweeper : Backed(memory[q])
      BY NothingBacked DEF SafetyInv, MemorySound
    <3>2. ASSUME NEW q \in Sweeper
          PROVE  memory'[q] \in {memory[q], file.map, Nothing}
      <4>1. memory \in [Sweeper -> Memory]
        BY <1>0 DEF TypeOK
      <4> QED BY <4>1, <2>3
    <3>3. \A q \in Sweeper : Backed(memory'[q])
      BY <3>1, <3>2
    <3> QED BY <2>1, <3>1, <3>3 DEF MemorySound, Backed
  <2> QED BY <1>0, <2>2, <2>4 DEF SafetyInv
<1>2. CASE List(p)
  BY <1>0, <1>2, ListSafe
<1>3. ASSUME NEW batch \in SUBSET Thread, NEW exhausted \in BOOLEAN,
             NEW answered \in SUBSET batch,
             FetchBatch(p, batch, answered, exhausted)
      PROVE  SafetyInv'
  <2>1. /\ UNCHANGED <<activity, inbox, subscribed, done, file, tmp, cur, memory>>
        /\ \A q \in Sweeper : unread'[q] \cup todo'[q] \subseteq unread[q] \cup todo[q]
    BY <1>0, <1>3 DEF FetchBatch, TypeOK, history
  <2>2. EntriesCurrent' /\ UnsubscribedFirst' /\ DoneIsGone'
    BY <1>0, <2>1, QuietIsSafe
  <2>3. MemorySound'
    BY <2>1 DEF SafetyInv, MemorySound, Backed
  <2> QED BY <1>0, <2>2, <2>3 DEF SafetyInv
<1>4. ASSUME NEW e \in todo[p], Leave(p, e) PROVE SafetyInv'
  <2>1. /\ UNCHANGED <<activity, inbox, subscribed, done, file, tmp, cur, memory>>
        /\ \A q \in Sweeper : unread'[q] \cup todo'[q] \subseteq unread[q] \cup todo[q]
    BY <1>0, <1>4 DEF Leave, TypeOK, history
  <2>2. EntriesCurrent' /\ UnsubscribedFirst' /\ DoneIsGone'
    BY <1>0, <2>1, QuietIsSafe
  <2>3. MemorySound'
    BY <2>1 DEF SafetyInv, MemorySound, Backed
  <2> QED BY <1>0, <2>2, <2>3 DEF SafetyInv
<1>5. ASSUME NEW e \in todo[p], NEW outcome, NEW said,
             Unsubscribe(p, e, outcome, said)
      PROVE  SafetyInv'
  BY <1>0, <1>5, UnsubscribeSafe
<1>6. ASSUME NEW e \in cur[p], NEW outcome, NEW said,
             MarkDone(p, e, outcome, said)
      PROVE  SafetyInv'
  BY <1>0, <1>6, MarkDoneSafe
\* A step that ends the run, or goes on to the next one, with the account as
\* it is and the two files made of what the files and the sweeps remember.
<1>7. ASSUME UNCHANGED <<activity, inbox, subscribed, done>>,
             \/ UNCHANGED <<memory, unread, todo, cur>>
             \/ \E code : Exit(p, code),
             Backed(file'.map), Backed(tmp'.map)
      PROVE  SafetyInv'
  <2>1. /\ \A q \in Sweeper :
             /\ cur'[q] \subseteq cur[q]
             /\ unread'[q] \cup todo'[q] \subseteq unread[q] \cup todo[q]
        /\ \A q \in Sweeper : memory'[q] \in {Nothing, memory[q]}
    BY <1>0, <1>7, ExitIsQuiet
  <2>2. EntriesCurrent' /\ UnsubscribedFirst' /\ DoneIsGone'
    BY <1>0, <1>7, <2>1, QuietIsSafe
  <2>3. \A q \in Sweeper : Backed(memory'[q])
    BY <2>1, NothingBacked DEF SafetyInv, MemorySound
  <2>4. MemorySound'
    BY <1>7, <2>3 DEF MemorySound, Backed
  <2> QED BY <1>0, <2>2, <2>4 DEF SafetyInv
<1>8. /\ Backed(file.map) /\ Backed(tmp.map) /\ Backed(Nothing)
      /\ \A q \in Sweeper : Backed(memory[q])
  BY NothingBacked DEF SafetyInv, MemorySound
<1>9. CASE ListFails(p) \/ Swept(p) \/ RenameFails(p) \/ SaveFails(p) \/ Crash(p)
  BY <1>7, <1>8, <1>9
     DEF ListFails, Swept, RenameFails, SaveFails, Crash, history
<1>10. CASE Decided(p)
  BY <1>7, <1>8, <1>10 DEF Decided, history
<1>11. CASE OpenTmp(p)
  BY <1>7, <1>8, <1>11 DEF OpenTmp, Torn, history
<1>12. CASE WriteTmp(p)
  BY <1>7, <1>8, <1>12 DEF WriteTmp, Whole, history
<1>13. CASE Rename(p)
  BY <1>7, <1>8, <1>13 DEF Rename, Absent, history
<1> QED
  BY <1>1, <1>2, <1>3, <1>4, <1>5, <1>6, <1>9, <1>10, <1>11, <1>12, <1>13
     DEF Sweep

\* The inductive invariant holds in every reachable state.
LEMMA Safety == Spec => []SafetyInv
<1>1. Init => SafetyInv
  BY InitSafe
<1>2. SafetyInv /\ [Next]_vars => SafetyInv'
  <2> SUFFICES ASSUME SafetyInv, [Next]_vars PROVE SafetyInv'
    OBVIOUS
  <2>1. CASE UNCHANGED vars
    BY <2>1 DEF SafetyInv, TypeOK, EntriesCurrent, UnsubscribedFirst,
                DoneIsGone, MemorySound, Backed,
                vars, service, disk, run, report, ends, history
  <2> QED BY <2>1, GitHubSafe, SweepSafe DEF Next
<1> QED BY <1>1, <1>2, PTL DEF Spec

\* What a later run skips really is cleared, whatever arrives, fails or dies
\* in between, for any number of sweeps that share the state file.
THEOREM SkippedThreadsAreCleared == Spec => []SkippedIsCleared
<1>1. SafetyInv => SkippedIsCleared
  <2> SUFFICES ASSUME SafetyInv, NEW t \in Skipped
               PROVE  t \notin inbox /\ t \notin subscribed
    BY DEF SkippedIsCleared
  <2>1. t \in Thread /\ file.map[t] = activity[t] /\ activity[t] \in Nat \ {0}
    BY DEF Skipped, SafetyInv, TypeOK
  <2>2. <<t, activity[t]>> \in done
    BY <2>1 DEF SafetyInv, MemorySound, Backed
  <2> QED BY <2>1, <2>2 DEF SafetyInv, DoneIsGone
<1> QED BY <1>1, Safety, PTL

\* The state file never claims a clear that no sweep was granted.
THEOREM MemoryIsSound == Spec => []MemorySound
<1>1. SafetyInv => MemorySound
  BY DEF SafetyInv
<1> QED BY <1>1, Safety, PTL

\* No thread is marked done before it is unsubscribed.
THEOREM UnsubscribeComesFirst == Spec => []UnsubscribedFirst
<1>1. SafetyInv => UnsubscribedFirst
  BY DEF SafetyInv
<1> QED BY <1>1, Safety, PTL

-----------------------------------------------------------------------------
(***************************************************************************)
(* What leaves the inbox.  That an entry may be cleared is known from the  *)
(* listing (scope, kind) and from the state read (finished); both stay     *)
(* true of it until it is cleared, whatever becomes of its subject.        *)
(***************************************************************************)
Clearable == InScope \cap Supported

\* Entries on their way through a run, and what has been decided of them.
EntriesGrounded ==
  \A p \in Sweeper :
    /\ \A e \in unread[p] : e.id \in Clearable /\ e.at # 0
    /\ \A e \in todo[p] \cup cur[p] :
         e.id \in Clearable \cap finishedOnce /\ e.at # 0

\* The history of the subjects misses none that is finished now.
FinishedKnown == \A t \in Thread : subject[t] # "Open" => t \in finishedOnce

GroundInv == TypeOK /\ EntriesGrounded /\ FinishedKnown

\* No run has listed anything at first.
LEMMA InitGrounded == Init => GroundInv
<1> SUFFICES ASSUME Init PROVE GroundInv
  OBVIOUS
<1>1. TypeOK
  BY InitType
<1>2. EntriesGrounded /\ FinishedKnown
  BY DEF Init, EntriesGrounded, FinishedKnown
<1> QED BY <1>1, <1>2 DEF GroundInv

\* A step that lists nothing and decides nothing keeps the ground of what is
\* under way.
LEMMA FewerEntriesGrounded ==
  ASSUME EntriesGrounded, finishedOnce \subseteq finishedOnce',
         \A p \in Sweeper :
           /\ unread'[p] \subseteq unread[p]
           /\ todo'[p] \cup cur'[p] \subseteq todo[p] \cup cur[p]
  PROVE  EntriesGrounded'
BY DEF EntriesGrounded, Clearable

\* Subjects open and close; what was finished once stays so in the history.
LEMMA GitHubGrounded == GroundInv /\ GitHub => GroundInv'
<1> SUFFICES ASSUME GroundInv, GitHub PROVE GroundInv'
  OBVIOUS
<1>0. TypeOK /\ TypeOK'
  BY GitHubType DEF GroundInv
<1> USE DEF run, history
<1>1. UNCHANGED <<unread, todo, cur>> /\ finishedOnce \subseteq finishedOnce'
  BY DEF GitHub, Notify, ChangeSubject, SpendElsewhere, ResetBudget
<1>2. EntriesGrounded'
  BY <1>1, FewerEntriesGrounded DEF GroundInv
<1>3. FinishedKnown'
  <2>1. CASE \E t \in Thread, state \in SubjectState : ChangeSubject(t, state)
    <3>1. PICK t \in Thread, state \in SubjectState : ChangeSubject(t, state)
      BY <2>1
    <3>2. /\ subject' = [subject EXCEPT ![t] = state]
          /\ finishedOnce' = IF state = "Open" THEN finishedOnce
                                               ELSE finishedOnce \cup {t}
      BY <3>1 DEF ChangeSubject
    <3> QED BY <1>0, <3>2 DEF GroundInv, FinishedKnown, TypeOK
  <2>2. CASE UNCHANGED <<subject, finishedOnce>>
    BY <2>2 DEF GroundInv, FinishedKnown
  <2> QED BY <2>1, <2>2 DEF GitHub, Notify, SpendElsewhere, ResetBudget
<1> QED BY <1>0, <1>2, <1>3 DEF GroundInv

\* What one step of a sweep does to the entries: a listing takes what is in
\* scope and supported, a state read what is finished, and nothing else adds.
LEMMA SweepGrounded ==
  ASSUME GroundInv, NEW p \in Sweeper, Sweep(p)
  PROVE  GroundInv'
<1>0. TypeOK /\ TypeOK'
  BY SweepType DEF GroundInv
<1> USE DEF service, run, report, ends, history
<1>1. UNCHANGED <<subject, finishedOnce>>
  BY DEF Sweep, Start, List, ListFails, FetchBatch, Decided, Leave, Unsubscribe,
         MarkDone, Swept, OpenTmp, WriteTmp, Rename, RenameFails, SaveFails, Crash
<1>2. FinishedKnown'
  BY <1>1 DEF GroundInv, FinishedKnown
<1>3. CASE List(p)
  <2>1. PICK missed \in SUBSET Thread, twice \in SUBSET Thread :
          unread' = [unread EXCEPT ![p] =
                       {e \in Undecided(p, Thread \ missed, twice) :
                          e.id \in Supported}]
    BY <1>3 DEF List
  <2>2. todo' = [todo EXCEPT ![p] = {}] /\ UNCHANGED cur
    BY <1>3 DEF List
  <2>3. ASSUME NEW e \in Undecided(p, Thread \ missed, twice), e.id \in Supported
        PROVE  e.id \in Clearable /\ e.at # 0
    BY <1>0, <2>3 DEF Undecided, Clearable, TypeOK
  <2>4. EntriesGrounded'
    <3> SUFFICES ASSUME NEW q \in Sweeper
                 PROVE  /\ \A e \in unread'[q] : e.id \in Clearable /\ e.at # 0
                        /\ \A e \in todo'[q] \cup cur'[q] :
                             e.id \in Clearable \cap finishedOnce /\ e.at # 0
      BY <1>1 DEF EntriesGrounded, Clearable
    <3>0. /\ \A e \in unread[q] : e.id \in Clearable /\ e.at # 0
          /\ \A e \in todo[q] \cup cur[q] :
               e.id \in Clearable \cap finishedOnce /\ e.at # 0
      BY DEF GroundInv, EntriesGrounded
    <3>1. CASE q = p
      <4>1. /\ unread'[q] = {e \in Undecided(p, Thread \ missed, twice) : e.id \in Supported}
            /\ todo'[q] = {} /\ cur'[q] = cur[q]
        BY <1>0, <2>1, <2>2, <3>1 DEF TypeOK
      <4> QED BY <2>3, <3>0, <4>1
    <3>2. CASE q # p
      <4>1. unread'[q] = unread[q] /\ todo'[q] = todo[q] /\ cur'[q] = cur[q]
        BY <1>0, <2>1, <2>2, <3>2 DEF TypeOK
      <4> QED BY <3>0, <4>1
    <3> QED BY <3>1, <3>2
  <2> QED BY <1>0, <1>2, <2>4 DEF GroundInv
<1>4. ASSUME NEW batch \in SUBSET Thread, NEW exhausted \in BOOLEAN,
             NEW answered \in SUBSET batch,
             FetchBatch(p, batch, answered, exhausted)
      PROVE  GroundInv'
  <2> DEFINE finished == {e \in unread[p] :
                            e.id \in answered /\ Clears(Decide(e.id, subject[e.id]))}
  <2>1. /\ todo' = [todo EXCEPT ![p] = @ \cup finished]
        /\ unread' = [unread EXCEPT ![p] =
                        {e \in @ : ~exhausted /\ e.id \notin batch}]
        /\ UNCHANGED cur
    BY <1>4 DEF FetchBatch
  <2>2. ASSUME NEW e \in finished
        PROVE  e.id \in Clearable \cap finishedOnce /\ e.at # 0
    <3>1. e \in unread[p] /\ e.id \in Thread /\ Clears(Decide(e.id, subject[e.id]))
      BY <1>0 DEF TypeOK
    <3>2. subject[e.id] # "Open"
      <4> SUFFICES ASSUME subject[e.id] = "Open" PROVE FALSE
        OBVIOUS
      <4> QED BY <3>1 DEF Clears, Decide
    <3> QED BY <3>1, <3>2 DEF GroundInv, EntriesGrounded, FinishedKnown
  <2>3. EntriesGrounded'
    <3> SUFFICES ASSUME NEW q \in Sweeper
                 PROVE  /\ \A e \in unread'[q] : e.id \in Clearable /\ e.at # 0
                        /\ \A e \in todo'[q] \cup cur'[q] :
                             e.id \in Clearable \cap finishedOnce /\ e.at # 0
      BY <1>1 DEF EntriesGrounded, Clearable
    <3>1. /\ unread'[q] \subseteq unread[q]
          /\ todo'[q] \subseteq todo[q] \cup finished
          /\ cur'[q] = cur[q]
      BY <1>0, <2>1 DEF TypeOK
    <3> HIDE DEF finished
    <3> QED BY <2>2, <3>1 DEF GroundInv, EntriesGrounded
  <2> QED BY <1>0, <1>2, <2>3 DEF GroundInv
\* The other steps hand entries on or drop them.
<1>5. ASSUME \A q \in Sweeper :
               /\ unread'[q] \subseteq unread[q]
               /\ todo'[q] \cup cur'[q] \subseteq todo[q] \cup cur[q]
      PROVE  GroundInv'
  BY <1>0, <1>1, <1>2, <1>5, FewerEntriesGrounded DEF GroundInv
<1>6. CASE \E code : Exit(p, code)
  <2>1. /\ unread' = [unread EXCEPT ![p] = {}]
        /\ todo' = [todo EXCEPT ![p] = {}]
        /\ cur' = [cur EXCEPT ![p] = {}]
    BY <1>6 DEF Exit
  <2> QED BY <1>0, <1>5, <2>1 DEF TypeOK
<1>7. CASE UNCHANGED <<unread, todo, cur>>
  BY <1>5, <1>7
<1>8. ASSUME NEW e \in todo[p], Leave(p, e) PROVE GroundInv'
  <2>1. todo' = [todo EXCEPT ![p] = @ \ {e}] /\ UNCHANGED <<unread, cur>>
    BY <1>8 DEF Leave
  <2> QED BY <1>0, <1>5, <2>1 DEF TypeOK
<1>9. ASSUME NEW e \in todo[p], NEW outcome, NEW said,
             Unsubscribe(p, e, outcome, said)
      PROVE  GroundInv'
  <2>1. /\ todo' = [todo EXCEPT ![p] = @ \ {e}]
        /\ cur' = cur \/ cur' = [cur EXCEPT ![p] = {e}]
        /\ UNCHANGED unread
    BY <1>9 DEF Unsubscribe
  <2> QED BY <1>0, <1>5, <2>1 DEF TypeOK
<1>10. ASSUME NEW e \in cur[p], NEW outcome, NEW said,
              MarkDone(p, e, outcome, said)
       PROVE  GroundInv'
  <2>1. cur' = [cur EXCEPT ![p] = {}] /\ UNCHANGED <<unread, todo>>
    BY <1>10 DEF MarkDone
  <2> QED BY <1>0, <1>5, <2>1 DEF TypeOK
<1>11. CASE Start(p) \/ OpenTmp(p) \/ WriteTmp(p)
  BY <1>7, <1>11 DEF Start, OpenTmp, WriteTmp
<1>12. CASE \/ ListFails(p) \/ Decided(p) \/ Swept(p) \/ Rename(p)
            \/ RenameFails(p) \/ SaveFails(p) \/ Crash(p)
  BY <1>6, <1>7, <1>12
     DEF ListFails, Decided, Swept, Rename, RenameFails, SaveFails, Crash
<1> QED
  BY <1>3, <1>4, <1>8, <1>9, <1>10, <1>11, <1>12 DEF Sweep

\* What a sweep is about to clear may be cleared, in every reachable state.
LEMMA Grounded == Spec => []GroundInv
<1>1. Init => GroundInv
  BY InitGrounded
<1>2. GroundInv /\ [Next]_vars => GroundInv'
  <2> SUFFICES ASSUME GroundInv, [Next]_vars PROVE GroundInv'
    OBVIOUS
  <2>1. CASE UNCHANGED vars
    BY <2>1 DEF GroundInv, TypeOK, EntriesGrounded, FinishedKnown,
                vars, service, disk, run, report, ends, history
  <2> QED BY <2>1, GitHubGrounded, SweepGrounded DEF Next
<1> QED BY <1>1, <1>2, PTL DEF Spec

-----------------------------------------------------------------------------
(***************************************************************************)
(* Every step is one InboxPromise allows, or one it does not see.          *)
(***************************************************************************)

\* The abstract next-state relation, or no step of it.
PromiseStep == [Promise!Next]_(Promise!vars)

\* A step that changes nothing the owner can see but the memory, if that, is
\* a stutter or a Save: what the file holds afterwards was cleared.
LEMMA MemoryStepKept ==
  ASSUME SafetyInv',
         UNCHANGED <<activity, inbox, subscribed, finishedOnce, done>>
  PROVE  PromiseStep
<1>1. file.map' \in [Thread -> Nat]
  BY DEF SafetyInv, TypeOK
<1>2. \A t \in Thread : file.map'[t] # 0 => <<t, file.map'[t]>> \in done
  BY DEF SafetyInv, MemorySound, Backed
<1>3. \A t \in Thread : file.map'[t] \in {0} \cup {d[2] : d \in done}
  <2> SUFFICES ASSUME NEW t \in Thread, file.map'[t] # 0
               PROVE  \E d \in done : file.map'[t] = d[2]
    OBVIOUS
  <2> QED BY <1>2
<1>4. file.map' \in [Thread -> {0} \cup {d[2] : d \in done}]
  BY <1>1, <1>3
<1>5. Promise!Save
  BY <1>2, <1>4 DEF Promise!Save
<1> QED BY <1>5 DEF PromiseStep, Promise!Next

\* What GitHub does is an arrival, or a subject finished out of sight.
LEMMA GitHubKept ==
  ASSUME SafetyInv, SafetyInv', GitHub
  PROVE  PromiseStep
<1> USE DEF disk, run, history
<1>0. TypeOK
  BY DEF SafetyInv
<1>1. ASSUME NEW t \in Thread, Notify(t) PROVE PromiseStep
  <2>1. Promise!Arrive(t)
    BY <1>1 DEF Notify, Promise!Arrive
  <2> QED BY <2>1 DEF PromiseStep, Promise!Next
<1>2. ASSUME NEW t \in Thread, NEW state \in SubjectState,
             ChangeSubject(t, state)
      PROVE  PromiseStep
  <2>1. /\ finishedOnce' \in {finishedOnce, finishedOnce \cup {t}}
        /\ UNCHANGED <<subscribed, file, done>>
    BY <1>2 DEF ChangeSubject
  <2>2. CASE t \in subscribed
    <3>1. subscribed' = subscribed \cup {t}
      BY <2>1, <2>2
    <3>2. activity' = [activity EXCEPT ![t] = @ + 1] /\ inbox' = inbox \cup {t}
      BY <1>2, <2>2 DEF ChangeSubject
    <3>3. Promise!Arrive(t)
      BY <2>1, <3>1, <3>2 DEF Promise!Arrive
    <3> QED BY <3>3 DEF PromiseStep, Promise!Next
  <2>3. CASE t \notin subscribed
    <3>1. UNCHANGED <<activity, inbox>>
      BY <1>2, <2>3 DEF ChangeSubject
    <3>2. CASE finishedOnce' = finishedOnce \cup {t}
      <4>1. Promise!FinishSilently(t)
        BY <2>1, <2>3, <3>1, <3>2 DEF Promise!FinishSilently
      <4> QED BY <4>1 DEF PromiseStep, Promise!Next
    <3>3. CASE finishedOnce' = finishedOnce
      BY <2>1, <3>1, <3>3, MemoryStepKept
    <3> QED BY <2>1, <3>2, <3>3
  <2> QED BY <2>2, <2>3
<1>3. CASE SpendElsewhere \/ ResetBudget
  BY <1>3, MemoryStepKept DEF SpendElsewhere, ResetBudget
<1> QED BY <1>1, <1>2, <1>3 DEF GitHub

\* An unsubscribe that was performed, heard of or not, is one of a thread that
\* may be cleared.
LEMMA UnsubscribeKept ==
  ASSUME SafetyInv, SafetyInv', GroundInv, NEW p \in Sweeper, NEW e \in todo[p],
         NEW outcome, NEW said, Unsubscribe(p, e, outcome, said)
  PROVE  PromiseStep
<1>1. e.id \in Thread /\ e.id \in Clearable \cap finishedOnce
  BY DEF GroundInv, EntriesGrounded, TypeOK
<1>2. UNCHANGED <<activity, inbox, finishedOnce, done, file>>
  BY DEF Unsubscribe, disk
<1>3. CASE outcome = "refused"
  <2>1. UNCHANGED subscribed
    BY <1>3 DEF Unsubscribe
  <2> QED BY <1>2, <2>1, MemoryStepKept
<1>4. CASE outcome # "refused"
  <2>1. subscribed' = subscribed \ {e.id}
    BY <1>4 DEF Unsubscribe
  <2>2. Promise!Unsubscribe(e.id)
    BY <1>1, <1>2, <2>1 DEF Promise!Unsubscribe, Clearable
  <2> QED BY <1>1, <2>2 DEF PromiseStep, Promise!Next
<1> QED BY <1>3, <1>4

\* A mark-done that was performed clears a thread that may be cleared, at the
\* version the run listed, which is not the thread's unless it is unsubscribed.
LEMMA MarkDoneKept ==
  ASSUME SafetyInv, SafetyInv', GroundInv, NEW p \in Sweeper, NEW e \in cur[p],
         NEW outcome, NEW said, MarkDone(p, e, outcome, said)
  PROVE  PromiseStep
<1>1. /\ e.id \in Thread /\ e.id \in Clearable \cap finishedOnce
      /\ e.at \in Nat /\ e.at # 0 /\ activity[e.id] \in Nat
  BY DEF GroundInv, EntriesGrounded, TypeOK
<1>2. /\ e.at <= activity[e.id]
      /\ e.id \notin subscribed \/ e.at < activity[e.id]
  BY DEF SafetyInv, EntriesCurrent, UnsubscribedFirst
<1>3. /\ UNCHANGED <<activity, subscribed, finishedOnce, file>>
      /\ done' \in {done, done \cup {<<e.id, e.at>>}}
      /\ outcome = "refused" => UNCHANGED done
  BY DEF MarkDone, disk
<1>4. CASE outcome = "refused"
  <2>1. UNCHANGED inbox
    BY <1>4 DEF MarkDone
  <2> QED BY <1>3, <1>4, <2>1, MemoryStepKept
<1>5. CASE outcome # "refused"
  <2>1. inbox' = inbox \ {e.id}
    BY <1>5 DEF MarkDone
  <2>2. e.at < activity[e.id] \/ (e.at = activity[e.id] /\ e.id \notin subscribed)
    BY <1>1, <1>2
  <2>3. Promise!Clear(e.id, e.at)
    BY <1>1, <1>3, <2>1, <2>2 DEF Promise!Clear, Clearable
  <2>4. e.at \in 1..activity[e.id]
    BY <1>1, <1>2
  <2> QED BY <1>1, <2>3, <2>4 DEF PromiseStep, Promise!Next
<1> QED BY <1>4, <1>5

\* Every step of a sweep, its failures and its crash included.
LEMMA SweepKept ==
  ASSUME SafetyInv, SafetyInv', GroundInv, NEW p \in Sweeper, Sweep(p)
  PROVE  PromiseStep
<1> USE DEF service, history
<1>1. ASSUME NEW e \in todo[p], NEW outcome, NEW said,
             Unsubscribe(p, e, outcome, said)
      PROVE  PromiseStep
  BY <1>1, UnsubscribeKept
<1>2. ASSUME NEW e \in cur[p], NEW outcome, NEW said,
             MarkDone(p, e, outcome, said)
      PROVE  PromiseStep
  BY <1>2, MarkDoneKept
<1>3. CASE \/ Start(p) \/ List(p) \/ ListFails(p) \/ Decided(p)
           \/ Swept(p) \/ OpenTmp(p) \/ WriteTmp(p) \/ Rename(p)
           \/ RenameFails(p) \/ SaveFails(p) \/ Crash(p)
           \/ \E e \in todo[p] : Leave(p, e)
           \/ \E batch \in SUBSET Thread, exhausted \in BOOLEAN :
                \E answered \in SUBSET batch :
                  FetchBatch(p, batch, answered, exhausted)
  <2>1. UNCHANGED <<activity, inbox, subscribed, finishedOnce, done>>
    BY <1>3 DEF Start, List, ListFails, Decided, Swept, OpenTmp, WriteTmp,
                Rename, RenameFails, SaveFails, Crash, Leave, FetchBatch
  <2> QED BY <2>1, MemoryStepKept
<1> QED BY <1>1, <1>2, <1>3 DEF Sweep

\* The sweep implements what it promises: with its failures, its crashes and
\* any number of runs that share the state file, it does nothing to the inbox,
\* the subscriptions or the memory that InboxPromise does not allow
\* (cli/inbox.rs, run_sweep and save_state).
THEOREM SweepKeepsPromise == Spec => KeepsPromise
<1>1. Init => Promise!Init
  BY DEF Init, Promise!Init, Absent, Nothing
<1>2. SafetyInv /\ SafetyInv' /\ GroundInv /\ [Next]_vars => PromiseStep
  <2> SUFFICES ASSUME SafetyInv, SafetyInv', GroundInv, [Next]_vars
               PROVE  PromiseStep
    OBVIOUS
  <2>1. CASE UNCHANGED vars
    BY <2>1, MemoryStepKept DEF vars, service, history
  <2> QED BY <2>1, GitHubKept, SweepKept DEF Next
<1> QED
  BY <1>1, <1>2, Safety, Grounded, PTL DEF Spec, KeepsPromise, Promise!Spec, PromiseStep

\* A thread leaves the inbox only if it is in scope, of a supported kind, and
\* merged or closed at some time: no failed read, no crash and no concurrent
\* run clears another (core/inbox.rs, decide).
THEOREM OnlyFinishedThreadsLeave == Spec => OnlyFinishedLeave
<1> DEFINE Leaves == \A t \in inbox \ inbox' : t \in InScope \cap Supported \cap finishedOnce
<1>1. GroundInv /\ [Next]_vars => [Leaves]_vars
  <2> SUFFICES ASSUME GroundInv, Next, NEW t \in inbox \ inbox'
               PROVE  t \in InScope \cap Supported \cap finishedOnce
    OBVIOUS
  <2>1. ASSUME NEW p \in Sweeper, NEW e \in cur[p], NEW outcome, NEW said,
               MarkDone(p, e, outcome, said)
        PROVE  t \in InScope \cap Supported \cap finishedOnce
    <3>1. t = e.id
      BY <2>1 DEF MarkDone
    <3> QED BY <3>1 DEF GroundInv, EntriesGrounded, Clearable
  <2>2. ASSUME NEW p \in Sweeper, Sweep(p)
        PROVE  t \in InScope \cap Supported \cap finishedOnce
    BY <2>1, <2>2 DEF Sweep, Start, List, ListFails, FetchBatch, Decided, Leave,
         Unsubscribe, Swept, OpenTmp, WriteTmp, Rename, RenameFails, SaveFails,
         Crash, service
  <2>3. ~GitHub
    BY DEF GitHub, Notify, ChangeSubject, SpendElsewhere, ResetBudget
  <2> QED BY <2>2, <2>3 DEF Next
<1> QED BY <1>1, Grounded, PTL DEF Spec, OnlyFinishedLeave

-----------------------------------------------------------------------------
(***************************************************************************)
(* The exit code.  ExitHonest is not inductive: that exit 6 means a thread *)
(* was left rests on every due thread being accounted for on the way.      *)
(***************************************************************************)
Applying == {"writing", "unsubscribed", "saving", "opened", "written"}

\* While a run applies, a due thread is cleared, left, waiting or in hand;
\* nothing waits once it saves, and one thread at most is in hand.
Accounted(p) ==
  /\ pc[p] \in Applying =>
       due[p] \subseteq cleared[p] \cup left[p] \cup Ids(todo[p]) \cup Ids(cur[p])
  /\ pc[p] \in {"saving", "opened", "written"} => todo[p] = {}
  /\ pc[p] # "unsubscribed" => cur[p] = {}
  /\ \A e, f \in cur[p] : e = f

\* A run under way has no exit code; one that ended has an honest one.
Honest(p) ==
  /\ pc[p] # "idle" => exit[p] = "none"
  /\ apply[p] => /\ exit[p] = "0" => due[p] \subseteq cleared[p]
                 /\ exit[p] = "6" => left[p] # {}
  /\ \A t \in cleared[p] : \E d \in done : d[1] = t

ReportInv == TypeOK /\ \A p \in Sweeper : Accounted(p) /\ Honest(p)

\* What one sweep does leaves the reports of the others as they are.
LEMMA OthersUntouched ==
  ASSUME TypeOK, NEW p \in Sweeper, Sweep(p), NEW q \in Sweeper, q # p,
         Accounted(q), Honest(q)
  PROVE  Accounted(q)' /\ Honest(q)'
<1>1. /\ pc'[q] = pc[q]
      /\ apply'[q] = apply[q]
      /\ exit'[q] = exit[q]
      /\ todo'[q] = todo[q]
      /\ cur'[q] = cur[q]
      /\ due'[q] = due[q]
      /\ cleared'[q] = cleared[q]
      /\ left'[q] = left[q]
      /\ done \subseteq done'
  <2> USE DEF TypeOK, service, disk, run, report, ends, history
  <2>1. CASE Start(p)
    BY <2>1 DEF Start
  <2>2. CASE List(p)
    BY <2>2 DEF List
  <2>3. CASE ListFails(p) \/ Decided(p) \/ Swept(p)
    BY <2>3 DEF ListFails, Decided, Swept, Exit
  <2>4. CASE \E batch \in SUBSET Thread, exhausted \in BOOLEAN :
               \E answered \in SUBSET batch :
                 FetchBatch(p, batch, answered, exhausted)
    BY <2>4 DEF FetchBatch
  <2>5. CASE \E e \in todo[p] : Leave(p, e)
    BY <2>5 DEF Leave
  <2>6. CASE \E e \in todo[p], outcome \in Outcome, said \in {TRUE, ~Silent} :
               Unsubscribe(p, e, outcome, said)
    BY <2>6 DEF Unsubscribe
  <2>7. CASE \E e \in cur[p], outcome \in Outcome, said \in {TRUE, ~Silent} :
               MarkDone(p, e, outcome, said)
    BY <2>7 DEF MarkDone
  <2>8. CASE OpenTmp(p) \/ WriteTmp(p)
    BY <2>8 DEF OpenTmp, WriteTmp
  <2>9. CASE Rename(p) \/ RenameFails(p) \/ SaveFails(p) \/ Crash(p)
    BY <2>9 DEF Rename, RenameFails, SaveFails, Crash, Exit
  <2> HIDE DEF TypeOK
  <2> QED BY <2>1, <2>2, <2>3, <2>4, <2>5, <2>6, <2>7, <2>8, <2>9 DEF Sweep
<1> QED BY <1>1 DEF Accounted, Honest, Ids

\* Each write moves one due thread on, and the exit code counts what is left.
LEMMA OwnReport ==
  ASSUME TypeOK, NEW p \in Sweeper, Sweep(p), Accounted(p), Honest(p)
  PROVE  Accounted(p)' /\ Honest(p)'
<1> USE DEF TypeOK, Accounted, Honest, Applying,
            service, disk, run, report, ends, history
<1>1. CASE Start(p)
  BY <1>1 DEF Start
<1>2. CASE List(p)
  BY <1>2 DEF List
<1>3. CASE ListFails(p) \/ RenameFails(p) \/ SaveFails(p) \/ Crash(p)
  BY <1>3 DEF ListFails, RenameFails, SaveFails, Crash, Exit
<1>4. CASE \E batch \in SUBSET Thread, exhausted \in BOOLEAN :
             \E answered \in SUBSET batch :
               FetchBatch(p, batch, answered, exhausted)
  BY <1>4 DEF FetchBatch
<1>5. CASE Decided(p)
  <2>1. CASE apply[p]
    BY <1>5, <2>1 DEF Decided, Ids
  <2>2. CASE ~apply[p]
    BY <1>5, <2>2 DEF Decided, Exit
  <2> QED BY <2>1, <2>2
<1>6. ASSUME NEW e \in todo[p], Leave(p, e)
      PROVE  Accounted(p)' /\ Honest(p)'
  <2>1. /\ todo'[p] = todo[p] \ {e}
        /\ left'[p] = left[p] \cup {e.id}
        /\ UNCHANGED <<pc, apply, cur, due, cleared, exit, done>>
        /\ pc[p] = "writing"
    BY <1>6 DEF Leave
  <2>2. Ids(todo[p]) \subseteq Ids(todo'[p]) \cup {e.id}
    BY <2>1 DEF Ids
  <2> QED BY <2>1, <2>2 DEF Ids
<1>7. ASSUME NEW e \in todo[p], NEW outcome, NEW said,
             Unsubscribe(p, e, outcome, said)
      PROVE  Accounted(p)' /\ Honest(p)'
  <2>1. /\ todo'[p] = todo[p] \ {e}
        /\ UNCHANGED <<apply, due, cleared, exit, done>>
        /\ pc[p] = "writing" /\ cur[p] = {}
        /\ \/ pc'[p] = "unsubscribed" /\ cur'[p] = {e} /\ left'[p] = left[p]
           \/ pc'[p] = pc[p] /\ cur'[p] = {} /\ left'[p] = left[p] \cup {e.id}
    BY <1>7 DEF Unsubscribe
  <2>2. /\ Ids(todo[p]) \subseteq Ids(todo'[p]) \cup {e.id}
        /\ Ids({}) = {} /\ Ids({e}) = {e.id}
    BY <2>1 DEF Ids
  <2> QED BY <2>1, <2>2
<1>8. ASSUME NEW e \in cur[p], NEW outcome, NEW said,
             MarkDone(p, e, outcome, said)
      PROVE  Accounted(p)' /\ Honest(p)'
  <2>1. /\ pc[p] = "unsubscribed" /\ pc'[p] = "writing"
        /\ cur[p] = {e} /\ cur'[p] = {}
        /\ UNCHANGED <<apply, due, todo, exit>>
        /\ \/ /\ cleared'[p] = cleared[p] \cup {e.id}
              /\ left'[p] = left[p]
              /\ done' = done \cup {<<e.id, e.at>>}
           \/ /\ cleared'[p] = cleared[p]
              /\ left'[p] = left[p] \cup {e.id}
              /\ done' = done
    BY <1>8 DEF MarkDone
  <2>2. Ids({}) = {} /\ Ids({e}) = {e.id}
    BY DEF Ids
  <2>3. Accounted(p)'
    BY <2>1, <2>2
  <2>4. \A t \in cleared'[p] : \E d \in done' : d[1] = t
    <3>1. CASE cleared'[p] = cleared[p] \cup {e.id} /\ done' = done \cup {<<e.id, e.at>>}
      <4> SUFFICES ASSUME NEW t \in cleared'[p] PROVE \E d \in done' : d[1] = t
        OBVIOUS
      <4>1. CASE t \in cleared[p]
        BY <3>1, <4>1
      <4>2. CASE t = e.id
        <5>1. <<e.id, e.at>> \in done' /\ <<e.id, e.at>>[1] = e.id
          BY <3>1
        <5> QED BY <4>2, <5>1
      <4> QED BY <3>1, <4>1, <4>2
    <3>2. CASE cleared'[p] = cleared[p] /\ done' = done
      BY <3>2
    <3> QED BY <2>1, <3>1, <3>2
  <2>5. exit'[p] = "none"
    BY <2>1
  <2> QED BY <2>1, <2>3, <2>4, <2>5
\* The end of an applying run, when nothing waits any more.
<1>9. ASSUME Exit(p, ExitCode(p)), UNCHANGED <<report, done>>,
             pc[p] \in Applying, todo[p] = {}, cur[p] = {}
      PROVE  Accounted(p)' /\ Honest(p)'
  <2>1. pc'[p] = "idle" /\ exit'[p] = ExitCode(p) /\ cur'[p] = {}
    BY <1>9 DEF Exit
  <2>2. Unaccounted(p) = {}
    BY <1>9 DEF Unaccounted, Ids
  <2>3. /\ ExitCode(p) = "0" => due[p] \subseteq cleared[p]
        /\ ExitCode(p) = "6" => left[p] # {}
    BY <2>2 DEF ExitCode, Unaccounted
  <2> QED BY <1>9, <2>1, <2>3
<1>10. CASE Swept(p)
  BY <1>9, <1>10 DEF Swept
<1>11. CASE OpenTmp(p) \/ WriteTmp(p)
  BY <1>11 DEF OpenTmp, WriteTmp
<1>12. CASE Rename(p)
  BY <1>9, <1>12 DEF Rename
<1> HIDE DEF TypeOK, Accounted, Honest
<1> QED
  BY <1>1, <1>2, <1>3, <1>4, <1>5, <1>6, <1>7, <1>8, <1>10, <1>11, <1>12 DEF Sweep

\* Exit 0 of an applying run means that every due thread was marked done, and
\* exit 6 that one was left behind and is reported, whatever failed on the way
\* (cli/inbox.rs, run_sweep: the exit code).
THEOREM ExitsAreHonest == Spec => []ExitHonest
<1>1. Init => ReportInv
  <2> SUFFICES ASSUME Init, NEW p \in Sweeper PROVE Accounted(p) /\ Honest(p)
    BY InitType DEF ReportInv
  <2> QED BY DEF Init, Accounted, Honest, Applying
<1>2. ReportInv /\ [Next]_vars => ReportInv'
  <2> SUFFICES ASSUME ReportInv, [Next]_vars PROVE ReportInv'
    OBVIOUS
  <2>1. CASE UNCHANGED vars
    BY <2>1 DEF ReportInv, TypeOK, Accounted, Honest, Ids,
                vars, service, disk, run, report, ends, history
  <2>2. CASE GitHub
    <3>1. TypeOK'
      BY <2>2, GitHubType DEF ReportInv
    <3>2. UNCHANGED <<pc, run, exit, done>>
      BY <2>2 DEF GitHub, Notify, ChangeSubject, SpendElsewhere, ResetBudget,
                  ends, history
    <3> QED BY <3>1, <3>2 DEF ReportInv, Accounted, Honest, Ids, run, report
  <2>3. ASSUME NEW p \in Sweeper, Sweep(p) PROVE ReportInv'
    <3>1. TypeOK'
      BY <2>3, SweepType DEF ReportInv
    <3>2. \A q \in Sweeper : Accounted(q)' /\ Honest(q)'
      BY <2>3, OwnReport, OthersUntouched DEF ReportInv
    <3> QED BY <3>1, <3>2 DEF ReportInv
  <2> QED BY <2>1, <2>2, <2>3 DEF Next
<1>3. ReportInv => ExitHonest
  BY DEF ReportInv, Honest, ExitHonest
<1> QED BY <1>1, <1>2, <1>3, PTL DEF Spec

-----------------------------------------------------------------------------
(***************************************************************************)
(* The reserve.  Once a granted write tells a run that the budget is at    *)
(* the reserve, no further pair is begun before the reset: of one run only *)
(* the pair in flight goes through.  A write whose answer lacks the header *)
(* tells nothing and makes nothing forgotten.                              *)
(***************************************************************************)
Reserved(p) ==
  /\ overrun[p] <= 2
  /\ overrun[p] > 0 => rest <= Reserve
  /\ overrun[p] > 0 /\ pc[p] # "idle" => AtReserve(p)
  /\ overrun[p] > 1 => pc[p] # "unsubscribed"

ReserveInv == TypeOK /\ \A p \in Sweeper : Reserved(p)

\* A granted write that tells that the budget is at the reserve makes the run
\* know it; one that does not leaves what it knows.
LEMMA GrantTells ==
  ASSUME TypeOK, NEW p \in Sweeper, NEW said \in BOOLEAN, Pay("granted"),
         budget' = Told(p, said), overrun' = Overran(p, said)
  PROVE  /\ rest' \in Nat /\ rest' <= rest
         /\ rest > Reserve \/ ~(said \/ AtReserve(p)) => overrun'[p] = overrun[p]
         /\ rest <= Reserve /\ (said \/ AtReserve(p)) =>
              overrun'[p] <= overrun[p] + 1 /\ AtReserve(p)'
         /\ ~said => budget' = budget
<1>1. rest \in Nat /\ Cost \in Nat /\ Reserve \in Nat /\ overrun[p] \in Nat
  BY NumberAssumption DEF TypeOK
<1>2. rest' \in Nat /\ rest' <= rest
  BY <1>1 DEF Pay
<1> DEFINE told == said \/ AtReserve(p)
<1>3. /\ rest > Reserve \/ ~told => overrun'[p] = overrun[p]
      /\ rest <= Reserve => overrun'[p] <= overrun[p] + 1
  <2> HIDE DEF told
  <2>1. overrun'[p] = IF rest <= Reserve /\ told THEN Least(overrun[p] + 1, 3) ELSE overrun[p]
    BY DEF Overran, TypeOK, told
  <2> QED
    BY <1>1, <2>1 DEF Least
<1>4. ~said => budget' = budget
  BY DEF Told, TypeOK
<1>5. said => budget'[p] = Known(rest')
  BY DEF Told, TypeOK
<1>6. rest <= Reserve /\ told => AtReserve(p)'
  <2>1. rest <= Reserve => rest' <= Reserve
    BY <1>1, <1>2
  <2>2. CASE said
    <3>1. budget'[p] = [known |-> TRUE, left |-> rest']
      BY <1>5, <2>2 DEF Known
    <3>2. budget'[p].known /\ budget'[p].left = rest'
      <4>1. \A r, x : r = [known |-> TRUE, left |-> x] => r.known /\ r.left = x
        OBVIOUS
      <4> QED
        BY ONLY <3>1, <4>1
    <3> QED
      BY <2>1, <3>2 DEF AtReserve
  <2>3. CASE ~said
    BY <1>4, <2>3 DEF AtReserve
  <2> QED
    BY <2>2, <2>3
<1> QED
  BY <1>2, <1>3, <1>4, <1>6

\* A run stays so while its own budget is not told anew and the true one only
\* falls, unless it begins a write.
LEMMA StillReserved ==
  ASSUME TypeOK, TypeOK', NEW q \in Sweeper, Reserved(q), rest' <= rest,
         pc'[q] \in {pc[q], "idle"} \/ (pc[q] # "idle" /\ pc'[q] # "unsubscribed"),
         overrun'[q] = overrun[q], pc'[q] = "idle" \/ budget'[q] = budget[q]
  PROVE  Reserved(q)'
<1>1. rest \in Nat /\ rest' \in Nat /\ Reserve \in Nat /\ overrun[q] \in Nat
  BY NumberAssumption DEF TypeOK
<1>2. pc'[q] # "idle" => (AtReserve(q)' <=> AtReserve(q)) /\ pc[q] # "idle"
  BY DEF AtReserve
<1> QED
  BY <1>1, <1>2 DEF Reserved

\* Each step of a sweep, for the sweep itself and for the others.
LEMMA SweepReserves ==
  ASSUME ReserveInv, NEW p \in Sweeper, Sweep(p), NEW q \in Sweeper
  PROVE  Reserved(q)'
<1>0. TypeOK /\ TypeOK' /\ Reserved(q) /\ Reserved(p)
  BY SweepType DEF ReserveInv
<1> USE DEF service, disk, run, report, ends, history
<1>1. CASE Start(p)
  <2>1. CASE UNCHANGED <<pc, run, overrun, rest>>
    BY <1>0, <2>1 DEF Reserved, AtReserve
  <2>2. CASE /\ pc' = [pc EXCEPT ![p] = "loaded"]
             /\ budget' = [budget EXCEPT ![p] = Unknown]
             /\ overrun' = [overrun EXCEPT ![p] = 0] /\ rest' = rest
    <3>1. CASE q = p
      BY <1>0, <2>2, <3>1 DEF Reserved, TypeOK
    <3>2. CASE q # p
      BY <1>0, <2>2, <3>2 DEF Reserved, AtReserve, TypeOK
    <3> QED
      BY <3>1, <3>2
  <2> QED
    BY <1>1, <2>1, <2>2 DEF Start
<1>2. ASSUME NEW e \in todo[p], NEW outcome \in Outcome, NEW said \in BOOLEAN,
             Unsubscribe(p, e, outcome, said)
      PROVE  Reserved(q)'
  <2>1. pc[p] = "writing" /\ ~AtReserve(p) /\ Pay(outcome)
    BY <1>2 DEF Unsubscribe
  <2>2. overrun[p] \in Nat /\ overrun[p] = 0
    BY <1>0, <2>1 DEF Reserved, TypeOK
  <2>3. CASE outcome = "granted"
    <3>1. /\ pc' = [pc EXCEPT ![p] = "unsubscribed"]
          /\ budget' = Told(p, said) /\ overrun' = Overran(p, said) /\ Pay("granted")
      BY <1>2, <2>3 DEF Unsubscribe
    <3>2. /\ rest' \in Nat /\ rest' <= rest
          /\ rest > Reserve \/ ~(said \/ AtReserve(p)) => overrun'[p] = overrun[p]
          /\ rest <= Reserve /\ (said \/ AtReserve(p)) =>
               overrun'[p] <= overrun[p] + 1 /\ AtReserve(p)'
          /\ ~said => budget' = budget
      BY <1>0, <3>1, GrantTells
    <3>3. CASE q = p
      <4>1. /\ rest \in Nat /\ Reserve \in Nat /\ overrun'[p] \in Nat
            /\ pc'[p] = "unsubscribed"
        BY <1>0, <3>1, NumberAssumption DEF TypeOK
      <4>2. overrun'[p] > 0 => rest <= Reserve
        BY <2>2, <3>2, <4>1
      <4> QED
        BY <2>2, <3>2, <3>3, <4>1, <4>2 DEF Reserved
    <3>4. CASE q # p
      <4>1. budget'[q] = budget[q] /\ overrun'[q] = overrun[q] /\ pc'[q] = pc[q]
        BY <1>0, <3>1, <3>4 DEF TypeOK, Told, Overran
      <4> QED
        BY <1>0, <3>2, <4>1, StillReserved
    <3> QED
      BY <3>3, <3>4
  <2>4. CASE outcome # "granted"
    <3>1. UNCHANGED <<pc, budget, overrun>>
      BY <1>2, <2>4 DEF Unsubscribe
    <3>2. rest' <= rest
      BY <1>0, <2>1, NumberAssumption DEF Pay, TypeOK
    <3> QED
      BY <1>0, <3>1, <3>2, StillReserved
  <2> QED
    BY <2>3, <2>4
<1>3. ASSUME NEW e \in cur[p], NEW outcome \in Outcome, NEW said \in BOOLEAN,
             MarkDone(p, e, outcome, said)
      PROVE  Reserved(q)'
  <2>1. pc[p] = "unsubscribed" /\ pc' = [pc EXCEPT ![p] = "writing"] /\ Pay(outcome)
    BY <1>3 DEF MarkDone
  <2>2. overrun[p] \in Nat /\ overrun[p] <= 1
    BY <1>0, <2>1 DEF Reserved, TypeOK
  <2>3. CASE outcome = "granted"
    <3>1. budget' = Told(p, said) /\ overrun' = Overran(p, said) /\ Pay("granted")
      BY <1>3, <2>3 DEF MarkDone
    <3>2. /\ rest' \in Nat /\ rest' <= rest
          /\ rest > Reserve \/ ~(said \/ AtReserve(p)) => overrun'[p] = overrun[p]
          /\ rest <= Reserve /\ (said \/ AtReserve(p)) =>
               overrun'[p] <= overrun[p] + 1 /\ AtReserve(p)'
          /\ ~said => budget' = budget
      BY <1>0, <3>1, GrantTells
    <3>3. CASE q = p
      <4>1. /\ rest \in Nat /\ Reserve \in Nat /\ overrun'[p] \in Nat
            /\ pc'[p] = "writing"
        BY <1>0, <2>1, <3>1, NumberAssumption DEF TypeOK
      <4>2. overrun[p] > 0 => rest <= Reserve /\ AtReserve(p)
        BY <1>0, <2>1 DEF Reserved
      <4>3. \/ rest <= Reserve /\ (said \/ AtReserve(p))
            \/ overrun'[p] = overrun[p]
        BY <3>2, <4>1
      <4>4. overrun'[p] > 0 => rest <= Reserve /\ AtReserve(p)'
        BY <2>2, <3>2, <4>1, <4>2, <4>3
      <4>5. overrun'[p] <= 2
        BY <2>2, <3>2, <4>1, <4>3
      <4>6. overrun'[p] > 0 => rest' <= Reserve
        BY <3>2, <4>1, <4>4
      <4> QED
        BY <3>3, <4>1, <4>4, <4>5, <4>6 DEF Reserved
    <3>4. CASE q # p
      <4>1. budget'[q] = budget[q] /\ overrun'[q] = overrun[q] /\ pc'[q] = pc[q]
        BY <1>0, <2>1, <3>1, <3>4 DEF TypeOK, Told, Overran
      <4> QED
        BY <1>0, <3>2, <4>1, StillReserved
    <3> QED
      BY <3>3, <3>4
  <2>4. CASE outcome # "granted"
    <3>1. UNCHANGED <<budget, overrun>>
      BY <1>3, <2>4 DEF MarkDone
    <3>2. rest' <= rest
      BY <1>0, <2>1, NumberAssumption DEF Pay, TypeOK
    <3>3. pc'[q] = pc[q] \/ (pc[q] # "idle" /\ pc'[q] # "unsubscribed")
      BY <1>0, <2>1 DEF TypeOK
    <3> QED
      BY <1>0, <3>1, <3>2, <3>3, StillReserved
  <2> QED
    BY <2>3, <2>4
<1>4. ASSUME rest' = rest, overrun' = overrun,
             \/ UNCHANGED <<pc, budget>>
             \/ /\ UNCHANGED budget /\ pc[p] # "idle"
                /\ \E s \in PC \ {"unsubscribed"} : pc' = [pc EXCEPT ![p] = s]
             \/ \E code : Exit(p, code)
      PROVE  Reserved(q)'
  <2>1. rest' <= rest
    BY <1>0, <1>4 DEF TypeOK
  <2>2. /\ pc'[q] \in {pc[q], "idle"} \/ (pc[q] # "idle" /\ pc'[q] # "unsubscribed")
        /\ pc'[q] = "idle" \/ budget'[q] = budget[q]
    BY <1>0, <1>4 DEF TypeOK, Exit
  <2> QED
    BY <1>0, <1>4, <2>1, <2>2, StillReserved
<1>5. CASE List(p) \/ OpenTmp(p) \/ WriteTmp(p)
  <2>1. /\ rest' = rest /\ overrun' = overrun /\ UNCHANGED budget /\ pc[p] # "idle"
        /\ \/ pc' = [pc EXCEPT ![p] = "reading"]
           \/ pc' = [pc EXCEPT ![p] = "opened"]
           \/ pc' = [pc EXCEPT ![p] = "written"]
    BY <1>5 DEF List, OpenTmp, WriteTmp
  <2> QED
    BY <1>4, <2>1
<1>6. CASE ListFails(p) \/ Decided(p) \/ Swept(p)
  <2>1. rest' = rest /\ overrun' = overrun
    BY <1>6 DEF ListFails, Decided, Swept
  <2>2. \/ \E code : Exit(p, code)
        \/ /\ UNCHANGED budget /\ pc[p] # "idle"
           /\ pc' = [pc EXCEPT ![p] = "writing"] \/ pc' = [pc EXCEPT ![p] = "saving"]
    BY <1>6 DEF ListFails, Decided, Swept
  <2> QED
    BY <1>4, <2>1, <2>2
<1>7. CASE Rename(p) \/ RenameFails(p) \/ SaveFails(p) \/ Crash(p)
  BY <1>4, <1>7 DEF Rename, RenameFails, SaveFails, Crash
<1>8. CASE \E batch \in SUBSET Thread, exhausted \in BOOLEAN :
             \E answered \in SUBSET batch : FetchBatch(p, batch, answered, exhausted)
  BY <1>4, <1>8 DEF FetchBatch
<1>9. CASE \E e \in todo[p] : Leave(p, e)
  BY <1>4, <1>9 DEF Leave
<1>10. {TRUE, ~Silent} \subseteq BOOLEAN
  BY NumberAssumption
<1>11. CASE \E e \in todo[p], outcome \in Outcome, said \in {TRUE, ~Silent} :
              Unsubscribe(p, e, outcome, said)
  BY <1>2, <1>10, <1>11
<1>12. CASE \E e \in cur[p], outcome \in Outcome, said \in {TRUE, ~Silent} :
              MarkDone(p, e, outcome, said)
  BY <1>3, <1>10, <1>12
<1> QED
  BY <1>1, <1>5, <1>6, <1>7, <1>8, <1>9, <1>11, <1>12 DEF Sweep

\* Only the reset gives budget back, and it forgives what was overrun.
LEMMA GitHubReserves ==
  ASSUME ReserveInv, GitHub, NEW q \in Sweeper
  PROVE  Reserved(q)'
<1>0. TypeOK /\ TypeOK' /\ Reserved(q)
  BY GitHubType DEF ReserveInv
<1> USE DEF service, disk, run, report, ends, history
<1>1. CASE ResetBudget
  BY <1>0, <1>1 DEF ResetBudget, Reserved, TypeOK
<1>2. CASE ~ResetBudget
  <2>1. UNCHANGED <<pc, budget, overrun>>
    BY <1>2 DEF GitHub, Notify, ChangeSubject, SpendElsewhere
  <2>2. rest' <= rest
    BY <1>0, <1>2, NumberAssumption DEF GitHub, Notify, ChangeSubject, SpendElsewhere, TypeOK
  <2> QED
    BY <1>0, <2>1, <2>2, StillReserved
<1> QED
  BY <1>1, <1>2

\* From the first answer on that tells a run of the reserve, at most one pair of
\* its writes is granted before the next reset, whatever other clients and
\* sweeps spend and whichever answers lack the budget (cli/inbox.rs,
\* Sweep::apply).
THEOREM TheReserveHolds == Spec => []OverrunBounded
<1>1. Init => ReserveInv
  <2> SUFFICES ASSUME Init PROVE ReserveInv
    OBVIOUS
  <2> QED
    BY InitType DEF Init, ReserveInv, Reserved
<1>2. ReserveInv /\ [Next]_vars => ReserveInv'
  <2> SUFFICES ASSUME ReserveInv, [Next]_vars PROVE ReserveInv'
    OBVIOUS
  <2>1. CASE UNCHANGED vars
    BY <2>1 DEF ReserveInv, Reserved, AtReserve, TypeOK, vars, service, disk, run, report,
                ends, history
  <2>2. CASE GitHub
    BY <2>2, GitHubType, GitHubReserves DEF ReserveInv
  <2>3. ASSUME NEW p \in Sweeper, Sweep(p) PROVE ReserveInv'
    BY <2>3, SweepType, SweepReserves DEF ReserveInv
  <2> QED
    BY <2>1, <2>2, <2>3 DEF Next
<1>3. ReserveInv => OverrunBounded
  BY DEF ReserveInv, Reserved, OverrunBounded
<1> QED
  BY <1>1, <1>2, <1>3, PTL DEF Spec

-----------------------------------------------------------------------------
(***************************************************************************)
(* The memory works.  Of a single sweep, `again` is paid for by faults:    *)
(* each crash, failed save or shifted listing can make it clear a thread   *)
(* once more, and what it may yet clear once more is a debt that is        *)
(* already paid for.                                                       *)
(***************************************************************************)

\* The entries W name their thread twice; some of them is cleared already (D).
Twin(W) == \E d, e \in W : d # e
Repeats(t, W, D) == \E e \in W : <<t, e.at>> \in D

\* What is owed on thread t at version a: the entries W waiting for it, the
\* version m remembered for it, and the pairs D that are done.
Owes(t, W, a, m, D) ==
  IF W = {} THEN IF <<t, a>> \in D /\ m # a THEN 1 ELSE 0
            ELSE (IF Twin(W) THEN 1 ELSE 0) + (IF Repeats(t, W, D) THEN 1 ELSE 0)

\* The entries of one listing for thread t, of a version v, at a later one a.
AreListed(t, W, v, a, D) ==
  /\ \A e \in W : e.id = t /\ e.at = v /\ e.copy \in BOOLEAN
  /\ v \in Nat /\ a \in Nat /\ v <= a
  /\ \A n \in Nat : <<t, n>> \in D => n <= v

\* What is owed is at most two clears, and one while nothing waits.
LEMMA OwesBound ==
  ASSUME NEW t, NEW W, NEW a, NEW m, NEW D
  PROVE  /\ Owes(t, W, a, m, D) \in Nat
         /\ W = {} => Owes(t, W, a, m, D) <= 1
BY DEF Owes

\* An entry that is dropped owes nothing: what is remembered afterwards plays
\* no part, as an older version than the thread's is not looked for.
LEMMA DroppingOwesLess ==
  ASSUME NEW t, NEW W, NEW v, NEW a \in Nat, NEW b \in Nat, NEW m, NEW k, NEW D, NEW E,
         AreListed(t, W, v, a, D), a <= b, W # {},
         \A n \in Nat : <<t, n>> \in E <=> <<t, n>> \in D,
         NEW X \in SUBSET W
  PROVE  Owes(t, X, b, k, E) <= Owes(t, W, a, m, D)
<1>1. v \in Nat /\ v <= a /\ \A n \in Nat : <<t, n>> \in D => n <= v
  BY DEF AreListed
<1>2. \A e \in W : e.at = v
  BY DEF AreListed
<1>3. Repeats(t, W, D) <=> <<t, v>> \in D
  BY <1>2 DEF Repeats
<1>4. CASE X = {}
  <2>1. <<t, b>> \in E => b \in Nat /\ b <= v /\ <<t, b>> \in D
    BY <1>1
  <2>2. <<t, b>> \in E => Repeats(t, W, D)
    <3>1. <<t, b>> \in E => b = v
      BY <1>1, <2>1
    <3> QED
      BY <1>3, <2>1, <3>1
  <2> QED
    BY <1>4, <2>2 DEF Owes
<1>5. CASE X # {}
  <2>1. Twin(X) => Twin(W)
    BY DEF Twin
  <2>2. Repeats(t, X, E) => Repeats(t, W, D)
    BY <1>1, <1>2 DEF Repeats
  <2> QED
    BY <1>5, <2>1, <2>2 DEF Owes
<1> QED
  BY <1>4, <1>5

\* The same, while nothing waits.
LEMMA RestingOwesLess ==
  ASSUME NEW t, NEW a, NEW b, NEW m, NEW k, NEW D, NEW E,
         <<t, b>> \in E /\ k # b => <<t, a>> \in D /\ m # a
  PROVE  Owes(t, {}, b, k, E) <= Owes(t, {}, a, m, D)
BY DEF Owes

\* A listing names a thread that is not remembered, and at most twice.
LEMMA ListingOwes ==
  ASSUME NEW t, NEW W, NEW a \in Nat, NEW m, NEW k, NEW D, NEW n \in {0, 1},
         \A e \in W : e.at = a /\ m # a,
         n = 0 => k = m /\ \A d, e \in W : d = e
  PROVE  Owes(t, W, a, k, D) <= Owes(t, {}, a, m, D) + n
<1>1. CASE W = {}
  BY <1>1 DEF Owes
<1>2. CASE W # {}
  <2>1. m # a
    BY <1>2
  <2>2. Repeats(t, W, D) => <<t, a>> \in D
    BY DEF Repeats
  <2>3. n = 0 => ~Twin(W)
    BY DEF Twin
  <2> QED
    BY <1>2, <2>1, <2>2, <2>3 DEF Owes
<1> QED
  BY <1>1, <1>2

\* A thread marked done pays what was owed for doing so again.
LEMMA ClearingPays ==
  ASSUME NEW t, NEW W, NEW v, NEW a \in Nat, NEW m, NEW D, NEW e \in W,
         AreListed(t, W, v, a, D), W \subseteq Entry
  PROVE  Owes(t, W \ {e}, a, v, D \cup {<<t, v>>}) + (IF <<t, v>> \in D THEN 1 ELSE 0)
           <= Owes(t, W, a, m, D)
<1> DEFINE X == W \ {e}
           E == D \cup {<<t, v>>}
<1> SUFFICES Owes(t, X, a, v, E) + (IF <<t, v>> \in D THEN 1 ELSE 0) <= Owes(t, W, a, m, D)
  OBVIOUS
<1>1. v \in Nat /\ v <= a /\ \A n \in Nat : <<t, n>> \in D => n <= v
  BY DEF AreListed
<1>2. \A d \in W : d.at = v /\ d.id = t /\ d.copy \in BOOLEAN
  BY DEF AreListed
<1>3. Repeats(t, W, D) <=> <<t, v>> \in D
  BY <1>2 DEF Repeats
<1>4. CASE X = {}
  <2>2. ~ (<<t, a>> \in E /\ v # a)
    <3>1. <<t, a>> \in E /\ v # a => <<t, a>> \in D
      OBVIOUS
    <3>2. <<t, a>> \in D => a <= v
      BY <1>1
    <3> QED
      BY <1>1, <3>1, <3>2
  <2>3. Owes(t, X, a, v, E) = 0
    BY <1>4, <2>2 DEF Owes
  <2> HIDE DEF X, E
  <2> QED
    BY <1>3, <2>3 DEF Owes
<1>5. CASE X # {}
  <2>1. PICK f \in X : TRUE
    BY <1>5
  <2>2. Twin(W)
    BY <2>1 DEF Twin
  <2>3. ~Twin(X)
    <3> SUFFICES ASSUME NEW g \in X, NEW h \in X PROVE g = h
      BY DEF Twin
    <3>1. g.copy # e.copy /\ h.copy # e.copy
      BY <1>2
    <3>2. g.copy = h.copy
      BY <1>2, <3>1
    <3> QED
      BY <1>2, <3>2
  <2> HIDE DEF X, E
  <2>4. Owes(t, X, a, v, E) \in {0, 1}
    BY <1>5, <2>3 DEF Owes
  <2> QED
    BY <1>3, <2>2, <2>4 DEF Owes
<1> QED
  BY <1>4, <1>5

\* The entries of thread t that a run has not dealt with yet, the memory that
\* the next listing will go by, and the debt.
Waiting(p, t) == {e \in unread[p] \cup todo[p] \cup cur[p] : e.id = t}
InForce(p) == IF pc[p] = "idle" THEN file.map ELSE memory[p]
Debt(p, t) == Owes(t, Waiting(p, t), activity[t], InForce(p)[t], done)

\* What waits is of one listing, and no newer version is done.
Listed(p) ==
  \A t \in Thread : \A e \in Waiting(p, t) :
    /\ \A d \in Waiting(p, t) : d.at = e.at
    /\ \A n \in Nat : <<t, n>> \in done => n <= e.at

\* Where a run stands, an entry waits in one place, and the memory is the
\* file's until the first write, and will be.
InPlace(p) ==
  /\ pc[p] # "reading" => unread[p] = {}
  /\ pc[p] \notin {"reading", "writing", "unsubscribed"} => todo[p] = {}
  /\ pc[p] # "unsubscribed" => cur[p] = {}
  /\ \A d, e \in cur[p] : d = e
  /\ todo[p] \cap cur[p] = {}
  /\ pc[p] = "loaded" => memory[p] = file.map
  /\ pc[p] = "reading" => \A t \in Thread : memory[p][t] \in {0, file.map[t]}
  /\ pc[p] = "opened" => fd[p] = "tmp"
  /\ pc[p] = "written" => tmp = Whole(memory[p])

Paid(p) == \A t \in Thread : again[t] + Debt(p, t) <= faults

\* What waits is the listing of one thread.
LEMMA WaitingListed ==
  ASSUME TypeOK, EntriesCurrent, NEW p \in Sweeper, Listed(p), NEW t \in Thread,
         NEW e \in Waiting(p, t)
  PROVE  /\ AreListed(t, Waiting(p, t), e.at, activity[t], done)
         /\ Waiting(p, t) \subseteq Entry /\ e.at \in Nat
<1>1. Waiting(p, t) \subseteq Entry /\ activity[t] \in Nat
  BY DEF TypeOK, Waiting
<1>2. e.at \in Nat /\ e.at <= activity[t]
  BY <1>1 DEF Waiting, EntriesCurrent
<1> QED
  BY <1>1, <1>2 DEF Listed, AreListed, Waiting

\* A step that lists and marks nothing: what waits may be dropped, the thread
\* may get newer, and, where nothing waits, no claim is forgotten.
LEMMA StillPaid ==
  ASSUME SafetyInv, TypeOK', NEW p \in Sweeper, Listed(p), Paid(p), NEW t \in Thread,
         Waiting(p, t)' \subseteq Waiting(p, t), activity[t] <= activity'[t],
         UNCHANGED <<done, again>>, faults <= faults',
         Waiting(p, t) = {} =>
           (InForce(p)'[t] # activity[t] => InForce(p)[t] # activity[t])
  PROVE  again'[t] + Debt(p, t)' <= faults'
<1> DEFINE W == Waiting(p, t)
<1>1. TypeOK /\ EntriesCurrent /\ DoneIsGone
  BY DEF SafetyInv
<1>2. /\ activity[t] \in Nat /\ activity'[t] \in Nat
      /\ again[t] \in Nat /\ faults \in Nat /\ faults' \in Nat
  BY <1>1 DEF TypeOK
<1>3. Debt(p, t)' = Owes(t, W', activity'[t], InForce(p)'[t], done)
  BY DEF Debt
<1>4. Debt(p, t)' <= Debt(p, t)
  <2>1. CASE W = {}
    <3>1. W' = {}
      BY <2>1
    <3>2. \A n \in Nat : <<t, n>> \in done => n <= activity[t]
      BY <1>1 DEF DoneIsGone
    <3>3. <<t, activity'[t]>> \in done /\ InForce(p)'[t] # activity'[t] =>
            <<t, activity[t]>> \in done /\ InForce(p)[t] # activity[t]
      <4>1. <<t, activity'[t]>> \in done => activity'[t] = activity[t]
        BY <1>2, <3>2
      <4> QED
        BY <2>1, <4>1
    <3> HIDE DEF W
    <3>4. Owes(t, {}, activity'[t], InForce(p)'[t], done) <=
            Owes(t, {}, activity[t], InForce(p)[t], done)
      BY <3>3, RestingOwesLess
    <3>5. Debt(p, t) = Owes(t, {}, activity[t], InForce(p)[t], done)
      BY <2>1 DEF Debt, W
    <3> QED
      BY <1>3, <3>1, <3>4, <3>5
  <2>2. CASE W # {}
    <3>1. PICK e \in W : TRUE
      BY <2>2
    <3>2. AreListed(t, W, e.at, activity[t], done)
      BY <1>1, <3>1, WaitingListed
    <3>3. Owes(t, W', activity'[t], InForce(p)'[t], done) <=
            Owes(t, W, activity[t], InForce(p)[t], done)
      <4> HIDE DEF W
      <4>1. W' \in SUBSET W
        BY DEF W
      <4> QED
        BY <1>2, <2>2, <3>2, <4>1, DroppingOwesLess
    <3> QED
      BY <1>3, <3>3 DEF Debt
  <2> QED
    BY <2>1, <2>2
<1>5. again[t] + Debt(p, t) <= faults
  BY DEF Paid
<1>6. Debt(p, t) \in Nat /\ Debt(p, t)' \in Nat
  BY <1>3, OwesBound DEF Debt
<1>7. again'[t] = again[t]
  OBVIOUS
<1> HIDE DEF W
<1>8. \A a, d, e, f, g \in Nat : a + d <= f /\ e <= d /\ f <= g => a + e <= g
  OBVIOUS
<1> QED
  BY <1>2, <1>4, <1>5, <1>6, <1>7, <1>8

\* Such a step of the sweep keeps every debt paid.
LEMMA QuietPays ==
  ASSUME SafetyInv, TypeOK', NEW p \in Sweeper, Listed(p), Paid(p),
         \A t \in Thread : activity[t] <= activity'[t],
         unread'[p] \cup todo'[p] \cup cur'[p] \subseteq unread[p] \cup todo[p] \cup cur[p],
         UNCHANGED <<done, again>>, faults <= faults',
         \A t \in Thread : Waiting(p, t) = {} =>
           (InForce(p)'[t] # activity[t] => InForce(p)[t] # activity[t])
  PROVE  Listed(p)' /\ Paid(p)'
<1>1. ASSUME NEW t \in Thread PROVE Waiting(p, t)' \subseteq Waiting(p, t)
  BY DEF Waiting
<1>2. Paid(p)'
  BY <1>1, StillPaid DEF Paid
<1>3. Listed(p)'
  BY <1>1 DEF Listed
<1> QED
  BY <1>2, <1>3

\* A fault pays for one thread each to be cleared again.
LEMMA FaultPays ==
  ASSUME TypeOK, TypeOK', NEW p \in Sweeper, Paid(p), faults' = faults + 1, UNCHANGED again,
         unread'[p] = {}, todo'[p] = {}, cur'[p] = {}
  PROVE  Listed(p)' /\ Paid(p)'
<1>1. ASSUME NEW t \in Thread PROVE again'[t] + Debt(p, t)' <= faults'
  <2>1. Debt(p, t)' = Owes(t, {}, activity'[t], InForce(p)'[t], done')
    BY DEF Debt, Waiting
  <2>2. Debt(p, t)' \in Nat /\ Debt(p, t)' <= 1
    BY <2>1, OwesBound
  <2>3. Debt(p, t) \in Nat /\ again[t] \in Nat /\ faults \in Nat
    BY OwesBound DEF Debt, TypeOK
  <2>4. again[t] + Debt(p, t) <= faults
    BY DEF Paid
  <2> QED
    BY <2>2, <2>3, <2>4
<1> QED
  BY <1>1 DEF Paid, Listed, Waiting

\* A listing that shifts is such a fault; one that does not names a thread
\* once, and only if it is not remembered.
LEMMA ListPays ==
  ASSUME SafetyInv, TypeOK', NEW p \in Sweeper, Listed(p), InPlace(p), Paid(p), List(p)
  PROVE  Listed(p)' /\ InPlace(p)' /\ Paid(p)'
<1>0. TypeOK /\ DoneIsGone
  BY DEF SafetyInv
<1>1. PICK missed \in SUBSET Thread, twice \in SUBSET Thread :
        /\ faults' = IF missed = {} /\ twice = {} THEN faults ELSE faults + 1
        /\ memory' = [memory EXCEPT ![p] =
                        [t \in Thread |-> IF t \in missed THEN 0 ELSE @[t]]]
        /\ unread' = [unread EXCEPT ![p] =
                        {e \in Undecided(p, Thread \ missed, twice) : e.id \in Supported}]
  BY DEF List
<1>2. /\ pc[p] = "loaded" /\ pc' = [pc EXCEPT ![p] = "reading"]
      /\ todo' = [todo EXCEPT ![p] = {}]
      /\ UNCHANGED <<activity, file, tmp, fd, cur, done, again>>
  BY DEF List, service, disk, ends
<1>3. /\ unread[p] = {} /\ todo[p] = {} /\ cur[p] = {} /\ memory[p] = file.map
  BY <1>2 DEF InPlace
<1>4. ASSUME NEW t \in Thread
      PROVE  /\ memory'[p][t] = IF t \in missed THEN 0 ELSE file.map[t]
             /\ pc'[p] = "reading" /\ todo'[p] = {} /\ cur'[p] = {}
  BY <1>0, <1>1, <1>2, <1>3 DEF TypeOK
<1>5. unread'[p] = {e \in Undecided(p, Thread \ missed, twice) : e.id \in Supported}
  BY <1>0, <1>1 DEF TypeOK
<1>6. ASSUME NEW t \in Thread, NEW e \in Waiting(p, t)'
      PROVE  /\ e.id = t /\ e.at = activity[t] /\ e.copy \in BOOLEAN /\ e \in Entry
             /\ file.map[t] # activity[t] /\ t \notin missed /\ (e.copy => t \in twice)
  <2>1. e \in Undecided(p, Thread \ missed, twice) /\ e.id = t
    BY <1>4, <1>5 DEF Waiting
  <2> QED
    BY <1>0, <1>3, <2>1 DEF Undecided, TypeOK
<1>7. Listed(p)'
  <2> SUFFICES ASSUME NEW t \in Thread, NEW e \in Waiting(p, t)'
               PROVE  /\ \A d \in Waiting(p, t)' : d.at = e.at
                      /\ \A n \in Nat : <<t, n>> \in done => n <= e.at
    BY <1>2 DEF Listed
  <2> QED
    BY <1>0, <1>6 DEF DoneIsGone
<1>8. InPlace(p)'
  BY <1>0, <1>2, <1>4 DEF InPlace, TypeOK
<1>9. ASSUME NEW t \in Thread PROVE again'[t] + Debt(p, t)' <= faults'
  <2> DEFINE n == IF missed = {} /\ twice = {} THEN 0 ELSE 1
             W == Waiting(p, t)'
             m == file.map[t]
             k == memory'[p][t]
  <2>1. n \in {0, 1} /\ faults' = faults + n /\ faults \in Nat
    BY <1>0, <1>1 DEF TypeOK
  <2>2. Debt(p, t)' = Owes(t, W, activity[t], k, done)
    BY <1>2, <1>4 DEF Debt, InForce
  <2>3. Debt(p, t) = Owes(t, {}, activity[t], m, done)
    BY <1>2, <1>3 DEF Debt, InForce, Waiting
  <2>4. \A e \in W : e.at = activity[t] /\ m # activity[t]
    BY <1>6
  <2>5. n = 0 => k = m /\ \A d, e \in W : d = e
    <3> SUFFICES ASSUME n = 0 PROVE k = m /\ \A d, e \in W : d = e
      OBVIOUS
    <3>1. missed = {} /\ twice = {}
      OBVIOUS
    <3>2. k = m
      BY <1>4, <3>1
    <3>3. ASSUME NEW d \in W, NEW e \in W PROVE d = e
      <4>1. d.id = e.id /\ d.at = e.at /\ d.copy = e.copy /\ d \in Entry /\ e \in Entry
        BY <1>6, <3>1
      <4> QED
        BY <4>1
    <3> QED
      BY <3>2, <3>3
  <2>6. activity[t] \in Nat /\ again[t] \in Nat
    BY <1>0 DEF TypeOK
  <2> HIDE DEF n, W, m, k
  <2>7. Owes(t, W, activity[t], k, done) <= Owes(t, {}, activity[t], m, done) + n
    BY <2>1, <2>4, <2>5, <2>6, ListingOwes
  <2>8. /\ Owes(t, W, activity[t], k, done) \in Nat
        /\ Owes(t, {}, activity[t], m, done) \in Nat
    BY OwesBound
  <2>9. again[t] + Debt(p, t) <= faults /\ again'[t] = again[t]
    BY <1>2 DEF Paid
  <2> QED
    BY <2>1, <2>2, <2>3, <2>6, <2>7, <2>8, <2>9
<1> QED
  BY <1>7, <1>8, <1>9 DEF Paid

\* A granted mark-done pays for its thread and concerns no other.
LEMMA MarkDonePays ==
  ASSUME SafetyInv, TypeOK', NEW p \in Sweeper, Listed(p), InPlace(p), Paid(p),
         NEW e \in cur[p], NEW said, MarkDone(p, e, "granted", said)
  PROVE  Listed(p)' /\ InPlace(p)' /\ Paid(p)'
<1> DEFINE t == e.id
           v == e.at
<1>0. TypeOK /\ EntriesCurrent
  BY DEF SafetyInv
<1>1. /\ pc[p] = "unsubscribed" /\ pc' = [pc EXCEPT ![p] = "writing"]
      /\ cur' = [cur EXCEPT ![p] = {}]
      /\ memory' = [memory EXCEPT ![p][e.id] = e.at]
      /\ done' = done \cup {<<e.id, e.at>>}
      /\ again' = [again EXCEPT ![e.id] = IF <<e.id, e.at>> \in done
                                            THEN Least(@ + 1, MaxFaults + 1) ELSE @]
      /\ UNCHANGED <<activity, unread, todo, faults, file, tmp, fd>>
  BY DEF MarkDone, disk, ends
<1>2. unread[p] = {} /\ cur[p] = {e} /\ e \notin todo[p]
  BY <1>1 DEF InPlace
<1>3. t \in Thread /\ v \in Nat /\ e \in Entry
  BY <1>0 DEF TypeOK
<1>4. pc'[p] = "writing" /\ cur'[p] = {}
  BY <1>0, <1>1 DEF TypeOK
<1>5. \A u \in Thread : /\ u # t => memory'[p][u] = memory[p][u] /\ again'[u] = again[u]
                        /\ u = t => memory'[p][u] = v
  BY <1>0, <1>1, <1>3 DEF TypeOK
<1>6. InPlace(p)'
  BY <1>1, <1>2, <1>4 DEF InPlace
<1>7. /\ Waiting(p, t)' = Waiting(p, t) \ {e} /\ e \in Waiting(p, t)
      /\ \A u \in Thread \ {t} : Waiting(p, u)' = Waiting(p, u)
  BY <1>1, <1>2, <1>4 DEF Waiting
<1>8. Listed(p)'
  <2> SUFFICES ASSUME NEW u \in Thread, NEW f \in Waiting(p, u)'
               PROVE  /\ \A d \in Waiting(p, u)' : d.at = f.at
                      /\ \A n \in Nat : <<u, n>> \in done' => n <= f.at
    BY DEF Listed
  <2>1. Waiting(p, u)' \subseteq Waiting(p, u)
    BY <1>7
  <2>2. /\ \A d \in Waiting(p, u) : d.at = f.at
        /\ \A n \in Nat : <<u, n>> \in done => n <= f.at
    BY <2>1 DEF Listed
  <2>3. u = t => f.at = v
    BY <1>7, <2>2
  <2> QED
    BY <1>1, <1>3, <2>1, <2>2, <2>3
<1>9. ASSUME NEW u \in Thread PROVE again'[u] + Debt(p, u)' <= faults'
  <2>1. Debt(p, u)' = Owes(u, Waiting(p, u)', activity[u], memory'[p][u], done')
    BY <1>1, <1>4 DEF Debt, InForce
  <2>2. Debt(p, u) = Owes(u, Waiting(p, u), activity[u], memory[p][u], done)
    BY <1>1 DEF Debt, InForce
  <2>3. /\ again[u] \in Nat /\ faults \in Nat /\ activity[u] \in Nat
        /\ Debt(p, u) \in Nat /\ Debt(p, u)' \in Nat
        /\ again[u] + Debt(p, u) <= faults /\ faults' = faults
    BY <1>0, <1>1, <2>1, OwesBound DEF Debt, TypeOK, Paid
  <2>4. CASE u = t
    <3>1. AreListed(t, Waiting(p, t), v, activity[t], done) /\ Waiting(p, t) \subseteq Entry
      BY <1>0, <1>3, <1>7, WaitingListed
    <3> DEFINE n == IF <<t, v>> \in done THEN 1 ELSE 0
    <3>2. Owes(t, Waiting(p, t) \ {e}, activity[t], v, done \cup {<<t, v>>}) + n
            <= Owes(t, Waiting(p, t), activity[t], memory[p][t], done)
      BY <1>3, <1>7, <2>3, <2>4, <3>1, ClearingPays
    <3>3. Debt(p, t)' + n <= Debt(p, t)
      BY <1>1, <1>3, <1>5, <1>7, <2>1, <2>2, <2>4, <3>2
    <3>4. n \in Nat /\ again'[t] \in Nat /\ again'[t] <= again[t] + n
      BY <1>0, <1>1, <1>3, NumberAssumption DEF TypeOK, Least
    <3> HIDE DEF n, t, v
    <3> QED
      BY <2>3, <2>4, <3>3, <3>4
  <2>5. CASE u # t
    <3>1. \A n \in Nat : <<u, n>> \in done' <=> <<u, n>> \in done
      BY <1>1, <2>5
    <3>2. Debt(p, u)' <= Debt(p, u)
      <4>1. CASE Waiting(p, u) = {}
        <5>1. <<u, activity[u]>> \in done' /\ memory[p][u] # activity[u] =>
                <<u, activity[u]>> \in done /\ memory[p][u] # activity[u]
          BY <2>3, <3>1
        <5>2. Owes(u, {}, activity[u], memory[p][u], done') <=
                Owes(u, {}, activity[u], memory[p][u], done)
          BY <5>1, RestingOwesLess
        <5> QED
          BY <1>5, <1>7, <2>1, <2>2, <2>5, <4>1, <5>2
      <4>2. CASE Waiting(p, u) # {}
        <5>1. PICK f \in Waiting(p, u) : TRUE
          BY <4>2
        <5>2. AreListed(u, Waiting(p, u), f.at, activity[u], done)
          BY <1>0, <5>1, WaitingListed
        <5>3. Owes(u, Waiting(p, u), activity[u], memory[p][u], done') <=
                Owes(u, Waiting(p, u), activity[u], memory[p][u], done)
          BY <2>3, <3>1, <4>2, <5>2, DroppingOwesLess
        <5> QED
          BY <1>5, <1>7, <2>1, <2>2, <2>5, <5>3
      <4> QED
        BY <4>1, <4>2
    <3> QED
      BY <1>5, <2>3, <2>5, <3>2
  <2> QED
    BY <2>4, <2>5
<1> QED
  BY <1>6, <1>8, <1>9 DEF Paid

\* Every step of the one sweep keeps its place and its debt paid.
LEMMA SweepPays ==
  ASSUME Remember, SafetyInv, NEW p \in Sweeper, Listed(p), InPlace(p), Paid(p), Sweep(p)
  PROVE  Listed(p)' /\ InPlace(p)' /\ Paid(p)'
<1>0. TypeOK /\ TypeOK'
  BY SweepType DEF SafetyInv
<1> USE DEF service, disk, run, report, ends, history
\* A step that lists, marks and loses nothing.
<1>1. ASSUME UNCHANGED <<activity, done, again, faults>>,
             unread'[p] \cup todo'[p] \cup cur'[p] \subseteq unread[p] \cup todo[p] \cup cur[p],
             \A t \in Thread : Waiting(p, t) = {} =>
               (InForce(p)'[t] # activity[t] => InForce(p)[t] # activity[t])
      PROVE  Listed(p)' /\ Paid(p)'
  <2>1. faults <= faults' /\ \A t \in Thread : activity[t] <= activity'[t]
    BY <1>0, <1>1 DEF TypeOK
  <2> QED
    BY <1>0, <1>1, <2>1, QuietPays
<1>2. ASSUME NEW code, Exit(p, code)
      PROVE  /\ pc'[p] = "idle" /\ unread'[p] = {} /\ todo'[p] = {} /\ cur'[p] = {}
             /\ InForce(p)' = file'.map
             /\ InPlace(p)'
  <2>1. pc'[p] = "idle" /\ unread'[p] = {} /\ todo'[p] = {} /\ cur'[p] = {}
    BY <1>0, <1>2 DEF Exit, TypeOK
  <2> QED
    BY <2>1 DEF InForce, InPlace
<1>3. CASE Start(p)
  <2>1. CASE UNCHANGED <<pc, run, file, tmp, fd, activity, done, again, faults>>
    BY <1>1, <2>1 DEF InForce, InPlace
  <2>2. CASE /\ pc[p] = "idle" /\ pc' = [pc EXCEPT ![p] = "loaded"]
             /\ memory' = [memory EXCEPT ![p] = file.map]
             /\ UNCHANGED <<unread, todo, cur, file, activity, done, again, faults>>
    <3>1. pc'[p] = "loaded" /\ memory'[p] = file.map
      BY <1>0, <2>2 DEF TypeOK
    <3> QED
      BY <1>1, <2>2, <3>1 DEF InForce, InPlace
  <2> QED
    BY <1>3, <2>1, <2>2 DEF Start
<1>4. CASE List(p)
  BY <1>0, <1>4, ListPays
<1>5. CASE ListFails(p)
  <2>1. /\ pc[p] = "loaded" /\ Exit(p, "2")
        /\ UNCHANGED <<activity, done, again, faults, file>>
    BY <1>5 DEF ListFails
  <2> QED
    BY <1>1, <1>2, <2>1 DEF InForce, InPlace
<1>6. ASSUME NEW batch \in SUBSET Thread, NEW exhausted \in BOOLEAN,
             NEW answered \in SUBSET batch,
             FetchBatch(p, batch, answered, exhausted)
      PROVE  Listed(p)' /\ InPlace(p)' /\ Paid(p)'
  <2>1. /\ pc[p] = "reading"
        /\ UNCHANGED <<activity, done, again, faults, pc, memory, cur, file, tmp, fd>>
        /\ unread'[p] \subseteq unread[p] /\ todo'[p] \subseteq unread[p] \cup todo[p]
    BY <1>0, <1>6 DEF FetchBatch, TypeOK
  <2>2. Listed(p)' /\ Paid(p)'
    BY <1>1, <2>1 DEF InForce
  <2> QED
    BY <2>1, <2>2 DEF InPlace
<1>7. CASE Decided(p)
  <2>1. pc[p] = "reading" /\ UNCHANGED <<activity, done, again, faults, file, tmp, fd>>
    BY <1>7 DEF Decided
  <2>2. CASE unread[p] = {} /\ pc' = [pc EXCEPT ![p] = "writing"] /\ UNCHANGED <<memory, unread, todo, cur>>
    <3>1. pc'[p] = "writing"
      BY <1>0, <2>2 DEF TypeOK
    <3> QED
      BY <1>1, <2>1, <2>2, <3>1 DEF InForce, InPlace
  <2>3. CASE Exit(p, "0")
    <3>1. ASSUME NEW t \in Thread PROVE file.map[t] # activity[t] => memory[p][t] # activity[t]
      <4>1. activity[t] # 0 /\ memory[p][t] \in {0, file.map[t]}
        BY <1>0, <2>1 DEF TypeOK, InPlace
      <4> QED
        BY <4>1
    <3>2. InForce(p)' = file.map /\ InForce(p) = memory[p]
      BY <1>2, <2>1, <2>3 DEF InForce
    <3> QED
      BY <1>1, <1>2, <2>1, <2>3, <3>1, <3>2
  <2> QED
    BY <1>7, <2>2, <2>3 DEF Decided
<1>8. ASSUME NEW e \in todo[p], Leave(p, e)
      PROVE  Listed(p)' /\ InPlace(p)' /\ Paid(p)'
  <2>1. /\ pc[p] = "writing"
        /\ UNCHANGED <<activity, done, again, faults, pc, memory, unread, cur, file, tmp, fd>>
        /\ todo'[p] \subseteq todo[p]
    BY <1>0, <1>8 DEF Leave, TypeOK
  <2>2. Listed(p)' /\ Paid(p)'
    BY <1>1, <2>1 DEF InForce
  <2> QED
    BY <2>1, <2>2 DEF InPlace
<1>9. ASSUME NEW e \in todo[p], NEW outcome \in Outcome, NEW said,
             Unsubscribe(p, e, outcome, said)
      PROVE  Listed(p)' /\ InPlace(p)' /\ Paid(p)'
  <2>1. /\ pc[p] = "writing"
        /\ UNCHANGED <<activity, done, again, faults, memory, unread, file, tmp, fd>>
        /\ todo'[p] = todo[p] \ {e}
        /\ \/ UNCHANGED <<pc, cur>>
           \/ pc'[p] = "unsubscribed" /\ cur'[p] = {e}
    BY <1>0, <1>9 DEF Unsubscribe, TypeOK
  <2>2. pc'[p] \in {"writing", "unsubscribed"} /\ cur'[p] \subseteq cur[p] \cup {e}
    BY <2>1
  <2>3. Listed(p)' /\ Paid(p)'
    BY <1>1, <2>1, <2>2 DEF InForce
  <2> QED
    BY <2>1, <2>3 DEF InPlace
<1>10. ASSUME NEW e \in cur[p], NEW outcome \in Outcome, NEW said,
              MarkDone(p, e, outcome, said)
       PROVE  Listed(p)' /\ InPlace(p)' /\ Paid(p)'
  <2>1. CASE outcome = "granted"
    BY <1>0, <1>10, <2>1, MarkDonePays
  <2>2. CASE outcome # "granted"
    <3>1. /\ pc[p] = "unsubscribed" /\ pc'[p] = "writing" /\ cur'[p] = {}
          /\ UNCHANGED <<activity, done, again, faults, memory, unread, todo, file, tmp, fd>>
      BY <1>0, <1>10, <2>2 DEF MarkDone, TypeOK
    <3>2. Listed(p)' /\ Paid(p)'
      BY <1>1, <3>1 DEF InForce
    <3> QED
      BY <3>1, <3>2 DEF InPlace
  <2> QED
    BY <2>1, <2>2
\* The end of the run: what was remembered is what the file gets.
<1>11. CASE Swept(p)
  <2>1. /\ pc[p] = "writing" /\ todo[p] = {} /\ pc'[p] = "saving"
        /\ UNCHANGED <<activity, done, again, faults, run, file, tmp, fd>>
    BY <1>0, <1>11 DEF Swept, TypeOK
  <2> QED
    BY <1>1, <2>1 DEF InForce, InPlace
<1>12. CASE OpenTmp(p)
  <2>1. /\ pc[p] = "saving" /\ pc'[p] = "opened" /\ fd'[p] = "tmp"
        /\ UNCHANGED <<activity, done, again, faults, run, file>>
    BY <1>0, <1>12 DEF OpenTmp, TypeOK
  <2> QED
    BY <1>1, <2>1 DEF InForce, InPlace
<1>13. CASE WriteTmp(p)
  <2>1. pc[p] = "opened" /\ fd[p] = "tmp"
    BY <1>13 DEF WriteTmp, InPlace
  <2>2. /\ pc'[p] = "written" /\ tmp' = Whole(memory[p])
        /\ UNCHANGED <<activity, done, again, faults, run, file>>
    BY <1>0, <1>13, <2>1 DEF WriteTmp, TypeOK
  <2>3. tmp' = Whole(memory'[p])
    BY <2>2
  <2> QED
    BY <1>1, <2>1, <2>2, <2>3 DEF InForce, InPlace
<1>14. CASE Rename(p)
  <2>1. pc[p] = "written" /\ tmp = Whole(memory[p])
    BY <1>14 DEF Rename, InPlace
  <2>2. /\ Exit(p, ExitCode(p)) /\ file' = tmp
        /\ UNCHANGED <<activity, done, again, faults>>
    BY <1>14 DEF Rename
  <2>3. file'.map = memory[p]
    BY <2>1, <2>2 DEF Whole
  <2> QED
    BY <1>1, <1>2, <2>1, <2>2, <2>3 DEF InForce
<1>15. CASE RenameFails(p)
  <2>1. pc[p] = "written" /\ tmp.kind = "absent" /\ tmp = Whole(memory[p])
    BY <1>15 DEF RenameFails, InPlace
  <2> QED
    BY <2>1 DEF Whole
<1>16. CASE SaveFails(p) \/ Crash(p)
  <2>1. PICK code \in {"none", "2"} : Exit(p, code)
    BY <1>16 DEF SaveFails, Crash
  <2>2. faults' = faults + 1 /\ UNCHANGED again
    BY <1>16 DEF SaveFails, Crash
  <2> QED
    BY <1>0, <1>2, <2>1, <2>2, FaultPays
<1>17. CASE \E batch \in SUBSET Thread, exhausted \in BOOLEAN :
              \E answered \in SUBSET batch :
                FetchBatch(p, batch, answered, exhausted)
  BY <1>6, <1>17
<1>18. CASE \E e \in todo[p] : Leave(p, e)
  BY <1>8, <1>18
<1>19. CASE \E e \in todo[p], outcome \in Outcome, said \in {TRUE, ~Silent} :
              Unsubscribe(p, e, outcome, said)
  BY <1>9, <1>19
<1>20. CASE \E e \in cur[p], outcome \in Outcome, said \in {TRUE, ~Silent} :
              MarkDone(p, e, outcome, said)
  BY <1>10, <1>20
<1> QED
  BY <1>3, <1>4, <1>5, <1>7, <1>11, <1>12, <1>13, <1>14, <1>15, <1>16, <1>17, <1>18,
     <1>19, <1>20 DEF Sweep

\* Activity, a subject that changes and budget spent owe nothing.
LEMMA GitHubPays ==
  ASSUME SafetyInv, GitHub, NEW p \in Sweeper, Listed(p), InPlace(p), Paid(p)
  PROVE  Listed(p)' /\ InPlace(p)' /\ Paid(p)'
<1>0. TypeOK /\ TypeOK'
  BY GitHubType DEF SafetyInv
<1>1. UNCHANGED <<pc, memory, unread, todo, cur, file, tmp, fd, done, again, faults>>
  BY DEF GitHub, Notify, ChangeSubject, SpendElsewhere, ResetBudget, service, disk, run, ends,
         history
<1>2. ASSUME NEW t \in Thread PROVE activity[t] <= activity'[t]
  <2>1. \/ activity' = activity
        \/ \E u \in Thread : activity' = [activity EXCEPT ![u] = @ + 1]
    BY DEF GitHub, Notify, ChangeSubject, SpendElsewhere, ResetBudget
  <2>2. activity \in [Thread -> Nat] /\ activity[t] \in Nat
    BY <1>0 DEF TypeOK
  <2>3. ASSUME NEW u \in Thread, activity' = [activity EXCEPT ![u] = activity[u] + 1]
        PROVE  activity'[t] \in {activity[t], activity[t] + 1}
    BY <2>2, <2>3
  <2>4. activity'[t] \in {activity[t], activity[t] + 1}
    BY <2>1, <2>3
  <2> QED
    BY <2>2, <2>4
<1>3. InForce(p)' = InForce(p)
  BY <1>1 DEF InForce
<1>4. faults <= faults'
  BY <1>0, <1>1 DEF TypeOK
<1>5. Listed(p)' /\ Paid(p)'
  BY <1>0, <1>1, <1>2, <1>3, <1>4, QuietPays
<1>6. InPlace(p)'
  BY <1>1 DEF InPlace
<1> QED
  BY <1>5, <1>6

\* A single sweep with a memory clears no thread again at a version it cleared
\* before, but for once per crash, failed save or shifted listing
\* (cli/inbox.rs: "without memory every run would re-clear").
THEOREM MemoryClearsOnce ==
  ASSUME Remember, NEW p, Sweeper = {p}
  PROVE  Spec => []ClearedOnce
<1> DEFINE Inv == SafetyInv /\ Listed(p) /\ InPlace(p) /\ Paid(p)
<1>1. Init => Inv
  <2> SUFFICES ASSUME Init PROVE Inv
    OBVIOUS
  <2>1. SafetyInv
    BY InitSafe
  <2>2. \A t : Waiting(p, t) = {}
    BY DEF Init, Waiting
  <2>3. Listed(p) /\ InPlace(p)
    BY <2>2 DEF Init, Listed, InPlace
  <2>4. ASSUME NEW t \in Thread PROVE Debt(p, t) = 0
    BY <2>2 DEF Init, Debt, Owes
  <2>5. Paid(p)
    BY <2>4 DEF Init, Paid
  <2> QED
    BY <2>1, <2>3, <2>5
<1>2. Inv /\ [Next]_vars => Inv'
  <2> SUFFICES ASSUME Inv, [Next]_vars PROVE Inv'
    OBVIOUS
  <2>1. CASE UNCHANGED vars
    <3>1. SafetyInv'
      BY <2>1 DEF SafetyInv, TypeOK, EntriesCurrent, UnsubscribedFirst, DoneIsGone,
                  MemorySound, Backed, vars, service, disk, run, report, ends, history
    <3>2. UNCHANGED <<pc, memory, unread, todo, cur, file, tmp, fd, done, again, faults, activity>>
      BY <2>1 DEF vars, service, disk, run, ends, history
    <3>3. faults <= faults' /\ \A t \in Thread : activity[t] <= activity'[t]
      BY <3>2 DEF SafetyInv, TypeOK
    <3>4. InForce(p)' = InForce(p)
      BY <3>2 DEF InForce
    <3>5. Listed(p)' /\ Paid(p)'
      BY <3>1, <3>2, <3>3, <3>4, QuietPays DEF SafetyInv
    <3>6. InPlace(p)'
      BY <3>2 DEF InPlace
    <3> QED
      BY <3>1, <3>5, <3>6
  <2>2. CASE GitHub
    BY <2>2, GitHubSafe, GitHubPays
  <2>3. CASE Sweep(p)
    BY <2>3, SweepSafe, SweepPays
  <2> QED
    BY <2>1, <2>2, <2>3 DEF Next
<1>3. Inv => ClearedOnce
  <2> SUFFICES ASSUME Inv, NEW t \in Thread PROVE again[t] <= faults
    BY DEF ClearedOnce
  <2>1. again[t] \in Nat /\ faults \in Nat /\ Debt(p, t) \in Nat
    BY OwesBound DEF SafetyInv, TypeOK, Debt
  <2>2. again[t] + Debt(p, t) <= faults
    BY DEF Paid
  <2> QED
    BY <2>1, <2>2
<1> QED
  BY <1>1, <1>2, <1>3, PTL DEF Spec
=============================================================================
