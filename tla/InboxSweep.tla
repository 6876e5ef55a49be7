----------------------------- MODULE InboxSweep -----------------------------
(***************************************************************************)
(* `squabble inbox-sweep`: processes that list the notification threads of *)
(* one GitHub account, read the state of the subject of each thread, and   *)
(* clear (unsubscribe, then mark done) the threads whose subject is merged *)
(* or closed.  The account, its REST budget and the state file are shared  *)
(* with everybody else and change between any two steps of a sweep.        *)
(*                                                                         *)
(* Sources: crates/squabble-cli/src/inbox.rs (the sweep and its state      *)
(* file), crates/squabble-core/src/inbox.rs (the decision) and             *)
(* crates/squabble-forge/src/inbox.rs (the batched state reads).           *)
(***************************************************************************)
EXTENDS Naturals, FiniteSets

CONSTANTS
  Thread,       \* notification threads of the account
  Sweeper,      \* processes running the subcommand with the same --state
  InScope,      \* threads of the repositories selected by --owners/--repo
  Supported,    \* threads whose subject is a pull request or an issue
  Batch,        \* STATE_BATCH: subjects per state query
  Limit,        \* --limit (larger than the number of threads: no limit)
  Reserve,      \* --reserve
  Remember,     \* whether --state is given
  Cost,         \* REST budget one write costs (0: the budget plays no part)
  Silent,       \* whether a response may lack x-ratelimit-remaining
  MaxBudget,    \* the REST budget after a reset
  MaxActivity,  \* bound: updates of one thread
  MaxFaults     \* bound: crashes, failed saves and shifted listings

ASSUME ThreadAssumption ==
  /\ IsFiniteSet(Thread)
  /\ InScope \subseteq Thread
  /\ Supported \subseteq Thread

ASSUME NumberAssumption ==
  /\ Batch \in Nat \ {0}
  /\ {Limit, Reserve, Cost, MaxBudget, MaxActivity, MaxFaults} \subseteq Nat
  /\ {Remember, Silent} \subseteq BOOLEAN

VARIABLES
  \* GitHub
  activity,     \* updated_at of each thread, as a version number from 1 on
  inbox,        \* threads not marked done
  subscribed,   \* threads the owner is subscribed to
  subject,      \* state of the subject of each thread
  rest,         \* REST requests left
  \* the file system
  file,         \* the --state file
  tmp,          \* its sibling temporary file
  \* each sweep
  pc,           \* what it does next
  apply,        \* --apply
  memory,       \* prior, then Sweep::state
  unread,       \* listed threads whose subject is still to be read
  todo,         \* due threads not attempted yet
  cur,          \* the thread between unsubscribe and mark done (at most one)
  due,          \* Sweep::due
  cleared,      \* Sweep::cleared
  left,         \* Sweep::left
  budget,       \* the last REST budget a write reported
  fd,           \* which file its open descriptor writes to
  exit,         \* exit code of its last run
  \* history
  finishedOnce, \* threads whose subject has been merged or closed
  done,         \* <<thread, version>> some sweep was told is marked done
  again,        \* per thread, how often such a pair was cleared once more
  overrun,      \* writes of this run granted at a reserve it is told of, since
                \* a reset
  faults        \* crashes, failed saves and shifted listings so far

service == <<activity, inbox, subscribed, subject, rest>>
disk    == <<file, tmp>>
report  == <<apply, due, cleared, left>>
run     == <<memory, unread, todo, cur, budget, report>>
ends    == <<fd, exit>>
history == <<finishedOnce, done, again, overrun, faults>>
vars    == <<service, disk, pc, run, ends, history>>

SubjectState == {"Open", "Merged", "Closed"}

\* An entry of Cleared: version 0 stands for "no entry".
Memory  == [Thread -> Nat]
Nothing == [t \in Thread |-> 0]

\* One listed thread; a listing that shifts under paging can name it twice.
Entry == [id : Thread, at : Nat, copy : BOOLEAN]

File   == [kind : {"absent", "torn", "whole"}, map : Memory]
Absent == [kind |-> "absent", map |-> Nothing]
Torn   == [kind |-> "torn",   map |-> Nothing]
Whole(m) == [kind |-> "whole", map |-> m]

\* Option<u64>: `budget` before any response carried the header.
Unknown == [known |-> FALSE, left |-> 0]
Known(b) == [known |-> TRUE, left |-> b]
Budget == [known : BOOLEAN, left : Nat]

PC == {"idle", "loaded", "reading", "writing", "unsubscribed",
       "saving", "opened", "written"}

Ids(entries) == {e.id : e \in entries}
Least(m, n)  == IF m < n THEN m ELSE n

(***************************************************************************)
(* The decision.  `state` is what the lookup returned.                     *)
(***************************************************************************)
Decide(t, state) ==
  CASE t \notin Supported -> "KeepUnsupportedSubject"
    [] t \in Supported /\ state = "Merged" -> "ClearMerged"
    [] t \in Supported /\ state = "Closed" -> "ClearClosed"
    [] t \in Supported /\ state = "Open"   -> "KeepOpen"
    [] OTHER -> "KeepUnknownState"

Clears(verdict) == verdict \in {"ClearMerged", "ClearClosed"}

TypeOK ==
  /\ activity \in [Thread -> Nat \ {0}]
  /\ inbox \subseteq Thread
  /\ subscribed \subseteq Thread
  /\ subject \in [Thread -> SubjectState]
  /\ rest \in Nat
  /\ file \in File
  /\ tmp \in File
  /\ pc \in [Sweeper -> PC]
  /\ apply \in [Sweeper -> BOOLEAN]
  /\ memory \in [Sweeper -> Memory]
  /\ unread \in [Sweeper -> SUBSET Entry]
  /\ todo \in [Sweeper -> SUBSET Entry]
  /\ cur \in [Sweeper -> SUBSET Entry]
  /\ due \in [Sweeper -> SUBSET Thread]
  /\ cleared \in [Sweeper -> SUBSET Thread]
  /\ left \in [Sweeper -> SUBSET Thread]
  /\ budget \in [Sweeper -> Budget]
  /\ fd \in [Sweeper -> {"none", "tmp", "file", "lost"}]
  /\ exit \in [Sweeper -> {"none", "0", "2", "6"}]
  /\ finishedOnce \subseteq Thread
  /\ done \subseteq Thread \X Nat
  /\ again \in [Thread -> Nat]
  /\ overrun \in [Sweeper -> Nat]
  /\ faults \in Nat

Init ==
  /\ activity = [t \in Thread |-> 1]
  /\ inbox = Thread
  /\ subscribed = Thread
  /\ subject \in [Thread -> SubjectState]
  /\ rest = MaxBudget
  /\ file = Absent
  /\ tmp = Absent
  /\ pc = [p \in Sweeper |-> "idle"]
  /\ apply = [p \in Sweeper |-> FALSE]
  /\ memory = [p \in Sweeper |-> Nothing]
  /\ unread = [p \in Sweeper |-> {}]
  /\ todo = [p \in Sweeper |-> {}]
  /\ cur = [p \in Sweeper |-> {}]
  /\ due = [p \in Sweeper |-> {}]
  /\ cleared = [p \in Sweeper |-> {}]
  /\ left = [p \in Sweeper |-> {}]
  /\ budget = [p \in Sweeper |-> Unknown]
  /\ fd = [p \in Sweeper |-> "none"]
  /\ exit = [p \in Sweeper |-> "none"]
  /\ finishedOnce = {t \in Thread : subject[t] # "Open"}
  /\ done = {}
  /\ again = [t \in Thread |-> 0]
  /\ overrun = [p \in Sweeper |-> 0]
  /\ faults = 0

-----------------------------------------------------------------------------
(***************************************************************************)
(* GitHub and the other users of the account.                              *)
(***************************************************************************)

\* A new comment, mention or review request: GitHub updates the thread,
\* returns it to the inbox and subscribes the owner again.
Notify(t) ==
  /\ activity[t] < MaxActivity
  /\ activity' = [activity EXCEPT ![t] = @ + 1]
  /\ inbox' = inbox \cup {t}
  /\ subscribed' = subscribed \cup {t}
  /\ UNCHANGED <<subject, rest, disk, pc, run, ends, history>>

\* The subject is closed, merged or reopened; the owner hears of it only when
\* subscribed.
ChangeSubject(t, state) ==
  /\ <<subject[t], state>> \in {<<"Open", "Merged">>, <<"Open", "Closed">>,
                                <<"Closed", "Open">>}
  /\ subject' = [subject EXCEPT ![t] = state]
  /\ finishedOnce' = IF state = "Open" THEN finishedOnce
                                       ELSE finishedOnce \cup {t}
  /\ IF t \in subscribed
       THEN /\ activity[t] < MaxActivity
            /\ activity' = [activity EXCEPT ![t] = @ + 1]
            /\ inbox' = inbox \cup {t}
       ELSE UNCHANGED <<activity, inbox>>
  /\ UNCHANGED <<subscribed, rest, disk, pc, run, ends,
                 done, again, overrun, faults>>

\* Another client of the same token spends from the budget.
SpendElsewhere ==
  /\ Cost > 0
  /\ rest >= Cost
  /\ rest' = rest - Cost
  /\ UNCHANGED <<activity, inbox, subscribed, subject, disk, pc, run, ends,
                 history>>

\* The hourly reset.
ResetBudget ==
  /\ rest < MaxBudget
  /\ rest' = MaxBudget
  /\ overrun' = [p \in Sweeper |-> 0]
  /\ UNCHANGED <<activity, inbox, subscribed, subject, disk, pc, run, ends,
                 finishedOnce, done, again, faults>>

-----------------------------------------------------------------------------
(***************************************************************************)
(* A run reads the state file, lists the inbox and reads subject states.   *)
(***************************************************************************)

\* The process ends with an exit code; its report stays readable.
Exit(p, code) ==
  /\ pc' = [pc EXCEPT ![p] = "idle"]
  /\ exit' = [exit EXCEPT ![p] = code]
  /\ memory' = [memory EXCEPT ![p] = Nothing]
  /\ unread' = [unread EXCEPT ![p] = {}]
  /\ todo' = [todo EXCEPT ![p] = {}]
  /\ cur' = [cur EXCEPT ![p] = {}]
  /\ budget' = [budget EXCEPT ![p] = Unknown]

\* load_state: a missing file is an empty memory, an invalid one exits 2.
Start(p) ==
  /\ pc[p] = "idle"
  /\ \/ /\ Remember /\ file.kind = "torn"
        /\ exit' = [exit EXCEPT ![p] = "2"]
        /\ UNCHANGED <<pc, run, overrun>>
     \/ /\ ~Remember \/ file.kind # "torn"
        /\ pc' = [pc EXCEPT ![p] = "loaded"]
        /\ exit' = [exit EXCEPT ![p] = "none"]
        /\ \E a \in BOOLEAN : apply' = [apply EXCEPT ![p] = a]
        /\ memory' = [memory EXCEPT ![p] = IF Remember THEN file.map
                                                       ELSE Nothing]
        /\ due' = [due EXCEPT ![p] = {}]
        /\ cleared' = [cleared EXCEPT ![p] = {}]
        /\ left' = [left EXCEPT ![p] = {}]
        /\ budget' = [budget EXCEPT ![p] = Unknown]
        /\ overrun' = [overrun EXCEPT ![p] = 0]
        /\ UNCHANGED <<unread, todo, cur>>
  /\ UNCHANGED <<service, disk, fd, finishedOnce, done, again, faults>>

\* Mutants: the memory, or the scope, is not looked at.
UndecidedForgetful(p, listed, twice) ==
  {e \in [id : listed, at : {activity[t] : t \in listed}, copy : BOOLEAN] :
     /\ e.at = activity[e.id]
     /\ e.copy => e.id \in twice
     /\ e.id \in InScope}

UndecidedUnscoped(p, listed, twice) ==
  {e \in [id : listed, at : {activity[t] : t \in listed}, copy : BOOLEAN] :
     /\ e.at = activity[e.id]
     /\ e.copy => e.id \in twice
     /\ memory[p][e.id] # e.at}

\* What the listing of `listed` threads, naming `twice` a second time, leaves
\* to decide: in scope, and not cleared before at the same version.
Undecided(p, listed, twice) ==
  {e \in [id : listed, at : {activity[t] : t \in listed}, copy : BOOLEAN] :
     /\ e.at = activity[e.id]
     /\ e.copy => e.id \in twice
     /\ e.id \in InScope
     /\ memory[p][e.id] # e.at}

\* api.list and the filters after it.  Pages are read by offset, so activity
\* between two pages can hide a thread or list one twice (a fault, bounded).
\* A thread without a supported subject is decided without a read: kept.
List(p) ==
  /\ pc[p] = "loaded"
  /\ \E missed, twice \in SUBSET Thread :
       /\ missed \cap twice = {}
       /\ Cardinality(missed) <= 1 /\ Cardinality(twice) <= 1
       /\ (missed # {} \/ twice # {}) => faults < MaxFaults
       /\ faults' = IF missed = {} /\ twice = {} THEN faults ELSE faults + 1
       /\ memory' = [memory EXCEPT ![p] =
                       [t \in Thread |-> IF t \in missed THEN 0 ELSE @[t]]]
       /\ unread' = [unread EXCEPT ![p] =
                       {e \in Undecided(p, Thread \ missed, twice) :
                          e.id \in Supported}]
  /\ todo' = [todo EXCEPT ![p] = {}]
  /\ pc' = [pc EXCEPT ![p] = "reading"]
  /\ UNCHANGED <<service, disk, apply, cur, due, cleared, left, budget, ends,
                 finishedOnce, done, again, overrun>>

\* The listing fails.
ListFails(p) ==
  /\ pc[p] = "loaded"
  /\ Exit(p, "2")
  /\ UNCHANGED <<service, disk, report, fd, history>>

\* One state query of fetch_states.  Of the batch, the `answered` aliases
\* carry the state; the others (all of them when the query fails) are
\* Unknown and keep their threads.  A query that reports the GraphQL budget
\* `exhausted` makes every later subject Unknown without a query.
FetchBatch(p, batch, answered, exhausted) ==
  /\ pc[p] = "reading"
  /\ unread[p] # {}
  /\ batch \subseteq Ids(unread[p])
  /\ Cardinality(batch) = Least(Batch, Cardinality(Ids(unread[p])))
  /\ answered \subseteq batch
  /\ LET read == {e \in unread[p] : e.id \in answered}
         finished == {e \in read : Clears(Decide(e.id, subject[e.id]))}
     IN todo' = [todo EXCEPT ![p] = @ \cup finished]
  /\ unread' = [unread EXCEPT ![p] =
                  {e \in @ : ~exhausted /\ e.id \notin batch}]
  /\ UNCHANGED <<service, disk, pc, apply, memory, cur, due, cleared, left,
                 budget, ends, history>>

\* Everything is decided: a dry run reports and exits 0.
Decided(p) ==
  /\ pc[p] = "reading"
  /\ unread[p] = {}
  /\ due' = [due EXCEPT ![p] = Ids(todo[p])]
  /\ \/ /\ apply[p]
        /\ pc' = [pc EXCEPT ![p] = "writing"]
        /\ UNCHANGED <<memory, unread, todo, cur, budget, exit>>
     \/ /\ ~apply[p]
        /\ Exit(p, "0")
  /\ UNCHANGED <<service, disk, apply, cleared, left, fd, history>>

-----------------------------------------------------------------------------
(***************************************************************************)
(* The writes.  A DELETE is granted (204), refused, or performed with the  *)
(* answer lost; only the first is Ok.  Each costs budget, and none is      *)
(* performed without it.                                                   *)
(***************************************************************************)
Outcome == {"granted", "refused", "lost"}

AtReserve(p) == budget[p].known /\ budget[p].left <= Reserve

\* Mutant: the limit is reached one write too early.
AtLimitEarly(p) == Cardinality(cleared[p]) + 1 >= Limit

AtLimit(p) == Cardinality(cleared[p]) >= Limit

Pay(outcome) ==
  /\ outcome # "refused" => rest >= Cost
  /\ rest' = IF rest >= Cost THEN rest - Cost ELSE rest

\* Mutant: an answer without the header makes the run forget.
ToldForgetful(p, said) ==
  [budget EXCEPT ![p] = IF said THEN Known(rest') ELSE Unknown]

\* `b.or(budget)`: a granted write updates the budget when it `said` one.
Told(p, said) == [budget EXCEPT ![p] = IF said THEN Known(rest') ELSE @]

\* History: a granted write of this run with the true budget at the reserve,
\* from the first one on whose answer tells it.
Overran(p, said) ==
  [overrun EXCEPT ![p] = IF rest <= Reserve /\ (said \/ AtReserve(p))
                           THEN Least(@ + 1, 3) ELSE @]

\* --limit is reached, or the last reported budget is at the reserve.
Leave(p, e) ==
  /\ pc[p] = "writing"
  /\ e \in todo[p]
  /\ AtLimit(p) \/ AtReserve(p)
  /\ todo' = [todo EXCEPT ![p] = @ \ {e}]
  /\ left' = [left EXCEPT ![p] = @ \cup {e.id}]
  /\ UNCHANGED <<service, disk, pc, apply, memory, unread, cur, due, cleared,
                 budget, ends, history>>

\* Mutant: a failed unsubscribe does not keep the thread from being marked done.
UnsubscribeAnyway(p, e, outcome, said) ==
  /\ pc[p] = "writing"
  /\ e \in todo[p]
  /\ ~AtLimit(p) /\ ~AtReserve(p)
  /\ Pay(outcome)
  /\ todo' = [todo EXCEPT ![p] = @ \ {e}]
  /\ subscribed' = IF outcome = "refused" THEN subscribed
                                          ELSE subscribed \ {e.id}
  /\ pc' = [pc EXCEPT ![p] = "unsubscribed"]
  /\ cur' = [cur EXCEPT ![p] = {e}]
  /\ budget' = Told(p, said)
  /\ overrun' = Overran(p, said)
  /\ UNCHANGED <<activity, inbox, subject, disk, apply, memory, unread, due, left,
                 cleared, ends, finishedOnce, done, again, faults>>

Unsubscribe(p, e, outcome, said) ==
  /\ pc[p] = "writing"
  /\ e \in todo[p]
  /\ ~AtLimit(p) /\ ~AtReserve(p)
  /\ Pay(outcome)
  /\ todo' = [todo EXCEPT ![p] = @ \ {e}]
  /\ subscribed' = IF outcome = "refused" THEN subscribed
                                          ELSE subscribed \ {e.id}
  /\ IF outcome = "granted"
       THEN /\ pc' = [pc EXCEPT ![p] = "unsubscribed"]
            /\ cur' = [cur EXCEPT ![p] = {e}]
            /\ budget' = Told(p, said)
            /\ overrun' = Overran(p, said)
            /\ UNCHANGED left
       ELSE /\ left' = [left EXCEPT ![p] = @ \cup {e.id}]
            /\ UNCHANGED <<pc, cur, budget, overrun>>
  /\ UNCHANGED <<activity, inbox, subject, disk, apply, memory, unread, due,
                 cleared, ends, finishedOnce, done, again, faults>>

\* Mutants: the version at the time of the write is recorded, or a write that
\* was not granted is.
MarkDoneNow(p, e, outcome, said) ==
  /\ pc[p] = "unsubscribed"
  /\ e \in cur[p]
  /\ Pay(outcome)
  /\ pc' = [pc EXCEPT ![p] = "writing"]
  /\ cur' = [cur EXCEPT ![p] = {}]
  /\ inbox' = IF outcome = "refused" THEN inbox ELSE inbox \ {e.id}
  /\ IF outcome = "granted"
       THEN /\ budget' = Told(p, said)
            /\ overrun' = Overran(p, said)
            /\ cleared' = [cleared EXCEPT ![p] = @ \cup {e.id}]
            /\ memory' = [memory EXCEPT ![p][e.id] = activity[e.id]]
            /\ done' = done \cup {<<e.id, e.at>>}
            /\ again' = [again EXCEPT ![e.id] =
                           IF <<e.id, e.at>> \in done
                             THEN Least(@ + 1, MaxFaults + 1) ELSE @]
            /\ UNCHANGED left
       ELSE /\ left' = [left EXCEPT ![p] = @ \cup {e.id}]
            /\ UNCHANGED <<budget, overrun, cleared, memory, done, again>>
  /\ UNCHANGED <<activity, subscribed, subject, disk, apply, unread, todo,
                 due, ends, finishedOnce, faults>>

MarkDoneRegardless(p, e, outcome, said) ==
  /\ pc[p] = "unsubscribed"
  /\ e \in cur[p]
  /\ Pay(outcome)
  /\ pc' = [pc EXCEPT ![p] = "writing"]
  /\ cur' = [cur EXCEPT ![p] = {}]
  /\ inbox' = IF outcome = "refused" THEN inbox ELSE inbox \ {e.id}
  /\ memory' = [memory EXCEPT ![p][e.id] = e.at]
  /\ IF outcome = "granted"
       THEN /\ budget' = Told(p, said)
            /\ overrun' = Overran(p, said)
            /\ cleared' = [cleared EXCEPT ![p] = @ \cup {e.id}]
            /\ done' = done \cup {<<e.id, e.at>>}
            /\ again' = [again EXCEPT ![e.id] =
                           IF <<e.id, e.at>> \in done
                             THEN Least(@ + 1, MaxFaults + 1) ELSE @]
            /\ UNCHANGED left
       ELSE /\ left' = [left EXCEPT ![p] = @ \cup {e.id}]
            /\ UNCHANGED <<budget, overrun, cleared, done, again>>
  /\ UNCHANGED <<activity, subscribed, subject, disk, apply, unread, todo,
                 due, ends, finishedOnce, faults>>

MarkDone(p, e, outcome, said) ==
  /\ pc[p] = "unsubscribed"
  /\ e \in cur[p]
  /\ Pay(outcome)
  /\ pc' = [pc EXCEPT ![p] = "writing"]
  /\ cur' = [cur EXCEPT ![p] = {}]
  /\ inbox' = IF outcome = "refused" THEN inbox ELSE inbox \ {e.id}
  /\ IF outcome = "granted"
       THEN /\ budget' = Told(p, said)
            /\ overrun' = Overran(p, said)
            /\ cleared' = [cleared EXCEPT ![p] = @ \cup {e.id}]
            /\ memory' = [memory EXCEPT ![p][e.id] = e.at]
            /\ done' = done \cup {<<e.id, e.at>>}
            /\ again' = [again EXCEPT ![e.id] =
                           IF <<e.id, e.at>> \in done
                             THEN Least(@ + 1, MaxFaults + 1) ELSE @]
            /\ UNCHANGED left
       ELSE /\ left' = [left EXCEPT ![p] = @ \cup {e.id}]
            /\ UNCHANGED <<budget, overrun, cleared, memory, done, again>>
  /\ UNCHANGED <<activity, subscribed, subject, disk, apply, unread, todo,
                 due, ends, finishedOnce, faults>>

-----------------------------------------------------------------------------
(***************************************************************************)
(* The end of an applying run: the state file, then the exit code.         *)
(***************************************************************************)
Unaccounted(p) == due[p] \ (cleared[p] \cup left[p])

\* Mutants: only the unaccounted threads count, or the code is another one.
ExitCodeLeftIgnored(p) == IF Unaccounted(p) = {} THEN "0" ELSE "6"
ExitCodeOther(p) == IF left[p] = {} /\ Unaccounted(p) = {} THEN "0" ELSE "5"

ExitCode(p) == IF left[p] = {} /\ Unaccounted(p) = {} THEN "0" ELSE "6"

Swept(p) ==
  /\ pc[p] = "writing"
  /\ todo[p] = {}
  /\ \/ /\ Remember
        /\ pc' = [pc EXCEPT ![p] = "saving"]
        /\ UNCHANGED <<run, exit>>
     \/ /\ ~Remember
        /\ Exit(p, ExitCode(p))
        /\ UNCHANGED report
  /\ UNCHANGED <<service, disk, fd, history>>

\* std::fs::write truncates the temporary file (or creates it) ...
OpenTmp(p) ==
  /\ pc[p] = "saving"
  /\ tmp' = Torn
  /\ fd' = [fd EXCEPT ![p] = "tmp"]
  /\ pc' = [pc EXCEPT ![p] = "opened"]
  /\ UNCHANGED <<service, file, run, exit, history>>

\* ... and writes the memory through its descriptor, wherever a rename by
\* another process has moved that file since.
WriteTmp(p) ==
  /\ pc[p] = "opened"
  /\ tmp' = IF fd[p] = "tmp" THEN Whole(memory[p]) ELSE tmp
  /\ file' = IF fd[p] = "file" THEN Whole(memory[p]) ELSE file
  /\ fd' = [fd EXCEPT ![p] = "none"]
  /\ pc' = [pc EXCEPT ![p] = "written"]
  /\ UNCHANGED <<service, run, exit, history>>

\* The rename replaces the state file by the temporary file.
Rename(p) ==
  /\ pc[p] = "written"
  /\ tmp.kind # "absent"
  /\ file' = tmp
  /\ tmp' = Absent
  /\ fd' = [q \in Sweeper |-> CASE fd[q] = "tmp"  -> "file"
                                [] fd[q] = "file" -> "lost"
                                [] OTHER          -> fd[q]]
  /\ Exit(p, ExitCode(p))
  /\ UNCHANGED <<service, report, history>>

\* The temporary file is gone: another process renamed it.
RenameFails(p) ==
  /\ pc[p] = "written"
  /\ tmp.kind = "absent"
  /\ Exit(p, "2")
  /\ UNCHANGED <<service, disk, report, fd, history>>

\* An I/O error in save_state.
SaveFails(p) ==
  /\ pc[p] \in {"saving", "opened", "written"}
  /\ faults < MaxFaults
  /\ faults' = faults + 1
  /\ fd' = [fd EXCEPT ![p] = "none"]
  /\ Exit(p, "2")
  /\ UNCHANGED <<service, disk, report, finishedOnce, done, again, overrun>>

\* The process is killed; nothing it has not written survives.
Crash(p) ==
  /\ pc[p] # "idle"
  /\ faults < MaxFaults
  /\ faults' = faults + 1
  /\ fd' = [fd EXCEPT ![p] = "none"]
  /\ Exit(p, "none")
  /\ UNCHANGED <<service, disk, report, finishedOnce, done, again, overrun>>

-----------------------------------------------------------------------------
GitHub ==
  \/ \E t \in Thread : Notify(t)
  \/ \E t \in Thread, state \in SubjectState : ChangeSubject(t, state)
  \/ SpendElsewhere
  \/ ResetBudget

Sweep(p) ==
  \/ Start(p)
  \/ List(p)
  \/ ListFails(p)
  \/ \E batch \in SUBSET Thread, exhausted \in BOOLEAN :
       \E answered \in SUBSET batch : FetchBatch(p, batch, answered, exhausted)
  \/ Decided(p)
  \/ \E e \in todo[p] : Leave(p, e)
  \/ \E e \in todo[p], outcome \in Outcome, said \in {TRUE, ~Silent} :
       Unsubscribe(p, e, outcome, said)
  \/ \E e \in cur[p], outcome \in Outcome, said \in {TRUE, ~Silent} :
       MarkDone(p, e, outcome, said)
  \/ Swept(p)
  \/ OpenTmp(p)
  \/ WriteTmp(p)
  \/ Rename(p)
  \/ RenameFails(p)
  \/ SaveFails(p)
  \/ Crash(p)

Next == GitHub \/ \E p \in Sweeper : Sweep(p)

Spec == Init /\ [][Next]_vars

-----------------------------------------------------------------------------
(***************************************************************************)
(* Properties.                                                             *)
(***************************************************************************)

\* The threads the state file makes the next run skip without a read.
Skipped == {t \in Thread : file.kind = "whole" /\ file.map[t] = activity[t]}

\* A thread that later runs skip really is cleared at the version they skip
\* it for: it is out of the inbox and the owner is unsubscribed.  Activity
\* that arrives between the listing and the mark-done, or a failed write,
\* must not be recorded as cleared (cli/inbox.rs: the `(thread id,
\* updated_at)` pair is the listed one, and only a granted mark-done adds it).
SkippedIsCleared == Skipped \cap (inbox \cup subscribed) = {}

\* Every remembered pair, in the file, in its temporary copy or in a running
\* sweep, is one some sweep was told is marked done; a crash at any point or
\* a concurrent save never invents one (cli/inbox.rs, Sweep::state).
Backed(m) == \A t \in Thread : m[t] # 0 => <<t, m[t]>> \in done

MemorySound ==
  /\ Backed(file.map)
  /\ Backed(tmp.map)
  /\ \A p \in Sweeper : Backed(memory[p])

\* "A thread whose unsubscribe fails is not marked done": between the two
\* writes the thread is unsubscribed, or newer than the run listed it.
UnsubscribedFirst ==
  \A p \in Sweeper : \A e \in cur[p] :
    e.id \notin subscribed \/ e.at < activity[e.id]

\* Exit 0 of an applying run means that every due thread was marked done, and
\* exit 6 that one was left: the tail is reported, never lost.
ExitHonest ==
  \A p \in Sweeper : apply[p] =>
    /\ exit[p] = "0" => due[p] \subseteq cleared[p]
    /\ exit[p] = "6" => left[p] # {}
    /\ \A t \in cleared[p] : \E d \in done : d[1] = t

\* A thread leaves the inbox only if it is in scope, supported, and its
\* subject has been merged or closed: a subject that could not be read, or is
\* of another kind, keeps its thread (core/inbox.rs, decide).
OnlyFinishedLeave ==
  [][\A t \in inbox \ inbox' : t \in InScope \cap Supported \cap finishedOnce]_vars

\* Once an answer tells a run that the budget is at the reserve, the run
\* completes at most the pair of writes it is in before the next reset, whatever
\* others spend: an answer without the header does not make it forget
\* (cli/inbox.rs, Sweep::apply and b.or(budget)).
OverrunBounded == \A p \in Sweeper : overrun[p] <= 2

\* The memory works: a single sweep never clears a thread again at a version
\* it cleared before, but for one time per crash, failed save or shifted
\* listing (cli/inbox.rs: "without memory every run would re-clear").
ClearedOnce == \A t \in Thread : again[t] <= faults

-----------------------------------------------------------------------------
(***************************************************************************)
(* The abstract specification this one implements.                         *)
(***************************************************************************)
Promise == INSTANCE InboxPromise
             WITH Clearable <- InScope \cap Supported,
                  remembered <- file.map

\* The sweep, with its failures, crashes and concurrent runs, does nothing to
\* the inbox or to its memory that InboxPromise does not allow.
KeepsPromise == Promise!Spec

-----------------------------------------------------------------------------
(***************************************************************************)
(* Liveness.  The subcommand is run with --apply again and again, a run    *)
(* goes on unless it is killed, and no call of an applying run that is     *)
(* tried for ever fails for ever.                                          *)
(***************************************************************************)
FairSweep(p) ==
  /\ SF_vars(Start(p) /\ apply'[p])
  /\ WF_vars(List(p) \/ ListFails(p))
  /\ SF_vars(apply[p] /\ List(p))
  /\ \A t \in Thread :
       /\ SF_vars(\E batch \in SUBSET Thread :
                    apply[p] /\ t \in batch /\ FetchBatch(p, batch, batch, FALSE))
       /\ SF_vars(\E e \in todo[p] :
                    e.id = t /\ Unsubscribe(p, e, "granted", TRUE))
       /\ SF_vars(\E e \in cur[p] :
                    e.id = t /\ MarkDone(p, e, "granted", TRUE))
  /\ WF_vars(\E batch \in SUBSET Thread : FetchBatch(p, batch, batch, FALSE))
  /\ WF_vars(Decided(p))
  /\ WF_vars(\E e \in todo[p] : Leave(p, e))
  /\ WF_vars(Swept(p))
  /\ WF_vars(OpenTmp(p))
  /\ WF_vars(WriteTmp(p))
  /\ WF_vars(Rename(p) \/ RenameFails(p))

FairSpec == Spec /\ \A p \in Sweeper : FairSweep(p)

\* A thread whose subject stays merged or closed leaves the inbox for good,
\* however often reads, writes or whole runs fail, and also under --limit:
\* what one run leaves a later run clears.
FinishedLeaves ==
  \A t \in InScope \cap Supported :
    <>[](subject[t] # "Open") => <>[](t \notin inbox)
=============================================================================
