---------------------------- MODULE InboxPromise ----------------------------
(***************************************************************************)
(* What the inbox sweep promises the owner of the account, without saying  *)
(* how: no process, no budget, no failure, no temporary file.              *)
(*                                                                         *)
(*   - a thread is unsubscribed, and leaves the inbox, only if it may be   *)
(*     cleared and its subject has been merged or closed;                  *)
(*   - it leaves the inbox while unsubscribed, or with an update newer     *)
(*     than the version it is cleared at;                                  *)
(*   - what is remembered was cleared at the remembered version.           *)
(*                                                                         *)
(* InboxSweep implements it: the InboxTwo run checks it on an instance,    *)
(* InboxSweepProofs proves it.                                             *)
(***************************************************************************)
EXTENDS Naturals

CONSTANTS Thread, Clearable

VARIABLES activity, inbox, subscribed, finishedOnce, done, remembered

vars == <<activity, inbox, subscribed, finishedOnce, done, remembered>>

Init ==
  /\ activity = [t \in Thread |-> 1]
  /\ inbox = Thread
  /\ subscribed = Thread
  /\ finishedOnce \in SUBSET Thread
  /\ done = {}
  /\ remembered = [t \in Thread |-> 0]

\* GitHub updates the thread and returns it to the inbox.
Arrive(t) ==
  /\ activity' = [activity EXCEPT ![t] = @ + 1]
  /\ inbox' = inbox \cup {t}
  /\ subscribed' = subscribed \cup {t}
  /\ finishedOnce' \in {finishedOnce, finishedOnce \cup {t}}
  /\ UNCHANGED <<done, remembered>>

\* The subject of a thread nobody listens to is finished.
FinishSilently(t) ==
  /\ t \notin subscribed
  /\ finishedOnce' = finishedOnce \cup {t}
  /\ UNCHANGED <<activity, inbox, subscribed, done, remembered>>

Unsubscribe(t) ==
  /\ t \in Clearable \cap finishedOnce
  /\ subscribed' = subscribed \ {t}
  /\ UNCHANGED <<activity, inbox, finishedOnce, done, remembered>>

\* The thread leaves the inbox, cleared at version v; the one who clears it
\* may not hear of it.
Clear(t, v) ==
  /\ t \in Clearable \cap finishedOnce
  /\ v < activity[t] \/ (v = activity[t] /\ t \notin subscribed)
  /\ inbox' = inbox \ {t}
  /\ done' \in {done, done \cup {<<t, v>>}}
  /\ UNCHANGED <<activity, subscribed, finishedOnce, remembered>>

\* The memory is replaced by another part of what was cleared.
Save ==
  /\ remembered' \in [Thread -> {0} \cup {d[2] : d \in done}]
  /\ \A t \in Thread : remembered'[t] # 0 => <<t, remembered'[t]>> \in done
  /\ UNCHANGED <<activity, inbox, subscribed, finishedOnce, done>>

Next ==
  \/ \E t \in Thread : Arrive(t) \/ FinishSilently(t) \/ Unsubscribe(t)
  \/ \E t \in Thread : \E v \in 1..activity[t] : Clear(t, v)
  \/ Save

Spec == Init /\ [][Next]_vars
=============================================================================
