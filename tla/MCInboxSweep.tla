---------------------------- MODULE MCInboxSweep ----------------------------
(* Model values and symmetry for the runs of InboxSweep. *)
EXTENDS InboxSweep, TLC
Symmetry == Permutations(Thread)
=============================================================================
