----------------------------- MODULE MCScheduler -----------------------------
(* Instances of Scheduler for TLC.                                           *)
EXTENDS Scheduler, TLC

CONSTANTS t1, t2, t3, a, b, m

ThreeTasks == {t1, t2, t3}
OneThread == {a}
TwoThreads == {a, b}
Main == {m}
NoOne == {}

\* Tasks are told apart by nothing, and so are the threads before their first Run.
Symmetry == Permutations(Tasks) \cup Permutations(Threads)

=============================================================================
