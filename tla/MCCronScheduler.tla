-------------------------- MODULE MCCronScheduler --------------------------
(***************************************************************************)
(* Instances of CronScheduler for TLC.  Runners are interchangeable, so    *)
(* the runs without liveness use symmetry.                                 *)
(***************************************************************************)
EXTENDS CronScheduler, TLC

Backoff1 == [a \in 1..MaxAttempts |-> 1]

\* An anchor before the first plan.
BeforeTime == -1

RunnerSymmetry == Permutations(Runners)

=============================================================================
