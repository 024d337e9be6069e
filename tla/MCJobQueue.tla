---------------------------- MODULE MCJobQueue ----------------------------
(* Small instances of JobQueue: one clip's validate job, one sweep, one or *)
(* two runners.                                                            *)
EXTENDS JobQueue, TLC

MCNoFollowUps == [k \in ClipKind |-> {<<>>}]
MCNoBurialEnqueues == [k \in ClipKind |-> <<>>]
MCStartupSweeps == <<"sweep">>
MCOneOfEach == [crash |-> 1, stall |-> 1, db |-> 1]
\* Any two faults.
MCTwoFaults == faults["crash"] + faults["stall"] + faults["db"] <= 2
MCCrashOnly == [crash |-> 1, stall |-> 0, db |-> 0]
MCSymmetry == Permutations(Runner) \cup Permutations(JobId)
=============================================================================
