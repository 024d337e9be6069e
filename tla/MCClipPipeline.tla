--------------------------- MODULE MCClipPipeline ---------------------------
(* Small instances of ClipPipeline: one clip, one artifact job or none.    *)
EXTENDS ClipPipeline, TLC

MCNoMedia == <<>>
MCMedia == <<"media">>
MCKeepsOrPlain == {[optimize |-> TRUE, keep |-> TRUE], [optimize |-> FALSE, keep |-> FALSE]}
MCOptimizing == {[optimize |-> TRUE, keep |-> FALSE]}
MCStallAndDb == [crash |-> 0, stall |-> 1, db |-> 1]
MCCrashAndDb == [crash |-> 1, stall |-> 0, db |-> 1]
MCCrashOnly == [crash |-> 1, stall |-> 0, db |-> 0]
MCSymmetry == Permutations(Runner) \cup Permutations(JobId)
=============================================================================
