-------------------------- MODULE MCUploadSession --------------------------
(* Small instances of UploadSession for TLC. *)
EXTENDS UploadSession, TLC

CONSTANTS good, bad

TwoBodies == {good, bad}
OneBody == {good}

Local(c, o) == [s3 |-> FALSE, chunked |-> c, direct |-> FALSE, optimize |-> o, leaves |-> FALSE]
S3(c, d, o) == [s3 |-> TRUE, chunked |-> c, direct |-> d, optimize |-> o, leaves |-> FALSE]

(* Every deployment and mode, with optimization off. *)
PlainSetups == {Local(TRUE, FALSE), Local(FALSE, FALSE),
                S3(TRUE, FALSE, FALSE), S3(TRUE, TRUE, FALSE), S3(FALSE, FALSE, FALSE)}

(* The same with optimization on. *)
OptimizedSetups == {Local(TRUE, TRUE), Local(FALSE, TRUE), S3(TRUE, FALSE, TRUE),
                    S3(TRUE, TRUE, TRUE), S3(FALSE, FALSE, TRUE)}

AllSetups == PlainSetups \cup OptimizedSetups

(* All of them; in two the account may be purged. *)
Purged == {Local(TRUE, FALSE), S3(FALSE, FALSE, TRUE)}
LiveSetups == (AllSetups \ Purged) \cup {[s EXCEPT !.leaves = TRUE] : s \in Purged}

LocalOptimized == {Local(TRUE, TRUE)}
LocalPlain == {Local(TRUE, FALSE)}

RequestSymmetry == Permutations(Request)
=============================================================================
