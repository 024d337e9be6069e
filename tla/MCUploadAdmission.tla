-------------------------- MODULE MCUploadAdmission -------------------------
(* Small values for the constants of UploadAdmission.                      *)
EXTENDS UploadAdmission, TLC

MCSetups == {[store |-> "local", user |-> -1, settings |-> -1, config |-> 6],
             [store |-> "s3", user |-> 6, settings |-> 0, config |-> 1],
             [store |-> "local", user |-> 0, settings |-> 0, config |-> 1]}
MCSymmetry == Permutations(Proc)
=============================================================================
