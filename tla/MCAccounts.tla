----------------------------- MODULE MCAccounts -----------------------------
(* Small instances of Accounts.                                            *)
EXTENDS Accounts, TLC

MCInitialRoles == {<<>>, <<"admin", "admin">>}
\* At most one field a patch.
MCPatches == {f \in [role : {"admin", "user", "keep"}, status : {"active", "disabled", "keep"}] :
                "keep" \in {f.role, f.status}}
MCSymmetry == Permutations(Proc)
=============================================================================
