----------------------------- MODULE MCLibrary -----------------------------
(* Small values for the constants of Library: an owner with two clips and  *)
(* somebody else.                                                          *)
EXTENDS Library, TLC

CONSTANTS c1, c2, owner, guest, p1, p2

MCOwnerOf == [c \in Clip |-> owner]
\* Clip requests against each other; edits, deletions and the requests of
\* somebody else on a clip that becomes ready meanwhile; comments against
\* what hides their clip.
MCStart(s1, s2) == (c1 :> s1 @@ c2 :> s2)
MCWorkloads ==
  {[ops |-> ClipOp \ {"update"}, users |-> {owner}, to |-> {"private", "public"},
    start |-> MCStart("shared", "ready"), requests |-> 3, faults |-> 0],
   [ops |-> {"visibility", "update", "delete", "bulk_delete"}, users |-> User,
    to |-> {"unlisted"}, start |-> MCStart("processing", "ready"), requests |-> 2, faults |-> 1],
   [ops |-> {"visibility", "comment", "uncomment"}, users |-> User,
    to |-> {"private"}, start |-> MCStart("shared", "shared"), requests |-> 3, faults |-> 0]}
MCBulkOrders == {<<c1, c2>>, <<c2, c1>>}
=============================================================================
