--------------------------- MODULE MCObjectStore ---------------------------
EXTENDS ObjectStore, TLC

Symmetry == Permutations(Proc)

Asks(kind, a, b) == [kind |-> kind, a |-> a, b |-> b]
Calls(backend, ops, n, crashes) ==
  [backend |-> backend, ops |-> ops, stored |-> {1}, keys |-> 1 .. Keys, sizes |-> {0, 2},
   ranges |-> {Whole}, calls |-> n, faults |-> crashes]

\* Writes of two keys; multipart uploads to one key; ranges of an object while
\* it is replaced by one of another size; images while they are written and
\* deleted; listings of objects and of uploads while those come and go.
MCWorkloads ==
  {[Calls(b, {"put", "copy", "delete"}, 3, 1) EXCEPT !.sizes = {1}] : b \in {"local", "s3"}}
  \cup {[Calls(b, UploadOp \cup {"complete"}, 5, 1) EXCEPT
           !.stored = {}, !.keys = {1}] : b \in {"local", "s3"}}
  \cup {[Calls(b, {"put_file", "serve", "avatar"}, 2, 1) EXCEPT
           !.ranges = {Whole, Asks("last", 0, 0), Asks("last", 1, 0), Asks("last", 3, 0)}
                      \cup {Asks("from", a, 0) : a \in 0 .. 2}
                      \cup {Asks("from_to", a, c) : a, c \in 0 .. 2}] : b \in {"local", "s3"}}
  \cup {[Calls(b, {"put", "delete", "image"}, 2, 1) EXCEPT !.sizes = {2}] : b \in {"local", "s3"}}
  \cup {[Calls(b, {"put", "delete", "list"}, 3, 1) EXCEPT !.sizes = {1}] : b \in {"local", "s3"}}
  \cup {[Calls(b, UploadOp \cup {"list_uploads"}, 4, 1) EXCEPT !.stored = {}] : b \in {"local", "s3"}}
=============================================================================
