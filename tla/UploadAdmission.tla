-------------------------- MODULE UploadAdmission --------------------------
(***************************************************************************)
(* POST /uploads of one user: idempotency by client_clip_id, the limits on *)
(* sessions and on stored bytes, the multipart upload in the object store, *)
(* the bundle of clip and session, and the limits again.                   *)
(*                                                                         *)
(* The limits are not a reservation: requests that race may all pass the   *)
(* first checks, and each then finds what the others have committed and    *)
(* takes its own bundle back.  Every statement and every call of the store *)
(* is a step, and a request may stop after any of them.                    *)
(*                                                                         *)
(* Requests are numbered; the clip, the session and the multipart upload a *)
(* request creates bear its number.                                        *)
(***************************************************************************)
EXTENDS Integers, FiniteSets, Functions

CONSTANTS
  Proc,          \* requests in flight
  MaxRequests,   \* bound: requests ever begun
  Key, NoKey,    \* client_clip_ids, and a request without one
  Sizes,         \* file_size_bytes clients declare
  MaxUpload,     \* max_upload_size_bytes
  SinglePutMax,  \* single_put_max_bytes: larger files go up in parts
  MaxActive,     \* max_active_upload_sessions_per_user
  Setups,        \* the object store and the quotas of the user, of app_settings
                 \* and of the config to run with; -1 is "not set"
  PartFloor,     \* upload_part_size_bytes
  Mib, MaxParts, S3Min   \* the unit of part sizes, the most parts of an
                         \* upload, and the least a part may be on S3

Level == Nat \cup {-1}

ASSUME AdmissionAssumption ==
  /\ MaxRequests \in Nat /\ NoKey \notin Key
  /\ Sizes \subseteq Nat /\ MaxUpload \in Nat \ {0} /\ SinglePutMax \in Nat
  /\ MaxActive \in Nat \ {0} /\ Setups \subseteq [store : {"local", "s3"}, user : Level, settings : Level, config : Level]
  /\ PartFloor \in Nat /\ Mib \in Nat \ {0} /\ MaxParts \in Nat \ {0} /\ S3Min \in Nat

Id == 1 .. MaxRequests
NoId == 0
NotSet == -1

VARIABLES
  setup,      \* the object store and the quotas
  rows,       \* clips and upload_sessions, as one row per request
  multiparts, \* multipart uploads in the object store
  reqs,       \* the requests in flight
  begun,      \* how many requests have begun
  stranded,   \* history: multipart uploads whose request stopped, or whose
              \* abort failed, with no session to reach them by
  unchecked   \* history: rows whose request stopped before it had checked the
              \* limits again or had taken its row back

vars == <<setup, rows, multiparts, reqs, begun, stranded, unchecked>>
history == <<stranded, unchecked>>

NoRow == [clip |-> "none", session |-> "none", key |-> NoKey, size |-> 0, part |-> 0,
          multi |-> FALSE]
Idle == [pc |-> "idle", id |-> NoId, key |-> NoKey, size |-> 0]

TypeOK ==
  /\ setup \in Setups
  /\ rows \in [Id -> [clip : {"none", "counted", "failed", "deleted"},
                      session : {"none", "active"},
                      key : Key \cup {NoKey}, size : 0 .. MaxUpload, part : Nat,
                      multi : BOOLEAN]]
  /\ multiparts \subseteq Id /\ stranded \subseteq Id /\ unchecked \subseteq Id
  /\ reqs \in [Proc -> [pc : {"idle", "lookup", "policy", "count", "quota", "store", "insert",
                              "cleanup", "recount", "requota", "abort", "delete"},
                        id : Id \cup {NoId}, key : Key \cup {NoKey}, size : 0 .. MaxUpload]]
  /\ \A p \in Proc : reqs[p] # Idle => reqs[p].pc # "idle" /\ reqs[p].id \in Id
  /\ begun \in 0 .. MaxRequests

Init ==
  /\ setup \in Setups
  /\ rows = [i \in Id |-> NoRow] /\ multiparts = {} /\ reqs = [p \in Proc |-> Idle]
  /\ begun = 0 /\ stranded = {} /\ unchecked = {}

-----------------------------------------------------------------------------
(* The plan of parts.                                                      *)

Larger(a, b) == IF a >= b THEN a ELSE b
Smaller(a, b) == IF a <= b THEN a ELSE b
DivCeil(a, b) == (a + b - 1) \div b
RoundUpToMib(n) == IF n = 0 THEN Mib ELSE ((n + Mib - 1) \div Mib) * Mib

ChoosePartSize(size) ==
  RoundUpToMib(Larger(PartFloor, Larger(DivCeil(size, MaxParts),
                                        IF setup.store = "s3" THEN S3Min ELSE 0)))
PartCount(row) == DivCeil(row.size, row.part)
\* Wrong: every part as large as the first.
WholeParts(row, n) == row.part
ExpectedSize(row, n) == Smaller(row.size - (n - 1) * row.part, row.part)

-----------------------------------------------------------------------------
(* What the queries find.                                                  *)

Active == {i \in Id : rows[i].session = "active"}
\* active_storage_bytes_for_owner: clips that failed or are deleted do not count.
Counted == [i \in Id |-> IF rows[i].clip = "counted" THEN rows[i].size ELSE 0]
Bytes(ids) == SumFunctionOnSet(Counted, ids)
\* get_by_owner_client_clip_id, and the unique index
WithKey(k) == {i \in Id : k # NoKey /\ rows[i].key = k /\ rows[i].clip \in {"counted", "failed"}}

\* effective_user_storage_quota_bytes: 0 in app_settings means no quota.
InstanceQuota ==
  CASE setup.settings = NotSet -> setup.config
    [] setup.settings = 0 -> NotSet
    [] OTHER -> setup.settings
EffectiveQuota == IF setup.user \in {NotSet, 0} THEN InstanceQuota ELSE setup.user
WithinQuota(size) == EffectiveQuota # NotSet => Bytes(Id) + size <= EffectiveQuota

At(p, pc) == reqs[p].pc = pc
Goto(p, pc) == reqs' = [reqs EXCEPT ![p].pc = pc]
End(p) == reqs' = [reqs EXCEPT ![p] = Idle]
Unchanged == UNCHANGED <<setup, rows, multiparts, begun, history>>

-----------------------------------------------------------------------------
(* A create request.                                                       *)

Valid(size) == size > 0 /\ size <= MaxUpload

Create(p, key, size) ==
  /\ reqs[p] = Idle /\ begun < MaxRequests /\ Valid(size)
  /\ begun' = begun + 1
  /\ reqs' = [reqs EXCEPT ![p] = [pc |-> "lookup", id |-> begun + 1, key |-> key, size |-> size]]
  /\ UNCHANGED <<setup, rows, multiparts, history>>

\* The session of an earlier request with this key is the answer.
Lookup(p) ==
  /\ At(p, "lookup")
  /\ IF WithKey(reqs[p].key) # {} THEN End(p) ELSE Goto(p, "policy")
  /\ Unchanged

\* Full-length recordings may be refused, whatever else the user has stored.
Policy(p) == At(p, "policy") /\ (Goto(p, "count") \/ End(p)) /\ Unchanged

Count(p) ==
  /\ At(p, "count")
  /\ IF Cardinality(Active) >= MaxActive THEN End(p) ELSE Goto(p, "quota")
  /\ Unchanged

Quota(p) ==
  /\ At(p, "quota")
  /\ IF WithinQuota(reqs[p].size) THEN Goto(p, "store") ELSE End(p)
  /\ Unchanged

Chunked(size) == size > SinglePutMax

Store(p) ==
  /\ At(p, "store") /\ Goto(p, "insert")
  /\ multiparts' = IF Chunked(reqs[p].size) THEN multiparts \cup {reqs[p].id} ELSE multiparts
  /\ UNCHANGED <<setup, rows, begun, history>>
StoreFails(p) == At(p, "store") /\ Chunked(reqs[p].size) /\ End(p) /\ Unchanged

KeyIsFree(key) == WithKey(key) = {}

Bundle(r) ==
  [clip |-> "counted", session |-> "active", key |-> r.key, size |-> r.size,
   part |-> ChoosePartSize(r.size), multi |-> Chunked(r.size)]

\* create_upload_bundle: clip and session in one transaction.
Insert(p) ==
  /\ At(p, "insert") /\ KeyIsFree(reqs[p].key)
  /\ rows' = [rows EXCEPT ![reqs[p].id] = Bundle(reqs[p])]
  /\ Goto(p, "recount")
  /\ UNCHANGED <<setup, multiparts, begun, history>>

\* Wrong: the multipart upload of a duplicate is forgotten.
AfterConflict == "idle"
\* The transaction fails, on the unique index or otherwise.
AfterFailure == "cleanup"
InsertFails(p) ==
  /\ At(p, "insert")
  /\ reqs' = [reqs EXCEPT ![p] = IF AfterFailure = "idle" THEN Idle ELSE [@ EXCEPT !.pc = AfterFailure]]
  /\ Unchanged

\* cleanup_created_storage_upload: best effort, then the answer.
AbortMultipart(p) ==
  \/ multiparts' = multiparts \ {reqs[p].id} /\ UNCHANGED stranded
  \/ UNCHANGED multiparts /\ stranded' = stranded \cup (multiparts \cap {reqs[p].id})
Cleanup(p) ==
  /\ At(p, "cleanup") /\ AbortMultipart(p) /\ End(p)
  /\ UNCHANGED <<setup, rows, begun, unchecked>>

\* Weaker: as the first check, of a session that is in the table by now.
CountedTwice == Cardinality(Active) > MaxActive + 1
TooMany == Cardinality(Active) > MaxActive
Recount(p) ==
  /\ At(p, "recount")
  /\ Goto(p, IF TooMany THEN "abort" ELSE "requota")
  /\ Unchanged
Requota(p) ==
  /\ At(p, "requota")
  /\ IF WithinQuota(0) THEN End(p) ELSE Goto(p, "abort")
  /\ Unchanged

\* rollback_created_upload_session: the store first, then the bundle; both
\* best effort.
Abort(p) ==
  /\ At(p, "abort") /\ AbortMultipart(p) /\ Goto(p, "delete")
  /\ UNCHANGED <<setup, rows, begun, unchecked>>
DeleteBundle(p) ==
  /\ At(p, "delete") /\ End(p)
  /\ \/ rows' = [rows EXCEPT ![reqs[p].id] = NoRow] /\ UNCHANGED unchecked
     \/ UNCHANGED rows /\ unchecked' = unchecked \cup {reqs[p].id}
  /\ UNCHANGED <<setup, multiparts, begun, stranded>>

\* The client goes away, a query fails, or the process stops.
Stop(p) ==
  LET i == reqs[p].id IN
  /\ reqs[p] # Idle /\ End(p)
  /\ stranded' = IF At(p, "insert") \/ At(p, "cleanup")
                   THEN stranded \cup (multiparts \cap {i}) ELSE stranded
  /\ unchecked' = IF rows[i].clip # "none" THEN unchecked \cup {i} ELSE unchecked
  /\ UNCHANGED <<setup, rows, multiparts, begun>>

-----------------------------------------------------------------------------
(* What becomes of a session (module UploadSession), as the queries see it.*)

\* Only what the queries above read is kept of it; what the object store
\* still holds is UploadSession's to follow.
Ends(i, row) ==
  /\ rows[i].session = "active"
  /\ rows' = [rows EXCEPT ![i] = row] /\ multiparts' = multiparts \ {i}
  /\ UNCHANGED <<setup, reqs, begun, history>>

\* Completed, or past its time: the clip still counts.
Completes(i) ==
  Ends(i, [NoRow EXCEPT !.clip = "counted", !.key = rows[i].key, !.size = rows[i].size])
\* Failed: the clip still has its key.
Fails(i) == Ends(i, [NoRow EXCEPT !.clip = "failed", !.key = rows[i].key])
\* Aborted by the client: the clip is deleted.
Aborts(i) == Ends(i, [NoRow EXCEPT !.clip = "deleted"])

Request(p) ==
  \/ \E key \in Key \cup {NoKey}, size \in Sizes : Create(p, key, size)
  \/ Lookup(p) \/ Policy(p) \/ Count(p) \/ Quota(p) \/ Store(p) \/ StoreFails(p)
  \/ Insert(p) \/ InsertFails(p) \/ Cleanup(p)
  \/ Recount(p) \/ Requota(p) \/ Abort(p) \/ DeleteBundle(p) \/ Stop(p)

Next ==
  \/ \E p \in Proc : Request(p)
  \/ \E i \in Id : Completes(i) \/ Fails(i) \/ Aborts(i)

Spec == Init /\ [][Next]_vars

-----------------------------------------------------------------------------
(* Properties.                                                             *)

Settled == \A p \in Proc : reqs[p].pc \notin {"recount", "requota", "abort", "delete"}

\* Whatever creates race, once those that inserted have ended the user is
\* within both limits: the last to commit sees all the others.  What exceeds
\* them are rows whose request stopped before it had checked again.
LimitsHold ==
  Settled => /\ Cardinality(Active \ unchecked) <= MaxActive
             /\ EffectiveQuota # NotSet => Bytes(Id \ unchecked) <= EffectiveQuota

\* Every multipart upload is one a session or a request still leads to,
\* unless its request stopped or aborting it failed.
MultipartsAreReachable ==
  \A i \in multiparts \ stranded :
    rows[i].multi \/ \E p \in Proc : reqs[p].id = i /\ reqs[p].pc \in {"insert", "cleanup", "delete"}

\* The parts a session asks for are exactly the file: no more of them than
\* the store takes, none empty, only the last one short.
PartsCoverTheFile ==
  \A i \in Active :
    LET n == PartCount(rows[i]) IN
    /\ n \in 1 .. MaxParts
    /\ \A k \in 1 .. n : ExpectedSize(rows[i], k) > 0
    /\ \A k \in 1 .. n - 1 : ExpectedSize(rows[i], k) = rows[i].part
    /\ setup.store = "s3" => \A k \in 1 .. n - 1 : ExpectedSize(rows[i], k) >= S3Min
    /\ SumFunction([k \in 1 .. n |-> ExpectedSize(rows[i], k)]) = rows[i].size
=============================================================================
