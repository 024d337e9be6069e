--------------------------- MODULE UploadSession ---------------------------
(***************************************************************************)
(* One upload: the clip and session rows its creation committed, the part  *)
(* rows, and what the object store holds, worked on by concurrent HTTP     *)
(* requests (clipline-cloud-server/src/uploads.rs), by the background jobs  *)
(* and by the cleanup sweeps (clipline-cloud-core/src/jobs.rs).             *)
(*                                                                         *)
(* Each action is one database statement or transaction, or one operation  *)
(* of the object store, so that requests interleave wherever they await.   *)
(* A request that reads several rows before its first write reads them in  *)
(* one action: a row that changes in between turns the request into an     *)
(* error before it changes anything.                                       *)
(*                                                                         *)
(* Bytes are abstracted to what the checks tell apart: a part's body is the *)
(* right one or another of the same size; the source object is the upload  *)
(* as announced, a corrupt one of the same size, or the smaller optimized   *)
(* one.                                                                    *)
(***************************************************************************)
EXTENDS Naturals, FiniteSets

CONSTANTS
    Request,     \* the requests that may be in flight at a time
    NumParts,    \* part_count of the session
    Body,        \* what a client may send as a part
    Good,        \* the body that belongs to the announced file
    NoBody,
    Setups,      \* the deployments and upload modes considered
    MaxFaults    \* bound on dropped requests and stopped sweeps

Setup == [s3 : BOOLEAN, chunked : BOOLEAN, direct : BOOLEAN, optimize : BOOLEAN,
          leaves : BOOLEAN]  \* whether an administrator purges the account

ASSUME RequestAssumption == NumParts \in Nat \ {0} /\ MaxFaults \in Nat
ASSUME BodyAssumption == Good \in Body /\ NoBody \notin Body
ASSUME SetupAssumption ==
    /\ Setups \subseteq Setup
    /\ \A s \in Setups : s.direct => s.s3 /\ s.chunked

Part == 1..NumParts

VARIABLES
    setup,     \* the deployment and mode of this behaviour
    clip,      \* clips.status; "absent" when the row is gone
    session,   \* upload_sessions.status; "absent" when the row is gone
    expired,   \* expires_at <= now
    received,  \* received_size_bytes, in parts
    rows,      \* upload_parts: the body each recorded part was hashed from
    files,     \* the parts in the object store's multipart upload
    open,      \* the multipart upload exists
    object,    \* the object under clips.storage_key
    stray,     \* a temporary file of a request that ended is left on disk
    pc,        \* where each request is
    work,      \* what each request holds in memory
    sweep,     \* step of cleanup_expired_upload_session
    purge,     \* step of cleanup_deleted_clips
    job,       \* the clip's job in force and how far it is
    account,   \* "kept", or the step of purge_user_account
    faults

rowVars == <<clip, session, expired, received, rows>>
storeVars == <<files, open, object, stray>>
requestVars == <<pc, work>>
jobVars == <<sweep, purge, job, account>>
vars == <<setup, rowVars, storeVars, requestVars, jobVars, faults>>

-----------------------------------------------------------------------------
ClipStatus == {"created", "processing", "ready", "failed", "deleted", "absent"}
SessionStatus == {"created", "uploading", "completed", "aborted", "failed", "absent"}
Content == {"none", "original", "corrupt", "optimized"}
Step == {"idle", "storing", "recording", "summing", "marking", "putting", "assembling",
         "renaming", "cleaning", "heading", "hashing", "deleting", "finalizing",
         "failing_session", "failing_clip", "aborting"}

Parts == [Part -> Body \cup {NoBody}]
NoParts == [n \in Part |-> NoBody]
Work == [part : Part, body : Body, parts : Parts, sum : 0..NumParts]
NoWork == [part |-> 1, body |-> Good, parts |-> NoParts, sum |-> 0]

Mutable == session \in {"created", "uploading"}
Gone == clip \in {"deleted", "absent"}
AllRecorded == \A n \in Part : rows[n] # NoBody
Recorded == Cardinality({n \in Part : rows[n] # NoBody})

Assembled(parts) == IF \A n \in Part : parts[n] = Good THEN "original" ELSE "corrupt"

(* require_auth and load_owned_upload, and then ensure_mutable_upload *)
Owned == account = "kept" /\ clip # "absent"
Accepts == Mutable /\ ~expired /\ Owned

Init == /\ setup \in Setups
        /\ clip = "created" /\ session = "created"
        /\ expired = FALSE /\ received = 0
        /\ rows = NoParts /\ files = NoParts
        /\ open = setup.chunked
        /\ object = "none" /\ stray = FALSE
        /\ pc = [r \in Request |-> "idle"]
        /\ work = [r \in Request |-> NoWork]
        /\ sweep = "idle" /\ purge = "idle" /\ job = "none"
        /\ account = "kept" /\ faults = 0

Goto(r, step) == pc' = [pc EXCEPT ![r] = step]
Respond(r) == /\ Goto(r, "idle")
              /\ work' = [work EXCEPT ![r] = NoWork]
Hold(r, w) == work' = [work EXCEPT ![r] = w]

-----------------------------------------------------------------------------
(* put_part, and its direct-to-S3 counterpart.  A client does not send two  *)
(* different bodies for one part at the same time.                         *)

Unrivalled(n, b) == \A r \in Request :
    pc[r] \in {"storing", "recording"} /\ work[r].part = n => work[r].body = b

BeginPart(r, n, b) ==
    /\ pc[r] = "idle" /\ setup.chunked
    /\ Accepts
    /\ rows[n] = NoBody /\ Unrivalled(n, b)
    /\ Goto(r, "storing")
    /\ Hold(r, [NoWork EXCEPT !.part = n, !.body = b])
    /\ UNCHANGED <<setup, rowVars, storeVars, jobVars, faults>>

(* upload_part.  The local store makes the upload's directory again when it  *)
(* is gone; S3 refuses.                                                    *)
StorePart(r) ==
    /\ pc[r] = "storing"
    /\ IF setup.s3 /\ ~open
         THEN Respond(r) /\ UNCHANGED storeVars
         ELSE /\ files' = [files EXCEPT ![work[r].part] = work[r].body]
              /\ open' = TRUE
              /\ Goto(r, "recording")
              /\ UNCHANGED <<object, stray, work>>
    /\ UNCHANGED <<setup, rowVars, jobVars, faults>>

(* A part PUT to its presigned URL, then acknowledged with the ETag S3 gave. *)
DirectPut(n, b) ==
    /\ setup.direct /\ open
    /\ rows[n] = NoBody /\ Unrivalled(n, b)
    /\ files' = [files EXCEPT ![n] = b]
    /\ UNCHANGED <<setup, rowVars, open, object, stray, requestVars, jobVars, faults>>

BeginAck(r, n) ==
    /\ pc[r] = "idle" /\ setup.direct
    /\ Accepts
    /\ rows[n] = NoBody /\ files[n] # NoBody /\ Unrivalled(n, files[n])
    /\ Goto(r, "recording")
    /\ Hold(r, [NoWork EXCEPT !.part = n, !.body = files[n]])
    /\ UNCHANGED <<setup, rowVars, storeVars, jobVars, faults>>

(* upload_parts.upsert; the foreign key refuses a part of a deleted session. *)
RecordPart(r) ==
    /\ pc[r] = "recording"
    /\ IF session = "absent"
         THEN Respond(r) /\ UNCHANGED rows
         ELSE /\ rows' = [rows EXCEPT ![work[r].part] = work[r].body]
              /\ Goto(r, "summing") /\ UNCHANGED work
    /\ UNCHANGED <<setup, clip, session, expired, received, storeVars, jobVars, faults>>

SumParts(r) ==
    /\ pc[r] = "summing"
    /\ Goto(r, "marking")
    /\ Hold(r, [work[r] EXCEPT !.sum = Recorded])
    /\ UNCHANGED <<setup, rowVars, storeVars, jobVars, faults>>

MarkUploading(r) ==
    /\ pc[r] = "marking"
    /\ IF Mutable
         THEN session' = "uploading" /\ received' = work[r].sum
         ELSE UNCHANGED <<session, received>>
    /\ Respond(r)
    /\ UNCHANGED <<setup, clip, expired, rows, storeVars, jobVars, faults>>

-----------------------------------------------------------------------------
(* put_content: the body's size and hash are checked before anything else. *)

BeginContent(r) ==
    /\ pc[r] = "idle" /\ ~setup.chunked
    /\ Accepts
    /\ Goto(r, "putting")
    /\ UNCHANGED <<setup, rowVars, storeVars, work, jobVars, faults>>

PutObject(r) ==
    /\ pc[r] = "putting"
    /\ object' = "original"
    /\ Goto(r, "finalizing")
    /\ UNCHANGED <<setup, rowVars, files, open, stray, work, jobVars, faults>>

-----------------------------------------------------------------------------
(* complete_upload *)

BeginComplete(r) ==
    /\ pc[r] = "idle" /\ Owned
    /\ \/ /\ session = "completed"
          /\ Goto(r, "finalizing") /\ UNCHANGED work
       \/ /\ setup.chunked /\ Accepts /\ AllRecorded
          /\ Goto(r, "assembling")
          /\ Hold(r, [NoWork EXCEPT !.parts = rows])
    /\ UNCHANGED <<setup, rowVars, storeVars, jobVars, faults>>

(* LocalStorage::complete_multipart_upload: each part is checked against its *)
(* recorded etag and appended to a temporary file, which an error leaves on *)
(* the disk ...                                                            *)
CopyPart(r) ==
    LET n == work[r].part IN
    /\ pc[r] = "assembling" /\ ~setup.s3
    /\ \/ /\ files[n] = NoBody
          /\ Goto(r, "heading") /\ stray' = TRUE /\ UNCHANGED work
       \/ /\ files[n] \notin {NoBody, work[r].parts[n]}
          /\ Respond(r) /\ stray' = TRUE
       \/ /\ files[n] = work[r].parts[n] /\ files[n] # NoBody
          /\ IF n = NumParts
               THEN Goto(r, "renaming") /\ UNCHANGED work
               ELSE Hold(r, [work[r] EXCEPT !.part = n + 1]) /\ UNCHANGED pc
          /\ UNCHANGED stray
    /\ UNCHANGED <<setup, rowVars, files, open, object, jobVars, faults>>

(* ... which is renamed over the object ... *)
RenameObject(r) ==
    /\ pc[r] = "renaming"
    /\ object' = Assembled(work[r].parts)
    /\ Goto(r, "cleaning")
    /\ UNCHANGED <<setup, rowVars, files, open, stray, work, jobVars, faults>>

(* ... before its sidecar is written, which fails when the object is gone,  *)
(* and the parts are removed.                                              *)
CleanUpload(r) ==
    /\ pc[r] = "cleaning"
    /\ IF object = "none"
         THEN Goto(r, "heading") /\ UNCHANGED storeVars
         ELSE /\ Goto(r, IF object = "optimized" THEN "failing_session" ELSE "hashing")
              /\ files' = NoParts /\ open' = FALSE /\ UNCHANGED <<object, stray>>
    /\ UNCHANGED <<setup, rowVars, work, jobVars, faults>>

(* S3's CompleteMultipartUpload assembles the object and ends the upload in  *)
(* one go; an upload that is gone is NoSuchUpload, another ETag InvalidPart. *)
CompleteOnS3(r) ==
    /\ pc[r] = "assembling" /\ setup.s3
    /\ \/ ~open /\ Goto(r, "heading") /\ UNCHANGED <<storeVars, work>>
       \/ open /\ files # work[r].parts /\ Respond(r) /\ UNCHANGED storeVars
       \/ /\ open /\ files = work[r].parts
          /\ object' = Assembled(files)
          /\ files' = NoParts /\ open' = FALSE
          /\ Goto(r, "heading") /\ UNCHANGED <<stray, work>>
    /\ UNCHANGED <<setup, rowVars, jobVars, faults>>

(* head_object, of an object just assembled on S3 or in place of one that    *)
(* could not be assembled: an object of the expected size is adopted.       *)
HeadIgnored(r) ==
    /\ pc[r] = "heading"
    /\ Respond(r)
    /\ UNCHANGED <<setup, rowVars, storeVars, jobVars, faults>>

HeadObject(r) ==
    /\ pc[r] = "heading"
    /\ \/ object = "none" /\ Respond(r)
       \/ object = "optimized" /\ Goto(r, "failing_session") /\ UNCHANGED work
       \/ /\ object \in {"original", "corrupt"}
          /\ Goto(r, IF setup.s3 THEN "finalizing" ELSE "hashing") /\ UNCHANGED work
    /\ UNCHANGED <<setup, rowVars, storeVars, jobVars, faults>>

(* Local storage hashes the whole object; one that does not match the        *)
(* announced hash is deleted and the upload failed.                         *)
HashUnchecked(r) ==
    /\ pc[r] = "hashing"
    /\ Goto(r, "finalizing") /\ UNCHANGED work
    /\ UNCHANGED <<setup, rowVars, storeVars, jobVars, faults>>

HashObject(r) ==
    /\ pc[r] = "hashing"
    /\ \/ object = "none" /\ Respond(r)
       \/ object = "original" /\ Goto(r, "finalizing") /\ UNCHANGED work
       \/ object \in {"corrupt", "optimized"} /\ Goto(r, "deleting") /\ UNCHANGED work
    /\ UNCHANGED <<setup, rowVars, storeVars, jobVars, faults>>

DeleteMismatch(r) ==
    /\ pc[r] = "deleting"
    /\ object' = "none"
    /\ Goto(r, "failing_session")
    /\ UNCHANGED <<setup, rowVars, files, open, stray, work, jobVars, faults>>

(* mark_upload_failed: the session whatever its status, then the clip. *)
FailSession(r) ==
    /\ pc[r] = "failing_session"
    /\ session' = IF session = "absent" THEN "absent" ELSE "failed"
    /\ Goto(r, "failing_clip")
    /\ UNCHANGED <<setup, clip, expired, received, rows, storeVars, work, jobVars, faults>>

FailedClip == IF Gone THEN clip ELSE "failed"

FailClip(r) ==
    /\ pc[r] = "failing_clip"
    /\ clip' = FailedClip
    /\ Respond(r)
    /\ UNCHANGED <<setup, session, expired, received, rows, storeVars, jobVars, faults>>

(* Repositories::finalize_upload: session, clip and validate job in one      *)
(* transaction, rolled back unless the session could complete (or has) and  *)
(* the clip is on its way or ready.                                        *)
FinalizableAlways == session # "absent" /\ clip # "absent"
Finalizable == (Mutable \/ session = "completed") /\ clip \in {"created", "processing", "ready"}

Finalize(r) ==
    /\ pc[r] = "finalizing"
    /\ IF Finalizable
         THEN /\ session' = "completed"
              /\ received' = IF Mutable THEN NumParts ELSE received
              /\ clip' = IF clip = "ready" THEN clip ELSE "processing"
              /\ job' = IF clip = "ready" \/ job # "none" THEN job ELSE "validate"
         ELSE UNCHANGED <<session, received, clip, job>>
    /\ Respond(r)
    /\ UNCHANGED <<setup, expired, rows, storeVars, sweep, purge, account, faults>>

-----------------------------------------------------------------------------
(* abort_upload: the transaction first, the store after it. *)

AbortableStatus == {"created", "uploading", "aborted"}

BeginAbort(r) ==
    /\ pc[r] = "idle" /\ Owned
    /\ session \in AbortableStatus
    /\ session' = "aborted"
    /\ rows' = NoParts
    /\ clip' = IF clip = "ready" THEN clip ELSE "deleted"
    /\ Goto(r, "aborting")
    /\ UNCHANGED <<setup, expired, received, storeVars, work, jobVars, faults>>

AbortStorage(r) ==
    /\ pc[r] = "aborting"
    /\ IF setup.chunked
         THEN files' = NoParts /\ open' = FALSE /\ UNCHANGED <<object, stray>>
         ELSE object' = "none" /\ UNCHANGED <<files, open, stray>>
    /\ Respond(r)
    /\ UNCHANGED <<setup, rowVars, jobVars, faults>>

(* The client goes away and the request's future is dropped, the process     *)
(* ends, or a statement or a storage operation fails.  A temporary file the *)
(* local store was writing stays.                                          *)
WritesTemp(r) == ~setup.s3 /\ pc[r] \in {"putting", "assembling", "renaming"}

Drop(r) ==
    /\ pc[r] # "idle" /\ faults < MaxFaults
    /\ faults' = faults + 1
    /\ Respond(r)
    /\ stray' \in {stray, stray \/ WritesTemp(r)}
    /\ UNCHANGED <<setup, rowVars, files, open, object, jobVars>>

(* delete_clip and bulk_delete_clips *)
DeleteClip ==
    /\ ~Gone
    /\ clip' = "deleted"
    /\ UNCHANGED <<setup, session, expired, received, rows, storeVars, requestVars, jobVars, faults>>

SessionExpires ==
    /\ ~expired
    /\ expired' = TRUE
    /\ UNCHANGED <<setup, clip, session, received, rows, storeVars, requestVars, jobVars, faults>>

-----------------------------------------------------------------------------
(* The cleanup_session sweep: the list of expired sessions, then, for each,  *)
(* the guarded abort, the store, the part rows and the clip.                *)

SweepList ==
    /\ sweep = "idle" /\ Mutable /\ expired
    /\ sweep' = "expiring"
    /\ UNCHANGED <<setup, rowVars, storeVars, requestVars, purge, job, account, faults>>

AbortIfListed == session # "absent"
AbortIfExpired == Mutable /\ expired

SweepAbort ==
    /\ sweep = "expiring"
    /\ IF AbortIfExpired
         THEN session' = "aborted" /\ sweep' = IF setup.chunked THEN "storage" ELSE "parts"
         ELSE sweep' = "idle" /\ UNCHANGED session
    /\ UNCHANGED <<setup, clip, expired, received, rows, storeVars, requestVars, purge, job, account, faults>>

(* A store that refuses is only logged. *)
SweepStorage ==
    /\ sweep = "storage"
    /\ \/ files' = NoParts /\ open' = FALSE /\ UNCHANGED faults
       \/ faults < MaxFaults /\ faults' = faults + 1 /\ UNCHANGED <<files, open>>
    /\ sweep' = "parts"
    /\ UNCHANGED <<setup, rowVars, object, stray, requestVars, purge, job, account>>

SweepParts ==
    /\ sweep = "parts"
    /\ rows' = NoParts
    /\ sweep' = "clip"
    /\ UNCHANGED <<setup, clip, session, expired, received, storeVars, requestVars, purge, job, account, faults>>

SweepClip ==
    /\ sweep = "clip"
    /\ clip' = IF clip = "absent" THEN clip ELSE "deleted"
    /\ sweep' = "idle"
    /\ UNCHANGED <<setup, session, expired, received, rows, storeVars, requestVars, purge, job, account, faults>>

(* The cleanup_clip sweep, cleanup_deleted_clips: object, session, clip. *)
PurgeObject ==
    /\ purge = "idle" /\ clip = "deleted"
    /\ object' = "none" /\ purge' = "session"
    /\ UNCHANGED <<setup, rowVars, files, open, stray, requestVars, sweep, job, account, faults>>

PurgeSession ==
    /\ purge = "session"
    /\ session' = "absent" /\ rows' = NoParts
    /\ purge' = "clip"
    /\ UNCHANGED <<setup, clip, expired, received, storeVars, requestVars, sweep, job, account, faults>>

PurgeClip ==
    /\ purge = "clip"
    /\ clip' = "absent" /\ purge' = "idle"
    /\ UNCHANGED <<setup, session, expired, received, rows, storeVars, requestVars, sweep, job, account, faults>>

(* Its orphan sweeps spare what is younger than CLEANUP_ORPHAN_GRACE, a day: *)
(* taken to be longer than any request.                                     *)
Quiet == \A r \in Request : pc[r] = "idle"

UnreferencedWhileDeleted == clip = "deleted"
Unreferenced == Gone

OrphanObjects ==
    /\ object # "none" /\ Unreferenced /\ Quiet
    /\ object' = "none"
    /\ UNCHANGED <<setup, rowVars, files, open, stray, requestVars, jobVars, faults>>

ActiveOnceUploading == session = "uploading"
ActiveUpload == Mutable

OrphanUploads ==
    /\ open /\ ~ActiveUpload /\ Quiet
    /\ files' = NoParts /\ open' = FALSE
    /\ UNCHANGED <<setup, rowVars, object, stray, requestVars, jobVars, faults>>

(* A sweep ends early: its process dies, or a statement fails and with it   *)
(* this run of the job.                                                    *)
StopSweep ==
    /\ faults < MaxFaults /\ faults' = faults + 1
    /\ \/ sweep # "idle" /\ sweep' = "idle" /\ UNCHANGED purge
       \/ purge # "idle" /\ purge' = "idle" /\ UNCHANGED sweep
    /\ UNCHANGED <<setup, rowVars, storeVars, requestVars, job, account>>

-----------------------------------------------------------------------------
(* purge_user_account: the account is closed, signed out everywhere and its  *)
(* uploads are listed, in one step, since no request begins in between; then *)
(* its uploads, their clips and the objects go.  What the store refuses is   *)
(* only logged; a statement that fails ends the purge, which may then be    *)
(* asked for again.                                                        *)
CloseAccount ==
    /\ setup.leaves /\ account \in {"kept", "closed"}
    /\ account' = CASE session = "absent" -> "clips"
                    [] session = "completed" -> "parts"
                    [] OTHER -> "storage"
    /\ UNCHANGED <<setup, rowVars, storeVars, requestVars, sweep, purge, job, faults>>

(* abort_upload_session_storage goes by the session as it was listed. *)
AccountStorage ==
    /\ account = "storage" /\ account' = "parts"
    /\ \/ /\ setup.chunked
          /\ files' = NoParts /\ open' = FALSE /\ UNCHANGED <<object, faults>>
       \/ ~setup.chunked /\ object' = "none" /\ UNCHANGED <<files, open, faults>>
       \/ faults < MaxFaults /\ faults' = faults + 1 /\ UNCHANGED <<files, open, object>>
    /\ UNCHANGED <<setup, rowVars, stray, requestVars, sweep, purge, job>>

AccountParts ==
    /\ account = "parts" /\ account' = "rows"
    /\ rows' = NoParts
    /\ UNCHANGED <<setup, clip, session, expired, received, storeVars, requestVars,
                   sweep, purge, job, faults>>

AccountSessions ==
    /\ account = "rows" /\ account' = "clips"
    /\ session' = "absent" /\ rows' = NoParts
    /\ UNCHANGED <<setup, clip, expired, received, storeVars, requestVars,
                   sweep, purge, job, faults>>

(* list_all_for_owner, deleted clips included *)
OwnsClip == clip # "absent"

(* The jobs of the clip are deleted; a handler that runs goes on until it    *)
(* looks at a row again.                                                   *)
AccountJobs ==
    /\ account = "clips"
    /\ IF OwnsClip
         THEN /\ account' = "clip"
              /\ job' = IF job \in {"validated", "activating"} THEN job ELSE "none"
         ELSE account' = "purged" /\ UNCHANGED job
    /\ UNCHANGED <<setup, rowVars, storeVars, requestVars, sweep, purge, faults>>

AccountClip ==
    /\ account = "clip" /\ account' = "media"
    /\ clip' = "absent"
    /\ UNCHANGED <<setup, session, expired, received, rows, storeVars, requestVars,
                   sweep, purge, job, faults>>

AccountMedia ==
    /\ account = "media" /\ account' = "purged"
    /\ \/ object' = "none" /\ UNCHANGED faults
       \/ faults < MaxFaults /\ faults' = faults + 1 /\ UNCHANGED object
    /\ UNCHANGED <<setup, rowVars, files, open, stray, requestVars, sweep, purge, job>>

StopPurge ==
    /\ account \notin {"kept", "closed", "purged"} /\ account' = "closed"
    /\ faults < MaxFaults /\ faults' = faults + 1
    /\ UNCHANGED <<setup, rowVars, storeVars, requestVars, sweep, purge, job>>

-----------------------------------------------------------------------------
(* What the clip's jobs do to the rows and the object: validate_object looks *)
(* at the object and marks the clip ready; optimize_video replaces it.      *)

ValidateObject ==
    /\ job = "validate"
    /\ \/ clip \in {"processing", "ready"} /\ object = "original" /\ job' = "validated"
       \/ ~setup.s3 /\ clip \in {"processing", "ready"} /\ object = "corrupt" /\ job' = "validated"
       \/ clip = "deleted" /\ job' = "none"
    /\ UNCHANGED <<setup, rowVars, storeVars, requestVars, sweep, purge, account, faults>>

(* mark_ready, then the enqueue of what follows. *)
MarkReady ==
    /\ job = "validated"
    /\ IF clip \in {"processing", "ready"}
         THEN clip' = "ready" /\ job' = IF setup.optimize THEN "optimize" ELSE "none"
         ELSE job' = "validate" /\ UNCHANGED clip
    /\ UNCHANGED <<setup, session, expired, received, rows, storeVars, requestVars, sweep, purge, account, faults>>

(* Its attempts exhausted, validate_object fails clip and session. *)
ValidateDies ==
    /\ job = "validate"
    /\ \/ clip \notin {"processing", "ready", "deleted"}
       \/ clip # "deleted" /\ object \notin {"original", "corrupt"}
       \/ clip # "deleted" /\ setup.s3 /\ object = "corrupt"
    /\ clip' = FailedClip
    /\ session' = IF session = "absent" THEN session ELSE "failed"
    /\ job' = "none"
    /\ UNCHANGED <<setup, expired, received, rows, storeVars, requestVars, sweep, purge, account, faults>>

(* The candidate is made from the object, then copied over it. *)
BuildCandidate ==
    /\ job = "optimize"
    /\ job' = IF clip = "ready" /\ object # "none" THEN "activating" ELSE "none"
    /\ UNCHANGED <<setup, rowVars, storeVars, requestVars, sweep, purge, account, faults>>

ActivateCandidate ==
    /\ job = "activating"
    /\ object' = "optimized" /\ job' = "none"
    /\ UNCHANGED <<setup, rowVars, files, open, stray, requestVars, sweep, purge, account, faults>>

-----------------------------------------------------------------------------
Progress(r) ==
    \/ StorePart(r) \/ RecordPart(r) \/ SumParts(r) \/ MarkUploading(r)
    \/ PutObject(r)
    \/ CopyPart(r) \/ RenameObject(r) \/ CleanUpload(r) \/ CompleteOnS3(r)
    \/ HeadObject(r) \/ HashObject(r) \/ DeleteMismatch(r)
    \/ FailSession(r) \/ FailClip(r)
    \/ Finalize(r)
    \/ AbortStorage(r)

Arrive(r) ==
    \/ \E n \in Part, b \in Body : BeginPart(r, n, b)
    \/ \E n \in Part : BeginAck(r, n)
    \/ BeginContent(r) \/ BeginComplete(r) \/ BeginAbort(r)

SweepStep == SweepList \/ SweepAbort \/ SweepStorage \/ SweepParts \/ SweepClip

PurgeStep == PurgeObject \/ PurgeSession \/ PurgeClip

AccountStep ==
    \/ CloseAccount \/ AccountStorage \/ AccountParts \/ AccountSessions
    \/ AccountJobs \/ AccountClip \/ AccountMedia \/ StopPurge

JobStep == ValidateObject \/ MarkReady \/ ValidateDies \/ BuildCandidate \/ ActivateCandidate

Next ==
    \/ \E r \in Request : Arrive(r) \/ Progress(r) \/ Drop(r)
    \/ \E n \in Part, b \in Body : DirectPut(n, b)
    \/ DeleteClip \/ SessionExpires
    \/ SweepStep \/ PurgeStep \/ OrphanObjects \/ OrphanUploads \/ StopSweep
    \/ AccountStep
    \/ JobStep

Spec == Init /\ [][Next]_vars

(* A request in flight goes on, the sweeps come round again, the job runner  *)
(* works (module JobQueue), and a client with all its parts acknowledged     *)
(* asks for completion until it gets an answer.                            *)
Fairness ==
    /\ \A r \in Request : WF_vars(Progress(r)) /\ WF_vars(BeginComplete(r))
    /\ WF_vars(SweepStep) /\ WF_vars(PurgeStep)
    /\ WF_vars(OrphanObjects) /\ WF_vars(OrphanUploads)
    /\ WF_vars(JobStep)

LiveSpec == Spec /\ Fairness

-----------------------------------------------------------------------------
(* Types. *)
TypeOK ==
    /\ setup \in Setups
    /\ clip \in ClipStatus /\ session \in SessionStatus
    /\ expired \in BOOLEAN /\ received \in 0..NumParts
    /\ rows \in Parts /\ files \in Parts
    /\ open \in BOOLEAN /\ object \in Content /\ stray \in BOOLEAN
    /\ pc \in [Request -> Step] /\ work \in [Request -> Work]
    /\ sweep \in {"idle", "expiring", "storage", "parts", "clip"}
    /\ purge \in {"idle", "session", "clip"}
    /\ job \in {"none", "validate", "validated", "optimize", "activating"}
    /\ account \in {"kept", "storage", "parts", "rows", "clips", "clip", "media", "closed",
                    "purged"}
    /\ faults \in 0..MaxFaults

(* Whatever requests, sweeps and jobs did in between, a completed upload     *)
(* whose clip is on its way has an object, and a ready clip plays the bytes  *)
(* announced (or what optimize_video made of them): complete_upload verifies *)
(* before finalize_upload, and nothing but the purge of its account deletes  *)
(* an object that is referenced.                                           *)
CompletedHasObject ==
    session = "completed" /\ account = "kept" =>
        /\ clip = "processing" => object # "none"
        /\ clip = "ready" => object \in {"original", "optimized"}

(* A part that was recorded, which is when a client learns it need not send  *)
(* it again, is in the store as recorded, or in the object, for as long as   *)
(* the upload can be completed and its account is kept.                    *)
AcknowledgedPartsAreKept ==
    Mutable /\ ~Gone /\ account = "kept" /\ (\A n \in Part : rows[n] \in {Good, NoBody}) =>
        \A n \in Part : rows[n] = Good => files[n] = Good \/ object = "original"

(* received_size_bytes, which mark_uploading writes from a sum read earlier, *)
(* may lag behind the recorded parts but never reports more than there are. *)
ProgressIsNotOverstated == Mutable /\ account = "kept" => received <= Recorded

(* A completed session is never aborted or taken back to uploading, not even *)
(* by a request or a sweep that read it before it completed.  Only the loss  *)
(* of the race by a corrupt object makes it fail.                          *)
CompletedIsFinal ==
    [][session = "completed" =>
         \/ session' \in {"completed", "absent"}
         \/ session' = "failed" /\ object # "original"]_vars

(* No late request, sweep or job brings a deleted clip back. *)
DeletedStaysDeleted == [][Gone => Gone']_vars

(* Once every part is recorded as sent, the upload completes, unless its     *)
(* owner takes it back or is purged, however its requests are dropped and repeated: the   *)
(* reconciliation by head_object adopts what an earlier attempt assembled.   *)
AcknowledgedUploadsComplete ==
    (Mutable /\ ~expired /\ \A n \in Part : rows[n] = Good)
        ~> (session = "completed" \/ expired \/ session = "aborted" \/ Gone \/ account # "kept")

(* When a clip is gone for good, the sweeps leave nothing of it in the store, *)
(* whatever requests in flight had still to put there, and wherever the     *)
(* purge of its account stopped.                                           *)
LeftoversReclaimed ==
    clip = "absent" ~> [](object = "none" /\ ~open /\ files = NoParts)

-----------------------------------------------------------------------------
(* What the documents say and the code does not keep. *)

(* docs/06: nothing done after validation makes a validated upload           *)
(* unplayable.                                                             *)
ReadyStaysReady == [][clip = "ready" => clip' # "failed"]_vars

(* docs/12: expired sessions are reclaimed automatically. *)
ExpiredIsReclaimed ==
    (expired /\ Mutable) ~> (session = "completed" \/ clip = "failed" \/ Gone)

(* docs/06 and docs/12: temporary files are not orphaned. *)
TempFilesAreReclaimed == stray ~> ~stray
=============================================================================
