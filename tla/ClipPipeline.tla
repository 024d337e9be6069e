---------------------------- MODULE ClipPipeline ----------------------------
(***************************************************************************)
(* A clip on its way from a finalized upload to an optimized video: the job *)
(* queue (JobQueue) composed with what the handlers of its jobs do to the   *)
(* clip row and to the clip's objects (clipline-cloud-core/src/jobs.rs,     *)
(* validate_object and optimize_video).                                    *)
(*                                                                         *)
(* A handler is a sequence of awaits: each action below is one database     *)
(* statement or one storage operation of a handler, and the heartbeat, the  *)
(* lock and the other runners interleave with it anywhere.                 *)
(*                                                                         *)
(* A video file is abstracted to its generation: 0 is the upload, g + 1 the *)
(* encoding of g that came out meaningfully smaller.  Size and checksum     *)
(* tell generations apart, so the clip row's size is a generation too.      *)
(***************************************************************************)
EXTENDS Naturals, Sequences, FiniteSets

CONSTANTS
    Runner, JobId, Clip,
    MediaKind,       \* the sequence of artifact jobs: probe_metadata, thumbnail, poster
    Configs,         \* the video_optimization settings considered
    MaxGeneration,   \* how often encoding makes the video meaningfully smaller
    MaxAttempts, MaxFaults,
    NoRunner, NoJob, NoClip, NoObject

Config == [optimize : BOOLEAN, keep : BOOLEAN]
Generation == 0..MaxGeneration

MediaKinds == {MediaKind[i] : i \in 1..Len(MediaKind)}
ClipKind == {"validate", "optimize"} \cup MediaKinds

ASSUME PipelineAssumption ==
    /\ \E c \in Clip : Clip = {c}
    /\ Configs \subseteq Config
    /\ MaxGeneration \in Nat
    /\ NoObject \notin Nat
    /\ MediaKind \in Seq(STRING) /\ MediaKinds \cap {"validate", "optimize"} = {}
    /\ MaxAttempts \in Nat \ {0} /\ MaxFaults \in [{"crash", "stall", "db"} -> Nat]
    /\ NoRunner \notin Runner /\ NoJob \notin JobId /\ NoClip \notin Clip

VARIABLES
    jobs, due, ahead, pc, mine, todo, enq, faults,    \* see JobQueue
    config,      \* the server's settings in this behaviour
    clip,        \* clips.status
    size,        \* clips.file_size_bytes and checksum_sha256
    source,      \* the object under clips.storage_key
    candidate,   \* optimized-candidate.mp4
    original,    \* original-source.mp4
    step,        \* where each runner's handler or burial is
    seen         \* what the handler has read or made

(* The handlers below name their follow-ups themselves. *)
Queue == INSTANCE JobQueue WITH
    SweepKind <- {}, StartupSweeps <- <<>>,
    EntryKind <- {"validate"},
    BestEffortKind <- {"optimize"},
    FollowUps <- [k \in ClipKind |-> {<<>>}],
    BurialEnqueues <- [k \in ClipKind |-> IF k = "optimize" THEN MediaKind ELSE <<>>]

queueVars == <<jobs, due, ahead, pc, mine, todo, enq, faults>>
clipVars == <<clip, size>>
objectVars == <<source, candidate, original>>
handlerVars == <<step, seen>>
vars == <<queueVars, config, clipVars, objectVars, handlerVars>>

-----------------------------------------------------------------------------
ValidateStep == {"heading", "marking"}
OptimizeStep == {"reconciling", "encoding", "putting", "comparing", "discarding", "keeping",
                 "activating", "checking", "stamping", "tidying", "cleaning"}
HandlerStep == {"none", "loading", "failing_clip", "enqueueing"} \cup ValidateStep \cup OptimizeStep

(* The part of optimize_video whose error is followed by a delete of the     *)
(* candidate.                                                              *)
ActivationStep == {"comparing", "discarding", "keeping", "activating", "checking", "stamping"}

Seen == [size : Generation, head : Generation, made : Generation]
NothingSeen == [size |-> 0, head |-> 0, made |-> 0]

Kind(r) == mine[r].task.kind
InHandler(r, k, s) == pc[r] = "working" /\ Kind(r) = k /\ step[r] = s
Deleted == clip = "deleted"

Tasks(r, kinds) == Queue!TasksOf(kinds, mine[r].task.clip)

(* What runner r does next in its handler. *)
Step(r, s) == step' = [step EXCEPT ![r] = s]
Leave(r) == Step(r, "none") /\ seen' = [seen EXCEPT ![r] = NothingSeen]
Proceed(r, s) == Step(r, s) /\ UNCHANGED <<queueVars, config, seen>>

(* The handler returns Ok once the follow-ups are enqueued. *)
FollowUp(r, kinds) ==
    /\ todo' = [todo EXCEPT ![r] = Tasks(r, kinds)]
    /\ Step(r, "enqueueing")
    /\ UNCHANGED <<jobs, due, ahead, pc, mine, enq, faults, config, seen>>

(* The handler returns an error. *)
Fail(r) == Queue!HandlerFails(r) /\ Leave(r) /\ UNCHANGED config

Init == /\ Queue!Init
        /\ config \in Configs
        /\ clip = "created" /\ size = 0
        /\ source = 0 /\ candidate = NoObject /\ original = NoObject
        /\ step = [r \in Runner |-> "none"]
        /\ seen = [r \in Runner |-> NothingSeen]

-----------------------------------------------------------------------------
(* The HTTP side *)

(* finalize_upload, of the first complete_upload or of one sent again: the   *)
(* clip's status and the validate job in one transaction.                   *)
Finalize ==
    /\ clip \in {"created", "processing"}
    /\ \E t \in Queue!ClipTask : Queue!FinalizeInsert(t)
    /\ clip' = "processing"
    /\ UNCHANGED <<config, size, objectVars, handlerVars>>

(* soft_delete by the owner. *)
DeleteClip ==
    /\ clip \notin {"created", "deleted"}
    /\ clip' = "deleted"
    /\ UNCHANGED <<queueVars, config, size, objectVars, handlerVars>>

-----------------------------------------------------------------------------
(* What the handlers share *)

Dispatch(r) ==
    /\ Queue!BeginWork(r)
    /\ Step(r, "loading")
    /\ UNCHANGED <<config, clipVars, objectVars, seen>>

(* A deleted clip's job is done; validate_object takes a clip that is        *)
(* processing or ready, load_ready_clip a ready one.  The artifacts of a    *)
(* media job are left out, and so is optimize_video's test of a setting     *)
(* that does not change within a behaviour.                                *)
ExpectedStatus(k) == IF k = "validate" THEN {"processing", "ready"} ELSE {"ready"}

LoadClip(r) ==
    /\ pc[r] = "working" /\ step[r] = "loading"
    /\ \/ Deleted /\ FollowUp(r, <<>>)
       \/ clip = "ready" /\ Kind(r) \in MediaKinds /\ FollowUp(r, <<>>)
       \/ /\ clip \in ExpectedStatus(Kind(r)) /\ Kind(r) \notin MediaKinds
          /\ Step(r, "heading")
          /\ seen' = [seen EXCEPT ![r].size = size]
          /\ UNCHANGED <<queueVars, config>>
       \/ ~Deleted /\ clip \notin ExpectedStatus(Kind(r)) /\ Fail(r)
    /\ UNCHANGED <<clipVars, objectVars>>

-----------------------------------------------------------------------------
(* validate_object: the object's size, and on S3 its checksum, must be the   *)
(* row's.                                                                  *)
CheckObject(r) ==
    /\ InHandler(r, "validate", "heading")
    /\ IF source = seen[r].size THEN Proceed(r, "marking") ELSE Fail(r)
    /\ UNCHANGED <<clipVars, objectVars>>

(* enqueue_media_processing_jobs *)
MediaProcessing == IF config.optimize THEN <<"optimize">> ELSE MediaKind

(* A weaker form that enqueues nothing for a clip an earlier run made ready. *)
MarkReadyOnce(r) ==
    /\ InHandler(r, "validate", "marking")
    /\ CASE clip = "processing" -> clip' = "ready" /\ FollowUp(r, MediaProcessing)
         [] clip = "ready" -> FollowUp(r, <<>>) /\ UNCHANGED clip
         [] OTHER -> Fail(r) /\ UNCHANGED clip
    /\ UNCHANGED <<size, objectVars>>

MarkReady(r) ==
    /\ InHandler(r, "validate", "marking")
    /\ IF clip \in {"processing", "ready"}
         THEN clip' = "ready" /\ FollowUp(r, MediaProcessing)
         ELSE Fail(r) /\ UNCHANGED clip
    /\ UNCHANGED <<size, objectVars>>

-----------------------------------------------------------------------------
(* optimize_video *)

(* The size of the row against the size of the object: they differ when an   *)
(* earlier run of the job was cut short after it replaced the source.       *)
HeadSourceUncompared(r) ==
    /\ InHandler(r, "optimize", "heading")
    /\ Step(r, "encoding")
    /\ seen' = [seen EXCEPT ![r].head = source]
    /\ UNCHANGED <<queueVars, config, clipVars, objectVars>>

HeadSource(r) ==
    /\ InHandler(r, "optimize", "heading")
    /\ Step(r, IF source = seen[r].size THEN "encoding" ELSE "reconciling")
    /\ seen' = [seen EXCEPT ![r].head = source]
    /\ UNCHANGED <<queueVars, config, clipVars, objectVars>>

(* update_source_metadata leaves a deleted clip alone. *)
Recorded(g) == IF Deleted THEN size ELSE g

Reconcile(r) ==
    /\ InHandler(r, "optimize", "reconciling")
    /\ size' = Recorded(seen[r].head)
    /\ FollowUp(r, MediaKind)
    /\ UNCHANGED <<clip, objectVars>>

(* The media processor reads the source into its work directory and encodes  *)
(* it; 0 stands for an encoding that is no smaller.                         *)
Encode(r) ==
    /\ InHandler(r, "optimize", "encoding")
    /\ \E g \in {0, source + 1} \cap Generation :
         seen' = [seen EXCEPT ![r].made = g]
    /\ Step(r, "putting")
    /\ UNCHANGED <<queueVars, config, clipVars, objectVars>>

PutCandidate(r) ==
    /\ InHandler(r, "optimize", "putting")
    /\ candidate' = seen[r].made
    /\ Proceed(r, "comparing")
    /\ UNCHANGED <<clipVars, source, original>>

(* The same without the copy of the original, to show what it is for. *)
CompareOnly(r) ==
    /\ InHandler(r, "optimize", "comparing")
    /\ Proceed(r, IF candidate # seen[r].made THEN "cleaning"
                  ELSE IF seen[r].made <= seen[r].head THEN "discarding" ELSE "activating")
    /\ UNCHANGED <<clipVars, objectVars>>

(* The candidate is headed and read back, and its size compared with the     *)
(* size the source had.                                                    *)
Compare(r) ==
    /\ InHandler(r, "optimize", "comparing")
    /\ Proceed(r, IF candidate # seen[r].made THEN "cleaning"
                  ELSE IF seen[r].made <= seen[r].head THEN "discarding"
                  ELSE IF config.keep THEN "keeping" ELSE "activating")
    /\ UNCHANGED <<clipVars, objectVars>>

DiscardCandidate(r) ==
    /\ InHandler(r, "optimize", "discarding")
    /\ candidate' = NoObject
    /\ FollowUp(r, MediaKind)
    /\ UNCHANGED <<clipVars, source, original>>

KeepOriginal(r) ==
    /\ InHandler(r, "optimize", "keeping")
    /\ original' = source
    /\ Proceed(r, "activating")
    /\ UNCHANGED <<clipVars, source, candidate>>

Activate(r) ==
    /\ InHandler(r, "optimize", "activating")
    /\ IF candidate = NoObject
         THEN Proceed(r, "cleaning") /\ UNCHANGED source
         ELSE Proceed(r, "checking") /\ source' = candidate
    /\ UNCHANGED <<clipVars, candidate, original>>

CheckSource(r) ==
    /\ InHandler(r, "optimize", "checking")
    /\ Proceed(r, IF source = seen[r].made THEN "stamping" ELSE "cleaning")
    /\ UNCHANGED <<clipVars, objectVars>>

StampSize(r) ==
    /\ InHandler(r, "optimize", "stamping")
    /\ size' = Recorded(seen[r].made)
    /\ Proceed(r, "tidying")
    /\ UNCHANGED <<clip, objectVars>>

(* A candidate that cannot be deleted is left to the next run of the job or  *)
(* the orphan sweep.                                                       *)
TidyCandidate(r) ==
    /\ InHandler(r, "optimize", "tidying")
    /\ candidate' \in {candidate, NoObject}
    /\ FollowUp(r, MediaKind)
    /\ UNCHANGED <<clipVars, source, original>>

CleanCandidate(r) ==
    /\ InHandler(r, "optimize", "cleaning")
    /\ candidate' \in {candidate, NoObject}
    /\ Fail(r)
    /\ UNCHANGED <<clipVars, source, original>>

-----------------------------------------------------------------------------
(* Errors and deaths *)

(* An operation of the handler fails, at any step: those of the activation   *)
(* go on to delete the candidate.                                          *)
OperationFails(r) ==
    /\ pc[r] = "working" /\ step[r] \notin {"none", "tidying", "cleaning", "enqueueing"}
    /\ IF step[r] \in ActivationStep THEN Proceed(r, "cleaning") ELSE Fail(r)
    /\ UNCHANGED <<clipVars, objectVars>>

(* touch_lock fails or finds the lock lost: the handler is dropped where it  *)
(* is.                                                                     *)
Heartbeat(r) ==
    /\ Queue!Heartbeat(r) \/ Queue!HandlerFails(r)
    /\ IF pc'[r] = "working" THEN UNCHANGED handlerVars ELSE Leave(r)
    /\ UNCHANGED <<config, clipVars, objectVars>>

(* run_dead_job_side_effects: mark_failed for a validate job, the media jobs  *)
(* for an optimize job.                                                    *)
NoLastRites(k) == "enqueueing"
FirstRite(k) == IF k = "validate" THEN "failing_clip" ELSE "enqueueing"

MarkDead(r) ==
    /\ Queue!MarkDead(r)
    /\ IF pc'[r] = "burying" THEN Step(r, FirstRite(Kind(r))) /\ UNCHANGED seen
                             ELSE Leave(r)
    /\ UNCHANGED <<config, clipVars, objectVars>>

FailClip(r) ==
    /\ pc[r] = "burying" /\ step[r] = "failing_clip"
    /\ clip' = IF Deleted THEN clip ELSE "failed"
    /\ Proceed(r, "enqueueing")
    /\ UNCHANGED <<size, objectVars>>

FailClipDbError(r) ==
    /\ pc[r] = "burying" /\ step[r] = "failing_clip"
    /\ Queue!Fault("db") /\ Queue!Forget(r, "idle")
    /\ Leave(r)
    /\ UNCHANGED <<jobs, due, ahead, config, clipVars, objectVars>>

-----------------------------------------------------------------------------
(* The rest of a runner's life, as in JobQueue. *)

Enqueue(r) ==
    /\ Queue!Enqueue(r)
    /\ IF pc'[r] = pc[r] THEN UNCHANGED handlerVars ELSE Leave(r)
    /\ UNCHANGED <<config, clipVars, objectVars>>

Poll(r) ==
    /\ Queue!Start(r) \/ Queue!BeginPolling(r) \/ Queue!Claim(r)
    /\ UNCHANGED <<config, clipVars, objectVars, handlerVars>>

Settle(r) ==
    /\ \/ step[r] = "enqueueing" /\ (Queue!Succeed(r) \/ Queue!Buried(r))
       \/ Queue!Retry(r)
    /\ Leave(r)
    /\ UNCHANGED <<config, clipVars, objectVars>>

Faulty(r) ==
    /\ \/ Queue!Crash(r)
       \/ Queue!EnqueueDbError(r)
       \/ step[r] \in {"none", "enqueueing"} /\ Queue!SettleDbError(r)
    /\ IF pc'[r] = pc[r] THEN UNCHANGED handlerVars ELSE Leave(r)
    /\ UNCHANGED <<config, clipVars, objectVars>>

TimePasses ==
    /\ Queue!TimePasses
    /\ UNCHANGED <<config, clipVars, objectVars, handlerVars>>

Validate(r) == CheckObject(r) \/ MarkReady(r)

Optimize(r) == \/ HeadSource(r) \/ Reconcile(r) \/ Encode(r) \/ PutCandidate(r)
               \/ Compare(r) \/ DiscardCandidate(r) \/ KeepOriginal(r) \/ Activate(r)
               \/ CheckSource(r) \/ StampSize(r) \/ TidyCandidate(r) \/ CleanCandidate(r)

RunnerNext(r) == \/ Poll(r) \/ Dispatch(r) \/ LoadClip(r) \/ Validate(r) \/ Optimize(r)
                 \/ Enqueue(r) \/ Settle(r) \/ MarkDead(r) \/ FailClip(r)

Next == \/ \E r \in Runner : \/ RunnerNext(r) \/ Heartbeat(r) \/ OperationFails(r)
                             \/ FailClipDbError(r) \/ Faulty(r)
        \/ Finalize \/ DeleteClip
        \/ TimePasses

Spec == Init /\ [][Next]_vars

(* As in JobQueue: live processes go on, dead ones are restarted, time       *)
(* passes.                                                                 *)
OrphanLockExpires(j) == Queue!OrphanLockExpires(j)
                        /\ UNCHANGED <<config, clipVars, objectVars, handlerVars>>
BecomesDue(j) == Queue!BecomesDue(j) /\ UNCHANGED <<config, clipVars, objectVars, handlerVars>>

Fairness == /\ \A r \in Runner : WF_vars(RunnerNext(r))
            /\ \A j \in JobId : WF_vars(BecomesDue(j)) /\ WF_vars(OrphanLockExpires(j))

LiveSpec == Spec /\ Fairness

-----------------------------------------------------------------------------
(* Properties *)

Running(j, k) == jobs[j].task.kind = k /\ jobs[j].status = "running"
InForce(k) == \E j \in JobId : Queue!Active(j) /\ jobs[j].task.kind = k

TypeOK ==
    /\ Queue!TypeOK
    /\ config \in Configs
    /\ clip \in {"created", "processing", "ready", "failed", "deleted"}
    /\ size \in Generation /\ source \in Generation
    /\ candidate \in Generation \cup {NoObject}
    /\ original \in Generation \cup {NoObject}
    /\ step \in [Runner -> HandlerStep]
    /\ seen \in [Runner -> Seen]

(* A clip in `processing` has a validate job to take it out again, or a      *)
(* runner about to fail it, whatever retries, lost locks and reclaims the   *)
(* job went through, as long as no process dies and no statement of a death *)
(* fails: a client that never completes again does not lose its clip.       *)
ProcessingIsAttended ==
    clip = "processing" /\ faults["crash"] = 0 /\ faults["db"] = 0
        => InForce("validate") \/ \E r \in Runner : step[r] = "failing_clip"

(* An optimize job that succeeds leaves a clip row that describes the object *)
(* that is served, even when an earlier run died, failed or was dropped     *)
(* between replacing the source and recording its size; only a holder that  *)
(* stalls past its lock and works on beside its successor can break it.     *)
OptimizedSizeIsRecorded ==
    [][clip = "ready" /\ faults["stall"] = 0 =>
         \A j \in JobId :
            Running(j, "optimize") /\ jobs'[j].status = "succeeded" => size = source]_vars

(* docs/cloud/deployment-guide.md:301: "completed uploads remain playable as  *)
(* soon as they pass validation".  The code does not keep it: the burial of a *)
(* validate job fails a clip it has made ready (ClipPipelineReadyFails.cfg).  *)
ReadyStaysReady == [][clip = "ready" => clip' \in {"ready", "deleted"}]_vars

(* With keep_original, the file that an optimization replaces has been copied *)
(* aside first, whatever earlier runs of the job left behind.               *)
ReplacedIsKept ==
    [][config.keep /\ source' # source /\ faults["stall"] = 0 => original = source]_vars

(* The validate job is dead and its clip was not failed with it: the burial   *)
(* was cut short, and only a completion sent again starts another job.      *)
Stranded == /\ clip = "processing" /\ ~InForce("validate")
            /\ \E j \in JobId : jobs[j].task.kind = "validate" /\ jobs[j].status = "dead"
            /\ \A r \in Runner : step[r] # "failing_clip"

(* A clip does not stay in `processing`: the validate job is retried after an  *)
(* error, reclaimed from a process that died or could not settle it, and     *)
(* buried by whoever claims it beyond its attempts, and the clip is ready,   *)
(* failed or deleted in the end.  The one way out of this is a death or a   *)
(* failed statement in the burial itself, after the job was marked dead.    *)
UploadedClipsSettle ==
    (clip = "processing" /\ ~Stranded)
        ~> \/ clip # "processing"
           \/ Stranded /\ faults["crash"] + faults["db"] > 0

(* docs/06-clip-lifecycle-and-jobs.md:99: a restart resumes the job, the clip *)
(* is not stranded in `processing`.  The code does not keep it: a crash may   *)
(* cut short a burial (ClipPipelineStranded.cfg).                           *)
NoClipIsStranded == clip = "processing" ~> clip # "processing"

(* Through crashes, restarts and failed statements, a finalized clip gets its  *)
(* optimize job unless its validate job is given up or its owner deletes it: *)
(* the job that a validation enqueues is not lost.                          *)
OptimizationFollows ==
    (clip = "processing" /\ config.optimize)
        ~> \/ InForce("optimize")
           \/ \E j \in JobId : jobs[j].task.kind = "validate" /\ jobs[j].status = "dead"
           \/ Deleted

(* Every job of the chain is settled through crashes, failures and lost       *)
(* locks.                                                                  *)
EveryJobSettles == Queue!EveryJobSettles
=============================================================================
