------------------------------ MODULE JobQueue ------------------------------
(***************************************************************************)
(* The durable `jobs` table and the job runners that work it off           *)
(* (clipline-cloud-core/src/jobs.rs, clipline-cloud-db JobRepository).     *)
(*                                                                         *)
(* A job is a row; a task is what the row is for: a (kind, clip) pair, or  *)
(* a kind alone for the two global cleanup sweeps.  Runners are processes: *)
(* each polls, claims one row, runs its handler under a heartbeat and      *)
(* settles the row.  What a handler does to clips and objects is left to   *)
(* other modules; what it does to this table, the jobs it enqueues, is     *)
(* modelled here.                                                          *)
(*                                                                         *)
(* Time is abstracted to the two comparisons the SQL makes:                *)
(*   next_run_at <= now        becomes  j \in due, with ahead[j] the due   *)
(*                             rows that ORDER BY next_run_at puts first;  *)
(*   locked_at < stale_before  becomes  jobs[j].stale.                     *)
(***************************************************************************)
EXTENDS Naturals, Sequences, FiniteSets

CONSTANTS
    Runner,          \* runner ids: one per process start, see Start
    JobId,           \* slots for rows; a ULID is a slot nothing refers to
    Clip,            \* job targets
    ClipKind,        \* job kinds whose target is a clip
    SweepKind,       \* job kinds with no target: the cleanup sweeps
    EntryKind,       \* clip kinds the HTTP side enqueues (validate_object)
    BestEffortKind,  \* clip kinds that may swallow a failed follow-up enqueue
    FollowUps,       \* kind -> the sequences of kinds its handler enqueues
    BurialEnqueues,  \* kind -> the kinds its dead-job side effects enqueue
    StartupSweeps,   \* the order in which a process start ensures the sweeps
    MaxAttempts,     \* jobs.max_attempts
    MaxFaults,       \* bound on the faults of each kind in a behaviour
    NoRunner, NoJob, NoClip

FaultKind == {"crash", "stall", "db"}

ASSUME KindAssumption ==
    /\ ClipKind \cap SweepKind = {}
    /\ EntryKind \subseteq ClipKind
    /\ BestEffortKind \subseteq ClipKind

ASSUME FollowUpAssumption ==
    /\ FollowUps \in [ClipKind -> SUBSET Seq(ClipKind)]
    /\ BurialEnqueues \in [ClipKind -> Seq(ClipKind)]
    /\ StartupSweeps \in Seq(SweepKind)
    /\ \A k \in SweepKind : \E i \in 1..Len(StartupSweeps) : StartupSweeps[i] = k

ASSUME BoundAssumption ==
    /\ MaxAttempts \in Nat \ {0}
    /\ MaxFaults \in [FaultKind -> Nat]

ASSUME NullAssumption ==
    NoRunner \notin Runner /\ NoJob \notin JobId /\ NoClip \notin Clip

VARIABLES
    jobs,    \* the table
    due,     \* rows with next_run_at <= now
    ahead,   \* ahead[j]: due rows with a smaller (next_run_at, id) than j
    pc,      \* where each runner is
    mine,    \* the Job value the claim returned to the runner working on it
    todo,    \* the tasks the runner has yet to enqueue
    enq,     \* step of create_if_absent_active for the head of todo
    faults   \* faults so far, by kind

vars == <<jobs, due, ahead, pc, mine, todo, enq, faults>>
queueVars == <<due, ahead>>
runnerVars == <<pc, mine, todo, enq>>

-----------------------------------------------------------------------------
(* Types *)

ClipTask == [kind : ClipKind, clip : Clip]
SweepTask == [kind : SweepKind, clip : {NoClip}]
Task == ClipTask \cup SweepTask
NoTask == [kind |-> "none", clip |-> NoClip]

Status == {"absent", "pending", "running", "succeeded", "dead"}

Row == [task : Task \cup {NoTask}, status : Status, attempts : Nat,
        locked_by : Runner \cup {NoRunner}, stale : BOOLEAN]

NoRow == [task |-> NoTask, status |-> "absent", attempts |-> 0,
          locked_by |-> NoRunner, stale |-> FALSE]

NewRow(t) == [task |-> t, status |-> "pending", attempts |-> 0,
              locked_by |-> NoRunner, stale |-> FALSE]

Claimed == [id : JobId, task : Task, attempts : Nat]
NoClaim == [id |-> NoJob, task |-> NoTask, attempts |-> 0]

RunnerStep == {"down", "ensuring", "idle", "claimed", "working", "failing", "burying"}
EnqStep == {"none", "insert", "lookup", "reinsert"}

(* A weaker form of the lock test, without locked_by, kept to show what it    *)
(* is for.                                                                  *)
OwnsRunningRow(r) == mine[r] # NoClaim /\ jobs[mine[r].id].status = "running"

(* A runner's lock names it, the row is running: what every *_if_locked     *)
(* statement tests.                                                        *)
OwnsRow(r) == /\ mine[r] # NoClaim
              /\ jobs[mine[r].id].status = "running"
              /\ jobs[mine[r].id].locked_by = r

(* get_active_by_kind_and_target, and the unique indexes behind it: for a   *)
(* clip task pending and running rows count, for a sweep only pending ones. *)
InForceWhilePending(t) == {"pending"}

InForce(t) == IF t \in SweepTask THEN {"pending"} ELSE {"pending", "running"}
ActiveFor(t) == {j \in JobId : jobs[j].task = t /\ jobs[j].status \in InForce(t)}
Conflicts(t) == ActiveFor(t) # {}

(* count_active_global_kind > 0 *)
SweepActive(t) == \E j \in JobId : jobs[j].task = t /\ jobs[j].status \in {"pending", "running"}

(* A slot for a fresh id: no live row and no runner's memory of it. *)
Free(j) == /\ jobs[j].status \in {"absent", "succeeded", "dead"}
           /\ \A r \in Runner : mine[r].id # j

TasksOf(kinds, c) == [i \in 1..Len(kinds) |-> [kind |-> kinds[i], clip |-> c]]
-----------------------------------------------------------------------------
(* The order claim_next reads: ORDER BY next_run_at ASC, id ASC.  A row     *)
(* keeps its place while it runs, and loses it when it is retried, settled  *)
(* or removed.                                                             *)

EnterDue(j) == /\ due' = due \cup {j}
               /\ ahead' = [ahead EXCEPT ![j] = due]

LeaveDue(S) == /\ due' = due \ S
               /\ ahead' = [j \in JobId |-> IF j \in S THEN {} ELSE ahead[j] \ S]

ClaimableOnceRunning(j) == j \in due /\ jobs[j].status \in {"pending", "running"}
ClaimableWhenPending(j) == j \in due /\ jobs[j].status = "pending"

ClaimableWithAttemptsLeft(j) ==
    /\ j \in due
    /\ \/ jobs[j].status = "pending"
       \/ jobs[j].status = "running" /\ jobs[j].stale /\ jobs[j].attempts < MaxAttempts

Claimable(j) == /\ j \in due
                /\ \/ jobs[j].status = "pending"
                   \/ jobs[j].status = "running" /\ jobs[j].stale

NextClaim(j) == Claimable(j) /\ \A i \in ahead[j] : ~Claimable(i)

Fault(kind) == /\ faults[kind] < MaxFaults[kind]
               /\ faults' = [faults EXCEPT ![kind] = @ + 1]

(* Runner r goes to step p with the sequence of tasks ts left to enqueue,   *)
(* and knows of the claim m from then on.                                  *)
GoTo(r, p, m, ts) == /\ pc' = [pc EXCEPT ![r] = p]
                     /\ mine' = [mine EXCEPT ![r] = m]
                     /\ todo' = [todo EXCEPT ![r] = ts]
                     /\ enq' = [enq EXCEPT ![r] = "none"]

(* Back to polling, or out of the process: the claim is forgotten. *)
Forget(r, p) == GoTo(r, p, NoClaim, <<>>)

(* The handler's future is dropped and its error is about to be settled. *)
FailHandler(r) == GoTo(r, "failing", mine[r], <<>>)

Init == /\ jobs = [j \in JobId |-> NoRow]
        /\ due = {}
        /\ ahead = [j \in JobId |-> {}]
        /\ pc = [r \in Runner |-> "down"]
        /\ mine = [r \in Runner |-> NoClaim]
        /\ todo = [r \in Runner |-> <<>>]
        /\ enq = [r \in Runner |-> "none"]
        /\ faults = [k \in FaultKind |-> 0]

-----------------------------------------------------------------------------
(* Enqueueing.  JobRepository::create_if_absent_active is three statements: *)
(* an INSERT the unique indexes may refuse, a SELECT of the row in force,   *)
(* and, when that row has gone in between, a second INSERT.                 *)

BeginEnqueue(r) ==
    /\ pc[r] \in {"working", "burying"}
    /\ enq[r] = "none" /\ todo[r] # <<>>
    /\ enq' = [enq EXCEPT ![r] = "insert"]
    /\ UNCHANGED <<jobs, queueVars, pc, mine, todo, faults>>

(* A clip job is due at once; a sweep is armed for a later time except at   *)
(* startup.                                                                *)
InsertJob(r) ==
    /\ enq[r] \in {"insert", "reinsert"}
    /\ ~Conflicts(Head(todo[r]))
    /\ \E j \in JobId :
         /\ Free(j)
         /\ jobs' = [jobs EXCEPT ![j] = NewRow(Head(todo[r]))]
         /\ IF Head(todo[r]) \in SweepTask /\ pc[r] # "ensuring"
              THEN UNCHANGED queueVars
              ELSE EnterDue(j)
    /\ todo' = [todo EXCEPT ![r] = Tail(@)]
    /\ enq' = [enq EXCEPT ![r] = "none"]
    /\ UNCHANGED <<pc, mine, faults>>

InsertConflict(r) ==
    /\ enq[r] = "insert"
    /\ Conflicts(Head(todo[r]))
    /\ enq' = [enq EXCEPT ![r] = "lookup"]
    /\ UNCHANGED <<jobs, queueVars, pc, mine, todo, faults>>

LookupActive(r) ==
    /\ enq[r] = "lookup"
    /\ IF Conflicts(Head(todo[r]))
         THEN /\ todo' = [todo EXCEPT ![r] = Tail(@)]
              /\ enq' = [enq EXCEPT ![r] = "none"]
         ELSE /\ enq' = [enq EXCEPT ![r] = "reinsert"]
              /\ UNCHANGED todo
    /\ UNCHANGED <<jobs, queueVars, pc, mine, faults>>

(* The error of an enqueue: startup aborts the process, the handler returns *)
(* it or (best effort) drops it, the dead-job side effects give up.         *)
EnqueueError(r) ==
    /\ enq[r] # "none"
    /\ \/ pc[r] = "ensuring" /\ Forget(r, "down")
       \/ pc[r] = "working" /\ FailHandler(r)
       \/ /\ pc[r] = "working" /\ mine[r].task.kind \in BestEffortKind
          /\ GoTo(r, "working", mine[r], <<>>)
       \/ pc[r] = "burying" /\ Forget(r, "idle")
    /\ UNCHANGED <<jobs, queueVars>>

ReinsertConflict(r) ==
    /\ enq[r] = "reinsert" /\ Conflicts(Head(todo[r]))
    /\ EnqueueError(r)
    /\ UNCHANGED faults

EnqueueDbError(r) == Fault("db") /\ EnqueueError(r)

(* The HTTP side finalizes an upload: its transaction inserts the job with  *)
(* ON CONFLICT DO NOTHING.                                                 *)
FinalizeInsert(t) ==
    /\ t \in [kind : EntryKind, clip : Clip]
    /\ ~Conflicts(t)
    /\ \E j \in JobId : /\ Free(j)
                        /\ jobs' = [jobs EXCEPT ![j] = NewRow(t)]
                        /\ EnterDue(j)
    /\ UNCHANGED <<runnerVars, faults>>

(* Purging a user removes the jobs of each of the user's clips, whatever    *)
(* their status.                                                           *)
DeleteForClip(c) ==
    LET gone == {j \in JobId : jobs[j].task.clip = c /\ jobs[j].status # "absent"}
    IN  /\ gone # {}
        /\ jobs' = [j \in JobId |-> IF j \in gone THEN NoRow ELSE jobs[j]]
        /\ LeaveDue(gone)
        /\ UNCHANGED <<runnerVars, faults>>

-----------------------------------------------------------------------------
(* A runner process: main.rs start_job_runner, then run_until_shutdown.     *)

(* Every process start makes a runner id of its own; a runner that is down  *)
(* holds nothing in memory, so its id may stand for the next start's.       *)
Start(r) ==
    /\ pc[r] = "down"
    /\ GoTo(r, "ensuring", NoClaim, TasksOf(StartupSweeps, NoClip))
    /\ UNCHANGED <<jobs, queueVars, faults>>

(* ensure_cleanup_*_sweep: the count, and the enqueue it decides on, are two *)
(* statements.                                                             *)
EnsureSweep(r) ==
    /\ pc[r] = "ensuring" /\ enq[r] = "none" /\ todo[r] # <<>>
    /\ IF SweepActive(Head(todo[r]))
         THEN /\ todo' = [todo EXCEPT ![r] = Tail(@)]
              /\ UNCHANGED enq
         ELSE /\ enq' = [enq EXCEPT ![r] = "insert"]
              /\ UNCHANGED todo
    /\ UNCHANGED <<jobs, queueVars, pc, mine, faults>>

BeginPolling(r) ==
    /\ pc[r] = "ensuring" /\ todo[r] = <<>>
    /\ Forget(r, "idle")
    /\ UNCHANGED <<jobs, queueVars, faults>>

(* claim_next: one UPDATE ... RETURNING. *)
Locked(row, r) == [task |-> row.task, status |-> "running", attempts |-> row.attempts + 1,
                   locked_by |-> r, stale |-> FALSE]

Claim(r) ==
    /\ pc[r] = "idle"
    /\ \E j \in JobId :
         /\ NextClaim(j)
         /\ jobs' = [jobs EXCEPT ![j] = Locked(@, r)]
         /\ GoTo(r, "claimed", [id |-> j, task |-> jobs[j].task,
                                attempts |-> jobs[j].attempts + 1], <<>>)
    /\ UNCHANGED <<queueVars, faults>>

(* What the handler of task t enqueues on its way to success; a sweep       *)
(* re-arms itself as its last act.                                         *)
PlansWithoutRearm(t) == IF t \in SweepTask
              THEN {<<>>}
              ELSE {TasksOf(kinds, t.clip) : kinds \in FollowUps[t.kind]}

Plans(t) == IF t \in SweepTask
              THEN {<<t>>}
              ELSE {TasksOf(kinds, t.clip) : kinds \in FollowUps[t.kind]}

BeginWork(r) ==
    /\ pc[r] = "claimed"
    /\ mine[r].attempts <= MaxAttempts
    /\ \E ts \in Plans(mine[r].task) : GoTo(r, "working", mine[r], ts)
    /\ UNCHANGED <<jobs, queueVars, faults>>

(* locked_at, as older than stale_before or not. *)
Aged(row, b) == [row EXCEPT !.stale = b]

(* touch_lock, once per heartbeat interval while the handler runs: no row   *)
(* updated means the lock is lost, and the handler's future is dropped.     *)
Heartbeat(r) ==
    /\ pc[r] = "working"
    /\ IF OwnsRow(r)
         THEN /\ jobs' = [jobs EXCEPT ![mine[r].id] = Aged(@, FALSE)]
              /\ UNCHANGED runnerVars
         ELSE /\ FailHandler(r)
              /\ UNCHANGED jobs
    /\ UNCHANGED <<queueVars, faults>>

(* The handler returns an error, or touch_lock does. *)
HandlerFails(r) ==
    /\ pc[r] = "working"
    /\ FailHandler(r)
    /\ UNCHANGED <<jobs, queueVars, faults>>

(* What the settling statements have in common: a status, the attempts to    *)
(* record, and no lock.                                                    *)
Released(row, status, attempts) ==
    [row EXCEPT !.status = status, !.attempts = attempts, !.locked_by = NoRunner, !.stale = FALSE]

Release(j, status, attempts) ==
    /\ jobs' = [jobs EXCEPT ![j] = Released(@, status, attempts)]
    /\ LeaveDue({j})

(* The handler returns Ok: mark_succeeded_if_locked. *)
Succeed(r) ==
    /\ pc[r] = "working" /\ enq[r] = "none" /\ todo[r] = <<>>
    /\ IF OwnsRow(r)
         THEN /\ Release(mine[r].id, "succeeded", jobs[mine[r].id].attempts)
         ELSE UNCHANGED <<jobs, queueVars>>
    /\ Forget(r, "idle")
    /\ UNCHANGED faults

(* attempts >= max_attempts, of the attempts the claim returned. *)
Exhausted(r) == mine[r].attempts >= MaxAttempts

(* mark_retry_if_locked.  Taking a sweep back to pending violates            *)
(* jobs_active_global_kind_ux when another one is pending already: the      *)
(* statement fails and the row stays running under this runner's lock.      *)
RetryRefused(r) == \E j \in JobId \ {mine[r].id} :
    mine[r].task \in SweepTask /\ jobs[j].task = mine[r].task /\ jobs[j].status = "pending"

Retry(r) ==
    /\ pc[r] = "failing"
    /\ ~Exhausted(r)
    /\ IF OwnsRow(r) /\ ~RetryRefused(r)
         THEN /\ Release(mine[r].id, "pending", mine[r].attempts)
         ELSE UNCHANGED <<jobs, queueVars>>
    /\ Forget(r, "idle")
    /\ UNCHANGED faults

(* run_dead_job_side_effects: what the death of task t enqueues. *)
LastRitesOfClipJob(t) == IF t \in SweepTask THEN <<>>
                                            ELSE TasksOf(BurialEnqueues[t.kind], t.clip)

LastRites(t) == IF t \in SweepTask THEN <<t>>
                                   ELSE TasksOf(BurialEnqueues[t.kind], t.clip)

(* handle_dead_job: the attempts are exhausted, at the claim of a job whose  *)
(* lock expired too often or at its last failure.                          *)
MarkDead(r) ==
    /\ \/ pc[r] = "claimed" /\ mine[r].attempts > MaxAttempts
       \/ pc[r] = "failing" /\ Exhausted(r)
    /\ IF OwnsRow(r)
         THEN /\ Release(mine[r].id, "dead", mine[r].attempts)
              /\ GoTo(r, "burying", mine[r], LastRites(mine[r].task))
         ELSE /\ Forget(r, "idle")
              /\ UNCHANGED <<jobs, queueVars>>
    /\ UNCHANGED faults

Buried(r) ==
    /\ pc[r] = "burying" /\ enq[r] = "none" /\ todo[r] = <<>>
    /\ Forget(r, "idle")
    /\ UNCHANGED <<jobs, queueVars, faults>>

(* A settling statement fails: run_once returns the error and the runner    *)
(* polls again; the row stays as it is until its lock expires.              *)
SettleDbError(r) ==
    /\ Fault("db")
    /\ \/ pc[r] \in {"claimed", "failing"}
       \/ pc[r] = "working" /\ enq[r] = "none" /\ todo[r] = <<>>
    /\ Forget(r, "idle")
    /\ UNCHANGED <<jobs, queueVars>>

(* The process ends, killed or shut down, at any point. *)
Crash(r) ==
    /\ Fault("crash")
    /\ pc[r] # "down"
    /\ Forget(r, "down")
    /\ UNCHANGED <<jobs, queueVars>>

-----------------------------------------------------------------------------
(* Time *)

(* next_run_at is reached. *)
BecomesDue(j) ==
    /\ jobs[j].status = "pending" /\ j \notin due
    /\ EnterDue(j)
    /\ UNCHANGED <<jobs, runnerVars, faults>>

(* job_lock_timeout passes since the last touch of the lock.  The holder    *)
(* touches it three times in that time: it expires when the holder no       *)
(* longer works on the job, or stalls for longer than the timeout.          *)
LockExpires(j) ==
    /\ jobs[j].status = "running" /\ ~jobs[j].stale
    /\ IF \E r \in Runner : mine[r].id = j /\ OwnsRow(r)
         THEN Fault("stall")
         ELSE UNCHANGED faults
    /\ jobs' = [jobs EXCEPT ![j] = Aged(@, TRUE)]
    /\ UNCHANGED <<queueVars, runnerVars>>

-----------------------------------------------------------------------------
Enqueue(r) == \/ BeginEnqueue(r) \/ InsertJob(r) \/ InsertConflict(r)
              \/ LookupActive(r) \/ ReinsertConflict(r)

Settle(r) == Succeed(r) \/ Retry(r) \/ MarkDead(r) \/ Buried(r)

RunnerNext(r) == \/ Start(r) \/ EnsureSweep(r) \/ BeginPolling(r)
                 \/ Claim(r) \/ BeginWork(r) \/ Heartbeat(r) \/ HandlerFails(r)
                 \/ Enqueue(r) \/ Settle(r)

Faulty(r) == EnqueueDbError(r) \/ SettleDbError(r) \/ Crash(r)

External == \/ \E t \in ClipTask : FinalizeInsert(t)
            \/ \E c \in Clip : DeleteForClip(c)

TimePasses == \E j \in JobId : BecomesDue(j) \/ LockExpires(j)

Next == \/ \E r \in Runner : RunnerNext(r) \/ Faulty(r)
        \/ External
        \/ TimePasses

Spec == Init /\ [][Next]_vars

(* The tokio loop of a live process goes on, a supervisor restarts a dead    *)
(* one, and time passes.  Nothing is assumed of clients or of faults.       *)
RunnerProgress(r) == \/ Start(r) \/ EnsureSweep(r) \/ BeginPolling(r)
                     \/ Claim(r) \/ BeginWork(r) \/ Enqueue(r) \/ Settle(r)

OrphanLockExpires(j) == /\ ~\E r \in Runner : mine[r].id = j /\ OwnsRow(r)
                        /\ LockExpires(j)

Fairness == /\ \A r \in Runner : WF_vars(RunnerProgress(r))
            /\ \A j \in JobId : WF_vars(BecomesDue(j)) /\ WF_vars(OrphanLockExpires(j))

LiveSpec == Spec /\ Fairness

-----------------------------------------------------------------------------
(* Properties *)

Active(j) == jobs[j].status \in {"pending", "running"}

TypeOK ==
    /\ jobs \in [JobId -> Row]
    /\ due \in SUBSET JobId
    /\ ahead \in [JobId -> SUBSET JobId]
    /\ pc \in [Runner -> RunnerStep]
    /\ mine \in [Runner -> Claimed \cup {NoClaim}]
    /\ todo \in [Runner -> Seq(Task)]
    /\ enq \in [Runner -> EnqStep]
    /\ faults \in [FaultKind -> Nat]

(* Whatever the interleaving of enqueues, claims, retries and reclaims, a    *)
(* clip never has two live jobs of one kind, and a sweep never has two      *)
(* pending ones: the unique indexes on jobs are never what stops a claim.   *)
NoDuplicateJobs ==
    \A i, j \in JobId :
        i # j /\ Active(i) /\ Active(j) /\ jobs[i].task = jobs[j].task
            => /\ jobs[i].task \in SweepTask
               /\ ~(jobs[i].status = "pending" /\ jobs[j].status = "pending")

(* A runner that passes the locked_by test of the *_if_locked statements is  *)
(* the one that claimed the row last, still works on that claim, and writes *)
(* back the attempts the row already has: a lock lost to another claim      *)
(* cannot be mistaken for the lock held now.                               *)
LockIsLatestClaim ==
    \A r \in Runner : OwnsRow(r) =>
        /\ pc[r] \in {"claimed", "working", "failing"}
        /\ jobs[mine[r].id].attempts = mine[r].attempts
        /\ jobs[mine[r].id].task = mine[r].task

(* The side effects of a job's death run for a job that is dead (or purged), *)
(* that has used up its attempts, and in one runner at most.                *)
BurialIsExclusive ==
    /\ \A j \in JobId : jobs[j].status = "dead" => jobs[j].attempts >= MaxAttempts
    /\ \A r \in Runner : pc[r] = "burying" =>
         /\ jobs[mine[r].id].status \in {"dead", "absent"}
         /\ \A s \in Runner \ {r} : pc[s] = "burying" => mine[s].id # mine[r].id

(* Two runners have one job in hand only after a holder stalled for longer   *)
(* than job_lock_timeout: crashes and failed statements alone never lead to *)
(* it (docs/06: concurrent runner loops never double-claim a job).          *)
ExclusiveUnlessStalled ==
    faults["stall"] = 0 =>
        \A r, s \in Runner : r # s /\ mine[r] # NoClaim => mine[s].id # mine[r].id

(* Claims beyond max_attempts, which only find the job's burial undone, are  *)
(* paid for one by one by crashes, stalls or database errors.               *)
FaultCount == faults["crash"] + faults["stall"] + faults["db"]

AttemptsBounded ==
    \A j \in JobId : Active(j) => jobs[j].attempts <= MaxAttempts + FaultCount

(* Once a process polls, and as long as no process dies and no statement     *)
(* fails, each sweep has a row in force or a runner about to insert one:     *)
(* success, failure, exhaustion and lost locks all re-arm it.               *)
SweepStaysArmed ==
    (faults["db"] = 0 /\ faults["crash"] = 0 /\ \E r \in Runner : pc[r] \notin {"down", "ensuring"})
        => \A t \in SweepTask :
             SweepActive(t) \/ \E r \in Runner : pc[r] = "burying" /\ todo[r] = <<t>>

(* A live row's attempts changes by a claim only, and by one: no settling     *)
(* statement, which writes the runner's own copy, takes it back.            *)
AttemptsCountClaims ==
    [][\A j \in JobId : Active(j) /\ jobs'[j].status # "absent" /\ jobs'[j].attempts # jobs[j].attempts
         => /\ jobs'[j].attempts = jobs[j].attempts + 1
            /\ jobs'[j].status = "running"
            /\ \E r \in Runner : jobs'[j].locked_by = r /\ pc[r] = "idle"]_vars

(* A job settled while some runner still has it in hand stays settled: the    *)
(* late runner can neither revive nor re-settle it.                         *)
SettledStaysSettled ==
    [][\A j \in JobId :
         jobs[j].status \in {"succeeded", "dead"} /\ (\E r \in Runner : mine[r].id = j)
            => jobs'[j] \in {jobs[j], NoRow}]_vars

(* The clip jobs as their tasks see them: the row in force, if any, and what  *)
(* each runner works on.                                                   *)
JobOf(t) ==
    LET j == CHOOSE j \in ActiveFor(t) : TRUE
    IN  IF Conflicts(t)
          THEN [inForce |-> TRUE, takes |-> jobs[j].attempts, holder |-> jobs[j].locked_by]
          ELSE [inForce |-> FALSE, takes |-> 0, holder |-> NoRunner]

HandOf(r) == IF mine[r].task \in ClipTask
               THEN [task |-> mine[r].task, burying |-> pc[r] = "burying"]
               ELSE [task |-> NoTask, burying |-> FALSE]

JobMap == [t \in ClipTask |-> JobOf(t)]
HandMap == [r \in Runner |-> HandOf(r)]

Service == INSTANCE JobService WITH
    Worker <- Runner, Task <- ClipTask, NoWorker <- NoRunner,
    job <- JobMap, hand <- HandMap

(* The queue implements JobService: through conflicting enqueues, reclaims,   *)
(* late settlements, purges and the reuse of ids, a task has one job whose  *)
(* takes are counted once each, and only its last taker settles it.         *)
ImplementsService == Service!Spec

(* Every clip job enqueued is eventually settled (or purged), through         *)
(* crashes, stalls and failures: no job is stuck behind a dead runner's lock.*)
EveryJobSettles ==
    \A j \in JobId : (Active(j) /\ jobs[j].task \in ClipTask) ~> ~Active(j)

(* Each sweep is worked on again and again. *)
SweepsRecur ==
    \A t \in SweepTask : []<>(\E r \in Runner : pc[r] = "working" /\ mine[r].task = t)
=============================================================================
