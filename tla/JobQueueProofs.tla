--------------------------- MODULE JobQueueProofs ---------------------------
(***************************************************************************)
(* Proofs about JobQueue, for every number of runners, rows, clips, kinds, *)
(* attempts and faults.                                                    *)
(***************************************************************************)
EXTENDS JobQueue, SequenceTheorems, TLAPS

(* The steps of a runner that has a claimed job in hand. *)
InHand == {"claimed", "working", "failing", "burying"}

(* TypeOK by halves, each with what else holds of its shape: live rows have a *)
(* task, only running rows are locked, ...                                  *)
TableTypes ==
    /\ jobs \in [JobId -> Row]
    /\ due \in SUBSET JobId
    /\ ahead \in [JobId -> SUBSET JobId]
    /\ faults \in [FaultKind -> Nat]
    /\ \A j \in JobId : jobs[j].status # "absent" => jobs[j].task \in Task
    /\ \A j \in JobId : jobs[j].status = "running" <=> jobs[j].locked_by # NoRunner

(* ... a runner has a claim exactly in the steps that need one, and enqueues  *)
(* only when there is something to enqueue.                                 *)
RunnerTypes ==
    /\ pc \in [Runner -> RunnerStep]
    /\ mine \in [Runner -> Claimed \cup {NoClaim}]
    /\ todo \in [Runner -> Seq(Task)]
    /\ enq \in [Runner -> EnqStep]
    /\ \A r \in Runner : mine[r] # NoClaim <=> pc[r] \in InHand
    /\ \A r \in Runner : enq[r] # "none" =>
         todo[r] # <<>> /\ pc[r] \in {"ensuring", "working", "burying"}

TypeInv == TableTypes /\ RunnerTypes

-----------------------------------------------------------------------------
(* Sequences of tasks *)

(* A sequence of kinds read at one clip is a sequence of tasks. *)
LEMMA TasksOfClip ==
    ASSUME NEW kinds \in Seq(ClipKind), NEW c \in Clip
    PROVE  TasksOf(kinds, c) \in Seq(Task)
<1> DEFINE n == Len(kinds)
           s == [i \in 1..n |-> [kind |-> kinds[i], clip |-> c]]
<1>1. n \in Nat /\ \A i \in 1..n : kinds[i] \in ClipKind
  BY LenProperties, ElementOfSeq
<1>2. s \in [1..n -> Task]
  BY <1>1 DEF Task, ClipTask
<1>3. s \in Seq(Task)
  BY <1>1, <1>2, SeqDef
<1> QED BY <1>3 DEF TasksOf

(* The same for the sweeps a process start ensures. *)
LEMMA TasksOfSweeps == TasksOf(StartupSweeps, NoClip) \in Seq(Task)
<1> DEFINE n == Len(StartupSweeps)
           s == [i \in 1..n |-> [kind |-> StartupSweeps[i], clip |-> NoClip]]
<1>1. n \in Nat /\ \A i \in 1..n : StartupSweeps[i] \in SweepKind
  BY LenProperties, ElementOfSeq, FollowUpAssumption
<1>2. s \in [1..n -> Task]
  BY <1>1 DEF Task, SweepTask
<1>3. s \in Seq(Task)
  BY <1>1, <1>2, SeqDef
<1> QED BY <1>3 DEF TasksOf

(* Whatever a job's handler or death enqueues are tasks. *)
LEMMA PlansAreTasks ==
    ASSUME NEW t \in Task
    PROVE  /\ \A ts \in Plans(t) : ts \in Seq(Task)
           /\ LastRites(t) \in Seq(Task)
<1>1. CASE t \in SweepTask
  <2>1. <<t>> \in Seq(Task)
    OBVIOUS
  <2> QED BY <1>1, <2>1 DEF Plans, LastRites
<1>2. CASE t \notin SweepTask
  <2>1. t \in ClipTask /\ t.kind \in ClipKind /\ t.clip \in Clip
    BY <1>2 DEF Task, ClipTask
  <2>2. /\ \A kinds \in FollowUps[t.kind] : kinds \in Seq(ClipKind)
        /\ BurialEnqueues[t.kind] \in Seq(ClipKind)
    BY <2>1, FollowUpAssumption
  <2> QED BY <1>2, <2>1, <2>2, TasksOfClip DEF Plans, LastRites
<1> QED BY <1>1, <1>2

-----------------------------------------------------------------------------
(* TypeInv is inductive *)

(* It holds initially. *)
LEMMA TypeInvInit == Init => TypeInv
BY DEF Init, TypeInv, TableTypes, RunnerTypes, Row, NoRow, Status, NoClaim, NoTask,
       RunnerStep, EnqStep, InHand, FaultKind

(* GoTo keeps the runner half: the new step is in hand and has a claim, or is *)
(* out of hand and has none.                                                *)
LEMMA GoToTypes ==
    ASSUME RunnerTypes, NEW r \in Runner, NEW p \in RunnerStep,
           NEW m \in Claimed \cup {NoClaim}, NEW ts \in Seq(Task),
           m # NoClaim <=> p \in InHand,
           GoTo(r, p, m, ts)
    PROVE  RunnerTypes'
BY DEF GoTo, RunnerTypes, EnqStep

(* So does leaving the claim behind. *)
LEMMA ForgetTypes ==
    ASSUME RunnerTypes, NEW r \in Runner, NEW p \in {"down", "idle"}, Forget(r, p)
    PROVE  RunnerTypes'
<1>1. /\ p \in RunnerStep /\ p \notin InHand
      /\ NoClaim \in Claimed \cup {NoClaim}
      /\ <<>> \in Seq(Task)
  BY DEF RunnerStep, InHand
<1>2. GoTo(r, p, NoClaim, <<>>)
  BY DEF Forget
<1> QED BY <1>1, <1>2, GoToTypes

(* And going on with the claim in hand. *)
LEMMA KeepClaimTypes ==
    ASSUME RunnerTypes, NEW r \in Runner, NEW p \in InHand, NEW ts \in Seq(Task),
           pc[r] \in InHand, GoTo(r, p, mine[r], ts)
    PROVE  RunnerTypes'
<1>1. /\ p \in RunnerStep
      /\ mine[r] \in Claimed \cup {NoClaim} /\ mine[r] # NoClaim
  BY DEF RunnerStep, InHand, RunnerTypes
<1> QED BY <1>1, GoToTypes

(* And failing a handler. *)
LEMMA FailHandlerTypes ==
    ASSUME RunnerTypes, NEW r \in Runner, pc[r] \in InHand, FailHandler(r)
    PROVE  RunnerTypes'
<1>1. "failing" \in InHand /\ <<>> \in Seq(Task)
  BY DEF InHand
<1> QED BY <1>1, KeepClaimTypes DEF FailHandler

(* A claim in hand is of a row id, for a task. *)
LEMMA ClaimTypes ==
    ASSUME RunnerTypes, NEW r \in Runner, mine[r] # NoClaim
    PROVE  /\ mine[r] \in Claimed
           /\ mine[r].id \in JobId /\ mine[r].task \in Task /\ mine[r].attempts \in Nat
BY DEF RunnerTypes, Claimed

(* Enqueueing, at each of its statements. *)
LEMMA EnqueueErrorTypes ==
    ASSUME TypeInv, NEW r \in Runner, EnqueueError(r)
    PROVE  RunnerTypes'
<1>1. CASE pc[r] = "ensuring" /\ Forget(r, "down")
  BY <1>1, ForgetTypes DEF TypeInv
<1>2. CASE pc[r] = "working" /\ FailHandler(r)
  BY <1>2, FailHandlerTypes DEF TypeInv, InHand
<1>3. CASE pc[r] = "working" /\ GoTo(r, "working", mine[r], <<>>)
  <2>1. <<>> \in Seq(Task) /\ "working" \in InHand
    BY DEF InHand
  <2> QED BY <1>3, <2>1, KeepClaimTypes DEF TypeInv
<1>4. CASE pc[r] = "burying" /\ Forget(r, "idle")
  BY <1>4, ForgetTypes DEF TypeInv
<1> QED BY <1>1, <1>2, <1>3, <1>4 DEF EnqueueError

(* The steps of create_if_absent_active keep the table and the runners typed. *)
LEMMA EnqueueTypes ==
    ASSUME TypeInv, NEW r \in Runner, Enqueue(r)
    PROVE  TypeInv'
<1>0. enq[r] # "none" => /\ Head(todo[r]) \in Task
                         /\ Tail(todo[r]) \in Seq(Task)
  BY HeadTailProperties DEF TypeInv, RunnerTypes
<1>1. CASE BeginEnqueue(r)
  BY <1>1 DEF BeginEnqueue, queueVars, TypeInv, TableTypes, RunnerTypes, EnqStep
<1>2. CASE InsertJob(r)
  <2>1. RunnerTypes'
    BY <1>0, <1>2 DEF InsertJob, TypeInv, RunnerTypes, EnqStep
  <2>2. NewRow(Head(todo[r])) \in Row /\ NewRow(Head(todo[r])).status = "pending"
        /\ NewRow(Head(todo[r])).task \in Task /\ NewRow(Head(todo[r])).locked_by = NoRunner
    BY <1>0, <1>2 DEF InsertJob, NewRow, Row, Status
  <2>3. TableTypes'
    BY <1>2, <2>2 DEF InsertJob, TypeInv, TableTypes, queueVars, EnterDue
  <2> QED BY <2>1, <2>3 DEF TypeInv
<1>3. CASE InsertConflict(r)
  BY <1>3 DEF InsertConflict, queueVars, TypeInv, TableTypes, RunnerTypes, EnqStep
<1>4. CASE LookupActive(r)
  BY <1>0, <1>4 DEF LookupActive, queueVars, TypeInv, TableTypes, RunnerTypes, EnqStep
<1>5. CASE ReinsertConflict(r)
  <2>1. RunnerTypes'
    BY <1>5, EnqueueErrorTypes DEF ReinsertConflict
  <2> QED BY <1>5, <2>1 DEF ReinsertConflict, EnqueueError, queueVars, TypeInv, TableTypes
<1> QED BY <1>1, <1>2, <1>3, <1>4, <1>5 DEF Enqueue

(* A settlement writes rows of the table's type. *)
LEMMA LeaveDueTypes ==
    ASSUME NEW S \in SUBSET JobId, due \in SUBSET JobId,
           ahead \in [JobId -> SUBSET JobId], LeaveDue(S)
    PROVE  due' \in SUBSET JobId /\ ahead' \in [JobId -> SUBSET JobId]
BY DEF LeaveDue

(* Releasing a row keeps the table's types. *)
LEMMA ReleaseTypes ==
    ASSUME TableTypes, NEW j \in JobId, NEW st \in Status \ {"running"}, NEW a \in Nat,
           jobs[j].status = "running", Release(j, st, a), UNCHANGED faults
    PROVE  TableTypes'
<1>1. /\ Released(jobs[j], st, a) \in Row
      /\ Released(jobs[j], st, a).task = jobs[j].task
      /\ Released(jobs[j], st, a).status = st
      /\ Released(jobs[j], st, a).locked_by = NoRunner
  BY DEF Released, TableTypes, Row
<1>2. jobs' = [jobs EXCEPT ![j] = Released(jobs[j], st, a)]
  BY DEF Release, TableTypes
<1>3. due' \in SUBSET JobId /\ ahead' \in [JobId -> SUBSET JobId]
  BY LeaveDueTypes DEF Release, TableTypes
<1> QED BY <1>1, <1>2, <1>3 DEF TableTypes

(* The row of a claimed job, and one whose lock was touched or ran out. *)
LEMMA LockedRow ==
    ASSUME NEW row \in Row, NEW r \in Runner
    PROVE  /\ Locked(row, r) \in Row
           /\ Locked(row, r).task = row.task
           /\ Locked(row, r).status = "running"
           /\ Locked(row, r).locked_by = r
           /\ Locked(row, r).attempts = row.attempts + 1
           /\ Locked(row, r).stale = FALSE
BY DEF Locked, Row, Status

(* Ageing or touching a lock leaves every other column alone. *)
LEMMA AgedRow ==
    ASSUME NEW row \in Row, NEW b \in BOOLEAN
    PROVE  /\ Aged(row, b) \in Row
           /\ Aged(row, b).task = row.task
           /\ Aged(row, b).status = row.status
           /\ Aged(row, b).locked_by = row.locked_by
           /\ Aged(row, b).attempts = row.attempts
           /\ Aged(row, b).stale = b
BY DEF Aged, Row

(* Settlements. *)
LEMMA SettleTypes ==
    ASSUME TypeInv, NEW r \in Runner, Settle(r)
    PROVE  TypeInv'
<1>0. OwnsRow(r) => /\ mine[r].id \in JobId /\ jobs[mine[r].id].status = "running"
                    /\ jobs[mine[r].id].attempts \in Nat /\ mine[r].attempts \in Nat
                    /\ mine[r].task \in Task
  BY ClaimTypes DEF OwnsRow, TypeInv, TableTypes, Row
<1>1. CASE Succeed(r)
  <2>1. RunnerTypes'
    BY <1>1, ForgetTypes DEF Succeed, TypeInv
  <2>2. TableTypes'
    BY <1>0, <1>1, ReleaseTypes DEF Succeed, Status, queueVars, TypeInv, TableTypes
  <2> QED BY <2>1, <2>2 DEF TypeInv
<1>2. CASE Retry(r)
  <2>1. RunnerTypes'
    BY <1>2, ForgetTypes DEF Retry, TypeInv
  <2>2. TableTypes'
    BY <1>0, <1>2, ReleaseTypes DEF Retry, Status, queueVars, TypeInv, TableTypes
  <2> QED BY <2>1, <2>2 DEF TypeInv
<1>3. CASE MarkDead(r)
  <2>1. pc[r] \in InHand /\ "burying" \in InHand
    BY <1>3 DEF MarkDead, InHand
  <2>2. CASE OwnsRow(r)
    <3>1. TableTypes'
      BY <1>0, <1>3, <2>2, ReleaseTypes DEF MarkDead, Status, TypeInv
    <3>2. RunnerTypes'
      BY <1>0, <1>3, <2>1, <2>2, PlansAreTasks, KeepClaimTypes DEF MarkDead, TypeInv
    <3> QED BY <3>1, <3>2 DEF TypeInv
  <2>3. CASE ~OwnsRow(r)
    BY <1>3, <2>3, ForgetTypes DEF MarkDead, queueVars, TypeInv, TableTypes
  <2> QED BY <2>2, <2>3
<1>4. CASE Buried(r)
  BY <1>4, ForgetTypes DEF Buried, queueVars, TypeInv, TableTypes
<1> QED BY <1>1, <1>2, <1>3, <1>4 DEF Settle

(* The rest of a runner's loop. *)
LEMMA RunnerNextTypes ==
    ASSUME TypeInv, NEW r \in Runner, RunnerNext(r)
    PROVE  TypeInv'
<1>1. CASE Start(r)
  <2>1. RunnerTypes'
    <3>1. "ensuring" \in RunnerStep /\ "ensuring" \notin InHand
      BY DEF RunnerStep, InHand
    <3> QED BY <1>1, <3>1, TasksOfSweeps, GoToTypes DEF Start, TypeInv
  <2> QED BY <1>1, <2>1 DEF Start, queueVars, TypeInv, TableTypes
<1>2. CASE EnsureSweep(r)
  <2>1. Tail(todo[r]) \in Seq(Task)
    BY <1>2, HeadTailProperties DEF EnsureSweep, TypeInv, RunnerTypes
  <2>2. RunnerTypes'
    BY <1>2, <2>1 DEF EnsureSweep, TypeInv, RunnerTypes, EnqStep
  <2> QED BY <1>2, <2>2 DEF EnsureSweep, queueVars, TypeInv, TableTypes
<1>3. CASE BeginPolling(r)
  BY <1>3, ForgetTypes DEF BeginPolling, queueVars, TypeInv, TableTypes
<1>4. CASE Claim(r)
  <2>1. PICK j \in JobId :
          /\ NextClaim(j)
          /\ jobs' = [jobs EXCEPT ![j] = Locked(jobs[j], r)]
          /\ GoTo(r, "claimed", [id |-> j, task |-> jobs[j].task,
                                 attempts |-> jobs[j].attempts + 1], <<>>)
    BY <1>4 DEF Claim
  <2>2. jobs[j].task \in Task /\ jobs[j].attempts \in Nat
    BY <2>1 DEF NextClaim, Claimable, TypeInv, TableTypes, Row
  <2> DEFINE m == [id |-> j, task |-> jobs[j].task, attempts |-> jobs[j].attempts + 1]
  <2>3. m \in Claimed /\ m # NoClaim
    BY <2>2, NullAssumption DEF Claimed, NoClaim
  <2>4. RunnerTypes'
    <3>1. "claimed" \in RunnerStep /\ "claimed" \in InHand /\ <<>> \in Seq(Task)
      BY DEF RunnerStep, InHand
    <3> QED BY <2>1, <2>3, <3>1, GoToTypes DEF TypeInv
  <2>5. /\ Locked(jobs[j], r) \in Row
        /\ Locked(jobs[j], r).task \in Task
        /\ Locked(jobs[j], r).status = "running"
        /\ Locked(jobs[j], r).locked_by # NoRunner
    <3>1. jobs[j] \in Row /\ r # NoRunner
      BY NullAssumption DEF TypeInv, TableTypes
    <3> QED BY <2>2, <3>1, LockedRow
  <2>6. TableTypes'
    BY <1>4, <2>1, <2>5 DEF Claim, queueVars, TypeInv, TableTypes
  <2> QED BY <2>4, <2>6 DEF TypeInv
<1>5. CASE BeginWork(r)
  <2>1. pc[r] \in InHand /\ "working" \in InHand
    BY <1>5 DEF BeginWork, InHand
  <2>2. \A ts \in Plans(mine[r].task) : ts \in Seq(Task)
    BY <2>1, ClaimTypes, PlansAreTasks DEF TypeInv, RunnerTypes
  <2>3. RunnerTypes'
    BY <1>5, <2>1, <2>2, KeepClaimTypes DEF BeginWork, TypeInv
  <2> QED BY <1>5, <2>3 DEF BeginWork, queueVars, TypeInv, TableTypes
<1>6. CASE Heartbeat(r)
  <2>1. pc[r] \in InHand
    BY <1>6 DEF Heartbeat, InHand
  <2>2. CASE OwnsRow(r)
    <3>1. mine[r].id \in JobId
      BY <2>2, ClaimTypes DEF OwnsRow, TypeInv
    <3>2. jobs[mine[r].id] \in Row /\ jobs' = [jobs EXCEPT ![mine[r].id] = Aged(jobs[mine[r].id], FALSE)]
      BY <1>6, <2>2, <3>1 DEF Heartbeat, TypeInv, TableTypes
    <3>3. UNCHANGED <<due, ahead, faults>>
      BY <1>6 DEF Heartbeat, queueVars
    <3>4. Aged(jobs[mine[r].id], FALSE) \in Row
          /\ Aged(jobs[mine[r].id], FALSE).task = jobs[mine[r].id].task
          /\ Aged(jobs[mine[r].id], FALSE).status = jobs[mine[r].id].status
          /\ Aged(jobs[mine[r].id], FALSE).locked_by = jobs[mine[r].id].locked_by
      BY <3>2, AgedRow
    <3>5. TableTypes'
      BY <3>1, <3>2, <3>3, <3>4 DEF TypeInv, TableTypes
    <3> QED BY <1>6, <2>2, <3>5 DEF Heartbeat, runnerVars, TypeInv, RunnerTypes
  <2>3. CASE ~OwnsRow(r)
    BY <1>6, <2>1, <2>3, FailHandlerTypes DEF Heartbeat, queueVars, TypeInv, TableTypes
  <2> QED BY <2>2, <2>3
<1>7. CASE HandlerFails(r)
  <2>1. pc[r] \in InHand
    BY <1>7 DEF HandlerFails, InHand
  <2> QED BY <1>7, <2>1, FailHandlerTypes DEF HandlerFails, queueVars, TypeInv, TableTypes
<1> QED BY <1>1, <1>2, <1>3, <1>4, <1>5, <1>6, <1>7, EnqueueTypes, SettleTypes DEF RunnerNext

(* Faults, the HTTP side, and time. *)
LEMMA FaultyTypes ==
    ASSUME TypeInv, NEW r \in Runner, Faulty(r)
    PROVE  TypeInv'
<1>1. \A k \in FaultKind : Fault(k) => faults' \in [FaultKind -> Nat]
  BY DEF Fault, TypeInv, TableTypes
<1>2. CASE EnqueueDbError(r)
  <2>1. RunnerTypes'
    BY <1>2, EnqueueErrorTypes DEF EnqueueDbError
  <2> QED BY <1>1, <1>2, <2>1 DEF EnqueueDbError, EnqueueError, queueVars, FaultKind, TypeInv, TableTypes
<1>3. CASE SettleDbError(r)
  BY <1>1, <1>3, ForgetTypes DEF SettleDbError, queueVars, FaultKind, TypeInv, TableTypes
<1>4. CASE Crash(r)
  BY <1>1, <1>4, ForgetTypes DEF Crash, queueVars, FaultKind, TypeInv, TableTypes
<1> QED BY <1>2, <1>3, <1>4 DEF Faulty

(* So do the HTTP side's insert and the purge of a clip's jobs. *)
LEMMA ExternalTypes == ASSUME TypeInv, External PROVE TypeInv'
<1>1. ASSUME NEW t \in ClipTask, FinalizeInsert(t) PROVE TypeInv'
  <2>1. NewRow(t) \in Row /\ NewRow(t).task \in Task
        /\ NewRow(t).status = "pending" /\ NewRow(t).locked_by = NoRunner
    BY DEF NewRow, Row, Status, Task
  <2>2. TableTypes'
    BY <1>1, <2>1 DEF FinalizeInsert, EnterDue, TypeInv, TableTypes
  <2> QED BY <1>1, <2>2 DEF FinalizeInsert, runnerVars, TypeInv, RunnerTypes
<1>2. ASSUME NEW c \in Clip, DeleteForClip(c) PROVE TypeInv'
  <2> DEFINE gone == {j \in JobId : jobs[j].task.clip = c /\ jobs[j].status # "absent"}
  <2>1. /\ jobs' = [j \in JobId |-> IF j \in gone THEN NoRow ELSE jobs[j]]
        /\ LeaveDue(gone) /\ UNCHANGED <<runnerVars, faults>>
    BY <1>2 DEF DeleteForClip
  <2>2. due' \in SUBSET JobId /\ ahead' \in [JobId -> SUBSET JobId]
    BY <2>1, LeaveDueTypes DEF TypeInv, TableTypes
  <2>3. NoRow \in Row /\ NoRow.status = "absent" /\ NoRow.locked_by = NoRunner
    BY DEF NoRow, Row, Status
  <2>4. TableTypes'
    BY <2>1, <2>2, <2>3 DEF TypeInv, TableTypes
  <2> QED BY <2>1, <2>4 DEF runnerVars, TypeInv, RunnerTypes
<1> QED BY <1>1, <1>2 DEF External

(* So does the passing of time. *)
LEMMA TimeTypes == ASSUME TypeInv, TimePasses PROVE TypeInv'
<1>1. ASSUME NEW j \in JobId, BecomesDue(j) PROVE TypeInv'
  BY <1>1 DEF BecomesDue, EnterDue, runnerVars, TypeInv, TableTypes, RunnerTypes
<1>2. ASSUME NEW j \in JobId, LockExpires(j) PROVE TypeInv'
  <2>1. faults' \in [FaultKind -> Nat]
    BY <1>2 DEF LockExpires, Fault, FaultKind, TypeInv, TableTypes
  <2>2. TableTypes'
    BY <1>2, <2>1, AgedRow DEF LockExpires, queueVars, TypeInv, TableTypes
  <2> QED BY <1>2, <2>2 DEF LockExpires, runnerVars, TypeInv, RunnerTypes
<1> QED BY <1>1, <1>2 DEF TimePasses

(* Every step of the queue keeps the types. *)
LEMMA TypeInvNext == TypeInv /\ [Next]_vars => TypeInv'
<1>1. ASSUME TypeInv, UNCHANGED vars PROVE TypeInv'
  BY <1>1 DEF vars, TypeInv, TableTypes, RunnerTypes
<1> QED BY <1>1, RunnerNextTypes, FaultyTypes, ExternalTypes, TimeTypes DEF Next

(* In every behaviour of the queue the state has its type: a runner never     *)
(* reaches a step without the claim that step uses, an enqueue is never in  *)
(* flight for nothing, and exactly the running rows carry a lock.           *)
THEOREM TypeCorrect == Spec => []TypeOK
<1>1. Spec => []TypeInv
  BY TypeInvInit, TypeInvNext, PTL DEF Spec
<1>2. TypeInv => TypeOK
  BY DEF TypeInv, TableTypes, RunnerTypes, TypeOK
<1> QED BY <1>1, <1>2, PTL

-----------------------------------------------------------------------------
(* What a step does to rows and claims.  The invariants below do not see the   *)
(* enqueue statements or the order of due rows, so the actions fall into    *)
(* seven shapes.                                                           *)

FaultsGrow == \A k \in FaultKind : faults'[k] >= faults[k]

(* No row and no claim changes; runners move, between steps with no claim or  *)
(* on with the claim they have.                                            *)
Quiet ==
    /\ UNCHANGED <<jobs, mine>> /\ FaultsGrow
    /\ \A s \in Runner : \/ pc'[s] = pc[s]
                         \/ pc[s] \notin InHand /\ pc'[s] \notin InHand
                         \/ pc[s] \in {"claimed", "working"} /\ pc'[s] \in {"working", "failing"}

(* Runner r gives up its claim.  When its lock still stood, that is a fault or *)
(* a refused retry.                                                        *)
Drops(r) ==
    /\ UNCHANGED jobs /\ FaultsGrow
    /\ mine' = [mine EXCEPT ![r] = NoClaim]
    /\ pc'[r] \notin InHand /\ \A s \in Runner \ {r} : pc'[s] = pc[s]
    /\ OwnsRow(r) => FaultCount' > FaultCount \/ mine[r].attempts < MaxAttempts

Inserts(j, t) ==
    /\ Free(j) /\ ~Conflicts(t)
    /\ jobs' = [jobs EXCEPT ![j] = NewRow(t)]
    /\ UNCHANGED <<mine, pc, faults>>

Claims(r, j) ==
    /\ pc[r] = "idle" /\ Claimable(j)
    /\ jobs' = [jobs EXCEPT ![j] = Locked(jobs[j], r)]
    /\ mine' = [mine EXCEPT ![r] = [id |-> j, task |-> jobs[j].task,
                                    attempts |-> jobs[j].attempts + 1]]
    /\ pc' = [pc EXCEPT ![r] = "claimed"]
    /\ UNCHANGED faults

(* A lock is touched by its holder, or ages: under its holder only by a stall. *)
Ages(j, b) ==
    /\ jobs[j].status = "running"
    /\ jobs' = [jobs EXCEPT ![j] = Aged(jobs[j], b)]
    /\ UNCHANGED <<mine, pc>> /\ FaultsGrow
    /\ \/ ~b /\ \E r \in Runner : mine[r].id = j /\ OwnsRow(r)
       \/ b /\ ~\E r \in Runner : mine[r].id = j /\ OwnsRow(r)
       \/ b /\ faults'["stall"] > faults["stall"] /\ FaultCount' > FaultCount

(* The owner of a row settles it: back to pending with attempts left, done    *)
(* with, or dead with none left and the burial still to do.                 *)
Releases(r, st, a) ==
    /\ OwnsRow(r) /\ UNCHANGED faults
    /\ jobs' = [jobs EXCEPT ![mine[r].id] = Released(jobs[mine[r].id], st, a)]
    /\ \/ /\ st = "dead" /\ a = mine[r].attempts /\ a >= MaxAttempts
          /\ UNCHANGED mine /\ pc' = [pc EXCEPT ![r] = "burying"]
       \/ /\ \/ st = "succeeded" /\ a = jobs[mine[r].id].attempts
             \/ st = "pending" /\ a = mine[r].attempts /\ a < MaxAttempts /\ ~RetryRefused(r)
          /\ mine' = [mine EXCEPT ![r] = NoClaim]
          /\ pc' = [pc EXCEPT ![r] = "idle"]

Purges(c) ==
    /\ jobs' = [j \in JobId |-> IF jobs[j].task.clip = c /\ jobs[j].status # "absent"
                                  THEN NoRow ELSE jobs[j]]
    /\ UNCHANGED <<mine, pc, faults>>

Step == \/ Quiet
        \/ \E r \in Runner : Drops(r)
        \/ \E j \in JobId, t \in Task : Inserts(j, t)
        \/ \E r \in Runner, j \in JobId : Claims(r, j)
        \/ \E j \in JobId, b \in BOOLEAN : Ages(j, b)
        \/ \E r \in Runner, st \in {"dead", "succeeded", "pending"}, a \in Nat : Releases(r, st, a)
        \/ \E c \in Clip : Purges(c)

(* Forgetting a claim is a Drops. *)
LEMMA ForgetDrops ==
    ASSUME TypeInv, NEW r \in Runner, NEW p \in {"down", "idle"}, Forget(r, p),
           UNCHANGED jobs, FaultsGrow,
           OwnsRow(r) => FaultCount' > FaultCount \/ mine[r].attempts < MaxAttempts
    PROVE  Step
<1>1. Drops(r)
  BY DEF Forget, GoTo, Drops, InHand, TypeInv, RunnerTypes
<1> QED BY <1>1 DEF Step

(* Going on with a claim, or moving without one, is Quiet. *)
LEMMA GoToQuiet ==
    ASSUME TypeInv, NEW r \in Runner, NEW p \in RunnerStep, NEW ts,
           GoTo(r, p, mine[r], ts), UNCHANGED jobs, FaultsGrow,
           \/ pc[r] \notin InHand /\ p \notin InHand
           \/ pc[r] \in {"claimed", "working"} /\ p \in {"working", "failing"}
    PROVE  Step
BY DEF GoTo, Quiet, Step, TypeInv, RunnerTypes

(* A fault adds to the count. *)
LEMMA FaultAdds ==
    ASSUME TypeInv, NEW k \in FaultKind, Fault(k)
    PROVE  FaultsGrow /\ FaultCount' > FaultCount /\ faults'[k] > faults[k]
BY DEF Fault, FaultsGrow, FaultCount, FaultKind, TypeInv, TableTypes

(* A step that counts no fault loses none. *)
LEMMA NoFault == ASSUME TypeInv, UNCHANGED faults PROVE FaultsGrow
BY DEF FaultsGrow, TypeInv, TableTypes

(* An enqueue that fails. *)
LEMMA EnqueueErrorStep ==
    ASSUME TypeInv, NEW r \in Runner, EnqueueError(r), FaultsGrow,
           pc[r] = "burying" => ~OwnsRow(r)
    PROVE  Step
<1>0. UNCHANGED jobs
  BY DEF EnqueueError
<1>1. CASE pc[r] = "ensuring" /\ Forget(r, "down")
  <2>1. ~OwnsRow(r)
    BY <1>1 DEF OwnsRow, InHand, TypeInv, RunnerTypes
  <2> QED BY <1>0, <1>1, <2>1, ForgetDrops
<1>2. CASE pc[r] = "working" /\ FailHandler(r)
  BY <1>0, <1>2, GoToQuiet DEF FailHandler, RunnerStep
<1>3. CASE pc[r] = "working" /\ GoTo(r, "working", mine[r], <<>>)
  BY <1>0, <1>3, GoToQuiet DEF RunnerStep
<1>4. CASE pc[r] = "burying" /\ Forget(r, "idle")
  BY <1>0, <1>4, ForgetDrops
<1> QED BY <1>1, <1>2, <1>3, <1>4 DEF EnqueueError

(* The first half of the invariant, on which the classification rests: a      *)
(* runner buries only what is dead, or was purged since.                    *)
BuriesTheDead ==
    \A r \in Runner : pc[r] = "burying" => jobs[mine[r].id].status \in {"dead", "absent"}

(* Every step of the queue has one of the shapes. *)
LEMMA EnqueueStep ==
    ASSUME TypeInv, BuriesTheDead, NEW r \in Runner, Enqueue(r)
    PROVE  Step
<1>1. CASE \/ BeginEnqueue(r) \/ InsertConflict(r) \/ LookupActive(r)
  BY <1>1, NoFault DEF BeginEnqueue, InsertConflict, LookupActive, Step, Quiet
<1>2. CASE InsertJob(r)
  <2>1. Head(todo[r]) \in Task
    BY <1>2, HeadTailProperties DEF InsertJob, TypeInv, RunnerTypes
  <2>2. PICK j \in JobId : Free(j) /\ jobs' = [jobs EXCEPT ![j] = NewRow(Head(todo[r]))]
    BY <1>2 DEF InsertJob
  <2>3. Inserts(j, Head(todo[r]))
    BY <1>2, <2>2 DEF InsertJob, Inserts
  <2> QED BY <2>1, <2>3 DEF Step
<1>3. CASE ReinsertConflict(r)
  <2>1. pc[r] = "burying" => ~OwnsRow(r)
    BY DEF BuriesTheDead, OwnsRow
  <2> QED BY <1>3, <2>1, NoFault, EnqueueErrorStep DEF ReinsertConflict
<1> QED BY <1>1, <1>2, <1>3 DEF Enqueue

(* Every settling step has one of the seven shapes. *)
LEMMA SettleStep ==
    ASSUME TypeInv, BuriesTheDead, NEW r \in Runner, Settle(r)
    PROVE  Step
<1>0. FaultsGrow /\ UNCHANGED faults
  BY NoFault DEF Settle, Succeed, Retry, MarkDead, Buried
<1>a. OwnsRow(r) => /\ mine[r].id \in JobId /\ jobs[mine[r].id].attempts \in Nat
                    /\ mine[r].attempts \in Nat
  BY ClaimTypes DEF OwnsRow, TypeInv, TableTypes, Row
<1>b. Forget(r, "idle") => mine' = [mine EXCEPT ![r] = NoClaim] /\ pc' = [pc EXCEPT ![r] = "idle"]
  BY DEF Forget, GoTo
<1>1. CASE Succeed(r) /\ OwnsRow(r)
  <2>1. Releases(r, "succeeded", jobs[mine[r].id].attempts)
    BY <1>0, <1>1, <1>a, <1>b DEF Succeed, Release, Releases
  <2> QED BY <1>1, <1>a, <2>1 DEF Step
<1>2. CASE Retry(r) /\ OwnsRow(r) /\ ~RetryRefused(r)
  <2>1. Releases(r, "pending", mine[r].attempts)
    BY <1>0, <1>2, <1>a, <1>b, BoundAssumption DEF Retry, Exhausted, Release, Releases
  <2> QED BY <1>2, <1>a, <2>1 DEF Step
<1>3. CASE Retry(r) /\ OwnsRow(r) /\ RetryRefused(r)
  <2>1. mine[r].attempts < MaxAttempts
    BY <1>3, <1>a, BoundAssumption DEF Retry, Exhausted
  <2> QED BY <1>0, <1>3, <2>1, ForgetDrops DEF Retry
<1>4. CASE MarkDead(r) /\ OwnsRow(r)
  <2>1. mine[r].attempts >= MaxAttempts
    BY <1>4, <1>a, BoundAssumption DEF MarkDead, Exhausted
  <2>2. UNCHANGED mine /\ pc' = [pc EXCEPT ![r] = "burying"]
    BY <1>4 DEF MarkDead, GoTo, TypeInv, RunnerTypes
  <2>3. Releases(r, "dead", mine[r].attempts)
    BY <1>0, <1>4, <2>1, <2>2 DEF MarkDead, Release, Releases
  <2> QED BY <1>4, <1>a, <2>3 DEF Step
<1>5. CASE ~OwnsRow(r) /\ (Succeed(r) \/ Retry(r) \/ MarkDead(r))
  BY <1>0, <1>5, ForgetDrops DEF Succeed, Retry, MarkDead
<1>6. CASE Buried(r)
  <2>1. ~OwnsRow(r)
    BY <1>6 DEF Buried, BuriesTheDead, OwnsRow
  <2> QED BY <1>0, <1>6, <2>1, ForgetDrops DEF Buried
<1> QED BY <1>1, <1>2, <1>3, <1>4, <1>5, <1>6 DEF Settle

(* So has every step of a runner ... *)
LEMMA RunnerNextStep ==
    ASSUME TypeInv, BuriesTheDead, NEW r \in Runner, RunnerNext(r)
    PROVE  Step
<1>a. mine[r] = NoClaim => ~OwnsRow(r)
  BY DEF OwnsRow
<1>b. pc[r] \notin InHand => mine[r] = NoClaim
  BY DEF TypeInv, RunnerTypes
<1>1. CASE Start(r)
  <2>1. mine[r] = NoClaim /\ pc[r] \notin InHand /\ "ensuring" \notin InHand
    BY <1>1, <1>b DEF Start, InHand
  <2> QED BY <1>1, <2>1, NoFault, GoToQuiet DEF Start, RunnerStep
<1>2. CASE EnsureSweep(r)
  BY <1>2, NoFault DEF EnsureSweep, Step, Quiet
<1>3. CASE BeginPolling(r)
  <2>1. mine[r] = NoClaim
    BY <1>3, <1>b DEF BeginPolling, InHand
  <2> QED BY <1>3, <1>a, <2>1, NoFault, ForgetDrops DEF BeginPolling
<1>4. CASE Claim(r)
  <2>1. PICK j \in JobId :
          /\ NextClaim(j)
          /\ jobs' = [jobs EXCEPT ![j] = Locked(jobs[j], r)]
          /\ GoTo(r, "claimed", [id |-> j, task |-> jobs[j].task,
                                 attempts |-> jobs[j].attempts + 1], <<>>)
    BY <1>4 DEF Claim
  <2>2. Claims(r, j)
    BY <1>4, <2>1 DEF Claim, Claims, NextClaim, GoTo
  <2> QED BY <2>2 DEF Step
<1>5. CASE BeginWork(r)
  BY <1>5, NoFault, GoToQuiet DEF BeginWork, RunnerStep
<1>6. CASE Heartbeat(r)
  <2>1. CASE OwnsRow(r)
    <3>1. mine[r].id \in JobId /\ jobs[mine[r].id].status = "running"
      BY <2>1, ClaimTypes DEF OwnsRow, TypeInv
    <3>2. Ages(mine[r].id, FALSE)
      BY <1>6, <2>1, <3>1, NoFault DEF Heartbeat, Ages, runnerVars, TypeInv, TableTypes
    <3> QED BY <3>1, <3>2 DEF Step
  <2>2. CASE ~OwnsRow(r)
    BY <1>6, <2>2, NoFault, GoToQuiet DEF Heartbeat, FailHandler, RunnerStep
  <2> QED BY <2>1, <2>2
<1>7. CASE HandlerFails(r)
  BY <1>7, NoFault, GoToQuiet DEF HandlerFails, FailHandler, RunnerStep
<1> QED BY <1>1, <1>2, <1>3, <1>4, <1>5, <1>6, <1>7, EnqueueStep, SettleStep DEF RunnerNext

(* ... and every step of the system. *)
LEMMA NextStep ==
    ASSUME TypeInv, BuriesTheDead, [Next]_vars
    PROVE  Step
<1>1. CASE UNCHANGED vars
  BY <1>1, NoFault DEF vars, Step, Quiet
<1>2. ASSUME NEW r \in Runner, Faulty(r) PROVE Step
  <2>1. CASE EnqueueDbError(r)
    <3>1. pc[r] = "burying" => ~OwnsRow(r)
      BY DEF BuriesTheDead, OwnsRow
    <3> QED BY <2>1, <3>1, FaultAdds, EnqueueErrorStep DEF EnqueueDbError, FaultKind
  <2>2. CASE SettleDbError(r)
    BY <2>2, FaultAdds, ForgetDrops DEF SettleDbError, FaultKind
  <2>3. CASE Crash(r)
    BY <2>3, FaultAdds, ForgetDrops DEF Crash, FaultKind
  <2> QED BY <1>2, <2>1, <2>2, <2>3 DEF Faulty
<1>3. CASE External
  <2>1. ASSUME NEW t \in ClipTask, FinalizeInsert(t) PROVE Step
    <3>1. t \in Task
      BY DEF Task
    <3>2. PICK j \in JobId : Free(j) /\ jobs' = [jobs EXCEPT ![j] = NewRow(t)]
      BY <2>1 DEF FinalizeInsert
    <3>3. Inserts(j, t)
      BY <2>1, <3>2 DEF FinalizeInsert, Inserts, runnerVars
    <3> QED BY <3>1, <3>3 DEF Step
  <2>2. ASSUME NEW c \in Clip, DeleteForClip(c) PROVE Purges(c)
    BY <2>2 DEF DeleteForClip, Purges, runnerVars
  <2> QED BY <1>3, <2>1, <2>2 DEF External, Step
<1>4. CASE TimePasses
  <2>1. ASSUME NEW j \in JobId, BecomesDue(j) PROVE Step
    BY <2>1, NoFault DEF BecomesDue, runnerVars, Step, Quiet
  <2>2. ASSUME NEW j \in JobId, LockExpires(j) PROVE Ages(j, TRUE)
    <3>1. jobs' = [jobs EXCEPT ![j] = Aged(jobs[j], TRUE)] /\ UNCHANGED <<mine, pc>>
      BY <2>2 DEF LockExpires, runnerVars, TypeInv, TableTypes
    <3> QED BY <2>2, <3>1, NoFault, FaultAdds DEF LockExpires, Ages, FaultKind
  <2> QED BY <1>4, <2>1, <2>2 DEF TimePasses, Step
<1> QED BY <1>1, <1>2, <1>3, <1>4, RunnerNextStep DEF Next

-----------------------------------------------------------------------------
(* Facts about the rows a step writes *)

(* A released row has no lock and keeps its task. *)
LEMMA ReleasedRow ==
    ASSUME NEW row \in Row, NEW st, NEW a
    PROVE  /\ Released(row, st, a).task = row.task
           /\ Released(row, st, a).status = st
           /\ Released(row, st, a).locked_by = NoRunner
           /\ Released(row, st, a).attempts = a
BY DEF Released, Row

(* A new row is pending, unlocked and unattempted. *)
LEMMA NewRowFields ==
    ASSUME NEW t
    PROVE  /\ NewRow(t).task = t /\ NewRow(t).status = "pending"
           /\ NewRow(t).attempts = 0 /\ NewRow(t).locked_by = NoRunner
           /\ NoRow.status = "absent"
BY DEF NewRow, NoRow

-----------------------------------------------------------------------------
(* Locks *)

LockInv == BuriesTheDead /\ LockIsLatestClaim

(* No runner holds a claim at first. *)
LEMMA LockInvInit == Init => LockInv
BY DEF Init, LockInv, BuriesTheDead, LockIsLatestClaim, OwnsRow

(* An owner's claim and its row agree after every shape of step: a claim by    *)
(* another runner renames the lock, a settlement takes it away, and no new  *)
(* row takes the id of a row some runner remembers.                         *)
LEMMA LockInvNext ==
    ASSUME TypeInv, LockInv, Step
    PROVE  LockInv'
<1>0. /\ jobs \in [JobId -> Row] /\ mine \in [Runner -> Claimed \cup {NoClaim}]
      /\ pc \in [Runner -> RunnerStep]
      /\ \A r \in Runner : mine[r] # NoClaim <=> pc[r] \in InHand
      /\ \A r \in Runner : mine[r] # NoClaim => mine[r].id \in JobId
      /\ \A j \in JobId : jobs[j] \in Row
  BY DEF TypeInv, TableTypes, RunnerTypes, Claimed
<1>1. CASE Quiet
  BY <1>0, <1>1 DEF Quiet, LockInv, BuriesTheDead, LockIsLatestClaim, OwnsRow, InHand
<1>2. ASSUME NEW r \in Runner, Drops(r) PROVE LockInv'
  BY <1>0, <1>2 DEF Drops, LockInv, BuriesTheDead, LockIsLatestClaim, OwnsRow, InHand
<1>3. ASSUME NEW j \in JobId, NEW t \in Task, Inserts(j, t) PROVE LockInv'
  <2>1. \A r \in Runner : mine[r].id # j
    BY <1>3 DEF Inserts, Free
  <2> QED BY <1>0, <1>3, <2>1 DEF Inserts, LockInv, BuriesTheDead, LockIsLatestClaim, OwnsRow, InHand
<1>4. ASSUME NEW r \in Runner, NEW j \in JobId, Claims(r, j) PROVE LockInv'
  <2> DEFINE m == [id |-> j, task |-> jobs[j].task, attempts |-> jobs[j].attempts + 1]
  <2>1. /\ Locked(jobs[j], r).status = "running" /\ Locked(jobs[j], r).locked_by = r
        /\ Locked(jobs[j], r).task = m.task /\ Locked(jobs[j], r).attempts = m.attempts
    BY <1>0, LockedRow
  <2>2. jobs[j].status \in {"pending", "running"}
    BY <1>4 DEF Claims, Claimable
  <2>3. \A s \in Runner : /\ s # r => mine'[s] = mine[s] /\ pc'[s] = pc[s]
                         /\ mine'[r] = m /\ pc'[r] = "claimed"
    BY <1>0, <1>4 DEF Claims
  <2>4. \A i \in JobId : jobs'[i] = IF i = j THEN Locked(jobs[j], r) ELSE jobs[i]
    BY <1>0, <1>4 DEF Claims
  <2>5. BuriesTheDead'
    BY <1>0, <2>2, <2>3, <2>4 DEF LockInv, BuriesTheDead, InHand
  <2>6. ASSUME NEW s \in Runner, OwnsRow(s)'
        PROVE  /\ pc'[s] \in {"claimed", "working", "failing"}
               /\ jobs'[mine'[s].id].attempts = mine'[s].attempts
               /\ jobs'[mine'[s].id].task = mine'[s].task
    <3>1. CASE s = r
      BY <2>1, <2>3, <2>4, <3>1
    <3>2. CASE s # r
      <4>1. mine'[s] = mine[s] /\ pc'[s] = pc[s] /\ mine[s].id \in JobId
        BY <1>0, <2>3, <2>6, <3>2 DEF OwnsRow
      <4>2. mine[s].id # j
        BY <2>1, <2>4, <2>6, <3>2, <4>1 DEF OwnsRow
      <4> QED BY <2>4, <2>6, <4>1, <4>2 DEF OwnsRow, LockInv, LockIsLatestClaim
    <3> QED BY <3>1, <3>2
  <2> QED BY <2>5, <2>6 DEF LockInv, LockIsLatestClaim
<1>5. ASSUME NEW j \in JobId, NEW b \in BOOLEAN, Ages(j, b) PROVE LockInv'
  <2>1. /\ Aged(jobs[j], b).task = jobs[j].task /\ Aged(jobs[j], b).status = jobs[j].status
        /\ Aged(jobs[j], b).locked_by = jobs[j].locked_by
        /\ Aged(jobs[j], b).attempts = jobs[j].attempts
    BY <1>0, AgedRow
  <2> QED BY <1>0, <1>5, <2>1 DEF Ages, LockInv, BuriesTheDead, LockIsLatestClaim, OwnsRow, InHand
<1>6. ASSUME NEW r \in Runner, NEW st \in {"dead", "succeeded", "pending"}, NEW a \in Nat,
             Releases(r, st, a) PROVE LockInv'
  <2> DEFINE j == mine[r].id
             row == Released(jobs[j], st, a)
  <2>1. j \in JobId /\ jobs[j].status = "running" /\ pc[r] \in InHand
    BY <1>0, <1>6 DEF Releases, OwnsRow
  <2>2. row.status = st /\ st # "running"
    BY <1>0, <2>1, ReleasedRow
  <2>3. \A i \in JobId : jobs'[i] = IF i = j THEN row ELSE jobs[i]
    BY <1>0, <1>6, <2>1 DEF Releases
  <2>4. \A s \in Runner \ {r} : mine'[s] = mine[s] /\ pc'[s] = pc[s]
    BY <1>0, <1>6 DEF Releases
  <2>5. \/ mine'[r] = mine[r] /\ pc'[r] = "burying" /\ st = "dead"
        \/ mine'[r] = NoClaim /\ pc'[r] = "idle"
    BY <1>0, <1>6 DEF Releases
  <2>6. BuriesTheDead'
    BY <1>0, <2>1, <2>2, <2>3, <2>4, <2>5 DEF LockInv, BuriesTheDead, InHand
  <2>7. LockIsLatestClaim'
    BY <1>0, <2>1, <2>2, <2>3, <2>4, <2>5 DEF LockInv, LockIsLatestClaim, OwnsRow
  <2> QED BY <2>6, <2>7 DEF LockInv
<1>7. ASSUME NEW c \in Clip, Purges(c) PROVE LockInv'
  BY <1>0, <1>7, NewRowFields DEF Purges, LockInv, BuriesTheDead, LockIsLatestClaim, OwnsRow, InHand
<1> QED BY <1>1, <1>2, <1>3, <1>4, <1>5, <1>6, <1>7 DEF Step

(* The two invariants together, which the action properties rest on too. *)
LEMMA LocksAreSound == Spec => [](TypeInv /\ LockInv)
<1>1. TypeInv /\ LockInv /\ [Next]_vars => (TypeInv /\ LockInv)'
  BY TypeInvNext, NextStep, LockInvNext DEF LockInv
<1> QED BY TypeInvInit, LockInvInit, <1>1, PTL DEF Spec

(* In every behaviour, for any number of runners: whoever passes the           *)
(* locked_by test works on the latest claim of the row, so a settlement by a *)
(* runner whose lock was lost never takes effect.                           *)
THEOREM LatestClaimHoldsTheLock == Spec => []LockIsLatestClaim
<1>1. LockInv => LockIsLatestClaim
  BY DEF LockInv
<1> QED BY <1>1, LocksAreSound, PTL

-----------------------------------------------------------------------------
(* The effect of each shape, row by row and runner by runner, in one place. *)

(* The fields of typed rows and claims, for the leaves below. *)
LEMMA RowsAndClaims ==
    ASSUME TypeInv
    PROVE  /\ \A j \in JobId : jobs[j] \in Row /\ jobs[j].attempts \in Nat
           /\ \A r \in Runner : mine[r] # NoClaim <=> pc[r] \in InHand
           /\ \A r \in Runner : mine[r] # NoClaim =>
                mine[r].id \in JobId /\ mine[r].attempts \in Nat /\ mine[r].task \in Task
           /\ FaultCount \in Nat
BY DEF TypeInv, TableTypes, RunnerTypes, Claimed, Row, FaultCount, FaultKind

(* What an insert does to the rows: the free slot becomes pending, no other changes. *)
LEMMA InsertsEffect ==
    ASSUME TypeInv, NEW j \in JobId, NEW t \in Task, Inserts(j, t)
    PROVE  /\ \A i \in JobId : jobs'[i] = IF i = j THEN NewRow(t) ELSE jobs[i]
           /\ \A r \in Runner : mine[r].id # j
           /\ UNCHANGED <<mine, pc, faults>>
BY DEF Inserts, Free, TypeInv, TableTypes

(* What a claim does: one claimable row becomes the claimer's, its attempts one more. *)
LEMMA ClaimsEffect ==
    ASSUME TypeInv, NEW r \in Runner, NEW j \in JobId, Claims(r, j)
    PROVE  /\ \A i \in JobId \ {j} : jobs'[i] = jobs[i]
           /\ jobs'[j].status = "running" /\ jobs'[j].locked_by = r /\ ~jobs'[j].stale
           /\ jobs'[j].task = jobs[j].task /\ jobs'[j].attempts = jobs[j].attempts + 1
           /\ \A s \in Runner \ {r} : mine'[s] = mine[s] /\ pc'[s] = pc[s]
           /\ mine'[r].id = j /\ mine'[r] # NoClaim /\ mine[r] = NoClaim
           /\ pc'[r] = "claimed" /\ UNCHANGED faults
           /\ jobs[j].status \in {"pending", "running"}
           /\ jobs[j].status = "running" => jobs[j].stale
<1>1. \A i \in JobId : jobs'[i] = IF i = j THEN Locked(jobs[j], r) ELSE jobs[i]
  BY DEF Claims, TypeInv, TableTypes
<1>2. jobs[j] \in Row
  BY RowsAndClaims
<1>3. /\ \A s \in Runner \ {r} : mine'[s] = mine[s] /\ pc'[s] = pc[s]
      /\ mine'[r].id = j /\ mine'[r] # NoClaim /\ mine[r] = NoClaim
      /\ pc'[r] = "claimed" /\ UNCHANGED faults
      /\ jobs[j].status \in {"pending", "running"}
      /\ jobs[j].status = "running" => jobs[j].stale
  BY NullAssumption DEF Claims, Claimable, TypeInv, RunnerTypes, InHand, NoClaim
<1>4. /\ jobs'[j] = Locked(jobs[j], r)
      /\ \A i \in JobId \ {j} : jobs'[i] = jobs[i]
  BY <1>1
<1>5. /\ Locked(jobs[j], r).status = "running" /\ Locked(jobs[j], r).locked_by = r
      /\ ~Locked(jobs[j], r).stale
      /\ Locked(jobs[j], r).task = jobs[j].task
      /\ Locked(jobs[j], r).attempts = jobs[j].attempts + 1
  BY DEF Locked
<1> QED BY <1>3, <1>4, <1>5

(* What time and heartbeats do: status, holder and attempts stay. *)
LEMMA AgesEffect ==
    ASSUME TypeInv, NEW j \in JobId, NEW b \in BOOLEAN, Ages(j, b)
    PROVE  /\ \A i \in JobId : /\ jobs'[i].task = jobs[i].task
                               /\ jobs'[i].status = jobs[i].status
                               /\ jobs'[i].attempts = jobs[i].attempts
                               /\ jobs'[i].locked_by = jobs[i].locked_by
                               /\ jobs'[i].stale = IF i = j THEN b ELSE jobs[i].stale
           /\ UNCHANGED <<mine, pc>>
BY AgedRow DEF Ages, TypeInv, TableTypes

(* What a settling statement does: only the settler's own row changes, and loses its lock. *)
LEMMA ReleasesEffect ==
    ASSUME TypeInv, NEW r \in Runner, NEW st \in {"dead", "succeeded", "pending"}, NEW a \in Nat,
           Releases(r, st, a)
    PROVE  /\ mine[r].id \in JobId
           /\ \A i \in JobId \ {mine[r].id} : jobs'[i] = jobs[i]
           /\ jobs'[mine[r].id].status = st
           /\ jobs'[mine[r].id].attempts = a
           /\ jobs'[mine[r].id].task = jobs[mine[r].id].task
           /\ \A s \in Runner \ {r} : mine'[s] = mine[s] /\ pc'[s] = pc[s]
           /\ \/ mine'[r] = mine[r] /\ pc'[r] = "burying" /\ st = "dead" /\ a >= MaxAttempts
              \/ mine'[r] = NoClaim /\ pc'[r] = "idle" /\ st # "dead"
           /\ st = "pending" => a < MaxAttempts
           /\ a \in {mine[r].attempts, jobs[mine[r].id].attempts}
           /\ UNCHANGED faults
<1>1. mine[r].id \in JobId /\ jobs[mine[r].id] \in Row
  BY RowsAndClaims DEF Releases, OwnsRow
<1>2. \A i \in JobId : jobs'[i] = IF i = mine[r].id THEN Released(jobs[mine[r].id], st, a) ELSE jobs[i]
  BY <1>1 DEF Releases, TypeInv, TableTypes
<1>3. \A s \in Runner \ {r} : mine'[s] = mine[s] /\ pc'[s] = pc[s]
  BY DEF Releases, TypeInv, RunnerTypes
<1>4. /\ \/ mine'[r] = mine[r] /\ pc'[r] = "burying" /\ st = "dead" /\ a >= MaxAttempts
         \/ mine'[r] = NoClaim /\ pc'[r] = "idle" /\ st # "dead"
      /\ st = "pending" => a < MaxAttempts
      /\ a \in {mine[r].attempts, jobs[mine[r].id].attempts}
      /\ UNCHANGED faults
  BY DEF Releases, TypeInv, RunnerTypes
<1> QED BY <1>1, <1>2, <1>3, <1>4, ReleasedRow

(* What a purge does: a row is gone or as it was. *)
LEMMA PurgesEffect ==
    ASSUME TypeInv, NEW c \in Clip, Purges(c)
    PROVE  /\ \A i \in JobId : jobs'[i] = jobs[i] \/ jobs'[i].status = "absent"
           /\ UNCHANGED <<mine, pc, faults>>
BY NewRowFields DEF Purges

-----------------------------------------------------------------------------
(* Burials *)

(* Nothing is dead or being buried at first. *)
LEMMA BurialInit == Init => BurialIsExclusive
BY DEF Init, BurialIsExclusive, NoRow

(* Only the holder of the lock buries, so once a job is dead no other runner   *)
(* can come to bury it.                                                     *)
LEMMA BurialNext ==
    ASSUME TypeInv, LockInv, BurialIsExclusive, Step
    PROVE  BurialIsExclusive'
<1>0. \A r \in Runner : pc[r] = "burying" => mine[r] # NoClaim /\ mine[r].id \in JobId
  BY RowsAndClaims DEF InHand
<1>1. CASE Quiet
  BY <1>0, <1>1 DEF Quiet, BurialIsExclusive, InHand
<1>2. ASSUME NEW r \in Runner, Drops(r) PROVE BurialIsExclusive'
  BY <1>0, <1>2 DEF Drops, BurialIsExclusive, InHand, TypeInv, RunnerTypes
<1>3. ASSUME NEW j \in JobId, NEW t \in Task, Inserts(j, t) PROVE BurialIsExclusive'
  BY <1>0, <1>3, InsertsEffect, NewRowFields DEF BurialIsExclusive
<1>4. ASSUME NEW r \in Runner, NEW j \in JobId, Claims(r, j) PROVE BurialIsExclusive'
  BY <1>0, <1>4, ClaimsEffect DEF BurialIsExclusive
<1>5. ASSUME NEW j \in JobId, NEW b \in BOOLEAN, Ages(j, b) PROVE BurialIsExclusive'
  BY <1>0, <1>5, AgesEffect DEF BurialIsExclusive
<1>6. ASSUME NEW r \in Runner, NEW st \in {"dead", "succeeded", "pending"}, NEW a \in Nat,
             Releases(r, st, a) PROVE BurialIsExclusive'
  <2>1. jobs[mine[r].id].status = "running"
    BY <1>6 DEF Releases, OwnsRow
  <2> QED BY <1>0, <1>6, <2>1, ReleasesEffect DEF BurialIsExclusive
<1>7. ASSUME NEW c \in Clip, Purges(c) PROVE BurialIsExclusive'
  BY <1>0, <1>7, PurgesEffect DEF BurialIsExclusive
<1> QED BY <1>1, <1>2, <1>3, <1>4, <1>5, <1>6, <1>7 DEF Step

(* In every behaviour the side effects of a death run at most once per death,  *)
(* only for jobs that are dead, and jobs die only with their attempts used. *)
THEOREM BurialsAreExclusive == Spec => []BurialIsExclusive
<1> DEFINE I == TypeInv /\ LockInv /\ BurialIsExclusive
<1>1. I /\ [Next]_vars => I'
  BY TypeInvNext, NextStep, LockInvNext, BurialNext DEF LockInv
<1>2. Init => I
  BY TypeInvInit, LockInvInit, BurialInit
<1>3. I => BurialIsExclusive
  OBVIOUS
<1> QED BY <1>1, <1>2, <1>3, PTL DEF Spec

-----------------------------------------------------------------------------
(* Uniqueness *)

(* The table is empty at first. *)
LEMMA NoDuplicateInit == Init => NoDuplicateJobs
BY DEF Init, NoDuplicateJobs, NoRow, Active

(* A row comes into force by an INSERT or a retry the indexes allow; a claim   *)
(* moves a row within force.                                                *)
LEMMA NoDuplicateNext ==
    ASSUME TypeInv, LockInv, NoDuplicateJobs, Step
    PROVE  NoDuplicateJobs'
<1>1. CASE Quiet
  BY <1>1 DEF Quiet, NoDuplicateJobs, Active
<1>2. ASSUME NEW r \in Runner, Drops(r) PROVE NoDuplicateJobs'
  BY <1>2 DEF Drops, NoDuplicateJobs, Active
<1>3. ASSUME NEW j \in JobId, NEW t \in Task, Inserts(j, t) PROVE NoDuplicateJobs'
  <2>1. \A i \in JobId : jobs[i].task = t => jobs[i].status \notin InForce(t)
    BY <1>3 DEF Inserts, Conflicts, ActiveFor
  <2> QED BY <1>3, <2>1, InsertsEffect, NewRowFields DEF NoDuplicateJobs, Active, InForce
<1>4. ASSUME NEW r \in Runner, NEW j \in JobId, Claims(r, j) PROVE NoDuplicateJobs'
  BY <1>4, ClaimsEffect DEF NoDuplicateJobs, Active
<1>5. ASSUME NEW j \in JobId, NEW b \in BOOLEAN, Ages(j, b) PROVE NoDuplicateJobs'
  BY <1>5, AgesEffect DEF NoDuplicateJobs, Active
<1>6. ASSUME NEW r \in Runner, NEW st \in {"dead", "succeeded", "pending"}, NEW a \in Nat,
             Releases(r, st, a) PROVE NoDuplicateJobs'
  <2>1. jobs[mine[r].id].status = "running" /\ jobs[mine[r].id].task = mine[r].task
    BY <1>6 DEF Releases, OwnsRow, LockInv, LockIsLatestClaim
  <2>2. st = "pending" => ~RetryRefused(r)
    BY <1>6 DEF Releases
  <2> QED BY <1>6, <2>1, <2>2, ReleasesEffect DEF NoDuplicateJobs, Active, RetryRefused
<1>7. ASSUME NEW c \in Clip, Purges(c) PROVE NoDuplicateJobs'
  BY <1>7, PurgesEffect DEF NoDuplicateJobs, Active
<1> QED BY <1>1, <1>2, <1>3, <1>4, <1>5, <1>6, <1>7 DEF Step

(* In every behaviour a clip has one live job of a kind at most, and a sweep    *)
(* one pending row at most.                                                 *)
THEOREM NoJobIsDuplicated == Spec => []NoDuplicateJobs
<1> DEFINE I == TypeInv /\ LockInv /\ NoDuplicateJobs
<1>1. I /\ [Next]_vars => I'
  BY TypeInvNext, NextStep, LockInvNext, NoDuplicateNext DEF LockInv
<1>2. Init => I
  BY TypeInvInit, LockInvInit, NoDuplicateInit
<1>3. I => NoDuplicateJobs
  OBVIOUS
<1> QED BY <1>1, <1>2, <1>3, PTL DEF Spec

-----------------------------------------------------------------------------
(* Attempts *)

(* The lock of j stands: its holder is at work and has touched it in time. *)
Healthy(j) == \E r \in Runner : mine[r].id = j /\ OwnsRow(r) /\ ~jobs[j].stale

(* A running row whose lock does not stand has a fault, or attempts, to spare. *)
AttemptsInv ==
    \A j \in JobId :
        /\ jobs[j].status = "pending" => jobs[j].attempts < MaxAttempts
        /\ jobs[j].status = "running" => jobs[j].attempts <= MaxAttempts + FaultCount
        /\ jobs[j].status = "running" /\ ~Healthy(j)
             => jobs[j].attempts < MaxAttempts + FaultCount

(* No row has an attempt at first. *)
LEMMA AttemptsInit == Init => AttemptsInv
BY DEF Init, AttemptsInv, NoRow

(* The sum of the faults grows with each kind of fault. *)
LEMMA FaultCountGrows == ASSUME TypeInv, TypeInv', FaultsGrow PROVE FaultCount' >= FaultCount
BY DEF FaultsGrow, FaultCount, FaultKind, TypeInv, TableTypes

(* A claim takes one from what is to spare; losing a lock is what puts it there. *)
LEMMA AttemptsNext ==
    ASSUME TypeInv, TypeInv', LockInv, LockInv', AttemptsInv, Step
    PROVE  AttemptsInv'
<1>0. /\ MaxAttempts \in Nat \ {0} /\ FaultCount \in Nat /\ FaultCount' \in Nat
      /\ \A j \in JobId : jobs[j].attempts \in Nat
  BY RowsAndClaims, BoundAssumption DEF TypeInv, TableTypes, FaultCount, FaultKind
<1>1. CASE Quiet
  <2>1. \A j \in JobId : Healthy(j) => Healthy(j)'
    BY <1>1 DEF Quiet, Healthy, OwnsRow
  <2>2. FaultCount' >= FaultCount
    BY <1>1, FaultCountGrows DEF Quiet
  <2> QED BY <1>0, <1>1, <2>1, <2>2 DEF Quiet, AttemptsInv
<1>2. ASSUME NEW r \in Runner, Drops(r) PROVE AttemptsInv'
  <2>1. FaultCount' >= FaultCount
    BY <1>2, FaultCountGrows DEF Drops
  <2>2. \A s \in Runner \ {r} : mine'[s] = mine[s]
    BY <1>2 DEF Drops, TypeInv, RunnerTypes
  <2>3. ASSUME NEW j \in JobId, jobs[j].status = "running", ~Healthy(j)'
        PROVE  jobs[j].attempts < MaxAttempts + FaultCount'
    <3>1. CASE ~Healthy(j)
      BY <1>0, <2>1, <2>3, <3>1 DEF AttemptsInv
    <3>2. CASE Healthy(j)
      <4>1. PICK s \in Runner : mine[s].id = j /\ OwnsRow(s) /\ ~jobs[j].stale
        BY <3>2 DEF Healthy
      <4>2. s = r
        BY <1>2, <2>2, <2>3, <4>1 DEF Drops, Healthy, OwnsRow
      <4>3. jobs[j].attempts = mine[r].attempts
        BY <4>1, <4>2 DEF LockInv, LockIsLatestClaim
      <4> QED BY <1>0, <1>2, <2>1, <2>3, <4>1, <4>2, <4>3 DEF Drops, AttemptsInv
    <3> QED BY <3>1, <3>2
  <2> QED BY <1>0, <1>2, <2>1, <2>3 DEF Drops, AttemptsInv
<1>3. ASSUME NEW j \in JobId, NEW t \in Task, Inserts(j, t) PROVE AttemptsInv'
  <2>1. \A i \in JobId \ {j} : Healthy(i) => Healthy(i)'
    BY <1>3, InsertsEffect DEF Healthy, OwnsRow
  <2>2. FaultCount' = FaultCount
    BY <1>3, InsertsEffect DEF FaultCount
  <2> QED BY <1>0, <1>3, <2>1, <2>2, InsertsEffect, NewRowFields DEF AttemptsInv
<1>4. ASSUME NEW r \in Runner, NEW j \in JobId, Claims(r, j) PROVE AttemptsInv'
  <2>0. FaultCount' = FaultCount
    BY <1>4, ClaimsEffect DEF FaultCount
  <2>1. ~Healthy(j) \/ jobs[j].status = "pending"
    BY <1>4, ClaimsEffect DEF Healthy
  <2>2. jobs[j].attempts < MaxAttempts + FaultCount
    BY <1>0, <1>4, <2>1, ClaimsEffect DEF AttemptsInv
  <2>3. Healthy(j)'
    BY <1>4, ClaimsEffect DEF Healthy, OwnsRow
  <2>4. \A i \in JobId \ {j} : Healthy(i) => Healthy(i)'
    <3>1. ASSUME NEW i \in JobId \ {j}, NEW s \in Runner,
                 mine[s].id = i, OwnsRow(s), ~jobs[i].stale
          PROVE  Healthy(i)'
      <4>1. s # r
        BY <1>4, <3>1, ClaimsEffect DEF OwnsRow
      <4>2. mine'[s] = mine[s] /\ jobs'[i] = jobs[i]
        BY <1>4, <4>1, ClaimsEffect
      <4> QED BY <3>1, <4>2 DEF Healthy, OwnsRow
    <3> QED BY <3>1 DEF Healthy
  <2> QED BY <1>0, <1>4, <2>0, <2>2, <2>3, <2>4, ClaimsEffect DEF AttemptsInv
<1>5. ASSUME NEW j \in JobId, NEW b \in BOOLEAN, Ages(j, b) PROVE AttemptsInv'
  <2>1. FaultCount' >= FaultCount
    BY <1>5, FaultCountGrows DEF Ages
  <2>2. \A s \in Runner : OwnsRow(s) => OwnsRow(s)'
    BY <1>5, AgesEffect, RowsAndClaims DEF OwnsRow
  <2>3. \A i \in JobId : Healthy(i) /\ (i # j \/ ~b) => Healthy(i)'
    BY <1>5, <2>2, AgesEffect DEF Healthy
  <2>4. b /\ Healthy(j) => FaultCount' > FaultCount
    BY <1>5 DEF Ages, Healthy
  <2> QED BY <1>0, <1>5, <2>1, <2>3, <2>4, AgesEffect DEF AttemptsInv
<1>6. ASSUME NEW r \in Runner, NEW st \in {"dead", "succeeded", "pending"}, NEW a \in Nat,
             Releases(r, st, a) PROVE AttemptsInv'
  <2>0. FaultCount' = FaultCount
    BY <1>6, ReleasesEffect DEF FaultCount
  <2>1. \A i \in JobId \ {mine[r].id} : Healthy(i) => Healthy(i)'
    <3>1. ASSUME NEW i \in JobId \ {mine[r].id}, NEW s \in Runner,
                 mine[s].id = i, OwnsRow(s), ~jobs[i].stale
          PROVE  Healthy(i)'
      <4>1. s # r
        BY <3>1
      <4>2. mine'[s] = mine[s] /\ jobs'[i] = jobs[i]
        BY <1>6, <4>1, ReleasesEffect
      <4> QED BY <3>1, <4>2 DEF Healthy, OwnsRow
    <3> QED BY <3>1 DEF Healthy
  <2> QED BY <1>0, <1>6, <2>0, <2>1, ReleasesEffect DEF AttemptsInv
<1>7. ASSUME NEW c \in Clip, Purges(c) PROVE AttemptsInv'
  <2>0. FaultCount' = FaultCount
    BY <1>7, PurgesEffect DEF FaultCount
  <2>1. \A i \in JobId : Healthy(i) /\ jobs'[i] = jobs[i] => Healthy(i)'
    BY <1>7, PurgesEffect DEF Healthy, OwnsRow
  <2> QED BY <1>0, <1>7, <2>0, <2>1, PurgesEffect DEF AttemptsInv
<1> QED BY <1>1, <1>2, <1>3, <1>4, <1>5, <1>6, <1>7 DEF Step

(* In every behaviour a job is claimed at most max_attempts times plus once per *)
(* fault: the retry budget cannot be escaped by losing locks.               *)
THEOREM AttemptsAreBounded == Spec => []AttemptsBounded
<1> DEFINE I == TypeInv /\ LockInv /\ AttemptsInv
<1>1. I /\ [Next]_vars => I'
  <2> SUFFICES ASSUME I, [Next]_vars PROVE I'
    OBVIOUS
  <2>1. TypeInv' /\ Step
    BY TypeInvNext, NextStep DEF LockInv
  <2>2. LockInv'
    BY <2>1, LockInvNext
  <2> QED BY <2>1, <2>2, AttemptsNext
<1>2. Init => I
  BY TypeInvInit, LockInvInit, AttemptsInit
<1>3. I => AttemptsBounded
  <2> SUFFICES ASSUME I, NEW j \in JobId, Active(j)
               PROVE  jobs[j].attempts <= MaxAttempts + FaultCount
    BY DEF AttemptsBounded
  <2>1. jobs[j].attempts \in Nat /\ FaultCount \in Nat /\ MaxAttempts \in Nat
    BY RowsAndClaims, BoundAssumption
  <2> QED BY <2>1 DEF Active, AttemptsInv
<1> QED BY <1>1, <1>2, <1>3, PTL DEF Spec

-----------------------------------------------------------------------------
(* Exclusive work *)

(* Without a stall every runner with a claim holds its row's lock, freshly,     *)
(* unless the row is dead or purged.                                        *)
ExclusiveInv ==
    faults["stall"] = 0 =>
        \A r \in Runner : mine[r] # NoClaim =>
            /\ \/ jobs[mine[r].id].status \in {"dead", "absent"}
               \/ OwnsRow(r) /\ ~jobs[mine[r].id].stale
            /\ \A s \in Runner \ {r} : mine[s].id # mine[r].id

(* No runner has a job in hand at first. *)
LEMMA ExclusiveInit == Init => ExclusiveInv
BY DEF Init, ExclusiveInv

(* Each shape of step keeps one job from being in two runners' hands while no holder stalls. *)
LEMMA ExclusiveNext ==
    ASSUME TypeInv, TypeInv', ExclusiveInv, Step
    PROVE  ExclusiveInv'
<1>0. \A r \in Runner : mine[r] # NoClaim => mine[r].id \in JobId
  BY RowsAndClaims
<1>a. FaultsGrow /\ faults'["stall"] = 0 => faults["stall"] = 0
  BY DEF FaultsGrow, FaultKind, TypeInv, TableTypes
<1>1. CASE Quiet
  BY <1>a, <1>1 DEF Quiet, ExclusiveInv, OwnsRow
<1>2. ASSUME NEW r \in Runner, Drops(r) PROVE ExclusiveInv'
  <2>1. \A s \in Runner : mine'[s] = IF s = r THEN NoClaim ELSE mine[s]
    BY <1>2 DEF Drops, TypeInv, RunnerTypes
  <2>2. \A s \in Runner : mine[s] # NoClaim => mine[s].id # NoClaim.id
    BY <1>0, NullAssumption DEF NoClaim
  <2> QED BY <1>a, <1>2, <2>1, <2>2 DEF Drops, ExclusiveInv, OwnsRow
<1>3. ASSUME NEW j \in JobId, NEW t \in Task, Inserts(j, t) PROVE ExclusiveInv'
  BY <1>0, <1>3, InsertsEffect DEF ExclusiveInv, OwnsRow
<1>4. ASSUME NEW r \in Runner, NEW j \in JobId, Claims(r, j) PROVE ExclusiveInv'
  <2>1. faults["stall"] = 0 => \A s \in Runner : mine[s] # NoClaim => mine[s].id # j
    BY <1>4, ClaimsEffect DEF ExclusiveInv, OwnsRow
  <2>2. NoClaim.id # j
    BY NullAssumption DEF NoClaim
  <2> QED BY <1>0, <1>4, <2>1, <2>2, ClaimsEffect DEF ExclusiveInv, OwnsRow
<1>5. ASSUME NEW j \in JobId, NEW b \in BOOLEAN, Ages(j, b) PROVE ExclusiveInv'
  <2>1. FaultsGrow
    BY <1>5 DEF Ages
  <2>2. \A s \in Runner : OwnsRow(s) => OwnsRow(s)'
    BY <1>0, <1>5, AgesEffect DEF OwnsRow
  <2>3. b /\ faults'["stall"] = 0 => \A s \in Runner : ~(mine[s].id = j /\ OwnsRow(s))
    <3>1. faults'["stall"] > faults["stall"] => faults'["stall"] # 0
      BY DEF FaultKind, TypeInv, TableTypes
    <3> QED BY <1>5, <3>1 DEF Ages
  <2>4. ASSUME faults'["stall"] = 0, NEW s \in Runner, mine[s] # NoClaim
        PROVE  /\ \/ jobs'[mine[s].id].status \in {"dead", "absent"}
                  \/ OwnsRow(s)' /\ ~jobs'[mine[s].id].stale
               /\ \A q \in Runner \ {s} : mine[q].id # mine[s].id
    <3>1. /\ \/ jobs[mine[s].id].status \in {"dead", "absent"}
             \/ OwnsRow(s) /\ ~jobs[mine[s].id].stale
          /\ \A q \in Runner \ {s} : mine[q].id # mine[s].id
      BY <1>a, <2>1, <2>4 DEF ExclusiveInv
    <3>2. mine[s].id \in JobId
      BY <1>0, <2>4
    <3>3. CASE jobs[mine[s].id].status \in {"dead", "absent"}
      BY <1>5, <3>1, <3>2, <3>3, AgesEffect
    <3>4. CASE OwnsRow(s) /\ ~jobs[mine[s].id].stale
      <4>1. ~b \/ mine[s].id # j
        BY <2>3, <2>4, <3>4
      <4>2. jobs'[mine[s].id].stale = FALSE \/ ~jobs'[mine[s].id].stale
        BY <1>5, <3>2, <3>4, <4>1, AgesEffect
      <4> QED BY <2>2, <3>1, <3>4, <4>2
    <3> QED BY <3>1, <3>3, <3>4
  <2>5. mine' = mine
    BY <1>5 DEF Ages
  <2> QED BY <2>4, <2>5 DEF ExclusiveInv
<1>6. ASSUME NEW r \in Runner, NEW st \in {"dead", "succeeded", "pending"}, NEW a \in Nat,
             Releases(r, st, a) PROVE ExclusiveInv'
  <2>1. mine[r] # NoClaim
    BY <1>6 DEF Releases, OwnsRow
  <2>2. NoClaim.id \notin JobId
    BY NullAssumption DEF NoClaim
  <2> QED BY <1>0, <1>6, <2>1, <2>2, ReleasesEffect DEF ExclusiveInv, OwnsRow
<1>7. ASSUME NEW c \in Clip, Purges(c) PROVE ExclusiveInv'
  BY <1>0, <1>7, PurgesEffect DEF ExclusiveInv, OwnsRow
<1> QED BY <1>1, <1>2, <1>3, <1>4, <1>5, <1>6, <1>7 DEF Step

(* In every behaviour two runners have one job in hand only after a stall:     *)
(* neither crashes nor database errors make a job run twice at a time.      *)
THEOREM WorkIsExclusive == Spec => []ExclusiveUnlessStalled
<1> DEFINE I == TypeInv /\ LockInv /\ ExclusiveInv
<1>1. I /\ [Next]_vars => I'
  <2> SUFFICES ASSUME I, [Next]_vars PROVE I'
    OBVIOUS
  <2>1. TypeInv' /\ Step
    BY TypeInvNext, NextStep DEF LockInv
  <2> QED BY <2>1, LockInvNext, ExclusiveNext
<1>2. Init => I
  BY TypeInvInit, LockInvInit, ExclusiveInit
<1>3. I => ExclusiveUnlessStalled
  BY DEF ExclusiveInv, ExclusiveUnlessStalled
<1> QED BY <1>1, <1>2, <1>3, PTL DEF Spec

-----------------------------------------------------------------------------
(* Sweeps *)

(* A worker that has enqueued all it has to: only a success is left. *)
Satisfied(r) == pc[r] = "working" /\ todo[r] = <<>>

(* A row that will make the sweep t run, or arm it, before it is settled: one *)
(* that waits, or one that runs and whose holder has not re-armed it yet.   *)
Carries(j, t) ==
    /\ jobs[j].task = t
    /\ \/ jobs[j].status = "pending"
       \/ /\ jobs[j].status = "running"
          /\ \A r \in Runner : mine[r].id = j /\ OwnsRow(r) => ~Satisfied(r)

Waits(t) == \E j \in JobId : jobs[j].task = t /\ jobs[j].status = "pending"

Rearms(r, t) == pc[r] = "burying" /\ todo[r] = <<t>>

Armed(t) == (\E j \in JobId : Carries(j, t)) \/ (\E r \in Runner : Rearms(r, t))

Calm == faults["db"] = 0 /\ faults["crash"] = 0

(* A sweep worker has itself to enqueue, and nothing else. *)
SweepPlans == \A r \in Runner :
    pc[r] = "working" /\ mine[r].task \in SweepTask => todo[r] \in {<<mine[r].task>>, <<>>}

(* Once one process polls every sweep is armed; one that starts has armed what *)
(* it has no longer to ensure.                                              *)
ArmedOrEnsured(t) ==
    /\ (\E r \in Runner : pc[r] \notin {"down", "ensuring"}) => Armed(t)
    /\ \A r \in Runner : pc[r] = "ensuring" =>
         Armed(t) \/ \E i \in 1..Len(todo[r]) : todo[r][i] = t

SweepsArmed == Calm => \A t \in SweepTask : ArmedOrEnsured(t)

(* A row that waits carries its sweep. *)
LEMMA WaitingArms == ASSUME NEW t, Waits(t) PROVE Armed(t)
BY DEF Waits, Armed, Carries

(* The tasks of sweeps and of clips are different. *)
LEMMA TasksDiffer ==
    /\ \A t \in SweepTask : t \in Task /\ t \notin ClipTask /\ t.clip = NoClip
    /\ \A t \in ClipTask : t \in Task /\ t \notin SweepTask /\ t.clip # NoClip
<1>1. \A t \in SweepTask : t.kind \in SweepKind /\ t.clip = NoClip
  BY DEF SweepTask
<1>2. \A t \in ClipTask : t.kind \in ClipKind /\ t.clip \in Clip
  BY DEF ClipTask
<1> QED BY <1>1, <1>2, NullAssumption, KindAssumption DEF Task

(* A refused insert of a sweep means that a row of the sweep waits. *)
LEMMA ConflictWaits == ASSUME NEW t \in SweepTask, Conflicts(t) PROVE Waits(t)
BY DEF Conflicts, ActiveFor, InForce, Waits

(* What a worker holds whose lock stands is a row of its own task. *)
LEMMA OwnTask ==
    ASSUME TypeInv, LockInv, NEW r \in Runner, OwnsRow(r)
    PROVE  mine[r].id \in JobId /\ jobs[mine[r].id].task = mine[r].task
BY RowsAndClaims DEF OwnsRow, LockInv, LockIsLatestClaim

(* The rows that carry a sweep keep their task, status and holder. *)
CarriersStay(t) == \A j \in JobId : Carries(j, t) =>
    jobs'[j].task = t /\ jobs'[j].status = jobs[j].status /\ jobs'[j].locked_by = jobs[j].locked_by

(* A step of one runner keeps a sweep armed, if the rows that carry it stay and *)
(* the runner neither becomes a satisfied worker of it nor ends a           *)
(* re-arming: or else a row of the sweep waits afterwards.                  *)
LEMMA MovesKeepArmed ==
    ASSUME TypeInv, LockInv, NEW t \in SweepTask, NEW r \in Runner, Armed(t),
           \/ Waits(t)'
           \/ /\ CarriersStay(t)
              /\ \A s \in Runner \ {r} : pc'[s] = pc[s] /\ mine'[s] = mine[s] /\ todo'[s] = todo[s]
              /\ mine'[r] \in {mine[r], NoClaim} \/ ~Satisfied(r)'
              /\ mine'[r] = mine[r] /\ OwnsRow(r) /\ mine[r].task = t /\ Satisfied(r)' => Satisfied(r)
              /\ Rearms(r, t) => Rearms(r, t)'
    PROVE  Armed(t)'
<1>1. CASE Waits(t)'
  BY <1>1 DEF Waits, Armed, Carries
<1>2. ASSUME ~Waits(t)', NEW j \in JobId, Carries(j, t) PROVE Armed(t)'
  <2>1. /\ jobs'[j].task = t /\ jobs'[j].status = "running"
        /\ jobs[j].status = "running" /\ jobs'[j].locked_by = jobs[j].locked_by
    BY <1>2 DEF Waits, Carries, CarriersStay
  <2>2. ASSUME NEW s \in Runner, mine'[s].id = j, OwnsRow(s)', Satisfied(s)' PROVE FALSE
    <3>1. mine'[s] # NoClaim /\ mine'[s] \in {mine[s], NoClaim}
      BY <1>2, <2>2 DEF OwnsRow
    <3>2. mine'[s] = mine[s] /\ mine[s].id = j /\ OwnsRow(s)
      BY <2>1, <2>2, <3>1 DEF OwnsRow
    <3>3. ~Satisfied(s)
      BY <1>2, <2>1, <3>2 DEF Carries
    <3>4. CASE s = r
      <4>1. mine[r].task = t
        BY <1>2, <3>2, <3>4, OwnTask DEF Carries
      <4> QED BY <1>2, <2>2, <3>2, <3>3, <3>4, <4>1
    <3>5. CASE s # r
      BY <1>2, <2>2, <3>3, <3>5 DEF Satisfied
    <3> QED BY <3>4, <3>5
  <2>3. Carries(j, t)'
    BY <2>1, <2>2 DEF Carries
  <2> QED BY <2>3 DEF Armed
<1>3. ASSUME ~Waits(t)', NEW s \in Runner, Rearms(s, t) PROVE Armed(t)'
  <2>1. Rearms(s, t)'
    BY <1>3 DEF Rearms
  <2> QED BY <2>1 DEF Armed
<1> QED BY <1>1, <1>2, <1>3 DEF Armed

(* So does a step in which no runner moves. *)
LEMMA RowsKeepArmed ==
    ASSUME NEW t \in SweepTask, Armed(t), UNCHANGED <<pc, mine, todo>>, CarriersStay(t)
    PROVE  Armed(t)'
<1>1. ASSUME NEW i \in JobId, Carries(i, t) PROVE Armed(t)'
  <2>1. jobs'[i].task = t /\ jobs'[i].status = jobs[i].status /\ jobs'[i].locked_by = jobs[i].locked_by
    BY <1>1 DEF CarriersStay
  <2>2. ASSUME NEW r \in Runner, mine'[r].id = i, OwnsRow(r)', Satisfied(r)' PROVE FALSE
    <3>1. jobs'[i].status = "running"
      BY <2>2 DEF OwnsRow
    <3> QED BY <1>1, <2>1, <2>2, <3>1 DEF Carries, OwnsRow, Satisfied
  <2>3. Carries(i, t)'
    BY <1>1, <2>1, <2>2 DEF Carries
  <2> QED BY <2>3 DEF Armed
<1>2. ASSUME NEW r \in Runner, Rearms(r, t) PROVE Armed(t)'
  BY <1>2 DEF Rearms, Armed
<1> QED BY <1>1, <1>2 DEF Armed

(* What GoTo does to the other runners, and to its own. *)
LEMMA GoToMoves ==
    ASSUME TypeInv, NEW r \in Runner, NEW p, NEW m, NEW ts, GoTo(r, p, m, ts)
    PROVE  /\ \A s \in Runner \ {r} : pc'[s] = pc[s] /\ mine'[s] = mine[s] /\ todo'[s] = todo[s]
           /\ pc'[r] = p /\ mine'[r] = m /\ todo'[r] = ts
BY DEF GoTo, TypeInv, RunnerTypes

(* A carrying row is live. *)
LEMMA CarriersLive ==
    ASSUME NEW t, NEW j \in JobId, Carries(j, t)
    PROVE  jobs[j].task = t /\ jobs[j].status \in {"pending", "running"}
BY DEF Carries

(* Unless the table changes, the rows that carry a sweep stay. *)
LEMMA SameCarriers == ASSUME NEW t, UNCHANGED jobs PROVE CarriersStay(t)
BY DEF CarriersStay, Carries

(* The statements of create_if_absent_active keep each sweep armed: a worker is *)
(* satisfied, and a re-arming over, when a row has been inserted or found.  *)
LEMMA EnqueueKeepsArmed ==
    ASSUME TypeInv, LockInv, SweepPlans, NEW t \in SweepTask, Armed(t), NEW r \in Runner, Enqueue(r)
    PROVE  Armed(t)'
<1>0. enq[r] # "none" => todo[r] # <<>> /\ Head(todo[r]) \in Task
  BY HeadTailProperties DEF TypeInv, RunnerTypes
<1>1. OwnsRow(r) /\ mine[r].task = t /\ pc[r] = "working" => todo[r] \in {<<t>>, <<>>}
  BY DEF SweepPlans
<1>2. todo[r] = <<t>> => Head(todo[r]) = t
  OBVIOUS
<1>3. CASE BeginEnqueue(r) \/ InsertConflict(r)
  <2>1. UNCHANGED <<jobs, pc, mine, todo>>
    BY <1>3 DEF BeginEnqueue, InsertConflict
  <2> QED BY <2>1, SameCarriers, RowsKeepArmed
<1>4. CASE InsertJob(r)
  <2>1. PICK j \in JobId : Free(j) /\ jobs' = [jobs EXCEPT ![j] = NewRow(Head(todo[r]))]
    BY <1>4 DEF InsertJob
  <2>2. \A i \in JobId : jobs'[i] = IF i = j THEN NewRow(Head(todo[r])) ELSE jobs[i]
    BY <2>1 DEF TypeInv, TableTypes
  <2>3. CASE Head(todo[r]) = t
    <3>1. jobs'[j].task = t /\ jobs'[j].status = "pending"
      BY <2>2, <2>3, NewRowFields
    <3> QED BY <3>1, MovesKeepArmed DEF Waits
  <2>4. CASE Head(todo[r]) # t
    <3>1. CarriersStay(t)
      BY <2>1, <2>2, CarriersLive DEF CarriersStay, Free
    <3>2. /\ \A s \in Runner \ {r} : pc'[s] = pc[s] /\ mine'[s] = mine[s] /\ todo'[s] = todo[s]
          /\ mine'[r] = mine[r] /\ pc'[r] = pc[r]
      BY <1>4 DEF InsertJob, TypeInv, RunnerTypes
    <3>3. ~Rearms(r, t)
      BY <1>2, <2>4 DEF Rearms
    <3>4. OwnsRow(r) /\ mine[r].task = t /\ Satisfied(r)' => Satisfied(r)
      BY <1>0, <1>1, <1>2, <1>4, <2>4, <3>2 DEF InsertJob, Satisfied
    <3> QED BY <3>1, <3>2, <3>3, <3>4, MovesKeepArmed
  <2> QED BY <2>3, <2>4
<1>5. ASSUME Conflicts(Head(todo[r])), enq[r] # "none", UNCHANGED jobs,
             \A s \in Runner \ {r} : pc'[s] = pc[s] /\ mine'[s] = mine[s] /\ todo'[s] = todo[s],
             mine'[r] \in {mine[r], NoClaim}, pc'[r] = "working" => pc[r] = "working"
      PROVE  Armed(t)'
  <2>1. CASE Head(todo[r]) = t
    <3>1. Waits(t)
      BY <1>5, <2>1, ConflictWaits
    <3>2. Waits(t)'
      BY <1>5, <3>1 DEF Waits
    <3> QED BY <3>2, MovesKeepArmed
  <2>2. CASE Head(todo[r]) # t
    <3>1. ~Rearms(r, t)
      BY <1>2, <2>2 DEF Rearms
    <3>2. OwnsRow(r) /\ mine[r].task = t /\ Satisfied(r)' => Satisfied(r)
      BY <1>0, <1>1, <1>2, <1>5, <2>2 DEF Satisfied
    <3> QED BY <1>5, <3>1, <3>2, SameCarriers, MovesKeepArmed
  <2> QED BY <2>1, <2>2
<1>6. CASE LookupActive(r)
  <2>1. CASE Conflicts(Head(todo[r]))
    <3>1. /\ enq[r] # "none" /\ UNCHANGED jobs
          /\ \A s \in Runner \ {r} : pc'[s] = pc[s] /\ mine'[s] = mine[s] /\ todo'[s] = todo[s]
          /\ mine'[r] = mine[r] /\ pc'[r] = pc[r]
      BY <1>6, <2>1 DEF LookupActive, TypeInv, RunnerTypes
    <3> QED BY <1>5, <2>1, <3>1
  <2>2. CASE ~Conflicts(Head(todo[r]))
    <3>1. UNCHANGED <<jobs, pc, mine, todo>>
      BY <1>6, <2>2 DEF LookupActive
    <3> QED BY <3>1, SameCarriers, RowsKeepArmed
  <2> QED BY <2>1, <2>2
<1>7. CASE ReinsertConflict(r)
  <2>1. enq[r] # "none" /\ Conflicts(Head(todo[r])) /\ UNCHANGED jobs
    BY <1>7 DEF ReinsertConflict, EnqueueError
  <2>2. /\ \A s \in Runner \ {r} : pc'[s] = pc[s] /\ mine'[s] = mine[s] /\ todo'[s] = todo[s]
        /\ mine'[r] \in {mine[r], NoClaim} /\ (pc'[r] = "working" => pc[r] = "working")
    BY <1>7, GoToMoves DEF ReinsertConflict, EnqueueError, Forget, FailHandler
  <2> QED BY <1>5, <2>1, <2>2
<1> QED BY <1>3, <1>4, <1>6, <1>7 DEF Enqueue

(* The settling statements keep each sweep armed: only a satisfied worker      *)
(* succeeds, a retried row waits, and who buries a sweep re-arms it.        *)
LEMMA SettleKeepsArmed ==
    ASSUME TypeInv, LockInv, SweepPlans, NEW t \in SweepTask, Armed(t), NEW r \in Runner, Settle(r)
    PROVE  Armed(t)'
<1>0. OwnsRow(r) => /\ mine[r].id \in JobId /\ jobs[mine[r].id] \in Row
                    /\ jobs[mine[r].id].task = mine[r].task /\ jobs[mine[r].id].status = "running"
  BY RowsAndClaims, OwnTask DEF OwnsRow
<1>1. ASSUME Forget(r, "idle"), UNCHANGED jobs, ~Rearms(r, t) PROVE Armed(t)'
  <2>1. /\ \A s \in Runner \ {r} : pc'[s] = pc[s] /\ mine'[s] = mine[s] /\ todo'[s] = todo[s]
        /\ mine'[r] = NoClaim /\ pc'[r] = "idle"
    BY <1>1, GoToMoves DEF Forget
  <2> QED BY <1>1, <2>1, SameCarriers, MovesKeepArmed DEF Satisfied
<1>2. ASSUME NEW st, NEW a, OwnsRow(r), Release(mine[r].id, st, a)
      PROVE  /\ \A i \in JobId \ {mine[r].id} : jobs'[i] = jobs[i]
             /\ jobs'[mine[r].id].task = mine[r].task /\ jobs'[mine[r].id].status = st
  BY <1>0, <1>2, ReleasedRow DEF Release, TypeInv, TableTypes
<1>3. CASE Succeed(r)
  <2>1. pc[r] = "working" /\ todo[r] = <<>> /\ Forget(r, "idle")
    BY <1>3 DEF Succeed
  <2>2. Satisfied(r) /\ ~Rearms(r, t)
    BY <2>1 DEF Satisfied, Rearms
  <2>3. CASE OwnsRow(r)
    <3>1. \A i \in JobId : Carries(i, t) => i # mine[r].id
      BY <1>0, <2>2, <2>3 DEF Carries
    <3>2. CarriersStay(t)
      BY <1>2, <1>3, <2>3, <3>1, CarriersLive DEF Succeed, CarriersStay
    <3>3. /\ \A s \in Runner \ {r} : pc'[s] = pc[s] /\ mine'[s] = mine[s] /\ todo'[s] = todo[s]
          /\ mine'[r] = NoClaim /\ pc'[r] = "idle"
      BY <2>1, GoToMoves DEF Forget
    <3> QED BY <2>2, <3>2, <3>3, MovesKeepArmed
  <2> QED BY <1>1, <1>3, <2>1, <2>2, <2>3 DEF Succeed
<1>4. CASE Retry(r)
  <2>1. pc[r] = "failing" /\ Forget(r, "idle") /\ ~Rearms(r, t)
    BY <1>4 DEF Retry, Rearms
  <2>2. CASE OwnsRow(r) /\ ~RetryRefused(r)
    <3>1. /\ \A i \in JobId \ {mine[r].id} : jobs'[i] = jobs[i]
          /\ jobs'[mine[r].id].task = mine[r].task /\ jobs'[mine[r].id].status = "pending"
      BY <1>2, <1>4, <2>2 DEF Retry
    <3>2. CASE mine[r].task = t
      BY <1>0, <2>2, <3>1, <3>2, MovesKeepArmed DEF Waits
    <3>3. CASE mine[r].task # t
      <4>1. CarriersStay(t)
        BY <1>0, <2>2, <3>1, <3>3, CarriersLive DEF CarriersStay
      <4>2. /\ \A s \in Runner \ {r} : pc'[s] = pc[s] /\ mine'[s] = mine[s] /\ todo'[s] = todo[s]
            /\ mine'[r] = NoClaim /\ pc'[r] = "idle"
        BY <2>1, GoToMoves DEF Forget
      <4> QED BY <2>1, <4>1, <4>2, MovesKeepArmed DEF Satisfied
    <3> QED BY <3>2, <3>3
  <2> QED BY <1>1, <1>4, <2>1, <2>2 DEF Retry
<1>5. CASE MarkDead(r)
  <2>1. pc[r] \in {"claimed", "failing"} /\ ~Rearms(r, t) /\ ~Satisfied(r)
    BY <1>5 DEF MarkDead, Rearms, Satisfied
  <2>2. CASE OwnsRow(r)
    <3>1. /\ \A i \in JobId \ {mine[r].id} : jobs'[i] = jobs[i]
          /\ \A s \in Runner \ {r} : pc'[s] = pc[s] /\ mine'[s] = mine[s] /\ todo'[s] = todo[s]
          /\ pc'[r] = "burying" /\ todo'[r] = LastRites(mine[r].task)
      BY <1>2, <1>5, <2>2, GoToMoves DEF MarkDead
    <3>2. CASE mine[r].task = t
      <4>1. Rearms(r, t)'
        BY <3>1, <3>2 DEF Rearms, LastRites
      <4> QED BY <4>1 DEF Armed
    <3>3. CASE mine[r].task # t
      <4>1. CarriersStay(t)
        BY <1>0, <2>2, <3>1, <3>3, CarriersLive DEF CarriersStay
      <4> QED BY <2>1, <3>1, <4>1, MovesKeepArmed DEF Satisfied
    <3> QED BY <3>2, <3>3
  <2> QED BY <1>1, <1>5, <2>1, <2>2 DEF MarkDead
<1>6. CASE Buried(r)
  <2>1. ~Rearms(r, t)
    BY <1>6 DEF Buried, Rearms
  <2> QED BY <1>1, <1>6, <2>1 DEF Buried
<1> QED BY <1>3, <1>4, <1>5, <1>6 DEF Settle

(* Every step of a runner keeps each sweep armed. *)
LEMMA RunnerKeepsArmed ==
    ASSUME TypeInv, LockInv, SweepPlans, NEW t \in SweepTask, Armed(t), NEW r \in Runner, RunnerNext(r)
    PROVE  Armed(t)'
<1>1. ASSUME UNCHANGED jobs, NEW p, NEW m, NEW ts, GoTo(r, p, m, ts),
             pc[r] # "burying",
             \/ m = NoClaim
             \/ m = mine[r] /\ (p = "working" => ts # <<>> \/ mine[r].task # t)
      PROVE  Armed(t)'
  <2>1. /\ \A s \in Runner \ {r} : pc'[s] = pc[s] /\ mine'[s] = mine[s] /\ todo'[s] = todo[s]
        /\ pc'[r] = p /\ mine'[r] = m /\ todo'[r] = ts
    BY <1>1, GoToMoves
  <2>2. ~Rearms(r, t)
    BY <1>1 DEF Rearms
  <2>3. m = mine[r] /\ OwnsRow(r) /\ mine[r].task = t /\ Satisfied(r)' => Satisfied(r)
    BY <1>1, <2>1 DEF Satisfied, OwnsRow
  <2> QED BY <1>1, <2>1, <2>2, <2>3, SameCarriers, MovesKeepArmed
<1>2. CASE Start(r)
  BY <1>1, <1>2 DEF Start
<1>3. CASE EnsureSweep(r)
  <2>1. /\ \A s \in Runner \ {r} : pc'[s] = pc[s] /\ mine'[s] = mine[s] /\ todo'[s] = todo[s]
        /\ mine'[r] = mine[r] /\ pc'[r] = "ensuring" /\ pc[r] = "ensuring" /\ UNCHANGED jobs
    BY <1>3 DEF EnsureSweep, TypeInv, RunnerTypes
  <2> QED BY <2>1, SameCarriers, MovesKeepArmed DEF Satisfied, Rearms
<1>4. CASE BeginPolling(r)
  BY <1>1, <1>4 DEF BeginPolling, Forget
<1>5. CASE Claim(r)
  <2>1. PICK j \in JobId : Claims(r, j)
    <3>1. PICK j \in JobId :
          /\ NextClaim(j)
          /\ jobs' = [jobs EXCEPT ![j] = Locked(jobs[j], r)]
          /\ GoTo(r, "claimed", [id |-> j, task |-> jobs[j].task,
                                 attempts |-> jobs[j].attempts + 1], <<>>)
      BY <1>5 DEF Claim
    <3>2. Claims(r, j)
      BY <1>5, <3>1 DEF Claim, Claims, NextClaim, GoTo
    <3> QED BY <3>2
  <2>2. /\ \A i \in JobId \ {j} : jobs'[i] = jobs[i]
        /\ jobs'[j].status = "running" /\ jobs'[j].locked_by = r /\ jobs'[j].task = jobs[j].task
        /\ \A s \in Runner \ {r} : pc'[s] = pc[s] /\ mine'[s] = mine[s]
        /\ pc'[r] = "claimed"
    BY <2>1, ClaimsEffect
  <2>3. CASE jobs[j].task = t
    <3>1. Carries(j, t)'
      BY <2>2, <2>3 DEF Carries, OwnsRow, Satisfied
    <3> QED BY <3>1 DEF Armed
  <2>4. CASE jobs[j].task # t
    <3>1. CarriersStay(t)
      BY <2>2, <2>4, CarriersLive DEF CarriersStay
    <3>2. \A s \in Runner \ {r} : todo'[s] = todo[s]
      BY <1>5, GoToMoves DEF Claim
    <3>3. ~Rearms(r, t)
      BY <1>5 DEF Claim, Rearms
    <3> QED BY <2>2, <3>1, <3>2, <3>3, MovesKeepArmed DEF Satisfied
  <2> QED BY <2>3, <2>4
<1>6. CASE BeginWork(r)
  <2>1. PICK ts \in Plans(mine[r].task) : GoTo(r, "working", mine[r], ts)
    BY <1>6 DEF BeginWork
  <2>2. mine[r].task = t => ts # <<>>
    BY <2>1 DEF Plans
  <2> QED BY <1>1, <1>6, <2>1, <2>2 DEF BeginWork
<1>7. CASE Heartbeat(r)
  <2>1. CASE OwnsRow(r)
    <3>1. mine[r].id \in JobId
      BY <2>1, RowsAndClaims DEF OwnsRow
    <3>2. Ages(mine[r].id, FALSE)
      BY <1>7, <2>1, <3>1, NoFault DEF Heartbeat, Ages, runnerVars, OwnsRow, TypeInv, TableTypes
    <3>3. \A i \in JobId : /\ jobs'[i].task = jobs[i].task /\ jobs'[i].status = jobs[i].status
                           /\ jobs'[i].locked_by = jobs[i].locked_by
      BY <3>1, <3>2, AgesEffect
    <3>4. UNCHANGED <<pc, mine, todo>>
      BY <1>7, <2>1 DEF Heartbeat, runnerVars
    <3>5. CarriersStay(t)
      BY <3>3, CarriersLive DEF CarriersStay
    <3> QED BY <3>4, <3>5, RowsKeepArmed
  <2> QED BY <1>1, <1>7, <2>1 DEF Heartbeat, FailHandler
<1>8. CASE HandlerFails(r)
  BY <1>1, <1>8 DEF HandlerFails, FailHandler
<1> QED BY <1>2, <1>3, <1>4, <1>5, <1>6, <1>7, <1>8, EnqueueKeepsArmed, SettleKeepsArmed DEF RunnerNext

(* So do the HTTP side, which touches clips' jobs only, and time. *)
LEMMA WorldKeepsArmed ==
    ASSUME TypeInv, LockInv, NEW t \in SweepTask, Armed(t), External \/ TimePasses
    PROVE  Armed(t)'
<1>1. ASSUME NEW u \in ClipTask, FinalizeInsert(u) PROVE Armed(t)'
  <2>1. PICK j \in JobId : Free(j) /\ jobs' = [jobs EXCEPT ![j] = NewRow(u)]
    BY <1>1 DEF FinalizeInsert
  <2>2. CarriersStay(t)
    BY <2>1, CarriersLive DEF CarriersStay, Free, TypeInv, TableTypes
  <2> QED BY <1>1, <2>2, RowsKeepArmed DEF FinalizeInsert, runnerVars
<1>2. ASSUME NEW c \in Clip, DeleteForClip(c) PROVE Armed(t)'
  <2>1. c # NoClip /\ t.clip = NoClip
    BY NullAssumption, TasksDiffer
  <2>2. CarriersStay(t)
    BY <1>2, <2>1, CarriersLive DEF DeleteForClip, CarriersStay
  <2> QED BY <1>2, <2>2, RowsKeepArmed DEF DeleteForClip, runnerVars
<1>3. ASSUME NEW j \in JobId, BecomesDue(j) PROVE Armed(t)'
  BY <1>3, SameCarriers, RowsKeepArmed DEF BecomesDue, runnerVars
<1>4. ASSUME NEW j \in JobId, LockExpires(j) PROVE Armed(t)'
  <2>1. jobs' = [jobs EXCEPT ![j] = Aged(jobs[j], TRUE)] /\ UNCHANGED <<pc, mine, todo>>
    BY <1>4 DEF LockExpires, runnerVars
  <2>2. \A i \in JobId : /\ jobs'[i].task = jobs[i].task /\ jobs'[i].status = jobs[i].status
                         /\ jobs'[i].locked_by = jobs[i].locked_by
    <3>1. jobs[j] \in Row /\ \A i \in JobId : jobs'[i] = IF i = j THEN Aged(jobs[j], TRUE) ELSE jobs[i]
      BY <2>1 DEF TypeInv, TableTypes
    <3>2. /\ Aged(jobs[j], TRUE).task = jobs[j].task /\ Aged(jobs[j], TRUE).status = jobs[j].status
          /\ Aged(jobs[j], TRUE).locked_by = jobs[j].locked_by
      BY <3>1, AgedRow
    <3> QED BY <3>1, <3>2
  <2>3. CarriersStay(t)
    BY <2>2, CarriersLive DEF CarriersStay
  <2> QED BY <2>1, <2>3, RowsKeepArmed
<1> QED BY <1>1, <1>2, <1>3, <1>4 DEF External, TimePasses

(* What a worker of a sweep has to enqueue is the sweep: it begins with that,   *)
(* and an enqueue that ends takes it off.                                   *)
LEMMA SweepPlansNext ==
    ASSUME TypeInv, SweepPlans, [Next]_vars
    PROVE  SweepPlans'
<1> SUFFICES ASSUME NEW s \in Runner, pc'[s] = "working", mine'[s].task \in SweepTask
             PROVE  todo'[s] \in {<<mine'[s].task>>, <<>>}
  BY DEF SweepPlans
<1>0. pc[s] = "working" /\ mine[s].task \in SweepTask => todo[s] \in {<<mine[s].task>>, <<>>}
  BY DEF SweepPlans
<1>1. CASE pc'[s] = pc[s] /\ mine'[s] = mine[s] /\ todo'[s] = todo[s]
  BY <1>0, <1>1
<1>2. ASSUME NEW r \in Runner, NEW p, NEW m, NEW ts, GoTo(r, p, m, ts), p # "working" \/ ts = <<>>
      PROVE  todo'[s] \in {<<mine'[s].task>>, <<>>}
  BY <1>1, <1>2, GoToMoves
<1>3. ASSUME NEW r \in Runner, EnqueueError(r) PROVE todo'[s] \in {<<mine'[s].task>>, <<>>}
  BY <1>2, <1>3 DEF EnqueueError, Forget, FailHandler
<1>4. ASSUME NEW r \in Runner, Enqueue(r) PROVE todo'[s] \in {<<mine'[s].task>>, <<>>}
  <2>1. CASE BeginEnqueue(r) \/ InsertConflict(r)
    BY <1>1, <2>1 DEF BeginEnqueue, InsertConflict
  <2>2. CASE InsertJob(r) \/ LookupActive(r)
    <3>1. UNCHANGED <<pc, mine>> /\ todo[r] # <<>>
      BY <2>2 DEF InsertJob, LookupActive, TypeInv, RunnerTypes
    <3>2. todo' = [todo EXCEPT ![r] = Tail(todo[r])] \/ UNCHANGED todo
      BY <2>2 DEF InsertJob, LookupActive
    <3> DEFINE rest == Tail(todo[r])
    <3> HIDE DEF rest
    <3>a. todo' = [todo EXCEPT ![r] = rest] \/ UNCHANGED todo
      BY <3>2 DEF rest
    <3>3. todo'[s] = todo[s] \/ (s = r /\ todo'[s] = rest)
      BY <3>a DEF TypeInv, RunnerTypes
    <3>4. \A t : Tail(<<t>>) = <<>>
      OBVIOUS
    <3> QED BY <1>0, <3>1, <3>3, <3>4 DEF rest
  <2>3. CASE ReinsertConflict(r)
    BY <1>3, <2>3 DEF ReinsertConflict
  <2> QED BY <1>4, <2>1, <2>2, <2>3 DEF Enqueue
<1>5. ASSUME NEW r \in Runner, Settle(r) PROVE todo'[s] \in {<<mine'[s].task>>, <<>>}
  BY <1>2, <1>5 DEF Settle, Succeed, Retry, MarkDead, Buried, Forget
<1>6. ASSUME NEW r \in Runner, RunnerNext(r) PROVE todo'[s] \in {<<mine'[s].task>>, <<>>}
  <2>1. CASE BeginWork(r)
    <3>1. PICK ts \in Plans(mine[r].task) : GoTo(r, "working", mine[r], ts)
      BY <2>1 DEF BeginWork
    <3>2. CASE s = r
      <4>1. mine'[s] = mine[s] /\ todo'[s] = ts
        BY <3>1, <3>2, GoToMoves
      <4> QED BY <3>1, <3>2, <4>1 DEF Plans
    <3>3. CASE s # r
      BY <1>1, <3>1, <3>3, GoToMoves
    <3> QED BY <3>2, <3>3
  <2>2. CASE Heartbeat(r)
    BY <1>1, <1>2, <2>2 DEF Heartbeat, FailHandler, runnerVars
  <2>3. CASE EnsureSweep(r)
    <3>1. pc[r] = "ensuring" /\ UNCHANGED <<pc, mine>> /\ \A q \in Runner \ {r} : todo'[q] = todo[q]
      BY <2>3 DEF EnsureSweep, TypeInv, RunnerTypes
    <3> QED BY <1>1, <3>1
  <2>4. CASE Start(r) \/ BeginPolling(r) \/ Claim(r) \/ HandlerFails(r)
    BY <1>2, <2>4 DEF Start, BeginPolling, Claim, HandlerFails, Forget, FailHandler
  <2> QED BY <1>4, <1>5, <1>6, <2>1, <2>2, <2>3, <2>4 DEF RunnerNext
<1>7. ASSUME NEW r \in Runner, Faulty(r) PROVE todo'[s] \in {<<mine'[s].task>>, <<>>}
  BY <1>2, <1>3, <1>7 DEF Faulty, EnqueueDbError, SettleDbError, Crash, Forget
<1>8. CASE UNCHANGED vars \/ External \/ TimePasses
  <2>1. UNCHANGED <<pc, mine, todo>>
    BY <1>8 DEF vars, External, FinalizeInsert, DeleteForClip, TimePasses, BecomesDue, LockExpires, runnerVars
  <2> QED BY <1>1, <2>1
<1> QED BY <1>6, <1>7, <1>8 DEF Next

(* The sweeps that a starting process has still to ensure. *)
Ensuring(r, t) == \E i \in 1..Len(todo[r]) : todo[r][i] = t

(* A sweep is among the sweeps to ensure at the start. *)
LEMMA StartEnsures ==
    ASSUME NEW t \in SweepTask
    PROVE  \E i \in 1..Len(TasksOf(StartupSweeps, NoClip)) : TasksOf(StartupSweeps, NoClip)[i] = t
<1>1. PICK i \in 1..Len(StartupSweeps) : StartupSweeps[i] = t.kind
  BY FollowUpAssumption DEF SweepTask
<1>2. t = [kind |-> t.kind, clip |-> NoClip]
  BY DEF SweepTask
<1> DEFINE n == Len(StartupSweeps)
           s == [k \in 1..n |-> [kind |-> StartupSweeps[k], clip |-> NoClip]]
<1>3. n \in Nat
  BY FollowUpAssumption, LenProperties
<1>4. s \in Seq({[kind |-> StartupSweeps[k], clip |-> NoClip] : k \in 1..n})
  BY <1>3, SeqDef
<1>5. DOMAIN s = 1..n
  OBVIOUS
<1>6. Len(s) = n
  BY <1>3, <1>4, <1>5, LenProperties
<1>7. s[i] = t
  BY <1>1, <1>2
<1> QED BY <1>1, <1>6, <1>7 DEF TasksOf

(* What is left to ensure after the head is in the tail. *)
LEMMA StillEnsuring ==
    ASSUME NEW q \in Seq(Task), q # <<>>, NEW t, Head(q) # t,
           NEW i \in 1..Len(q), q[i] = t
    PROVE  \E k \in 1..Len(Tail(q)) : Tail(q)[k] = t
<1>1. Len(q) \in Nat /\ Len(Tail(q)) = Len(q) - 1
      /\ \A k \in 1..Len(Tail(q)) : Tail(q)[k] = q[k + 1]
  BY HeadTailProperties, LenProperties
<1>a. Head(q) = q[1]
  OBVIOUS
<1>2. i - 1 \in 1..Len(Tail(q)) /\ (i - 1) + 1 = i
  BY <1>1, <1>a
<1> QED BY <1>1, <1>2

(* Each step keeps every sweep armed or, for a process that starts, still to be *)
(* ensured, unless a process dies or a statement fails.                     *)
LEMMA SweepsArmedNext ==
    ASSUME TypeInv, LockInv, SweepPlans, SweepsArmed, [Next]_vars, Calm'
    PROVE  \A t \in SweepTask : ArmedOrEnsured(t)'
<1> SUFFICES ASSUME NEW t \in SweepTask PROVE ArmedOrEnsured(t)'
  OBVIOUS
<1>1. CASE UNCHANGED vars
  <2>1. Calm /\ UNCHANGED <<jobs, pc, mine, todo>>
    BY <1>1 DEF vars, Calm
  <2>2. ArmedOrEnsured(t)
    BY <2>1 DEF SweepsArmed
  <2>3. Armed(t) => Armed(t)'
    BY <2>1, SameCarriers, RowsKeepArmed
  <2> QED BY <2>1, <2>2, <2>3 DEF ArmedOrEnsured
<1>2. ASSUME NEW r \in Runner, Faulty(r) PROVE FALSE
  <2>1. \A k \in {"crash", "db"} : Fault(k) => faults'[k] > 0
    BY DEF Fault, FaultKind, TypeInv, TableTypes
  <2> QED BY <1>2, <2>1 DEF Faulty, EnqueueDbError, SettleDbError, Crash, Calm
<1>3. CASE External \/ TimePasses
  <2>1. UNCHANGED <<pc, mine, todo>>
    BY <1>3 DEF External, FinalizeInsert, DeleteForClip, TimePasses, BecomesDue, LockExpires, runnerVars
  <2>2. faults'["db"] = faults["db"] /\ faults'["crash"] = faults["crash"]
    BY <1>3 DEF External, FinalizeInsert, DeleteForClip, TimePasses, BecomesDue, LockExpires, Fault,
                FaultKind, TypeInv, TableTypes
  <2>3. Calm
    BY <2>2 DEF Calm
  <2>4. ArmedOrEnsured(t)
    BY <2>3 DEF SweepsArmed
  <2>5. Armed(t) => Armed(t)'
    BY <1>3, WorldKeepsArmed
  <2> QED BY <2>1, <2>4, <2>5 DEF ArmedOrEnsured
<1>4. ASSUME NEW r \in Runner, RunnerNext(r) PROVE ArmedOrEnsured(t)'
  <2>1. UNCHANGED faults
    BY <1>4 DEF RunnerNext, Start, EnsureSweep, BeginPolling, Claim, BeginWork, Heartbeat, HandlerFails,
                Enqueue, BeginEnqueue, InsertJob, InsertConflict, LookupActive, ReinsertConflict,
                Settle, Succeed, Retry, MarkDead, Buried
  <2>2. ArmedOrEnsured(t)
    BY <2>1 DEF Calm, SweepsArmed
  <2>3. Armed(t) => Armed(t)'
    BY <1>4, RunnerKeepsArmed
  <2>4. CASE Armed(t)'
    BY <2>4 DEF ArmedOrEnsured
  <2>5. CASE ~Armed(t)'
    <3>1. ~Armed(t) /\ \A s \in Runner : pc[s] \in {"down", "ensuring"} /\ mine[s] = NoClaim
      BY <2>2, <2>3, <2>5, RowsAndClaims DEF ArmedOrEnsured, InHand
    <3>2. pc[r] = "ensuring" => Ensuring(r, t)
      BY <2>2, <3>1 DEF ArmedOrEnsured, Ensuring
    <3>3. ~SweepActive(t)
      BY <3>1 DEF SweepActive, Armed, Carries, OwnsRow
    <3>4. pc[r] = "down" => Start(r)
      BY <1>4 DEF RunnerNext, EnsureSweep, BeginPolling, Claim, BeginWork, Heartbeat, HandlerFails,
                  Enqueue, BeginEnqueue, InsertJob, InsertConflict, LookupActive, ReinsertConflict,
                  EnqueueError, Settle, Succeed, Retry, MarkDead, Buried, TypeInv, RunnerTypes
    <3>5. pc[r] = "ensuring" =>
            \/ EnsureSweep(r) \/ BeginPolling(r) \/ InsertJob(r) \/ InsertConflict(r)
            \/ LookupActive(r) \/ ReinsertConflict(r)
      <4>1. Settle(r) => pc[r] # "ensuring"
        BY DEF Settle, Succeed, Retry, MarkDead, Buried
      <4>2. Start(r) \/ Claim(r) \/ BeginWork(r) \/ Heartbeat(r) \/ HandlerFails(r) \/ BeginEnqueue(r)
              => pc[r] # "ensuring"
        BY DEF Start, Claim, BeginWork, Heartbeat, HandlerFails, BeginEnqueue
      <4> QED BY <1>4, <4>1, <4>2 DEF RunnerNext, Enqueue
    <3>6. ASSUME \A s \in Runner \ {r} : pc'[s] = pc[s] /\ todo'[s] = todo[s],
                 pc'[r] \in {"down", "ensuring"}, pc'[r] = "ensuring" => Ensuring(r, t)'
          PROVE  ArmedOrEnsured(t)'
      BY <2>2, <3>1, <3>6 DEF ArmedOrEnsured, Ensuring
    <3>7. CASE pc[r] = "down"
      <4>1. /\ todo'[r] = TasksOf(StartupSweeps, NoClip)
            /\ \A s \in Runner \ {r} : pc'[s] = pc[s] /\ todo'[s] = todo[s]
            /\ pc'[r] = "ensuring"
        BY <3>4, <3>7, GoToMoves DEF Start
      <4>2. \E i \in 1..Len(todo'[r]) : todo'[r][i] = t
        BY <4>1, StartEnsures
      <4>3. Ensuring(r, t)'
        BY <4>2 DEF Ensuring
      <4> QED BY <3>6, <4>1, <4>3
    <3>8. CASE pc[r] = "ensuring"
      <4>1. todo[r] \in Seq(Task) /\ todo[r] # <<>>
        <5>1. PICK i \in 1..Len(todo[r]) : todo[r][i] = t
          BY <3>2, <3>8 DEF Ensuring
        <5>2. Len(<<>>) = 0
          OBVIOUS
        <5> QED BY <5>1, <5>2 DEF TypeInv, RunnerTypes
      <4>2. Head(todo[r]) # t => \E k \in 1..Len(Tail(todo[r])) : Tail(todo[r])[k] = t
        BY <3>2, <3>8, <4>1, StillEnsuring DEF Ensuring
      <4>3. /\ \A s \in Runner \ {r} : pc'[s] = pc[s] /\ todo'[s] = todo[s]
            /\ \/ pc'[r] = "down"
               \/ pc'[r] = "ensuring" /\ todo'[r] = todo[r]
               \/ /\ pc'[r] = "ensuring" /\ todo'[r] = Tail(todo[r])
                  /\ \/ SweepActive(Head(todo[r])) \/ Conflicts(Head(todo[r])) \/ InsertJob(r)
        <5>1. CASE EnsureSweep(r)
          BY <3>8, <5>1 DEF EnsureSweep, TypeInv, RunnerTypes
        <5>2. CASE BeginPolling(r)
          BY <4>1, <5>2 DEF BeginPolling
        <5>3. CASE InsertJob(r)
          BY <3>8, <5>3 DEF InsertJob, TypeInv, RunnerTypes
        <5>4. CASE InsertConflict(r) \/ LookupActive(r)
          BY <3>8, <5>4 DEF InsertConflict, LookupActive, TypeInv, RunnerTypes
        <5>5. CASE ReinsertConflict(r)
          BY <3>8, <5>5, GoToMoves DEF ReinsertConflict, EnqueueError, Forget
        <5> QED BY <3>5, <3>8, <5>1, <5>2, <5>3, <5>4, <5>5
      <4>4. ~(Head(todo[r]) = t /\ (SweepActive(t) \/ Conflicts(t) \/ InsertJob(r)))
        <5>1. ~Conflicts(t)
          BY <3>3, ConflictWaits DEF Waits, SweepActive
        <5>2. ASSUME Head(todo[r]) = t, InsertJob(r) PROVE FALSE
          <6>1. PICK j \in JobId : jobs' = [jobs EXCEPT ![j] = NewRow(t)]
            BY <5>2 DEF InsertJob
          <6>2. jobs'[j].task = t /\ jobs'[j].status = "pending"
            BY <6>1, NewRowFields DEF TypeInv, TableTypes
          <6> QED BY <2>5, <6>2 DEF Armed, Carries
        <5> QED BY <3>3, <5>1, <5>2
      <4>5. pc'[r] = "ensuring" => Ensuring(r, t)'
        BY <3>2, <3>8, <4>2, <4>3, <4>4 DEF Ensuring
      <4> QED BY <3>6, <4>3, <4>5
    <3> QED BY <3>1, <3>7, <3>8
  <2> QED BY <2>4, <2>5
<1> QED BY <1>1, <1>2, <1>3, <1>4 DEF Next

(* In every behaviour, as long as no process dies and no statement fails, each  *)
(* sweep has a live row or a runner that buries one and is about to insert  *)
(* the next, from the moment that some process has started: for any number   *)
(* of processes, sweeps, stalls and failures of handlers.                   *)
THEOREM SweepsStayArmed == Spec => []SweepStaysArmed
<1> DEFINE I == TypeInv /\ LockInv /\ SweepPlans /\ SweepsArmed
<1>1. I /\ [Next]_vars => I'
  <2> SUFFICES ASSUME I, [Next]_vars PROVE I'
    OBVIOUS
  <2>1. TypeInv' /\ Step
    BY TypeInvNext, NextStep DEF LockInv
  <2>2. LockInv' /\ SweepPlans'
    BY <2>1, LockInvNext, SweepPlansNext
  <2>3. Calm' => \A t \in SweepTask : ArmedOrEnsured(t)'
    BY SweepsArmedNext
  <2> QED BY <2>1, <2>2, <2>3 DEF SweepsArmed
<1>2. Init => I
  <2>1. Init => SweepPlans /\ SweepsArmed
    BY DEF Init, SweepPlans, SweepsArmed, ArmedOrEnsured
  <2> QED BY <2>1, TypeInvInit, LockInvInit
<1>3. I => SweepStaysArmed
  <2>1. \A t : Armed(t) => SweepActive(t) \/ \E r \in Runner : pc[r] = "burying" /\ todo[r] = <<t>>
    BY DEF Armed, Carries, Rearms, SweepActive
  <2> QED BY <2>1 DEF SweepStaysArmed, SweepsArmed, ArmedOrEnsured, Calm
<1> QED BY <1>1, <1>2, <1>3, PTL DEF Spec

-----------------------------------------------------------------------------
(* Action properties *)

(* A settled row that some runner remembers is neither claimed, since only    *)
(* pending and running rows are, nor settled again, since its lock is gone, *)
(* nor taken for a new job, since its id is in use.                         *)
LEMMA StepSettled ==
    ASSUME TypeInv, Step, NEW j \in JobId, NEW r \in Runner,
           jobs[j].status \in {"succeeded", "dead"}, mine[r].id = j
    PROVE  jobs'[j] \in {jobs[j], NoRow}
<1>1. CASE Quiet
  BY <1>1 DEF Quiet
<1>2. CASE \E s \in Runner : Drops(s)
  BY <1>2 DEF Drops
<1>3. ASSUME NEW i \in JobId, NEW t \in Task, Inserts(i, t) PROVE jobs'[j] = jobs[j]
  BY <1>3, InsertsEffect
<1>4. ASSUME NEW s \in Runner, NEW i \in JobId, Claims(s, i) PROVE jobs'[j] = jobs[j]
  BY <1>4, ClaimsEffect
<1>5. ASSUME NEW i \in JobId, NEW b \in BOOLEAN, Ages(i, b) PROVE jobs'[j] = jobs[j]
  BY <1>5 DEF Ages, TypeInv, TableTypes
<1>6. ASSUME NEW s \in Runner, NEW st \in {"dead", "succeeded", "pending"}, NEW a \in Nat,
             Releases(s, st, a)
       PROVE jobs'[j] = jobs[j]
  <2>1. mine[s].id # j
    BY <1>6 DEF Releases, OwnsRow
  <2> QED BY <1>6, <2>1, ReleasesEffect
<1>7. ASSUME NEW c \in Clip, Purges(c) PROVE jobs'[j] \in {jobs[j], NoRow}
  BY <1>7 DEF Purges
<1> QED BY <1>1, <1>2, <1>3, <1>4, <1>5, <1>6, <1>7 DEF Step

(* In every behaviour a job that is settled while a runner still works on it   *)
(* stays settled: a runner that lost its lock neither revives the job nor    *)
(* settles it a second time.                                               *)
THEOREM SettlementIsFinal == Spec => SettledStaysSettled
<1> DEFINE A == \A j \in JobId :
         jobs[j].status \in {"succeeded", "dead"} /\ (\E r \in Runner : mine[r].id = j)
            => jobs'[j] \in {jobs[j], NoRow}
<1>1. TypeInv /\ LockInv /\ [Next]_vars => [A]_vars
  BY NextStep, StepSettled DEF LockInv
<1>2. Spec => [][A]_vars
  BY <1>1, LocksAreSound, PTL DEF Spec
<1> QED BY <1>2 DEF SettledStaysSettled

(* A settlement writes back the attempts the row has, which its owner's copy    *)
(* equals; only a claim changes them, and only an idle runner claims.       *)
LEMMA StepCounts ==
    ASSUME TypeInv, LockInv, Step, NEW j \in JobId, Active(j), jobs'[j].status # "absent",
           jobs'[j].attempts # jobs[j].attempts
    PROVE  /\ jobs'[j].attempts = jobs[j].attempts + 1
           /\ jobs'[j].status = "running"
           /\ \E r \in Runner : jobs'[j].locked_by = r /\ pc[r] = "idle"
<1>1. CASE Quiet
  BY <1>1 DEF Quiet
<1>2. CASE \E s \in Runner : Drops(s)
  BY <1>2 DEF Drops
<1>3. ASSUME NEW i \in JobId, NEW t \in Task, Inserts(i, t) PROVE FALSE
  <2>1. i # j
    BY <1>3 DEF Inserts, Free, Active
  <2> QED BY <1>3, <2>1, InsertsEffect
<1>4. ASSUME NEW s \in Runner, NEW i \in JobId, Claims(s, i)
       PROVE /\ jobs'[j].attempts = jobs[j].attempts + 1
             /\ jobs'[j].status = "running"
             /\ jobs'[j].locked_by = s /\ pc[s] = "idle"
  <2>1. i = j
    BY <1>4, ClaimsEffect
  <2>2. pc[s] = "idle"
    BY <1>4 DEF Claims
  <2> QED BY <1>4, <2>1, <2>2, ClaimsEffect
<1>5. ASSUME NEW i \in JobId, NEW b \in BOOLEAN, Ages(i, b) PROVE FALSE
  BY <1>5, AgesEffect
<1>6. ASSUME NEW s \in Runner, NEW st \in {"dead", "succeeded", "pending"}, NEW a \in Nat,
             Releases(s, st, a)
       PROVE FALSE
  <2>1. mine[s].id = j
    BY <1>6, ReleasesEffect
  <2>2. jobs[j].attempts = mine[s].attempts
    BY <1>6, <2>1 DEF Releases, LockInv, LockIsLatestClaim
  <2> QED BY <1>6, <2>1, <2>2, ReleasesEffect
<1>7. ASSUME NEW c \in Clip, Purges(c) PROVE FALSE
  BY <1>7, PurgesEffect
<1> QED BY <1>1, <1>2, <1>3, <1>4, <1>5, <1>6, <1>7 DEF Step

(* In every behaviour a live row's attempts count its claims: retries, lost     *)
(* locks and late runners never take one back.                              *)
THEOREM AttemptsAreCounted == Spec => AttemptsCountClaims
<1> DEFINE A == \A j \in JobId :
         Active(j) /\ jobs'[j].status # "absent" /\ jobs'[j].attempts # jobs[j].attempts
         => /\ jobs'[j].attempts = jobs[j].attempts + 1
            /\ jobs'[j].status = "running"
            /\ \E r \in Runner : jobs'[j].locked_by = r /\ pc[r] = "idle"
<1>1. TypeInv /\ LockInv /\ [Next]_vars => [A]_vars
  BY NextStep, StepCounts DEF LockInv
<1>2. Spec => [][A]_vars
  BY <1>1, LocksAreSound, PTL DEF Spec
<1> QED BY <1>2 DEF AttemptsCountClaims

-----------------------------------------------------------------------------
(* The abstract job service *)

InForceFor(j, t) == jobs[j].task = t /\ Active(j)

(* The task of a clip is as its row in force has it, if there is one. *)
AsItsRow(t) ==
    /\ \A j \in JobId : InForceFor(j, t) =>
         JobOf(t) = Service!InForce(jobs[j].attempts, jobs[j].locked_by)
    /\ (\A j \in JobId : ~InForceFor(j, t)) => JobOf(t) = Service!Settled

TasksAsRows == \A t \in ClipTask : AsItsRow(t)

(* Two rows in force for one task would be duplicates. *)
LEMMA RowInForce == TypeInv /\ NoDuplicateJobs => TasksAsRows
<1> SUFFICES ASSUME TypeInv, NoDuplicateJobs, NEW t \in ClipTask
             PROVE  AsItsRow(t)
  BY DEF TasksAsRows
<1>1. InForce(t) = {"pending", "running"} /\ t \notin SweepTask
  BY TasksDiffer DEF InForce
<1>2. ActiveFor(t) = {j \in JobId : InForceFor(j, t)}
  BY <1>1 DEF ActiveFor, InForceFor, Active
<1>3. ASSUME NEW j \in JobId, InForceFor(j, t) PROVE ActiveFor(t) = {j}
  BY <1>1, <1>2, <1>3 DEF NoDuplicateJobs, InForceFor
<1>4. ASSUME NEW j \in JobId, InForceFor(j, t)
      PROVE JobOf(t) = Service!InForce(jobs[j].attempts, jobs[j].locked_by)
  <2>1. Conflicts(t) /\ (CHOOSE k \in ActiveFor(t) : TRUE) = j
    BY <1>3, <1>4 DEF Conflicts
  <2> QED BY <2>1 DEF JobOf, Service!InForce
<1>5. (\A j \in JobId : ~InForceFor(j, t)) => JobOf(t) = Service!Settled
  BY <1>2 DEF JobOf, Conflicts, Service!Settled
<1> QED BY <1>4, <1>5 DEF AsItsRow

(* So it is after a step. *)
LEMMA RowInForceAfter ==
    ASSUME TypeInv', NoDuplicateJobs', NEW t \in ClipTask
    PROVE  /\ \A j \in JobId : InForceFor(j, t)' =>
                JobOf(t)' = Service!InForce(jobs'[j].attempts, jobs'[j].locked_by)
           /\ (\A j \in JobId : ~InForceFor(j, t)') => JobOf(t)' = Service!Settled
<1>1. TasksAsRows'
  BY RowInForce, PTL
<1> QED BY <1>1 DEF TasksAsRows, AsItsRow, Service!InForce, Service!Settled

(* A step that changes no row in force for a task does not change the task. *)
LEMMA SameJob ==
    ASSUME TypeInv, NoDuplicateJobs, TypeInv', NoDuplicateJobs', NEW t \in ClipTask,
           \A j \in JobId : InForceFor(j, t) \/ InForceFor(j, t)' =>
             /\ InForceFor(j, t) /\ InForceFor(j, t)'
             /\ jobs'[j].attempts = jobs[j].attempts
             /\ jobs'[j].locked_by = jobs[j].locked_by
    PROVE  JobOf(t)' = JobOf(t)
<1>1. CASE \E j \in JobId : InForceFor(j, t)
  BY <1>1, RowInForce, RowInForceAfter DEF TasksAsRows, AsItsRow
<1>2. CASE ~\E j \in JobId : InForceFor(j, t)
  BY <1>2, RowInForce, RowInForceAfter DEF TasksAsRows, AsItsRow, Service!Settled
<1> QED BY <1>1, <1>2

(* A step of the service, or none. *)
Serves == Service!Next \/ UNCHANGED <<JobMap, HandMap>>

(* The views, task by task and runner by runner. *)
LEMMA Views ==
    /\ DOMAIN JobMap = ClipTask /\ DOMAIN JobMap' = ClipTask
    /\ \A t \in ClipTask : JobMap[t] = JobOf(t) /\ JobMap'[t] = JobOf(t)'
    /\ \A r \in Runner : HandMap[r] = HandOf(r) /\ HandMap'[r] = HandOf(r)'
BY DEF JobMap, HandMap

LEMMA JobsUnchanged ==
    ASSUME \A t \in ClipTask : JobOf(t)' = JobOf(t)
    PROVE  UNCHANGED JobMap
BY DEF JobMap

LEMMA HandsUnchanged ==
    ASSUME \A r \in Runner : HandOf(r)' = HandOf(r)
    PROVE  UNCHANGED HandMap
BY DEF HandMap

LEMMA OneJobChanges ==
    ASSUME NEW t \in ClipTask, NEW x, JobOf(t)' = x,
           \A u \in ClipTask \ {t} : JobOf(u)' = JobOf(u)
    PROVE  JobMap' = [JobMap EXCEPT ![t] = x]
BY DEF JobMap

LEMMA OneHandChanges ==
    ASSUME NEW r \in Runner, NEW x, HandOf(r)' = x,
           \A s \in Runner \ {r} : HandOf(s)' = HandOf(s)
    PROVE  HandMap' = [HandMap EXCEPT ![r] = x]
BY DEF HandMap

(* A runner without a claim is idle, and so is one that sweeps. *)
LEMMA IdleHand ==
    /\ NoTask \notin ClipTask
    /\ \A r \in Runner : mine[r] = NoClaim => HandOf(r) = Service!Idle
    /\ \A r \in Runner : mine'[r] = NoClaim => HandOf(r)' = Service!Idle
<1>1. NoTask \notin ClipTask
  BY NullAssumption DEF NoTask, ClipTask
<1> QED BY <1>1 DEF HandOf, NoClaim, Service!Idle

(* Reading, dropping and leaving. *)
LEMMA QuietServes ==
    ASSUME TypeInv, NoDuplicateJobs, TypeInv', NoDuplicateJobs', Quiet
    PROVE  Serves
<1>1. ASSUME NEW t \in ClipTask PROVE JobOf(t)' = JobOf(t)
  BY SameJob DEF Quiet, InForceFor, Active
<1>2. ASSUME NEW r \in Runner PROVE HandOf(r)' = HandOf(r)
  BY IdleHand, RowsAndClaims DEF Quiet, HandOf, InHand
<1> QED BY <1>1, <1>2, JobsUnchanged, HandsUnchanged DEF Serves

LEMMA DropsServe ==
    ASSUME TypeInv, NoDuplicateJobs, TypeInv', NoDuplicateJobs', NEW r \in Runner, Drops(r)
    PROVE  Serves
<1>1. ASSUME NEW t \in ClipTask PROVE JobOf(t)' = JobOf(t)
  BY SameJob DEF Drops, InForceFor, Active
<1>2. HandOf(r)' = Service!Idle
  BY IdleHand DEF Drops, TypeInv, RunnerTypes
<1>3. ASSUME NEW s \in Runner \ {r} PROVE HandOf(s)' = HandOf(s)
  BY DEF Drops, TypeInv, RunnerTypes, HandOf
<1>4. Service!Leave(r)
  BY <1>1, <1>2, <1>3, JobsUnchanged, OneHandChanges DEF Service!Leave
<1> QED BY <1>4 DEF Serves, Service!Next

LEMMA InsertsServe ==
    ASSUME TypeInv, NoDuplicateJobs, TypeInv', NoDuplicateJobs',
           NEW j \in JobId, NEW t \in Task, Inserts(j, t)
    PROVE  Serves
<1>1. /\ ~InForceFor(j, t) /\ \A u \in ClipTask : ~InForceFor(j, u)
      /\ InForceFor(j, t)' /\ \A u \in ClipTask \ {t} : ~InForceFor(j, u)'
      /\ \A i \in JobId \ {j} : jobs'[i] = jobs[i]
      /\ jobs'[j].attempts = 0 /\ jobs'[j].locked_by = NoRunner
  <2>1. /\ \A i \in JobId \ {j} : jobs'[i] = jobs[i]
        /\ jobs'[j] = NewRow(t)
        /\ ~Active(j)
    <3>1. ~Active(j)
      BY DEF Inserts, Free, Active
    <3> QED BY <3>1, InsertsEffect
  <2> QED BY <2>1, NewRowFields DEF InForceFor, Active
<1>2. ASSUME NEW u \in ClipTask \ {t} PROVE JobOf(u)' = JobOf(u)
  BY <1>1, SameJob DEF InForceFor, Active
<1>3. UNCHANGED HandMap
  BY InsertsEffect, HandsUnchanged DEF HandOf
<1>4. CASE t \in ClipTask
  <2>1. \A i \in JobId : ~InForceFor(i, t)
    BY <1>4, TasksDiffer DEF Inserts, Conflicts, ActiveFor, InForce, InForceFor, Active
  <2>2. JobOf(t) = Service!Settled
    BY <1>4, <2>1, RowInForce DEF TasksAsRows, AsItsRow
  <2>3. JobOf(t)' = Service!InForce(0, NoRunner)
    BY <1>1, <1>4, RowInForceAfter
  <2>4. JobMap' = [JobMap EXCEPT ![t] = Service!InForce(0, NoRunner)]
    BY <1>2, <1>4, <2>3, OneJobChanges
  <2>5. Service!Submit(t)
    BY <1>3, <1>4, <2>2, <2>4, Views DEF Service!Submit, Service!Settled
  <2> QED BY <1>4, <2>5 DEF Serves, Service!Next
<1>5. CASE t \notin ClipTask
  BY <1>2, <1>3, <1>5, JobsUnchanged DEF Serves
<1> QED BY <1>4, <1>5

LEMMA ClaimsServe ==
    ASSUME TypeInv, NoDuplicateJobs, TypeInv', NoDuplicateJobs',
           NEW r \in Runner, NEW j \in JobId, Claims(r, j)
    PROVE  Serves
<1> PICK t : t = jobs[j].task
  OBVIOUS
<1>1. /\ InForceFor(j, t) /\ InForceFor(j, t)'
      /\ \A u \in ClipTask \ {t} : ~InForceFor(j, u) /\ ~InForceFor(j, u)'
      /\ \A i \in JobId \ {j} : jobs'[i] = jobs[i]
      /\ jobs'[j].attempts = jobs[j].attempts + 1 /\ jobs'[j].locked_by = r
  BY ClaimsEffect DEF InForceFor, Active
<1>2. ASSUME NEW u \in ClipTask \ {t} PROVE JobOf(u)' = JobOf(u)
  BY <1>1, SameJob DEF InForceFor, Active
<1>3. HandOf(r) = Service!Idle
  BY ClaimsEffect, IdleHand
<1>4. ASSUME NEW s \in Runner \ {r} PROVE HandOf(s)' = HandOf(s)
  BY ClaimsEffect DEF HandOf
<1>5. mine'[r].task = t /\ pc'[r] = "claimed"
  BY ClaimsEffect DEF Claims, TypeInv, RunnerTypes
<1>6. CASE t \in ClipTask
  <2>1. JobOf(t) = Service!InForce(jobs[j].attempts, jobs[j].locked_by)
    BY <1>1, <1>6, RowInForce DEF TasksAsRows, AsItsRow
  <2> DEFINE n == jobs[j].attempts
  <2>2. JobOf(t)' = Service!InForce(n + 1, r)
    BY <1>1, <1>6, RowInForceAfter
  <2>3. JobMap' = [JobMap EXCEPT ![t] = Service!InForce(n + 1, r)]
    BY <1>2, <1>6, <2>2, OneJobChanges
  <2>4. HandMap' = [HandMap EXCEPT ![r] = Service!Busy(t, FALSE)]
    <3>1. HandOf(r)' = Service!Busy(t, FALSE)
      BY <1>5, <1>6 DEF HandOf, Service!Busy
    <3> QED BY <1>4, <3>1, OneHandChanges
  <2>5. Service!Take(r, t)
    <3>1. JobMap[t].inForce /\ JobMap[t].takes = n
      BY <1>6, <2>1, Views DEF Service!InForce
    <3> QED BY <1>3, <2>3, <2>4, <3>1, Views DEF Service!Take
  <2> QED BY <1>6, <2>5 DEF Serves, Service!Next
<1>7. CASE t \notin ClipTask
  <2>1. HandOf(r)' = HandOf(r)
    BY <1>3, <1>5, <1>7 DEF HandOf, Service!Idle
  <2> QED BY <1>2, <1>4, <1>7, <2>1, JobsUnchanged, HandsUnchanged DEF Serves
<1> QED BY <1>6, <1>7

LEMMA AgesServe ==
    ASSUME TypeInv, NoDuplicateJobs, TypeInv', NoDuplicateJobs',
           NEW j \in JobId, NEW b \in BOOLEAN, Ages(j, b)
    PROVE  Serves
<1>1. ASSUME NEW t \in ClipTask PROVE JobOf(t)' = JobOf(t)
  BY AgesEffect, SameJob DEF InForceFor, Active
<1>2. ASSUME NEW r \in Runner PROVE HandOf(r)' = HandOf(r)
  BY AgesEffect DEF HandOf
<1> QED BY <1>1, <1>2, JobsUnchanged, HandsUnchanged DEF Serves

(* A purge cancels every task of its clip. *)
LEMMA PurgesServe ==
    ASSUME TypeInv, NoDuplicateJobs, TypeInv', NoDuplicateJobs', NEW c \in Clip, Purges(c)
    PROVE  Serves
<1> DEFINE gone == {t \in ClipTask : t.clip = c}
<1>1. \A j \in JobId : jobs'[j] = IF jobs[j].task.clip = c /\ jobs[j].status # "absent"
                                     THEN NoRow ELSE jobs[j]
  BY DEF Purges
<1>2. ASSUME NEW t \in gone PROVE JobOf(t)' = Service!Settled
  <2>1. \A j \in JobId : ~InForceFor(j, t)'
    BY <1>1, <1>2, NewRowFields DEF InForceFor, Active
  <2> QED BY <2>1, RowInForceAfter
<1>3. ASSUME NEW t \in ClipTask \ gone PROVE JobOf(t)' = JobOf(t)
  <2>1. \A j \in JobId : jobs[j].task = t => jobs'[j] = jobs[j]
    BY <1>1
  <2>2. \A j \in JobId : InForceFor(j, t)' => jobs[j].task = t
    BY <1>1, NewRowFields DEF InForceFor, Active
  <2> QED BY <2>1, <2>2, SameJob DEF InForceFor, Active
<1>4. JobMap' = [t \in ClipTask |-> IF t \in gone THEN Service!Settled ELSE JobMap[t]]
  BY <1>2, <1>3 DEF JobMap
<1>5. UNCHANGED HandMap
  BY PurgesEffect, HandsUnchanged DEF HandOf
<1>6. Service!Cancel(gone)
  BY <1>4, <1>5 DEF Service!Cancel
<1> QED BY <1>6 DEF Serves, Service!Next

(* Whoever passes the locked_by test is the last taker, so its settlement is   *)
(* the service's.                                                          *)
LEMMA ReleasesServe ==
    ASSUME TypeInv, LockInv, NoDuplicateJobs, TypeInv', NoDuplicateJobs',
           NEW r \in Runner, NEW st \in {"dead", "succeeded", "pending"}, NEW a \in Nat,
           Releases(r, st, a)
    PROVE  Serves
<1> PICK t \in Task : t = mine[r].task
  BY RowsAndClaims DEF Releases, OwnsRow
<1> PICK j \in JobId : j = mine[r].id
  BY ReleasesEffect
<1>1. /\ jobs[j].task = t /\ jobs[j].status = "running" /\ jobs[j].locked_by = r
      /\ jobs[j].attempts = mine[r].attempts /\ a = jobs[j].attempts
      /\ mine[r] # NoClaim /\ pc[r] \in {"claimed", "working", "failing"}
  BY ReleasesEffect DEF Releases, OwnsRow, LockInv, LockIsLatestClaim
<1>2. /\ \A i \in JobId \ {j} : jobs'[i] = jobs[i]
      /\ jobs'[j].task = t /\ jobs'[j].status = st /\ jobs'[j].attempts = a
  BY <1>1, ReleasesEffect
<1>3. jobs'[j].locked_by = NoRunner
  BY <1>1, <1>2 DEF TypeInv, TableTypes
<1>4. /\ InForceFor(j, t)
      /\ InForceFor(j, t)' <=> st = "pending"
      /\ \A u \in ClipTask \ {t} : ~InForceFor(j, u) /\ ~InForceFor(j, u)'
  BY <1>1, <1>2 DEF InForceFor, Active
<1>5. ASSUME NEW u \in ClipTask \ {t} PROVE JobOf(u)' = JobOf(u)
  BY <1>2, <1>4, SameJob DEF InForceFor, Active
<1>6. ASSUME NEW s \in Runner \ {r} PROVE HandOf(s)' = HandOf(s)
  BY ReleasesEffect DEF HandOf
<1>7. CASE t \in ClipTask
  <2>1. JobOf(t) = Service!InForce(a, r)
    BY <1>1, <1>4, <1>7, RowInForce DEF TasksAsRows, AsItsRow
  <2>2. HandOf(r) = Service!Busy(t, FALSE)
    BY <1>1, <1>7 DEF HandOf, Service!Busy
  <2>3. Service!Holds(r, t) /\ JobMap[t].takes = a
    <3>1. JobMap[t].inForce /\ JobMap[t].holder = r /\ JobMap[t].takes = a
      BY <1>7, <2>1, Views DEF Service!InForce
    <3> QED BY <1>7, <2>2, <3>1, Views DEF Service!Holds
  <2>4. st # "pending" => JobMap' = [JobMap EXCEPT ![t] = Service!Settled]
    <3>1. ASSUME NEW i \in JobId, st # "pending" PROVE ~InForceFor(i, t)'
      <4>1. i # j => ~InForceFor(i, t)
        BY <1>1, <1>7, TasksDiffer DEF InForceFor, NoDuplicateJobs, Active
      <4> QED BY <1>2, <1>4, <3>1, <4>1 DEF InForceFor, Active
    <3>2. st # "pending" => JobOf(t)' = Service!Settled
      BY <1>7, <3>1, RowInForceAfter
    <3> QED BY <1>5, <1>7, <3>2, OneJobChanges
  <2>5. st = "pending" => JobMap' = [JobMap EXCEPT ![t] = Service!InForce(a, NoRunner)]
    <3>1. st = "pending" => JobOf(t)' = Service!InForce(a, NoRunner)
      BY <1>2, <1>3, <1>4, <1>7, RowInForceAfter
    <3> QED BY <1>5, <1>7, <3>1, OneJobChanges
  <2>6. mine'[r] = NoClaim => HandMap' = [HandMap EXCEPT ![r] = Service!Idle]
    BY <1>6, IdleHand, OneHandChanges
  <2>7. mine'[r] = mine[r] /\ pc'[r] = "burying"
          => HandMap' = [HandMap EXCEPT ![r] = Service!Busy(t, TRUE)]
    <3>1. mine'[r] = mine[r] /\ pc'[r] = "burying" => HandOf(r)' = Service!Busy(t, TRUE)
      BY <1>7 DEF HandOf, Service!Busy
    <3> QED BY <1>6, <3>1, OneHandChanges
  <2>8. CASE st = "dead"
    <3>1. Service!GiveUp(r, t)
      BY <2>3, <2>4, <2>7, <2>8, ReleasesEffect DEF Service!GiveUp
    <3> QED BY <1>7, <3>1 DEF Serves, Service!Next
  <2>9. CASE st = "succeeded"
    <3>1. Service!Finish(r, t)
      BY <2>3, <2>4, <2>6, <2>9, ReleasesEffect DEF Service!Finish
    <3> QED BY <1>7, <3>1 DEF Serves, Service!Next
  <2>10. CASE st = "pending"
    <3>1. Service!PutBack(r, t)
      BY <2>3, <2>5, <2>6, <2>10, ReleasesEffect DEF Service!PutBack
    <3> QED BY <1>7, <3>1 DEF Serves, Service!Next
  <2> QED BY <2>8, <2>9, <2>10
<1>8. CASE t \notin ClipTask
  <2>1. HandOf(r)' = HandOf(r)
    BY <1>8, IdleHand, ReleasesEffect DEF HandOf, Service!Idle
  <2> QED BY <1>5, <1>6, <1>8, <2>1, JobsUnchanged, HandsUnchanged DEF Serves
<1> QED BY <1>7, <1>8

(* Every step of the queue is a step of the service, or none. *)
LEMMA StepServes ==
    ASSUME TypeInv, LockInv, NoDuplicateJobs, TypeInv', NoDuplicateJobs', Step
    PROVE  Serves
BY QuietServes, DropsServe, InsertsServe, ClaimsServe, AgesServe, ReleasesServe, PurgesServe
   DEF Step

(* Seen by the tasks of clips, the queue is the job service, for any number of *)
(* runners, clips, kinds and faults: whatever rows, locks and enqueue         *)
(* statements do, a task has one job, every take of it counts once, and only  *)
(* the last taker puts it back, finishes it or buries it.                     *)
THEOREM QueueImplementsService == Spec => ImplementsService
<1> DEFINE I == TypeInv /\ LockInv /\ NoDuplicateJobs
<1>1. I /\ [Next]_vars => I'
  BY TypeInvNext, NextStep, LockInvNext, NoDuplicateNext DEF LockInv
<1>2. Init => I
  BY TypeInvInit, LockInvInit, NoDuplicateInit
<1>3. Init => Service!Init
  <2> SUFFICES ASSUME Init PROVE Service!Init
    OBVIOUS
  <2>1. ASSUME NEW t \in ClipTask PROVE JobOf(t) = Service!Settled
    BY <1>2, RowInForce DEF TasksAsRows, AsItsRow, InForceFor, Active, Init, NoRow
  <2>2. ASSUME NEW r \in Runner PROVE HandOf(r) = Service!Idle
    BY IdleHand DEF Init
  <2> QED BY <2>1, <2>2 DEF Service!Init, JobMap, HandMap
<1>4. I /\ [Next]_vars => [Service!Next]_<<JobMap, HandMap>>
  BY <1>1, NextStep, StepServes DEF Serves, LockInv
<1>5. Init /\ []I /\ [][Next]_vars => Service!Init /\ [][Service!Next]_<<JobMap, HandMap>>
  BY <1>3, <1>4, PTL
<1>6. Service!Init /\ [][Service!Next]_<<JobMap, HandMap>> => ImplementsService
  BY PTL DEF ImplementsService, Service!Spec
<1> QED BY <1>1, <1>2, <1>5, <1>6, PTL DEF Spec
=============================================================================
