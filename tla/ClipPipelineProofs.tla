------------------------- MODULE ClipPipelineProofs -------------------------
(***************************************************************************)
(* Proofs about ClipPipeline, for every number of runners, rows, attempts, *)
(* faults, artifact jobs and settings: a clip that is being processed is   *)
(* attended to, a successful optimization leaves a row that describes its  *)
(* object, and an original that is replaced has been kept.                 *)
(*                                                                         *)
(* What the handlers rest on is the queue: whoever works on a job holds    *)
(* its lock as long as nobody stalls, and there is one live job of a kind. *)
(***************************************************************************)
EXTENDS ClipPipeline, SequenceTheorems, TLAPS

(* The steps of a runner that has a claimed job in hand, and of these the    *)
(* steps in which the job is still to be settled.                          *)
InHand == {"claimed", "working", "failing", "burying"}
Unsettled == {"claimed", "working", "failing"}

-----------------------------------------------------------------------------
(* The invariant *)

(* The tables: rows have a task as long as they are there, and the task is a  *)
(* clip's.                                                                 *)
TableTypes ==
    /\ jobs \in [JobId -> Queue!Row]
    /\ due \in SUBSET JobId /\ ahead \in [JobId -> SUBSET JobId]
    /\ faults \in [Queue!FaultKind -> Nat]
    /\ \A j \in JobId : jobs[j].status # "absent" => jobs[j].task \in Queue!ClipTask

(* A runner has a claim exactly in the steps that need one, and enqueues only *)
(* when there is something to enqueue.                                     *)
RunnerTypes ==
    /\ pc \in [Runner -> Queue!RunnerStep]
    /\ mine \in [Runner -> Queue!Claimed \cup {Queue!NoClaim}]
    /\ todo \in [Runner -> Seq(Queue!ClipTask)]
    /\ enq \in [Runner -> Queue!EnqStep]
    /\ \A r \in Runner : mine[r] # Queue!NoClaim <=> pc[r] \in InHand
    /\ \A r \in Runner : enq[r] # "none" => todo[r] # <<>> /\ pc[r] \in {"working", "burying"}

ClipTypes ==
    /\ config \in Configs
    /\ clip \in {"created", "processing", "ready", "failed", "deleted"}
    /\ size \in Generation /\ source \in Generation
    /\ candidate \in Generation \cup {NoObject}
    /\ original \in Generation \cup {NoObject}
    /\ seen \in [Runner -> Seen]

(* Where a handler or a burial is, and that it has nothing to enqueue before  *)
(* its last step.                                                          *)
StepOK(r) ==
    /\ pc[r] \notin {"working", "burying"} => step[r] = "none"
    /\ pc[r] = "working" => step[r] \notin {"none", "failing_clip"}
    /\ pc[r] = "burying" => step[r] \in {"failing_clip", "enqueueing"}
    /\ step[r] # "enqueueing" => todo[r] = <<>>
Steps == step \in [Runner -> HandlerStep] /\ \A r \in Runner : StepOK(r)

Types == TableTypes /\ RunnerTypes /\ ClipTypes /\ Steps

(* Whoever passes the lock test has the row's task in hand, and has yet to    *)
(* settle it.                                                              *)
LocksMatch ==
    \A r \in Runner : Queue!OwnsRow(r) =>
        pc[r] \in Unsettled /\ jobs[mine[r].id].task = mine[r].task

(* There is one live row of a task.                                         *)
NoDuplicates ==
    \A i, j \in JobId :
        i # j /\ Queue!Active(i) /\ Queue!Active(j) => jobs[i].task # jobs[j].task

(* Unless a holder has stalled, whoever has a job to settle holds its lock.   *)
HoldersHold ==
    faults["stall"] = 0 =>
        \A r \in Runner : pc[r] \in Unsettled => Queue!OwnsRow(r) /\ ~jobs[mine[r].id].stale

(* A validate job that is about to succeed has taken its clip out of          *)
(* processing, or found it out.                                            *)
Validated ==
    \A r \in Runner : InHandler(r, "validate", "enqueueing") => clip \notin {"created", "processing"}

(* What an optimization has established by each of its steps, of the row, the *)
(* object and the copy of the original.                                    *)
Agrees(r) ==
    /\ step[r] = "heading" => seen[r].size = size
    /\ step[r] = "reconciling" => seen[r].head = source
    /\ step[r] \in {"encoding", "putting", "comparing", "discarding"} => size = source
    /\ step[r] = "activating" /\ config.keep => original = source
    /\ step[r] = "stamping" => seen[r].made = source
    /\ step[r] \in {"tidying", "enqueueing"} /\ ~Deleted => size = source

Optimizes(r) == pc[r] = "working" /\ Kind(r) = "optimize"
OptimizationAgrees == faults["stall"] = 0 => \A r \in Runner : Optimizes(r) => Agrees(r)

PipelineInv ==
    /\ Types /\ LocksMatch /\ NoDuplicates /\ HoldersHold
    /\ Validated /\ ProcessingIsAttended /\ OptimizationAgrees

-----------------------------------------------------------------------------
(* Tasks *)

(* There are no sweeps here: every task is a clip's, and the kinds that are    *)
(* enqueued are kinds of clip jobs.                                        *)
LEMMA ClipTasksOnly ==
    /\ Queue!SweepTask = {} /\ Queue!Task = Queue!ClipTask
    /\ MediaKind \in Seq(ClipKind) /\ <<>> \in Seq(ClipKind) /\ MediaProcessing \in Seq(ClipKind)
    /\ "validate" \in ClipKind /\ "optimize" \in ClipKind
<1>1. Queue!SweepTask = {}
  BY DEF Queue!SweepTask
<1>2. Queue!Task = Queue!ClipTask
  BY <1>1 DEF Queue!Task
<1>3. Len(MediaKind) \in Nat /\ MediaKind \in [1 .. Len(MediaKind) -> MediaKinds]
  BY PipelineAssumption, LenProperties DEF MediaKinds
<1>4. MediaKind \in Seq(MediaKinds)
  BY <1>3, SeqDef
<1>5. MediaKind \in Seq(ClipKind)
  <2>1. MediaKind \in [1 .. Len(MediaKind) -> ClipKind]
    BY <1>3 DEF ClipKind
  <2>2. QED BY <1>3, <2>1, SeqDef
<1>6. "optimize" \in ClipKind /\ "validate" \in ClipKind
  BY DEF ClipKind
<1>7. <<"optimize">> \in Seq(ClipKind) /\ <<>> \in Seq(ClipKind)
  BY <1>6
<1>8. QED BY <1>1, <1>2, <1>5, <1>6, <1>7 DEF MediaProcessing

LEMMA TasksTyped ==
    ASSUME NEW kinds \in Seq(ClipKind), NEW c \in Clip
    PROVE  Queue!TasksOf(kinds, c) \in Seq(Queue!ClipTask)
<1> DEFINE n == Len(kinds)
           s == [i \in 1 .. n |-> [kind |-> kinds[i], clip |-> c]]
<1>1. n \in Nat /\ \A i \in 1 .. n : kinds[i] \in ClipKind
  BY LenProperties, ElementOfSeq
<1>2. s \in [1 .. n -> Queue!ClipTask]
  BY <1>1 DEF Queue!ClipTask
<1>3. s \in Seq(Queue!ClipTask)
  BY <1>1, <1>2, SeqDef
<1> QED BY <1>3 DEF Queue!TasksOf

LEMMA NoTasks == ASSUME NEW c PROVE Queue!TasksOf(<<>>, c) = <<>>
<1> DEFINE s == [i \in 1 .. Len(<<>>) |-> [kind |-> <<>>[i], clip |-> c]]
<1>1. Len(<<>>) = 0 /\ 1 .. 0 = {}
  OBVIOUS
<1>2. s \in [1 .. 0 -> {}]
  BY <1>1
<1>3. s \in Seq({}) /\ Len(s) = 0
  BY <1>1, <1>2, SeqDef
<1>4. s = <<>>
  BY <1>3, EmptySeq
<1> QED BY <1>4 DEF Queue!TasksOf

-----------------------------------------------------------------------------
(* How runners move *)

(* Runner r goes to step p with the claim m, the tasks ts left to enqueue, e   *)
(* of their enqueue under way, and its handler at s.                       *)
Move(r, p, m, ts, e, s) ==
    /\ pc' = [pc EXCEPT ![r] = p] /\ mine' = [mine EXCEPT ![r] = m]
    /\ todo' = [todo EXCEPT ![r] = ts] /\ enq' = [enq EXCEPT ![r] = e]
    /\ step' = [step EXCEPT ![r] = s]

(* The moves that make sense. *)
Sound(p, m, ts, e, s) ==
    /\ p \in Queue!RunnerStep /\ m \in Queue!Claimed \cup {Queue!NoClaim}
    /\ ts \in Seq(Queue!ClipTask) /\ e \in Queue!EnqStep /\ s \in HandlerStep
    /\ m # Queue!NoClaim <=> p \in InHand
    /\ e # "none" => ts # <<>> /\ p \in {"working", "burying"}
    /\ p \notin {"working", "burying"} => s = "none"
    /\ p = "working" => s \notin {"none", "failing_clip"}
    /\ p = "burying" => s \in {"failing_clip", "enqueueing"}
    /\ s # "enqueueing" => ts = <<>>

LEMMA MoveTypes ==
    ASSUME RunnerTypes, Steps, NEW r \in Runner, NEW p, NEW m, NEW ts, NEW e, NEW s,
           Sound(p, m, ts, e, s), Move(r, p, m, ts, e, s)
    PROVE  RunnerTypes' /\ Steps'
<1>1. RunnerTypes'
  BY DEF RunnerTypes, Sound, Move
<1>2. Steps'
  <2>1. step' \in [Runner -> HandlerStep]
    BY DEF Steps, Sound, Move
  <2>2. ASSUME NEW q \in Runner PROVE StepOK(q)'
    BY DEF Steps, StepOK, RunnerTypes, Sound, Move
  <2>3. QED BY <2>1, <2>2 DEF Steps
<1>3. QED BY <1>1, <1>2

(* What a runner has in hand: its claim, and nothing under way before the     *)
(* last step of its handler.                                               *)
LEMMA Claims ==
    ASSUME Types, NEW r \in Runner
    PROVE  /\ pc[r] \in InHand => /\ mine[r] \in Queue!Claimed /\ mine[r] # Queue!NoClaim
                                  /\ mine[r].id \in JobId /\ mine[r].attempts \in Nat
                                  /\ mine[r].task \in Queue!ClipTask /\ mine[r].task.clip \in Clip
                                  /\ Kind(r) \in ClipKind
           /\ pc[r] \notin InHand => mine[r] = Queue!NoClaim
           /\ step[r] # "enqueueing" => todo[r] = <<>> /\ enq[r] = "none"
           /\ Queue!OwnsRow(r) => mine[r].id \in JobId /\ pc[r] \in InHand
<1>1. pc[r] \in InHand => mine[r] \in Queue!Claimed /\ mine[r] # Queue!NoClaim
  BY DEF Types, RunnerTypes
<1>2. pc[r] \notin InHand => mine[r] = Queue!NoClaim
  BY DEF Types, RunnerTypes
<1>3. pc[r] \in InHand => /\ mine[r].id \in JobId /\ mine[r].attempts \in Nat
                          /\ mine[r].task \in Queue!ClipTask
  BY <1>1, ClipTasksOnly DEF Queue!Claimed
<1>4. pc[r] \in InHand => mine[r].task.clip \in Clip /\ Kind(r) \in ClipKind
  BY <1>3 DEF Queue!ClipTask, Kind
<1>5. step[r] # "enqueueing" => todo[r] = <<>> /\ enq[r] = "none"
  BY DEF Types, RunnerTypes, Steps, StepOK
<1>6. Queue!OwnsRow(r) => pc[r] \in InHand
  BY DEF Queue!OwnsRow, Types, RunnerTypes
<1>7. QED BY <1>1, <1>2, <1>3, <1>4, <1>5, <1>6

(* The handlers' ways to go on. *)
LEMMA ProceedMoves ==
    ASSUME Types, NEW r \in Runner, NEW s, Proceed(r, s)
    PROVE  Move(r, pc[r], mine[r], todo[r], enq[r], s) /\ UNCHANGED <<queueVars, config, seen>>
BY DEF Proceed, Step, Move, queueVars, Types, RunnerTypes

LEMMA FollowUpMoves ==
    ASSUME Types, NEW r \in Runner, NEW kinds \in Seq(ClipKind), FollowUp(r, kinds), pc[r] = "working"
    PROVE  /\ Move(r, pc[r], mine[r], Tasks(r, kinds), enq[r], "enqueueing")
           /\ Tasks(r, kinds) \in Seq(Queue!ClipTask)
           /\ UNCHANGED <<jobs, due, ahead, faults, config, seen>>
<1>1. Tasks(r, kinds) \in Seq(Queue!ClipTask)
  BY Claims, TasksTyped DEF Tasks, InHand
<1>2. QED BY <1>1 DEF FollowUp, Step, Move, Types, RunnerTypes

(* Leaving the handler, in error or for good. *)
LEMMA LeaveMoves ==
    ASSUME Types, NEW r \in Runner, NEW p, NEW m, NEW ts, Queue!GoTo(r, p, m, ts), Leave(r)
    PROVE  Move(r, p, m, ts, "none", "none") /\ seen' = [seen EXCEPT ![r] = NothingSeen]
BY DEF Queue!GoTo, Leave, Step, Move

LEMMA FailMoves ==
    ASSUME Types, NEW r \in Runner, Fail(r)
    PROVE  /\ Move(r, "failing", mine[r], <<>>, "none", "none") /\ pc[r] = "working"
           /\ seen' = [seen EXCEPT ![r] = NothingSeen]
           /\ UNCHANGED <<jobs, due, ahead, faults, config>>
BY LeaveMoves DEF Fail, Queue!HandlerFails, Queue!FailHandler, Queue!queueVars

(* Every step of a handler, or of a burial before it enqueues, is one of      *)
(* these.                                                                  *)
Handles(r) == LoadClip(r) \/ Validate(r) \/ Optimize(r) \/ OperationFails(r) \/ FailClip(r)

GoesOn(r, s, ts) ==
    /\ Move(r, pc[r], mine[r], ts, enq[r], s)
    /\ s \in HandlerStep \ {"none", "failing_clip"} /\ ts \in Seq(Queue!ClipTask)
    /\ s # "enqueueing" => ts = <<>>
    /\ pc[r] = "burying" => s = "enqueueing"

GivesUp(r) ==
    /\ pc[r] = "working" /\ Move(r, "failing", mine[r], <<>>, "none", "none")
    /\ seen' = [seen EXCEPT ![r] = NothingSeen]

LEMMA ProceedGoesOn ==
    ASSUME Types, NEW r \in Runner, NEW s \in HandlerStep \ {"none", "failing_clip"}, Proceed(r, s),
           step[r] \notin {"none", "enqueueing"}, pc[r] = "burying" => s = "enqueueing"
    PROVE  GoesOn(r, s, todo[r]) /\ UNCHANGED <<jobs, due, ahead, faults, config, seen>>
<1>1. todo[r] = <<>> /\ todo[r] \in Seq(Queue!ClipTask)
  BY Claims DEF Types, RunnerTypes
<1>2. QED BY <1>1, ProceedMoves DEF GoesOn, queueVars

LEMMA FollowUpGoesOn ==
    ASSUME Types, NEW r \in Runner, NEW kinds \in Seq(ClipKind), FollowUp(r, kinds), pc[r] = "working"
    PROVE  GoesOn(r, "enqueueing", Tasks(r, kinds)) /\ UNCHANGED <<jobs, due, ahead, faults, config, seen>>
BY FollowUpMoves DEF GoesOn, HandlerStep

LEMMA StepGoesOn ==
    ASSUME Types, NEW r \in Runner, NEW s \in HandlerStep \ {"none", "failing_clip"}, Step(r, s),
           UNCHANGED queueVars, pc[r] = "working", step[r] \notin {"none", "enqueueing"}
    PROVE  GoesOn(r, s, <<>>) /\ UNCHANGED <<jobs, due, ahead, faults>>
<1>1. todo[r] = <<>> /\ <<>> \in Seq(Queue!ClipTask)
  BY Claims
<1>2. QED BY <1>1 DEF Step, GoesOn, Move, queueVars, Types, RunnerTypes

LEMMA FailGivesUp ==
    ASSUME Types, NEW r \in Runner, Fail(r)
    PROVE  GivesUp(r) /\ UNCHANGED <<jobs, due, ahead, faults, config>>
BY FailMoves DEF GivesUp

Outcome(r) ==
    /\ UNCHANGED <<jobs, due, ahead, faults, config>>
    /\ GivesUp(r) \/ \E s, ts : GoesOn(r, s, ts)

LEMMA HandlerMoves ==
    ASSUME Types, NEW r \in Runner, Handles(r)
    PROVE  /\ step[r] \notin {"none", "enqueueing"} /\ pc[r] \in {"working", "burying"}
           /\ pc[r] = "burying" <=> step[r] = "failing_clip"
           /\ Outcome(r)
<1>0. \A s : InHandler(r, "validate", s) \/ InHandler(r, "optimize", s) => pc[r] = "working" /\ step[r] = s
  BY DEF InHandler
<1>a. /\ pc[r] = "working" => step[r] # "failing_clip"
      /\ pc[r] = "burying" => step[r] \in {"failing_clip", "enqueueing"}
  BY DEF Types, Steps, StepOK
<1>b. /\ {"heading", "marking", "encoding", "reconciling", "putting", "comparing", "discarding", "keeping",
          "activating", "checking", "stamping", "tidying", "cleaning", "enqueueing"}
             \subseteq HandlerStep \ {"none", "failing_clip"}
      /\ MediaKind \in Seq(ClipKind) /\ MediaProcessing \in Seq(ClipKind) /\ <<>> \in Seq(ClipKind)
  BY ClipTasksOnly DEF HandlerStep, ValidateStep, OptimizeStep
<1>1. CASE LoadClip(r)
  <2>1. step[r] = "loading" /\ pc[r] = "working"
    BY <1>1 DEF LoadClip
  <2>2. CASE FollowUp(r, <<>>)
    BY <1>b, <2>1, <2>2, FollowUpGoesOn DEF Outcome
  <2>3. CASE Step(r, "heading") /\ UNCHANGED <<queueVars, config>>
    BY <1>b, <2>1, <2>3, StepGoesOn DEF Outcome
  <2>4. CASE Fail(r)
    BY <2>1, <2>4, FailGivesUp DEF Outcome
  <2>5. QED BY <1>1, <2>1, <2>2, <2>3, <2>4 DEF LoadClip
<1>2. CASE Validate(r)
  <2>1. pc[r] = "working" /\ step[r] \in {"heading", "marking"}
    BY <1>2, <1>0 DEF Validate, CheckObject, MarkReady
  <2>2. CASE Proceed(r, "marking")
    BY <1>b, <2>1, <2>2, ProceedGoesOn DEF Outcome
  <2>3. CASE FollowUp(r, MediaProcessing)
    BY <1>b, <2>1, <2>3, FollowUpGoesOn DEF Outcome
  <2>4. CASE Fail(r)
    BY <2>1, <2>4, FailGivesUp DEF Outcome
  <2>5. Proceed(r, "marking") \/ FollowUp(r, MediaProcessing) \/ Fail(r)
    BY <1>2 DEF Validate, CheckObject, MarkReady
  <2>6. QED BY <2>1, <2>2, <2>3, <2>4, <2>5
<1>3. CASE Optimize(r)
  <2>1. pc[r] = "working" /\ step[r] \notin {"none", "enqueueing", "loading", "failing_clip"}
    BY <1>3, <1>0 DEF Optimize, HeadSource, Reconcile, Encode, PutCandidate, Compare, DiscardCandidate,
                      KeepOriginal, Activate, CheckSource, StampSize, TidyCandidate, CleanCandidate
  <2>2. CASE Fail(r)
    BY <2>1, <2>2, FailGivesUp DEF Outcome
  <2>3. CASE FollowUp(r, MediaKind)
    BY <1>b, <2>1, <2>3, FollowUpGoesOn DEF Outcome
  <2>4. CASE \E s \in HandlerStep \ {"none", "failing_clip"} : Proceed(r, s)
    BY <2>1, <2>4, ProceedGoesOn DEF Outcome
  <2>5. CASE \E s \in HandlerStep \ {"none", "failing_clip"} : Step(r, s) /\ UNCHANGED <<queueVars, config>>
    BY <2>1, <2>5, StepGoesOn DEF Outcome
  <2>6. CASE HeadSource(r) \/ Encode(r)
    BY <1>b, <2>5, <2>6 DEF HeadSource, Encode
  <2>7. CASE Reconcile(r) \/ DiscardCandidate(r) \/ TidyCandidate(r)
    BY <2>3, <2>7 DEF Reconcile, DiscardCandidate, TidyCandidate
  <2>8. CASE PutCandidate(r) \/ Compare(r) \/ KeepOriginal(r) \/ Activate(r) \/ CheckSource(r) \/ StampSize(r)
    BY <1>b, <2>4, <2>8 DEF PutCandidate, Compare, KeepOriginal, Activate, CheckSource, StampSize
  <2>9. CASE CleanCandidate(r)
    BY <2>2, <2>9 DEF CleanCandidate
  <2>10. QED BY <1>3, <1>a, <2>1, <2>6, <2>7, <2>8, <2>9, Zenon DEF Optimize
<1>4. CASE OperationFails(r)
  <2>1. pc[r] = "working" /\ step[r] \notin {"none", "enqueueing"}
    BY <1>4 DEF OperationFails
  <2>2. CASE Proceed(r, "cleaning")
    <3>1. /\ pc[r] # "burying" /\ "cleaning" \in HandlerStep \ {"none", "failing_clip"}
          /\ step[r] # "failing_clip"
      BY <1>a, <1>b, <2>1
    <3>2. GoesOn(r, "cleaning", todo[r]) /\ UNCHANGED <<jobs, due, ahead, faults, config, seen>>
      BY <2>1, <2>2, <3>1, ProceedGoesOn
    <3>3. QED BY <2>1, <3>1, <3>2 DEF Outcome
  <2>3. CASE Fail(r)
    BY <1>a, <2>1, <2>3, FailGivesUp DEF Outcome
  <2>4. QED BY <1>4, <2>1, <2>2, <2>3 DEF OperationFails
<1>5. CASE FailClip(r)
  <2>1. pc[r] = "burying" /\ step[r] = "failing_clip" /\ Proceed(r, "enqueueing")
    BY <1>5 DEF FailClip
  <2>2. QED BY <1>b, <2>1, ProceedGoesOn DEF Outcome
<1>6. QED BY <1>1, <1>2, <1>3, <1>4, <1>5 DEF Handles

(* What each leaves of the clip's row and objects is a clip and its objects.  *)
LEMMA HandlerClipTypes ==
    ASSUME Types, NEW r \in Runner, Handles(r)
    PROVE  ClipTypes'
<1>0. config' = config
  BY HandlerMoves DEF Outcome
<1>1. /\ clip' \in {"created", "processing", "ready", "failed", "deleted"}
      /\ size' \in Generation /\ source' \in Generation
      /\ candidate' \in Generation \cup {NoObject} /\ original' \in Generation \cup {NoObject}
  <2>1. seen \in [Runner -> Seen] /\ seen[r].head \in Generation /\ seen[r].made \in Generation
    BY DEF Types, ClipTypes, Seen
  <2>2. CASE LoadClip(r)
    BY <2>2 DEF LoadClip, clipVars, objectVars, Types, ClipTypes
  <2>3. CASE Validate(r)
    BY <2>3 DEF Validate, CheckObject, MarkReady, clipVars, objectVars, Types, ClipTypes
  <2>4. CASE Optimize(r)
    BY <2>1, <2>4 DEF Optimize, HeadSource, Reconcile, Encode, PutCandidate, Compare, DiscardCandidate,
                      KeepOriginal, Activate, CheckSource, StampSize, TidyCandidate, CleanCandidate,
                      Recorded, clipVars, objectVars, Types, ClipTypes
  <2>5. CASE OperationFails(r)
    BY <2>5 DEF OperationFails, clipVars, objectVars, Types, ClipTypes
  <2>6. CASE FailClip(r)
    BY <2>6 DEF FailClip, objectVars, Types, ClipTypes
  <2>7. QED BY <2>2, <2>3, <2>4, <2>5, <2>6 DEF Handles
<1>2. seen' \in [Runner -> Seen]
  <2>0. /\ seen \in [Runner -> Seen] /\ seen[r] \in Seen /\ NothingSeen \in Seen
        /\ \A g \in Generation : /\ [seen[r] EXCEPT !.size = g] \in Seen
                                 /\ [seen[r] EXCEPT !.head = g] \in Seen
                                 /\ [seen[r] EXCEPT !.made = g] \in Seen
    <3>1. seen \in [Runner -> Seen] /\ seen[r] \in Seen
      BY DEF Types, ClipTypes
    <3>2. 0 \in Generation
      BY PipelineAssumption DEF Generation
    <3>3. NothingSeen \in Seen
      BY <3>2 DEF NothingSeen, Seen
    <3>4. ASSUME NEW g \in Generation, NEW row \in Seen
          PROVE  /\ [row EXCEPT !.size = g] \in Seen /\ [row EXCEPT !.head = g] \in Seen
                 /\ [row EXCEPT !.made = g] \in Seen
      BY DEF Seen
    <3>5. QED BY <3>1, <3>3, <3>4
  <2>1. CASE GivesUp(r)
    BY <2>0, <2>1 DEF GivesUp
  <2>2. \A kinds : FollowUp(r, kinds) => seen' = seen
    BY DEF FollowUp
  <2>3. \A s : Proceed(r, s) => seen' = seen
    BY DEF Proceed
  <2>4. Fail(r) => GivesUp(r)
    BY FailGivesUp
  <2>5. CASE LoadClip(r)
    <3>1. \/ seen' = seen \/ GivesUp(r) \/ seen' = [seen EXCEPT ![r].size = size]
      BY <2>2, <2>4, <2>5 DEF LoadClip
    <3>2. size \in Generation
      BY DEF Types, ClipTypes
    <3>3. QED BY <2>0, <2>1, <3>1, <3>2
  <2>6. CASE Validate(r)
    BY <2>0, <2>1, <2>2, <2>3, <2>4, <2>6 DEF Validate, CheckObject, MarkReady
  <2>7. CASE Optimize(r)
    <3>1. CASE HeadSource(r)
      <4>1. source \in Generation /\ seen' = [seen EXCEPT ![r].head = source]
        BY <3>1 DEF HeadSource, Types, ClipTypes
      <4>2. QED BY <2>0, <4>1
    <3>2. CASE Encode(r)
      <4>1. PICK g \in Generation : seen' = [seen EXCEPT ![r].made = g]
        BY <3>2 DEF Encode
      <4>2. QED BY <2>0, <4>1
    <3>3. CASE Reconcile(r) \/ DiscardCandidate(r) \/ TidyCandidate(r)
      BY <2>0, <2>2, <3>3 DEF Reconcile, DiscardCandidate, TidyCandidate
    <3>4. CASE PutCandidate(r) \/ Compare(r) \/ KeepOriginal(r) \/ Activate(r) \/ CheckSource(r) \/ StampSize(r)
      BY <2>0, <2>3, <3>4 DEF PutCandidate, Compare, KeepOriginal, Activate, CheckSource, StampSize
    <3>5. CASE CleanCandidate(r)
      BY <2>1, <2>4, <3>5 DEF CleanCandidate
    <3>6. QED BY <2>7, <3>1, <3>2, <3>3, <3>4, <3>5 DEF Optimize
  <2>8. CASE OperationFails(r) \/ FailClip(r)
    BY <2>0, <2>1, <2>3, <2>4, <2>8 DEF OperationFails, FailClip
  <2>9. QED BY <2>5, <2>6, <2>7, <2>8 DEF Handles
<1>3. QED BY <1>0, <1>1, <1>2 DEF ClipTypes, Types

-----------------------------------------------------------------------------
(* What a step does to rows and claims *)

FaultsGrow ==
    /\ faults' \in [Queue!FaultKind -> Nat]
    /\ \A k \in Queue!FaultKind : faults'[k] >= faults[k]

(* No row changes; runners go on with the claim they have, or give it up.     *)
Quiet ==
    /\ UNCHANGED jobs /\ FaultsGrow
    /\ \A s \in Runner :
         \/ mine'[s] = mine[s] /\ pc'[s] = pc[s]
         \/ mine'[s] = mine[s] /\ pc[s] \in {"claimed", "working"} /\ pc'[s] \in {"working", "failing"}
         \/ mine'[s] = Queue!NoClaim /\ pc'[s] \notin InHand

Inserts(j, t) ==
    /\ t \in Queue!ClipTask /\ Queue!Free(j) /\ ~Queue!Conflicts(t)
    /\ jobs' = [jobs EXCEPT ![j] = Queue!NewRow(t)]
    /\ UNCHANGED <<mine, pc, faults>>

ClaimsRow(r, j) ==
    /\ pc[r] = "idle" /\ Queue!Claimable(j)
    /\ jobs' = [jobs EXCEPT ![j] = Queue!Locked(jobs[j], r)]
    /\ mine' = [mine EXCEPT ![r] = [id |-> j, task |-> jobs[j].task,
                                    attempts |-> jobs[j].attempts + 1]]
    /\ pc' = [pc EXCEPT ![r] = "claimed"]
    /\ UNCHANGED faults

(* A lock is touched by its holder, or ages: under a holder only by a stall.  *)
Ages(j, b) ==
    /\ jobs[j].status = "running"
    /\ jobs' = [jobs EXCEPT ![j] = Queue!Aged(jobs[j], b)]
    /\ UNCHANGED <<mine, pc>> /\ FaultsGrow
    /\ b => faults'["stall"] > 0 \/ \A r \in Runner : ~(mine[r].id = j /\ Queue!OwnsRow(r))

(* The owner of a row settles it: as succeeded at the end of its handler, or   *)
(* back to pending, or dead with the last rites still to do.                *)
Releases(r, st) ==
    /\ Queue!OwnsRow(r) /\ UNCHANGED faults
    /\ \E a \in Nat : jobs' = [jobs EXCEPT ![mine[r].id] = Queue!Released(jobs[mine[r].id], st, a)]
    /\ \/ /\ st = "dead" /\ UNCHANGED mine /\ pc' = [pc EXCEPT ![r] = "burying"]
          /\ step' = [step EXCEPT ![r] = FirstRite(Kind(r))]
       \/ /\ \/ st = "succeeded" /\ pc[r] = "working" /\ step[r] = "enqueueing"
             \/ st = "pending"
          /\ mine' = [mine EXCEPT ![r] = Queue!NoClaim] /\ pc' = [pc EXCEPT ![r] = "idle"]

Shape ==
    \/ Quiet
    \/ \E j \in JobId, t \in Queue!ClipTask : Inserts(j, t)
    \/ \E r \in Runner, j \in JobId : ClaimsRow(r, j)
    \/ \E j \in JobId, b \in BOOLEAN : Ages(j, b)
    \/ \E r \in Runner, st \in {"succeeded", "pending", "dead"} : Releases(r, st)

(* Rows that are written.                                                   *)
LEMMA Rows ==
    ASSUME NEW row \in Queue!Row, NEW r \in Runner, NEW b \in BOOLEAN, NEW a \in Nat,
           NEW st \in Queue!Status, NEW t \in Queue!ClipTask
    PROVE  /\ Queue!Locked(row, r) \in Queue!Row /\ Queue!Locked(row, r).task = row.task
           /\ Queue!Locked(row, r).status = "running" /\ Queue!Locked(row, r).locked_by = r
           /\ ~Queue!Locked(row, r).stale
           /\ Queue!Aged(row, b) \in Queue!Row /\ Queue!Aged(row, b).task = row.task
           /\ Queue!Aged(row, b).status = row.status /\ Queue!Aged(row, b).locked_by = row.locked_by
           /\ Queue!Aged(row, b).stale = b
           /\ Queue!Released(row, st, a) \in Queue!Row /\ Queue!Released(row, st, a).task = row.task
           /\ Queue!Released(row, st, a).status = st
           /\ Queue!NewRow(t) \in Queue!Row /\ Queue!NewRow(t).task = t
           /\ Queue!NewRow(t).status = "pending"
<1>1. t \in Queue!Task
  BY ClipTasksOnly
<1>2. Queue!NewRow(t) \in Queue!Row /\ Queue!NewRow(t).task = t /\ Queue!NewRow(t).status = "pending"
  BY <1>1 DEF Queue!NewRow, Queue!Row, Queue!Status
<1>3. /\ Queue!Locked(row, r) \in Queue!Row /\ Queue!Locked(row, r).task = row.task
      /\ Queue!Locked(row, r).status = "running" /\ Queue!Locked(row, r).locked_by = r
      /\ ~Queue!Locked(row, r).stale
  BY DEF Queue!Locked, Queue!Row, Queue!Status
<1>4. /\ Queue!Aged(row, b) \in Queue!Row /\ Queue!Aged(row, b).task = row.task
      /\ Queue!Aged(row, b).status = row.status /\ Queue!Aged(row, b).locked_by = row.locked_by
      /\ Queue!Aged(row, b).stale = b
  BY DEF Queue!Aged, Queue!Row
<1>5. /\ Queue!Released(row, st, a) \in Queue!Row /\ Queue!Released(row, st, a).task = row.task
      /\ Queue!Released(row, st, a).status = st
  BY DEF Queue!Released, Queue!Row
<1>6. QED BY <1>2, <1>3, <1>4, <1>5

(* Writing a row that has a clip's task keeps the table.                     *)
LEMMA TableKept ==
    ASSUME TableTypes, FaultsGrow, UNCHANGED <<jobs, due, ahead>>
    PROVE  TableTypes'
BY DEF TableTypes, FaultsGrow

LEMMA TableWritten ==
    ASSUME TableTypes, FaultsGrow, NEW j \in JobId, NEW row \in Queue!Row, row.task \in Queue!ClipTask,
           jobs' = [jobs EXCEPT ![j] = row],
           due' \in SUBSET JobId, ahead' \in [JobId -> SUBSET JobId]
    PROVE  TableTypes'
BY DEF TableTypes, FaultsGrow

LEMMA DueKept ==
    ASSUME TableTypes, NEW j \in JobId, Queue!EnterDue(j) \/ Queue!LeaveDue({j}) \/ UNCHANGED <<due, ahead>>
    PROVE  due' \in SUBSET JobId /\ ahead' \in [JobId -> SUBSET JobId]
BY DEF TableTypes, Queue!EnterDue, Queue!LeaveDue

LEMMA FaultCounts ==
    ASSUME TableTypes
    PROVE  /\ UNCHANGED faults => FaultsGrow
           /\ \A k \in Queue!FaultKind : Queue!Fault(k) => FaultsGrow /\ faults'[k] > 0
           /\ {"crash", "stall", "db"} = Queue!FaultKind
BY DEF TableTypes, FaultsGrow, Queue!Fault, Queue!FaultKind

(* A clip whose row and objects a step leaves alone.                         *)
LEMMA ClipKept ==
    ASSUME Types, NEW r \in Runner, UNCHANGED <<config, clipVars, objectVars>>, seen' = seen \/ Leave(r)
    PROVE  ClipTypes'
<1>1. 0 \in Generation
  BY PipelineAssumption DEF Generation
<1>2. NothingSeen \in Seen
  BY <1>1 DEF NothingSeen, Seen
<1>3. QED BY <1>2 DEF Types, ClipTypes, clipVars, objectVars, Leave

(* A runner moves and no row changes. *)
LEMMA QuietMove ==
    ASSUME Types, NEW r \in Runner, NEW p, NEW m, NEW ts, NEW e, NEW s,
           Sound(p, m, ts, e, s), Move(r, p, m, ts, e, s), UNCHANGED <<jobs, due, ahead>>, FaultsGrow,
           \/ m = mine[r] /\ p = pc[r]
           \/ m = mine[r] /\ pc[r] \in {"claimed", "working"} /\ p \in {"working", "failing"}
           \/ m = Queue!NoClaim /\ p \notin InHand
    PROVE  TableTypes' /\ RunnerTypes' /\ Steps' /\ Quiet
<1>1. RunnerTypes' /\ Steps'
  BY MoveTypes DEF Types
<1>2. TableTypes'
  BY TableKept DEF Types
<1>3. pc \in [Runner -> Queue!RunnerStep] /\ DOMAIN mine = Runner
  BY DEF Types, RunnerTypes
<1>4. Quiet
  BY <1>3 DEF Quiet, Move
<1>5. QED BY <1>1, <1>2, <1>4

(* The handlers. *)
LEMMA HandlerShape ==
    ASSUME Types, NEW r \in Runner, Handles(r)
    PROVE  Types' /\ Shape
<1>1. /\ step[r] \notin {"none", "enqueueing"} /\ pc[r] \in {"working", "burying"} /\ Outcome(r)
      /\ ClipTypes'
  BY HandlerMoves, HandlerClipTypes
<1>2. /\ mine[r] \in Queue!Claimed /\ mine[r] # Queue!NoClaim /\ enq[r] = "none"
      /\ pc[r] \in Queue!RunnerStep
  BY <1>1, Claims DEF InHand, Types, RunnerTypes
<1>3. FaultsGrow /\ UNCHANGED <<jobs, due, ahead>>
  BY <1>1, FaultCounts DEF Types, Outcome
<1>4. CASE GivesUp(r)
  <2>1. Sound("failing", mine[r], <<>>, "none", "none")
    BY <1>2 DEF Sound, Queue!RunnerStep, Queue!EnqStep, HandlerStep, InHand
  <2>2. QED BY <1>1, <1>3, <1>4, <2>1, QuietMove DEF GivesUp, Types, Shape
<1>5. ASSUME NEW s, NEW ts, GoesOn(r, s, ts) PROVE Types' /\ Shape
  <2>1. Sound(pc[r], mine[r], ts, enq[r], s)
    BY <1>1, <1>2, <1>5 DEF GoesOn, Sound, Queue!EnqStep, InHand
  <2>2. QED BY <1>1, <1>3, <1>5, <2>1, QuietMove DEF GoesOn, Types, Shape
<1>6. QED BY <1>1, <1>4, <1>5 DEF Outcome

(* A step of the runner's queue actions, of which its handler's step and what  *)
(* it has seen are kept or forgotten.                                      *)
LEMMA ForgetShape ==
    ASSUME Types, NEW r \in Runner, NEW p \in {"down", "idle"}, Queue!Forget(r, p), FaultsGrow,
           Leave(r) \/ (pc[r] \notin {"working", "burying"} /\ UNCHANGED handlerVars),
           UNCHANGED <<jobs, due, ahead, config, clipVars, objectVars>>
    PROVE  Types' /\ Shape
<1>1. ClipTypes'
  BY ClipKept DEF handlerVars
<1>2. step[r] = "none" \/ pc[r] \in {"working", "burying"}
  BY DEF Types, Steps, StepOK
<1>3. Move(r, p, Queue!NoClaim, <<>>, "none", "none")
  BY <1>2 DEF Queue!Forget, Queue!GoTo, Move, Leave, Step, handlerVars, Types, Steps
<1>4. Sound(p, Queue!NoClaim, <<>>, "none", "none")
  BY DEF Sound, Queue!RunnerStep, Queue!EnqStep, HandlerStep, InHand
<1>5. p \notin InHand
  BY DEF InHand
<1>6. QED BY <1>1, <1>3, <1>4, <1>5, QuietMove DEF Types, Shape

LEMMA FailShape ==
    ASSUME Types, NEW r \in Runner, pc[r] = "working", Queue!FailHandler(r), Leave(r), FaultsGrow,
           UNCHANGED <<jobs, due, ahead, config, clipVars, objectVars>>
    PROVE  Types' /\ Shape
<1>1. ClipTypes'
  BY ClipKept
<1>2. Move(r, "failing", mine[r], <<>>, "none", "none")
  BY LeaveMoves DEF Queue!FailHandler
<1>3. Sound("failing", mine[r], <<>>, "none", "none")
  BY Claims DEF Sound, Queue!RunnerStep, Queue!EnqStep, HandlerStep, InHand
<1>4. QED BY <1>1, <1>2, <1>3, QuietMove DEF Types, Shape

(* A row is written, by a runner that moves or by somebody else. *)
LEMMA WritingMove ==
    ASSUME Types, NEW r \in Runner, NEW p, NEW m, NEW ts, NEW e, NEW s,
           Sound(p, m, ts, e, s), Move(r, p, m, ts, e, s),
           NEW j \in JobId, NEW row \in Queue!Row, row.task \in Queue!ClipTask,
           jobs' = [jobs EXCEPT ![j] = row],
           Queue!EnterDue(j) \/ Queue!LeaveDue({j}) \/ UNCHANGED <<due, ahead>>, FaultsGrow, ClipTypes'
    PROVE  Types'
<1>1. RunnerTypes' /\ Steps'
  BY MoveTypes DEF Types
<1>2. due' \in SUBSET JobId /\ ahead' \in [JobId -> SUBSET JobId]
  BY DueKept DEF Types
<1>3. TableTypes'
  BY <1>2, TableWritten DEF Types
<1>4. QED BY <1>1, <1>3 DEF Types

LEMMA PollShape ==
    ASSUME Types, NEW r \in Runner, Poll(r)
    PROVE  Types' /\ Shape
<1>1. CASE Queue!Start(r)
  <2>1. /\ pc[r] = "down" /\ step[r] = "none" /\ UNCHANGED <<jobs, due, ahead, faults>>
        /\ Queue!GoTo(r, "ensuring", Queue!NoClaim, <<>>) /\ UNCHANGED handlerVars /\ ClipTypes'
    BY <1>1, NoTasks, ClipKept DEF Queue!Start, Queue!queueVars, Poll, handlerVars, Types, Steps, StepOK
  <2>2. Move(r, "ensuring", Queue!NoClaim, <<>>, "none", "none")
    BY <2>1 DEF Queue!GoTo, Move, handlerVars, Types, Steps
  <2>3. Sound("ensuring", Queue!NoClaim, <<>>, "none", "none")
    BY DEF Sound, Queue!RunnerStep, Queue!EnqStep, HandlerStep, InHand
  <2>4. FaultsGrow /\ "ensuring" \notin InHand
    BY <2>1, FaultCounts DEF Types, InHand
  <2>5. QED BY <2>1, <2>2, <2>3, <2>4, QuietMove DEF Types, Shape
<1>2. CASE Queue!BeginPolling(r)
  <2>1. FaultsGrow
    BY <1>2, FaultCounts DEF Types, Queue!BeginPolling
  <2>2. QED BY <1>2, <2>1, ForgetShape DEF Queue!BeginPolling, Queue!queueVars, Poll
<1>3. CASE Queue!Claim(r)
  <2>1. PICK j \in JobId :
          /\ Queue!NextClaim(j)
          /\ jobs' = [jobs EXCEPT ![j] = Queue!Locked(jobs[j], r)]
          /\ Queue!GoTo(r, "claimed", [id |-> j, task |-> jobs[j].task,
                                       attempts |-> jobs[j].attempts + 1], <<>>)
    BY <1>3 DEF Queue!Claim
  <2> DEFINE m == [id |-> j, task |-> jobs[j].task, attempts |-> jobs[j].attempts + 1]
  <2>2. /\ pc[r] = "idle" /\ UNCHANGED <<due, ahead, faults>> /\ Queue!Claimable(j) /\ step[r] = "none"
        /\ UNCHANGED handlerVars /\ ClipTypes' /\ jobs[j] \in Queue!Row
    BY <1>3, <2>1, ClipKept DEF Queue!Claim, Queue!NextClaim, Queue!queueVars, Poll, handlerVars, Types,
                                Steps, StepOK, TableTypes
  <2>3. jobs[j].task \in Queue!ClipTask /\ jobs[j].attempts \in Nat
    BY <2>2 DEF Queue!Claimable, Types, TableTypes, Queue!Row
  <2>4. m \in Queue!Claimed /\ m # Queue!NoClaim
    BY <2>3, ClipTasksOnly, PipelineAssumption DEF Queue!Claimed, Queue!NoClaim
  <2>5. Sound("claimed", m, <<>>, "none", "none")
    BY <2>4 DEF Sound, Queue!RunnerStep, Queue!EnqStep, HandlerStep, InHand
  <2>6. Move(r, "claimed", m, <<>>, "none", "none")
    BY <2>1, <2>2 DEF Queue!GoTo, Move, handlerVars, Types, Steps
  <2>7. Queue!Locked(jobs[j], r) \in Queue!Row /\ Queue!Locked(jobs[j], r).task \in Queue!ClipTask
    BY <2>2, <2>3, Rows DEF Queue!Locked, Queue!Row, Queue!Status
  <2>8. FaultsGrow
    BY <2>2, FaultCounts DEF Types
  <2>9. Types'
    <3>. HIDE DEF m
    <3>1. QED BY <2>1, <2>2, <2>5, <2>6, <2>7, <2>8, WritingMove
  <2>10. ClaimsRow(r, j)
    BY <2>1, <2>2 DEF ClaimsRow, Queue!GoTo
  <2>11. QED BY <2>9, <2>10 DEF Shape
<1>4. QED BY <1>1, <1>2, <1>3 DEF Poll

LEMMA DispatchShape ==
    ASSUME Types, NEW r \in Runner, Dispatch(r)
    PROVE  Types' /\ Shape
<1>1. /\ pc[r] = "claimed" /\ UNCHANGED <<jobs, due, ahead, faults>> /\ ClipTypes'
      /\ step' = [step EXCEPT ![r] = "loading"]
  BY ClipKept DEF Dispatch, Queue!BeginWork, Queue!queueVars, Step
<1>2. mine[r].task \in Queue!ClipTask /\ mine[r].task.kind \in ClipKind /\ mine[r] \in Queue!Claimed
      /\ mine[r] # Queue!NoClaim
  BY <1>1, Claims DEF InHand, Kind
<1>3. PICK ts \in Queue!Plans(mine[r].task) : Queue!GoTo(r, "working", mine[r], ts)
  BY DEF Dispatch, Queue!BeginWork
<1>4. Queue!Plans(mine[r].task) = {Queue!TasksOf(kinds, mine[r].task.clip) : kinds \in {<<>>}}
  BY <1>2, ClipTasksOnly DEF Queue!Plans
<1>5. ts = <<>>
  BY <1>3, <1>4, NoTasks
<1>6. Move(r, "working", mine[r], <<>>, "none", "loading")
  BY <1>1, <1>3, <1>5 DEF Queue!GoTo, Move
<1>7. Sound("working", mine[r], <<>>, "none", "loading")
  BY <1>2 DEF Sound, Queue!RunnerStep, Queue!EnqStep, HandlerStep, InHand
<1>8. FaultsGrow
  BY <1>1, FaultCounts DEF Types
<1>9. QED BY <1>1, <1>6, <1>7, <1>8, QuietMove DEF Types, Shape

(* A runner's own view, when it stays where it is. *)
LEMMA StandsStill ==
    ASSUME Types, NEW r \in Runner, NEW ts \in Seq(Queue!ClipTask), NEW e \in Queue!EnqStep,
           pc[r] \in {"working", "burying"}, step[r] = "enqueueing", e # "none" => ts # <<>>
    PROVE  Sound(pc[r], mine[r], ts, e, step[r])
BY Claims DEF Sound, InHand, Types, RunnerTypes, Steps

(* Its handler's step stays, and its claim. *)
LEMMA StandingMove ==
    ASSUME Types, NEW r \in Runner, NEW ts \in Seq(Queue!ClipTask), NEW e \in Queue!EnqStep,
           pc[r] \in {"working", "burying"}, step[r] = "enqueueing", e # "none" => ts # <<>>,
           pc' = pc, mine' = mine, todo' = [todo EXCEPT ![r] = ts], enq' = [enq EXCEPT ![r] = e],
           UNCHANGED <<config, clipVars, objectVars, handlerVars>>
    PROVE  /\ Sound(pc[r], mine[r], ts, e, step[r]) /\ Move(r, pc[r], mine[r], ts, e, step[r])
           /\ ClipTypes'
<1>1. Sound(pc[r], mine[r], ts, e, step[r])
  BY StandsStill
<1>2. Move(r, pc[r], mine[r], ts, e, step[r])
  BY DEF Move, handlerVars, Types, RunnerTypes, Steps
<1>3. ClipTypes'
  BY ClipKept DEF handlerVars
<1>4. QED BY <1>1, <1>2, <1>3

LEMMA EnqueueErrorShape ==
    ASSUME Types, NEW r \in Runner, Queue!EnqueueError(r), FaultsGrow,
           IF pc'[r] = pc[r] THEN UNCHANGED handlerVars ELSE Leave(r),
           UNCHANGED <<config, clipVars, objectVars>>
    PROVE  Types' /\ Shape
<1>1. /\ pc[r] \in {"working", "burying"} /\ step[r] = "enqueueing" /\ UNCHANGED <<jobs, due, ahead>>
      /\ pc \in [Runner -> Queue!RunnerStep]
  BY DEF Queue!EnqueueError, Queue!queueVars, Types, RunnerTypes, Steps, StepOK
<1>2. CASE pc[r] = "working" /\ Queue!FailHandler(r)
  <2>1. pc'[r] = "failing"
    BY <1>1, <1>2 DEF Queue!FailHandler, Queue!GoTo
  <2>2. Leave(r)
    BY <1>2, <2>1
  <2>3. QED BY <1>1, <1>2, <2>2, FailShape
<1>3. CASE pc[r] = "working" /\ Queue!GoTo(r, "working", mine[r], <<>>)
  <2>1. pc' = pc /\ mine' = mine /\ todo' = [todo EXCEPT ![r] = <<>>] /\ enq' = [enq EXCEPT ![r] = "none"]
    BY <1>1, <1>3 DEF Queue!GoTo, Types, RunnerTypes
  <2>2. /\ Sound(pc[r], mine[r], <<>>, "none", step[r]) /\ Move(r, pc[r], mine[r], <<>>, "none", step[r])
        /\ ClipTypes'
    <3>1. UNCHANGED handlerVars /\ <<>> \in Seq(Queue!ClipTask) /\ "none" \in Queue!EnqStep
      BY <2>1 DEF Queue!EnqStep
    <3>2. QED BY <1>1, <2>1, <3>1, StandingMove
  <2>3. QED BY <1>1, <2>2, QuietMove DEF Types, Shape
<1>4. CASE pc[r] = "burying" /\ Queue!Forget(r, "idle")
  <2>1. pc'[r] = "idle"
    BY <1>1, <1>4 DEF Queue!Forget, Queue!GoTo
  <2>2. Leave(r)
    BY <1>4, <2>1
  <2>3. QED BY <1>1, <1>4, <2>2, ForgetShape
<1>5. QED BY <1>1, <1>2, <1>3, <1>4 DEF Queue!EnqueueError

LEMMA EnqueueShape ==
    ASSUME Types, NEW r \in Runner, Enqueue(r)
    PROVE  Types' /\ Shape
<1>1. /\ pc[r] \in {"working", "burying"} /\ step[r] = "enqueueing" /\ todo[r] # <<>>
      /\ todo[r] \in Seq(Queue!ClipTask)
  BY DEF Enqueue, Queue!Enqueue, Queue!BeginEnqueue, Queue!InsertJob, Queue!InsertConflict,
         Queue!LookupActive, Queue!ReinsertConflict, Types, RunnerTypes, Steps, StepOK
<1>2. Head(todo[r]) \in Queue!ClipTask /\ Tail(todo[r]) \in Seq(Queue!ClipTask)
  BY <1>1, HeadTailProperties
<1>3. UNCHANGED <<config, clipVars, objectVars>> /\ (pc' = pc => UNCHANGED handlerVars)
  BY DEF Enqueue
<1>4. UNCHANGED faults => FaultsGrow
  BY FaultCounts DEF Types
<1>5. CASE Queue!BeginEnqueue(r) \/ Queue!InsertConflict(r) \/ Queue!LookupActive(r)
  <2>1. PICK ts \in {todo[r], Tail(todo[r])}, e \in Queue!EnqStep :
          /\ e # "none" => ts # <<>>
          /\ pc' = pc /\ mine' = mine /\ todo' = [todo EXCEPT ![r] = ts] /\ enq' = [enq EXCEPT ![r] = e]
          /\ UNCHANGED <<jobs, due, ahead, faults>>
    BY <1>1, <1>5 DEF Queue!BeginEnqueue, Queue!InsertConflict, Queue!LookupActive, Queue!queueVars,
                      Queue!EnqStep, Types, RunnerTypes
  <2>2. /\ Sound(pc[r], mine[r], ts, e, step[r]) /\ Move(r, pc[r], mine[r], ts, e, step[r]) /\ ClipTypes'
    BY <1>1, <1>2, <1>3, <2>1, StandingMove
  <2>3. QED BY <1>4, <2>1, <2>2, QuietMove DEF Types, Shape
<1>6. CASE Queue!InsertJob(r)
  <2>1. PICK j \in JobId : Queue!Free(j) /\ jobs' = [jobs EXCEPT ![j] = Queue!NewRow(Head(todo[r]))]
                           /\ Queue!EnterDue(j)
    BY <1>2, <1>6, ClipTasksOnly DEF Queue!InsertJob
  <2>2. /\ pc' = pc /\ mine' = mine /\ todo' = [todo EXCEPT ![r] = Tail(todo[r])]
        /\ enq' = [enq EXCEPT ![r] = "none"] /\ faults' = faults /\ ~Queue!Conflicts(Head(todo[r]))
    BY <1>6 DEF Queue!InsertJob, Types, RunnerTypes
  <2>3. /\ Sound(pc[r], mine[r], Tail(todo[r]), "none", step[r])
        /\ Move(r, pc[r], mine[r], Tail(todo[r]), "none", step[r]) /\ ClipTypes'
    BY <1>1, <1>2, <1>3, <2>2, StandingMove DEF Queue!EnqStep
  <2>4. Queue!NewRow(Head(todo[r])) \in Queue!Row /\ Queue!NewRow(Head(todo[r])).task \in Queue!ClipTask
    BY <1>2, ClipTasksOnly DEF Queue!NewRow, Queue!Row, Queue!Status
  <2>5. Types'
    BY <1>4, <2>1, <2>2, <2>3, <2>4, WritingMove
  <2>6. Inserts(j, Head(todo[r]))
    BY <1>2, <2>1, <2>2 DEF Inserts
  <2>7. QED BY <1>2, <2>5, <2>6 DEF Shape
<1>7. CASE Queue!ReinsertConflict(r)
  <2>1. Queue!EnqueueError(r) /\ faults' = faults
    BY <1>7 DEF Queue!ReinsertConflict
  <2>2. QED BY <1>3, <1>4, <2>1, EnqueueErrorShape DEF Enqueue
<1>8. QED BY <1>5, <1>6, <1>7 DEF Enqueue, Queue!Enqueue

(* Settling. *)
LEMMA ReleasedRow ==
    ASSUME Types, NEW r \in Runner, Queue!OwnsRow(r), NEW st \in Queue!Status, NEW a \in Nat
    PROVE  /\ mine[r].id \in JobId
           /\ Queue!Released(jobs[mine[r].id], st, a) \in Queue!Row
           /\ Queue!Released(jobs[mine[r].id], st, a).task \in Queue!ClipTask
<1>1. mine[r].id \in JobId
  BY Claims
<1>2. jobs[mine[r].id] \in Queue!Row /\ jobs[mine[r].id].task \in Queue!ClipTask
  BY <1>1 DEF Queue!OwnsRow, Types, TableTypes
<1>3. QED BY <1>1, <1>2 DEF Queue!Released, Queue!Row

LEMMA ReleaseShape ==
    ASSUME Types, NEW r \in Runner, Queue!OwnsRow(r), NEW st \in {"succeeded", "pending"}, NEW a \in Nat,
           Queue!Release(mine[r].id, st, a), Queue!Forget(r, "idle"), Leave(r),
           UNCHANGED <<faults, config, clipVars, objectVars>>,
           st = "succeeded" => pc[r] = "working" /\ step[r] = "enqueueing"
    PROVE  Types' /\ Shape
<1> DEFINE j == mine[r].id
           row == Queue!Released(jobs[j], st, a)
<1>1. /\ j \in JobId /\ row \in Queue!Row /\ row.task \in Queue!ClipTask
      /\ jobs' = [jobs EXCEPT ![j] = row] /\ Queue!LeaveDue({j})
  BY ReleasedRow DEF Queue!Release, Queue!Status
<1>2. ClipTypes'
  BY ClipKept
<1>3. Move(r, "idle", Queue!NoClaim, <<>>, "none", "none")
  BY LeaveMoves DEF Queue!Forget
<1>4. Sound("idle", Queue!NoClaim, <<>>, "none", "none")
  BY DEF Sound, Queue!RunnerStep, Queue!EnqStep, HandlerStep, InHand
<1>5. FaultsGrow
  BY FaultCounts DEF Types
<1>6. Types'
  <2>. HIDE DEF j, row
  <2>1. QED BY <1>1, <1>2, <1>3, <1>4, <1>5, WritingMove
<1>7. Releases(r, st)
  BY <1>1, <1>3 DEF Releases, Move
<1>8. QED BY <1>6, <1>7 DEF Shape

LEMMA SettleShape ==
    ASSUME Types, NEW r \in Runner, Settle(r)
    PROVE  Types' /\ Shape
<1>1. Leave(r) /\ UNCHANGED <<config, clipVars, objectVars>> /\ "idle" \in {"down", "idle"}
  BY DEF Settle
<1>2. UNCHANGED faults => FaultsGrow
  BY FaultCounts DEF Types
<1>3. CASE step[r] = "enqueueing" /\ Queue!Succeed(r)
  <2>1. pc[r] = "working" /\ faults' = faults /\ Queue!Forget(r, "idle")
    BY <1>3 DEF Queue!Succeed
  <2>2. CASE Queue!OwnsRow(r)
    <3>1. Queue!Release(mine[r].id, "succeeded", jobs[mine[r].id].attempts)
      BY <1>3, <2>2 DEF Queue!Succeed
    <3>2. jobs[mine[r].id].attempts \in Nat
      BY <2>2, Claims DEF Types, TableTypes, Queue!Row
    <3>3. QED BY <1>1, <1>3, <2>1, <2>2, <3>1, <3>2, ReleaseShape
  <2>3. CASE ~Queue!OwnsRow(r)
    <3>1. UNCHANGED <<jobs, due, ahead>>
      BY <1>3, <2>3 DEF Queue!Succeed, Queue!queueVars
    <3>2. QED BY <1>1, <1>2, <2>1, <3>1, ForgetShape
  <2>4. QED BY <2>2, <2>3
<1>4. CASE Queue!Buried(r)
  <2>1. Queue!Forget(r, "idle") /\ UNCHANGED <<jobs, due, ahead, faults>>
    BY <1>4 DEF Queue!Buried, Queue!queueVars
  <2>2. QED BY <1>1, <1>2, <2>1, ForgetShape
<1>5. CASE Queue!Retry(r)
  <2>1. pc[r] = "failing" /\ faults' = faults /\ Queue!Forget(r, "idle")
    BY <1>5 DEF Queue!Retry
  <2>2. ~Queue!RetryRefused(r)
    BY ClipTasksOnly DEF Queue!RetryRefused
  <2>3. CASE Queue!OwnsRow(r)
    <3>1. Queue!Release(mine[r].id, "pending", mine[r].attempts)
      BY <1>5, <2>2, <2>3 DEF Queue!Retry
    <3>2. mine[r].attempts \in Nat
      BY <2>1, Claims DEF InHand
    <3>3. QED BY <1>1, <2>1, <2>3, <3>1, <3>2, ReleaseShape
  <2>4. CASE ~Queue!OwnsRow(r)
    <3>1. UNCHANGED <<jobs, due, ahead>>
      BY <1>5, <2>4 DEF Queue!Retry, Queue!queueVars
    <3>2. QED BY <1>1, <1>2, <2>1, <3>1, ForgetShape
  <2>5. QED BY <2>3, <2>4
<1>6. QED BY <1>3, <1>4, <1>5 DEF Settle

(* What a burial has left to do: an optimize job's is the artifact jobs, a     *)
(* validate job's is the clip itself.                                      *)
LEMMA RitesTyped ==
    ASSUME NEW t \in Queue!ClipTask
    PROVE  /\ Queue!LastRites(t) \in Seq(Queue!ClipTask)
           /\ t.kind = "validate" => Queue!LastRites(t) = <<>>
<1>1. t.kind \in ClipKind /\ t.clip \in Clip
  BY DEF Queue!ClipTask
<1>2. Queue!LastRites(t) = Queue!TasksOf(IF t.kind = "optimize" THEN MediaKind ELSE <<>>, t.clip)
  BY <1>1, ClipTasksOnly DEF Queue!LastRites
<1>3. Queue!LastRites(t) \in Seq(Queue!ClipTask)
  BY <1>1, <1>2, ClipTasksOnly, TasksTyped
<1>4. t.kind = "validate" => Queue!LastRites(t) = <<>>
  BY <1>2, NoTasks
<1>5. QED BY <1>3, <1>4

LEMMA MarkDeadShape ==
    ASSUME Types, NEW r \in Runner, MarkDead(r)
    PROVE  Types' /\ Shape
<1>1. /\ pc[r] \in {"claimed", "failing"} /\ faults' = faults /\ FaultsGrow
      /\ UNCHANGED <<config, clipVars, objectVars>> /\ pc \in [Runner -> Queue!RunnerStep]
      /\ step \in [Runner -> HandlerStep]
  BY FaultCounts DEF MarkDead, Queue!MarkDead, Types, RunnerTypes, Steps
<1>2. CASE ~Queue!OwnsRow(r)
  <2>1. Queue!Forget(r, "idle") /\ UNCHANGED <<jobs, due, ahead>>
    BY <1>2 DEF MarkDead, Queue!MarkDead, Queue!queueVars
  <2>2. pc'[r] = "idle"
    BY <1>1, <2>1 DEF Queue!Forget, Queue!GoTo
  <2>3. Leave(r)
    BY <2>2 DEF MarkDead
  <2>4. QED BY <1>1, <2>1, <2>3, ForgetShape
<1>3. CASE Queue!OwnsRow(r)
  <2> DEFINE j == mine[r].id
             row == Queue!Released(jobs[j], "dead", mine[r].attempts)
             ts == Queue!LastRites(mine[r].task)
  <2>1. /\ mine[r] \in Queue!Claimed /\ mine[r] # Queue!NoClaim /\ mine[r].attempts \in Nat
        /\ mine[r].task \in Queue!ClipTask /\ Kind(r) \in ClipKind
    BY <1>1, Claims DEF InHand
  <2>2. Queue!Release(j, "dead", mine[r].attempts) /\ Queue!GoTo(r, "burying", mine[r], ts)
    BY <1>3 DEF MarkDead, Queue!MarkDead
  <2>3. /\ j \in JobId /\ row \in Queue!Row /\ row.task \in Queue!ClipTask
        /\ jobs' = [jobs EXCEPT ![j] = row] /\ Queue!LeaveDue({j})
    BY <1>3, <2>1, <2>2, ReleasedRow DEF Queue!Release, Queue!Status
  <2>4. pc'[r] = "burying"
    BY <1>1, <2>2 DEF Queue!GoTo
  <2>5. step' = [step EXCEPT ![r] = FirstRite(Kind(r))] /\ UNCHANGED seen
    BY <2>4 DEF MarkDead, Step
  <2>6. ts \in Seq(Queue!ClipTask) /\ (FirstRite(Kind(r)) # "enqueueing" => ts = <<>>)
        /\ FirstRite(Kind(r)) \in {"failing_clip", "enqueueing"}
    BY <2>1, RitesTyped DEF FirstRite, Kind
  <2>7. Move(r, "burying", mine[r], ts, "none", FirstRite(Kind(r)))
    BY <2>2, <2>5 DEF Queue!GoTo, Move
  <2>8. Sound("burying", mine[r], ts, "none", FirstRite(Kind(r)))
    BY <2>1, <2>6 DEF Sound, Queue!RunnerStep, Queue!EnqStep, HandlerStep, InHand
  <2>9. ClipTypes'
    BY <1>1, <2>5, ClipKept
  <2>10. Types'
    <3>. HIDE DEF j, row, ts
    <3>1. QED BY <1>1, <2>3, <2>7, <2>8, <2>9, WritingMove
  <2>11. mine' = mine
    BY <2>2 DEF Queue!GoTo, Types, RunnerTypes
  <2>12. Releases(r, "dead")
    BY <1>1, <1>3, <2>1, <2>3, <2>5, <2>7, <2>11 DEF Releases, Move
  <2>13. QED BY <2>10, <2>12 DEF Shape
<1>4. QED BY <1>2, <1>3

(* The heartbeat, faults and time. *)
LEMMA AgeTypes ==
    ASSUME Types, NEW j \in JobId, NEW b \in BOOLEAN, jobs[j].status = "running",
           jobs' = [jobs EXCEPT ![j] = Queue!Aged(jobs[j], b)], FaultsGrow,
           UNCHANGED <<due, ahead, pc, mine, todo, enq, config, clipVars, objectVars, handlerVars>>
    PROVE  Types'
<1>1. Queue!Aged(jobs[j], b) \in Queue!Row /\ Queue!Aged(jobs[j], b).task \in Queue!ClipTask
  BY DEF Types, TableTypes, Queue!Aged, Queue!Row
<1>2. TableTypes'
  BY <1>1, TableWritten DEF Types, TableTypes
<1>3. QED BY <1>2 DEF Types, RunnerTypes, ClipTypes, Steps, StepOK, clipVars, objectVars, handlerVars

LEMMA HeartbeatShape ==
    ASSUME Types, NEW r \in Runner, Heartbeat(r)
    PROVE  Types' /\ Shape
<1>1. /\ pc[r] = "working" /\ faults' = faults /\ FaultsGrow /\ UNCHANGED <<due, ahead>>
      /\ UNCHANGED <<config, clipVars, objectVars>> /\ pc \in [Runner -> Queue!RunnerStep]
  BY FaultCounts DEF Heartbeat, Queue!Heartbeat, Queue!HandlerFails, Queue!queueVars, Types, RunnerTypes
<1>2. CASE Queue!FailHandler(r) /\ UNCHANGED jobs
  <2>1. pc'[r] = "failing"
    BY <1>1, <1>2 DEF Queue!FailHandler, Queue!GoTo
  <2>2. Leave(r)
    BY <2>1 DEF Heartbeat
  <2>3. QED BY <1>1, <1>2, <2>2, FailShape
<1>3. CASE /\ Queue!OwnsRow(r) /\ UNCHANGED <<pc, mine, todo, enq>>
           /\ jobs' = [jobs EXCEPT ![mine[r].id] = Queue!Aged(jobs[mine[r].id], FALSE)]
  <2>1. mine[r].id \in JobId /\ jobs[mine[r].id].status = "running"
    BY <1>3, Claims DEF Queue!OwnsRow
  <2>2. UNCHANGED handlerVars
    BY <1>1, <1>3 DEF Heartbeat
  <2>3. Types'
    BY <1>1, <1>3, <2>1, <2>2, AgeTypes
  <2>4. Ages(mine[r].id, FALSE)
    BY <1>1, <1>3, <2>1 DEF Ages
  <2>5. QED BY <2>1, <2>3, <2>4 DEF Shape
<1>4. QED BY <1>2, <1>3 DEF Heartbeat, Queue!Heartbeat, Queue!HandlerFails, Queue!runnerVars

LEMMA FaultyShape ==
    ASSUME Types, NEW r \in Runner, Faulty(r) \/ FailClipDbError(r)
    PROVE  Types' /\ Shape
<1>1. /\ UNCHANGED <<config, clipVars, objectVars>> /\ pc \in [Runner -> Queue!RunnerStep]
      /\ "crash" \in Queue!FaultKind /\ "db" \in Queue!FaultKind
      /\ \A k \in Queue!FaultKind : Queue!Fault(k) => FaultsGrow
  BY FaultCounts DEF Faulty, FailClipDbError, Types, RunnerTypes
<1>2. ASSUME NEW p \in {"down", "idle"}, Queue!Forget(r, p), p # pc[r], FaultsGrow,
             UNCHANGED <<jobs, due, ahead>>, Faulty(r)
      PROVE  Types' /\ Shape
  <2>1. pc'[r] = p
    BY <1>1, <1>2 DEF Queue!Forget, Queue!GoTo
  <2>2. Leave(r)
    BY <1>2, <2>1 DEF Faulty
  <2>3. QED BY <1>1, <1>2, <2>2, ForgetShape
<1>3. CASE Faulty(r) /\ Queue!Crash(r)
  BY <1>1, <1>2, <1>3 DEF Queue!Crash, Queue!queueVars
<1>4. CASE Faulty(r) /\ Queue!SettleDbError(r)
  <2>1. /\ pc[r] # "idle" /\ FaultsGrow /\ Queue!Forget(r, "idle") /\ UNCHANGED <<jobs, due, ahead>>
    BY <1>1, <1>4 DEF Queue!SettleDbError, Queue!queueVars
  <2>2. QED BY <1>2, <1>4, <2>1
<1>5. CASE Faulty(r) /\ Queue!EnqueueDbError(r)
  <2>1. FaultsGrow /\ Queue!EnqueueError(r)
    BY <1>1, <1>5 DEF Queue!EnqueueDbError
  <2>2. IF pc'[r] = pc[r] THEN UNCHANGED handlerVars ELSE Leave(r)
    BY <1>5 DEF Faulty
  <2>3. QED BY <1>1, <2>1, <2>2, EnqueueErrorShape
<1>6. CASE FailClipDbError(r)
  <2>1. Queue!Forget(r, "idle") /\ Leave(r) /\ UNCHANGED <<jobs, due, ahead>> /\ FaultsGrow
    BY <1>1, <1>6 DEF FailClipDbError
  <2>2. QED BY <1>1, <2>1, ForgetShape
<1>7. QED BY <1>3, <1>4, <1>5, <1>6 DEF Faulty

LEMMA FinalizeShape ==
    ASSUME Types, Finalize
    PROVE  /\ Types' /\ Shape
           /\ \E j \in JobId : jobs'[j].task.kind = "validate" /\ jobs'[j].status = "pending"
<1>1. PICK t \in Queue!ClipTask : Queue!FinalizeInsert(t)
  BY DEF Finalize
<1>2. PICK j \in JobId : Queue!Free(j) /\ jobs' = [jobs EXCEPT ![j] = Queue!NewRow(t)] /\ Queue!EnterDue(j)
  BY <1>1 DEF Queue!FinalizeInsert
<1>3. /\ ~Queue!Conflicts(t) /\ t.kind = "validate" /\ UNCHANGED <<pc, mine, todo, enq, faults>>
      /\ FaultsGrow
  BY <1>1, FaultCounts DEF Queue!FinalizeInsert, Queue!runnerVars, Types
<1>4. Queue!NewRow(t) \in Queue!Row /\ Queue!NewRow(t).task = t /\ Queue!NewRow(t).status = "pending"
  BY ClipTasksOnly DEF Queue!NewRow, Queue!Row, Queue!Status
<1>5. TableTypes'
  BY <1>2, <1>3, <1>4, DueKept, TableWritten DEF Types
<1>6. ClipTypes'
  BY DEF Finalize, objectVars, handlerVars, Types, ClipTypes
<1>7. RunnerTypes' /\ Steps'
  BY <1>3 DEF Finalize, handlerVars, Types, RunnerTypes, Steps, StepOK
<1>8. Inserts(j, t)
  BY <1>2, <1>3 DEF Inserts
<1>9. jobs'[j] = Queue!NewRow(t)
  BY <1>2 DEF Types, TableTypes
<1>10. QED BY <1>3, <1>4, <1>5, <1>6, <1>7, <1>8, <1>9 DEF Types, Shape

LEMMA DeleteShape ==
    ASSUME Types, DeleteClip
    PROVE  Types' /\ Shape
<1>1. UNCHANGED <<jobs, due, ahead, pc, mine, todo, enq, faults, config, size, objectVars, handlerVars>>
      /\ clip' = "deleted"
  BY DEF DeleteClip, queueVars
<1>2. Types'
  BY <1>1 DEF Types, TableTypes, RunnerTypes, ClipTypes, Steps, StepOK, objectVars, handlerVars, Queue!Free
<1>3. Quiet
  BY <1>1, FaultCounts DEF Quiet, Types
<1>4. QED BY <1>2, <1>3 DEF Shape

LEMMA TimeShape ==
    ASSUME Types, TimePasses
    PROVE  Types' /\ Shape
<1>1. UNCHANGED <<config, clipVars, objectVars, handlerVars>>
  BY DEF TimePasses
<1>2. ASSUME NEW j \in JobId, Queue!BecomesDue(j) PROVE Types' /\ Shape
  <2>1. UNCHANGED <<jobs, pc, mine, todo, enq, faults>> /\ Queue!EnterDue(j)
    BY <1>2 DEF Queue!BecomesDue, Queue!runnerVars
  <2>2. FaultsGrow /\ due' \in SUBSET JobId /\ ahead' \in [JobId -> SUBSET JobId]
    BY <2>1, FaultCounts, DueKept DEF Types
  <2>3. Types'
    BY <1>1, <2>1, <2>2 DEF Types, TableTypes, RunnerTypes, ClipTypes, Steps, StepOK, clipVars,
                            objectVars, handlerVars
  <2>4. Quiet
    BY <2>1, <2>2 DEF Quiet
  <2>5. QED BY <2>3, <2>4 DEF Shape
<1>3. ASSUME NEW j \in JobId, Queue!LockExpires(j) PROVE Types' /\ Shape
  <2>1. /\ jobs[j].status = "running" /\ jobs' = [jobs EXCEPT ![j] = Queue!Aged(jobs[j], TRUE)]
        /\ UNCHANGED <<due, ahead, pc, mine, todo, enq>>
        /\ IF \E r \in Runner : mine[r].id = j /\ Queue!OwnsRow(r) THEN Queue!Fault("stall")
                                                                  ELSE UNCHANGED faults
    BY <1>3 DEF Queue!LockExpires, Queue!queueVars, Queue!runnerVars
  <2>2. "stall" \in Queue!FaultKind /\ FaultsGrow
        /\ (Queue!Fault("stall") => faults'["stall"] > 0)
    BY <2>1, FaultCounts DEF Types
  <2>3. Types'
    BY <1>1, <2>1, <2>2, AgeTypes
  <2>4. Ages(j, TRUE)
    BY <2>1, <2>2 DEF Ages
  <2>5. QED BY <2>3, <2>4 DEF Shape
<1>4. QED BY <1>2, <1>3 DEF TimePasses, Queue!TimePasses

(* Every step is a step of this shape. *)
LEMMA StepShape ==
    ASSUME Types, [Next]_vars
    PROVE  Types' /\ Shape
<1>1. CASE UNCHANGED vars
  <2>1. UNCHANGED <<jobs, due, ahead, pc, mine, todo, enq, faults, config, clip, size, source, candidate,
                    original, step, seen>>
    BY <1>1 DEF vars, queueVars, clipVars, objectVars, handlerVars
  <2>2. Quiet
    BY <2>1, FaultCounts DEF Quiet, Types
  <2>3. Types'
    BY <2>1 DEF Types, TableTypes, RunnerTypes, ClipTypes, Steps, StepOK
  <2>4. QED BY <2>2, <2>3 DEF Shape
<1>2. ASSUME NEW r \in Runner, RunnerNext(r) PROVE Types' /\ Shape
  BY <1>2, PollShape, DispatchShape, HandlerShape, EnqueueShape, SettleShape, MarkDeadShape
     DEF RunnerNext, Handles
<1>3. ASSUME NEW r \in Runner,
             Heartbeat(r) \/ OperationFails(r) \/ FailClipDbError(r) \/ Faulty(r)
      PROVE  Types' /\ Shape
  BY <1>3, HeartbeatShape, HandlerShape, FaultyShape DEF Handles
<1>4. QED BY <1>1, <1>2, <1>3, FinalizeShape, DeleteShape, TimeShape DEF Next

-----------------------------------------------------------------------------
(* The queue: locks, claims and live rows *)

(* What a claimed row's settling leaves of it. *)
LEMMA RowsReleased ==
    ASSUME Types, NEW r \in Runner, NEW st \in {"succeeded", "pending", "dead"}, Releases(r, st)
    PROVE  /\ mine[r].id \in JobId /\ jobs[mine[r].id].status = "running"
           /\ jobs[mine[r].id].locked_by = r
           /\ jobs'[mine[r].id].status = st /\ jobs'[mine[r].id].task = jobs[mine[r].id].task
           /\ \A j \in JobId \ {mine[r].id} : jobs'[j] = jobs[j]
           /\ mine'[r] = mine[r] \/ mine'[r] = Queue!NoClaim
           /\ pc'[r] \notin Unsettled
           /\ \A s \in Runner \ {r} : mine'[s] = mine[s] /\ pc'[s] = pc[s]
<1>1. /\ mine[r].id \in JobId /\ jobs[mine[r].id].status = "running" /\ jobs[mine[r].id].locked_by = r
      /\ jobs[mine[r].id] \in Queue!Row
  BY Claims DEF Releases, Queue!OwnsRow, Types, TableTypes
<1>2. PICK a \in Nat : jobs' = [jobs EXCEPT ![mine[r].id] = Queue!Released(jobs[mine[r].id], st, a)]
  BY DEF Releases
<1>3. /\ Queue!Released(jobs[mine[r].id], st, a).status = st
      /\ Queue!Released(jobs[mine[r].id], st, a).task = jobs[mine[r].id].task
  BY <1>1 DEF Queue!Released, Queue!Row
<1>4. /\ jobs'[mine[r].id].status = st /\ jobs'[mine[r].id].task = jobs[mine[r].id].task
      /\ \A j \in JobId \ {mine[r].id} : jobs'[j] = jobs[j]
  BY <1>1, <1>2, <1>3 DEF Types, TableTypes
<1>5. /\ mine'[r] = mine[r] \/ mine'[r] = Queue!NoClaim
      /\ pc'[r] \notin Unsettled
      /\ \A s \in Runner \ {r} : mine'[s] = mine[s] /\ pc'[s] = pc[s]
  BY DEF Releases, Types, RunnerTypes, Unsettled
<1>6. QED BY <1>1, <1>4, <1>5

(* What the claim of a row leaves of it. *)
LEMMA RowsClaimed ==
    ASSUME Types, NEW r \in Runner, NEW j \in JobId, ClaimsRow(r, j)
    PROVE  /\ jobs[j].status = "pending" \/ (jobs[j].status = "running" /\ jobs[j].stale)
           /\ jobs'[j].status = "running" /\ jobs'[j].locked_by = r /\ ~jobs'[j].stale
           /\ jobs'[j].task = jobs[j].task
           /\ \A i \in JobId \ {j} : jobs'[i] = jobs[i]
           /\ mine'[r].id = j /\ mine'[r].task = jobs[j].task /\ pc'[r] = "claimed"
           /\ mine'[r] # Queue!NoClaim
           /\ \A s \in Runner \ {r} : mine'[s] = mine[s] /\ pc'[s] = pc[s]
BY PipelineAssumption
   DEF ClaimsRow, Queue!Claimable, Queue!Locked, Queue!NoClaim, Types, TableTypes, RunnerTypes

(* What ageing leaves of a row. *)
LEMMA RowsAged ==
    ASSUME Types, NEW j \in JobId, NEW b \in BOOLEAN, Ages(j, b)
    PROVE  /\ \A i \in JobId : /\ jobs'[i].task = jobs[i].task /\ jobs'[i].status = jobs[i].status
                               /\ jobs'[i].locked_by = jobs[i].locked_by
                               /\ jobs'[i].stale = IF i = j THEN b ELSE jobs[i].stale
BY DEF Ages, Queue!Aged, Queue!Row, Types, TableTypes

LEMMA LocksMatchKept ==
    ASSUME Types, LocksMatch, Shape
    PROVE  LocksMatch'
<1> SUFFICES ASSUME NEW s \in Runner, Queue!OwnsRow(s)'
             PROVE  pc'[s] \in Unsettled /\ jobs'[mine'[s].id].task = mine'[s].task
  BY DEF LocksMatch
<1>1. mine'[s] # Queue!NoClaim /\ jobs'[mine'[s].id].status = "running" /\ jobs'[mine'[s].id].locked_by = s
  BY DEF Queue!OwnsRow
<1>2. mine[s] # Queue!NoClaim => mine[s].id \in JobId
  BY Claims DEF Types, RunnerTypes
<1>3. Queue!OwnsRow(s) => pc[s] \in Unsettled /\ jobs[mine[s].id].task = mine[s].task
  BY DEF LocksMatch
<1>4. CASE Quiet
  BY <1>1, <1>3, <1>4 DEF Quiet, Queue!OwnsRow, Unsettled
<1>5. ASSUME NEW j \in JobId, NEW t \in Queue!ClipTask, Inserts(j, t)
      PROVE  pc'[s] \in Unsettled /\ jobs'[mine'[s].id].task = mine'[s].task
  <2>1. mine' = mine /\ pc' = pc /\ mine[s].id # j
    BY <1>5 DEF Inserts, Queue!Free
  <2>2. jobs'[mine[s].id] = jobs[mine[s].id]
    BY <1>1, <1>2, <1>5, <2>1 DEF Inserts, Types, TableTypes
  <2>3. QED BY <1>1, <1>3, <2>1, <2>2 DEF Queue!OwnsRow
<1>6. ASSUME NEW r \in Runner, NEW j \in JobId, ClaimsRow(r, j)
      PROVE  pc'[s] \in Unsettled /\ jobs'[mine'[s].id].task = mine'[s].task
  <2>1. CASE s = r
    BY <1>6, <2>1, RowsClaimed DEF Unsettled
  <2>2. CASE s # r
    <3>1. mine'[s] = mine[s] /\ pc'[s] = pc[s] /\ mine[s].id # j
      BY <1>1, <1>6, <2>2, RowsClaimed
    <3>2. jobs'[mine[s].id] = jobs[mine[s].id]
      BY <1>1, <1>2, <1>6, <3>1, RowsClaimed
    <3>3. QED BY <1>1, <1>3, <3>1, <3>2 DEF Queue!OwnsRow
  <2>3. QED BY <2>1, <2>2
<1>7. ASSUME NEW j \in JobId, NEW b \in BOOLEAN, Ages(j, b)
      PROVE  pc'[s] \in Unsettled /\ jobs'[mine'[s].id].task = mine'[s].task
  <2>1. mine' = mine /\ pc' = pc
    BY <1>7 DEF Ages
  <2>2. QED BY <1>1, <1>2, <1>3, <1>7, <2>1, RowsAged DEF Queue!OwnsRow
<1>8. ASSUME NEW r \in Runner, NEW st \in {"succeeded", "pending", "dead"}, Releases(r, st)
      PROVE  pc'[s] \in Unsettled /\ jobs'[mine'[s].id].task = mine'[s].task
  <2>1. s # r
    BY <1>1, <1>8, RowsReleased
  <2>2. mine'[s] = mine[s] /\ pc'[s] = pc[s] /\ mine[s].id # mine[r].id
    BY <1>1, <1>8, <2>1, RowsReleased
  <2>3. jobs'[mine[s].id] = jobs[mine[s].id]
    BY <1>1, <1>2, <1>8, <2>2, RowsReleased
  <2>4. QED BY <1>1, <1>3, <2>2, <2>3 DEF Queue!OwnsRow
<1>9. QED BY <1>4, <1>5, <1>6, <1>7, <1>8 DEF Shape

LEMMA NoDuplicatesKept ==
    ASSUME Types, NoDuplicates, Shape
    PROVE  NoDuplicates'
<1> SUFFICES ASSUME NEW i \in JobId, NEW k \in JobId, i # k, Queue!Active(i)', Queue!Active(k)'
             PROVE  jobs'[i].task # jobs'[k].task
  BY DEF NoDuplicates
<1>1. jobs'[i].status \in {"pending", "running"} /\ jobs'[k].status \in {"pending", "running"}
  BY DEF Queue!Active
<1>2. CASE \A x \in {i, k} : Queue!Active(x) /\ jobs'[x].task = jobs[x].task
  BY <1>2 DEF NoDuplicates
<1>3. ASSUME NEW j \in JobId, NEW t \in Queue!ClipTask, Inserts(j, t)
      PROVE  jobs'[i].task # jobs'[k].task
  <2>1. /\ jobs'[j].task = t
        /\ \A x \in JobId \ {j} : jobs'[x] = jobs[x]
    BY <1>3 DEF Inserts, Queue!NewRow, Types, TableTypes
  <2>2. \A x \in JobId : Queue!Active(x) => jobs[x].task # t
    BY <1>3, ClipTasksOnly DEF Inserts, Queue!Conflicts, Queue!ActiveFor, Queue!InForce, Queue!Active
  <2>3. \A x \in {i, k} \ {j} : Queue!Active(x)
    BY <1>1, <2>1 DEF Queue!Active
  <2>4. CASE i = j \/ k = j
    BY <2>1, <2>2, <2>3, <2>4
  <2>5. CASE i # j /\ k # j
    BY <2>1, <2>3, <2>5 DEF NoDuplicates
  <2>6. QED BY <2>4, <2>5
<1>4. CASE Quiet
  BY <1>1, <1>2, <1>4 DEF Quiet, Queue!Active
<1>5. ASSUME NEW r \in Runner, NEW j \in JobId, ClaimsRow(r, j)
      PROVE  jobs'[i].task # jobs'[k].task
  <2>1. \A x \in {i, k} : Queue!Active(x) /\ jobs'[x].task = jobs[x].task
    BY <1>1, <1>5, RowsClaimed DEF Queue!Active
  <2>2. QED BY <1>2, <2>1
<1>6. ASSUME NEW j \in JobId, NEW b \in BOOLEAN, Ages(j, b)
      PROVE  jobs'[i].task # jobs'[k].task
  <2>1. \A x \in {i, k} : Queue!Active(x) /\ jobs'[x].task = jobs[x].task
    BY <1>1, <1>6, RowsAged DEF Queue!Active
  <2>2. QED BY <1>2, <2>1
<1>7. ASSUME NEW r \in Runner, NEW st \in {"succeeded", "pending", "dead"}, Releases(r, st)
      PROVE  jobs'[i].task # jobs'[k].task
  <2>1. \A x \in {i, k} : Queue!Active(x) /\ jobs'[x].task = jobs[x].task
    BY <1>1, <1>7, RowsReleased DEF Queue!Active
  <2>2. QED BY <1>2, <2>1
<1>8. QED BY <1>3, <1>4, <1>5, <1>6, <1>7 DEF Shape

LEMMA HoldersHoldKept ==
    ASSUME Types, HoldersHold, Shape
    PROVE  HoldersHold'
<1>1. faults'["stall"] = 0 => faults["stall"] = 0
  <2>1. faults' = faults \/ FaultsGrow
    BY DEF Shape, Quiet, Inserts, ClaimsRow, Ages, Releases
  <2>2. "stall" \in Queue!FaultKind /\ faults["stall"] \in Nat
    BY FaultCounts DEF Types, TableTypes
  <2>3. QED BY <2>1, <2>2 DEF FaultsGrow
<1> SUFFICES ASSUME faults'["stall"] = 0, NEW s \in Runner, pc'[s] \in Unsettled
             PROVE  Queue!OwnsRow(s)' /\ ~jobs'[mine'[s].id].stale
  BY DEF HoldersHold
<1>2. pc[s] \in Unsettled => /\ Queue!OwnsRow(s) /\ ~jobs[mine[s].id].stale /\ mine[s] # Queue!NoClaim
                             /\ mine[s].id \in JobId /\ jobs[mine[s].id].status = "running"
                             /\ jobs[mine[s].id].locked_by = s
  BY <1>1, Claims DEF HoldersHold, Queue!OwnsRow
<1>3. CASE Quiet
  <2>1. pc[s] \in Unsettled /\ mine'[s] = mine[s] /\ jobs' = jobs
    BY <1>3 DEF Quiet, Unsettled, InHand
  <2>2. QED BY <1>2, <2>1 DEF Queue!OwnsRow
<1>4. ASSUME NEW j \in JobId, NEW t \in Queue!ClipTask, Inserts(j, t)
      PROVE  Queue!OwnsRow(s)' /\ ~jobs'[mine'[s].id].stale
  <2>1. mine' = mine /\ pc' = pc /\ mine[s].id # j
    BY <1>4 DEF Inserts, Queue!Free
  <2>2. jobs'[mine[s].id] = jobs[mine[s].id]
    BY <1>2, <1>4, <2>1 DEF Inserts, Types, TableTypes
  <2>3. QED BY <1>2, <2>1, <2>2 DEF Queue!OwnsRow
<1>5. ASSUME NEW r \in Runner, NEW j \in JobId, ClaimsRow(r, j)
      PROVE  Queue!OwnsRow(s)' /\ ~jobs'[mine'[s].id].stale
  <2>1. CASE s = r
    BY <1>5, <2>1, RowsClaimed DEF Queue!OwnsRow
  <2>2. CASE s # r
    <3>1. mine'[s] = mine[s] /\ pc'[s] = pc[s] /\ mine[s].id # j
      BY <1>2, <1>5, <2>2, RowsClaimed
    <3>2. jobs'[mine[s].id] = jobs[mine[s].id]
      BY <1>2, <1>5, <3>1, RowsClaimed
    <3>3. QED BY <1>2, <3>1, <3>2 DEF Queue!OwnsRow
  <2>3. QED BY <2>1, <2>2
<1>6. ASSUME NEW j \in JobId, NEW b \in BOOLEAN, Ages(j, b)
      PROVE  Queue!OwnsRow(s)' /\ ~jobs'[mine'[s].id].stale
  <2>1. mine' = mine /\ pc' = pc
    BY <1>6 DEF Ages
  <2>2. b => mine[s].id # j
    BY <1>2, <1>6, <2>1 DEF Ages, FaultsGrow
  <2>3. QED BY <1>2, <1>6, <2>1, <2>2, RowsAged DEF Queue!OwnsRow
<1>7. ASSUME NEW r \in Runner, NEW st \in {"succeeded", "pending", "dead"}, Releases(r, st)
      PROVE  Queue!OwnsRow(s)' /\ ~jobs'[mine'[s].id].stale
  <2>1. s # r
    BY <1>7, RowsReleased
  <2>2. mine'[s] = mine[s] /\ pc'[s] = pc[s] /\ mine[s].id # mine[r].id
    BY <1>2, <1>7, <2>1, RowsReleased
  <2>3. jobs'[mine[s].id] = jobs[mine[s].id]
    BY <1>2, <1>7, <2>2, RowsReleased
  <2>4. QED BY <1>2, <2>2, <2>3 DEF Queue!OwnsRow
<1>8. QED BY <1>3, <1>4, <1>5, <1>6, <1>7 DEF Shape

-----------------------------------------------------------------------------
(* Who writes the clip *)

Stands(q) == /\ pc'[q] = pc[q] /\ mine'[q] = mine[q]
             /\ step'[q] = step[q] /\ seen'[q] = seen[q]

(* The rest of a runner's life: the clip and its objects are left alone, a     *)
(* handler stays where it is, starts or ends, and the burial that is about to *)
(* fail the clip is cut short only by a fault.                             *)
Aside ==
    /\ UNCHANGED <<config, clipVars, objectVars>>
    /\ \A q \in Runner : Stands(q) \/ pc'[q] # "working" \/ step'[q] = "loading"
    /\ \A q \in Runner : step[q] = "failing_clip" =>
         step'[q] = "failing_clip" \/ faults'["crash"] > 0 \/ faults'["db"] > 0

LEMMA RunnerAside ==
    ASSUME Types, NEW r \in Runner, UNCHANGED <<config, clipVars, objectVars>>,
           \A q \in Runner \ {r} : Stands(q),
           Stands(r) \/ pc'[r] # "working" \/ step'[r] = "loading",
           \/ step[r] # "failing_clip" \/ step'[r] = "failing_clip"
           \/ faults'["crash"] > 0 \/ faults'["db"] > 0
    PROVE  Aside
<1>1. \A q \in Runner : Stands(q) \/ pc'[q] # "working" \/ step'[q] = "loading"
  OBVIOUS
<1>2. \A q \in Runner \ {r} : step'[q] = step[q]
  BY DEF Stands
<1>3. \A q \in Runner : step[q] = "failing_clip" =>
         step'[q] = "failing_clip" \/ faults'["crash"] > 0 \/ faults'["db"] > 0
  BY <1>2
<1>4. QED BY <1>1, <1>3 DEF Aside

LEMMA OthersStand ==
    ASSUME Types, NEW r \in Runner, NEW p, NEW m, NEW ts,
           Queue!GoTo(r, p, m, ts) \/ UNCHANGED <<pc, mine>>,
           UNCHANGED handlerVars \/ Leave(r) \/ (UNCHANGED seen /\ \E s : Step(r, s))
    PROVE  /\ \A q \in Runner \ {r} : Stands(q)
           /\ UNCHANGED <<pc, mine>> /\ UNCHANGED handlerVars => Stands(r)
           /\ Queue!GoTo(r, p, m, ts) => pc'[r] = p /\ mine'[r] = m
           /\ \A s : Step(r, s) => step'[r] = s
BY DEF Queue!GoTo, handlerVars, Leave, Step, Stands, Types, RunnerTypes, ClipTypes, Steps

(* The steps of a runner that are not its handler's. *)
LEMMA LifeAside ==
    ASSUME Types, NEW r \in Runner,
           Poll(r) \/ Dispatch(r) \/ Enqueue(r) \/ Settle(r) \/ MarkDead(r) \/ Heartbeat(r)
             \/ Faulty(r) \/ FailClipDbError(r)
    PROVE  Aside
<1>0. /\ UNCHANGED <<config, clipVars, objectVars>>
      /\ pc[r] \notin {"working", "burying"} => step[r] = "none"
      /\ pc[r] = "working" => step[r] # "failing_clip"
      /\ enq[r] # "none" \/ todo[r] # <<>> => step[r] = "enqueueing"
  BY DEF Poll, Dispatch, Enqueue, Settle, MarkDead, Heartbeat, Faulty, FailClipDbError,
         Types, RunnerTypes, Steps, StepOK
<1>1. ASSUME NEW p, NEW m, NEW ts, Queue!GoTo(r, p, m, ts),
             UNCHANGED handlerVars \/ Leave(r) \/ (UNCHANGED seen /\ \E s : Step(r, s)),
             p # "working" \/ step'[r] = "loading" \/ (p = pc[r] /\ m = mine[r] /\ UNCHANGED handlerVars),
             \/ step[r] # "failing_clip" \/ step'[r] = "failing_clip"
             \/ faults'["crash"] > 0 \/ faults'["db"] > 0
      PROVE  Aside
  <2>1. (\A q \in Runner \ {r} : Stands(q)) /\ pc'[r] = p /\ mine'[r] = m
    BY <1>1, OthersStand
  <2>2. Stands(r) \/ pc'[r] # "working" \/ step'[r] = "loading"
    BY <1>1, <2>1 DEF Stands, handlerVars
  <2>3. QED BY <1>0, <1>1, <2>1, <2>2, RunnerAside
<1>2. ASSUME UNCHANGED <<pc, mine>>, UNCHANGED handlerVars, step[r] # "failing_clip" PROVE Aside
  <2>1. \A q \in Runner : Stands(q)
    BY <1>2 DEF Stands, handlerVars
  <2>2. QED BY <1>0, <1>2, <2>1, RunnerAside
<1>3. \A k \in {"crash", "db"} : Queue!Fault(k) => faults'[k] > 0
  BY FaultCounts DEF Types
<1>4. CASE Poll(r)
  <2>1. pc[r] \notin {"working", "burying"} /\ UNCHANGED handlerVars
    BY <1>4 DEF Poll, Queue!Start, Queue!BeginPolling, Queue!Claim
  <2>2. PICK p \in {"ensuring", "idle", "claimed"}, m \in {mine'[r]}, ts \in {todo'[r]} : Queue!GoTo(r, p, m, ts)
    BY <1>4 DEF Poll, Queue!Start, Queue!BeginPolling, Queue!Claim, Queue!Forget, Queue!GoTo, Types, RunnerTypes
  <2>3. QED BY <1>0, <1>1, <2>1, <2>2
<1>5. CASE Dispatch(r)
  <2>1. pc[r] = "claimed" /\ Step(r, "loading") /\ UNCHANGED seen
    BY <1>5 DEF Dispatch, Queue!BeginWork
  <2>2. PICK ts : Queue!GoTo(r, "working", mine[r], ts)
    BY <1>5 DEF Dispatch, Queue!BeginWork
  <2>3. step'[r] = "loading" /\ step[r] = "none"
    BY <1>0, <2>1 DEF Step, Types, Steps
  <2>4. QED BY <1>1, <2>1, <2>2, <2>3
<1>6. ASSUME Queue!EnqueueError(r), IF pc'[r] = pc[r] THEN UNCHANGED handlerVars ELSE Leave(r) PROVE Aside
  <2>1. step[r] = "enqueueing"
    BY <1>0, <1>6 DEF Queue!EnqueueError
  <2>2. PICK p \in {"down", "failing", "working", "idle"}, ts \in {<<>>}, m \in {mine[r], Queue!NoClaim} :
          Queue!GoTo(r, p, m, ts) /\ (p = "working" => pc[r] = "working" /\ m = mine[r])
    BY <1>6 DEF Queue!EnqueueError, Queue!Forget, Queue!FailHandler
  <2>3. pc'[r] = p
    BY <2>2 DEF Queue!GoTo, Types, RunnerTypes
  <2>4. QED BY <1>1, <1>6, <2>1, <2>2, <2>3
<1>7. CASE Enqueue(r)
  <2>1. CASE Queue!ReinsertConflict(r)
    BY <1>6, <1>7, <2>1 DEF Enqueue, Queue!ReinsertConflict
  <2>2. CASE Queue!BeginEnqueue(r) \/ Queue!InsertJob(r) \/ Queue!InsertConflict(r) \/ Queue!LookupActive(r)
    <3>1. UNCHANGED <<pc, mine>> /\ (enq[r] # "none" \/ todo[r] # <<>>)
      BY <2>2 DEF Queue!BeginEnqueue, Queue!InsertJob, Queue!InsertConflict, Queue!LookupActive
    <3>2. UNCHANGED handlerVars
      BY <1>7, <3>1 DEF Enqueue
    <3>3. QED BY <1>0, <1>2, <3>1, <3>2
  <2>3. QED BY <1>7, <2>1, <2>2 DEF Enqueue, Queue!Enqueue
<1>8. CASE Settle(r)
  <2>1. Leave(r) /\ step[r] # "failing_clip" /\ Queue!GoTo(r, "idle", Queue!NoClaim, <<>>)
    BY <1>0, <1>8 DEF Settle, Queue!Succeed, Queue!Buried, Queue!Retry, Queue!Forget
  <2>2. QED BY <1>1, <2>1
<1>9. CASE MarkDead(r)
  <2>1. step[r] = "none"
    BY <1>0, <1>9 DEF MarkDead, Queue!MarkDead
  <2>2. PICK p \in {"burying", "idle"}, m \in {mine[r], Queue!NoClaim}, ts \in {<<>>, Queue!LastRites(mine[r].task)} :
          Queue!GoTo(r, p, m, ts)
    BY <1>9 DEF MarkDead, Queue!MarkDead, Queue!Forget
  <2>3. Leave(r) \/ (UNCHANGED seen /\ Step(r, FirstRite(Kind(r))))
    BY <1>9 DEF MarkDead
  <2>4. QED BY <1>1, <2>1, <2>2, <2>3
<1>10. CASE Heartbeat(r)
  <2>1. pc[r] = "working"
    BY <1>10 DEF Heartbeat, Queue!Heartbeat, Queue!HandlerFails
  <2>2. CASE UNCHANGED <<pc, mine>>
    BY <1>0, <1>2, <1>10, <2>1, <2>2 DEF Heartbeat
  <2>3. CASE Queue!GoTo(r, "failing", mine[r], <<>>)
    <3>1. pc'[r] = "failing"
      BY <2>3 DEF Queue!GoTo, Types, RunnerTypes
    <3>2. Leave(r)
      BY <1>10, <3>1 DEF Heartbeat
    <3>3. QED BY <1>0, <1>1, <2>1, <2>3, <3>2
  <2>4. QED BY <1>10, <2>2, <2>3 DEF Heartbeat, Queue!Heartbeat, Queue!HandlerFails, Queue!FailHandler, Queue!runnerVars
<1>11. CASE Faulty(r)
  <2>1. CASE Queue!EnqueueDbError(r)
    BY <1>6, <1>11, <2>1 DEF Faulty, Queue!EnqueueDbError
  <2>2. CASE Queue!Crash(r) \/ Queue!SettleDbError(r)
    <3>1. PICK p \in {"down", "idle"} : Queue!GoTo(r, p, Queue!NoClaim, <<>>)
      BY <2>2 DEF Queue!Crash, Queue!SettleDbError, Queue!Forget
    <3>2. faults'["crash"] > 0 \/ faults'["db"] > 0
      BY <1>3, <2>2 DEF Queue!Crash, Queue!SettleDbError
    <3>3. UNCHANGED handlerVars \/ Leave(r)
      BY <1>11 DEF Faulty
    <3>4. QED BY <1>1, <3>1, <3>2, <3>3
  <2>3. QED BY <1>11, <2>1, <2>2 DEF Faulty
<1>12. CASE FailClipDbError(r)
  <2>1. Queue!GoTo(r, "idle", Queue!NoClaim, <<>>) /\ Leave(r) /\ faults'["db"] > 0
    BY <1>3, <1>12 DEF FailClipDbError, Queue!Forget
  <2>2. QED BY <1>1, <2>1
<1>13. QED BY <1>4, <1>5, <1>7, <1>8, <1>9, <1>10, <1>11, <1>12

LEMMA WhoWrites ==
    ASSUME Types, [Next]_vars
    PROVE  (\E r \in Runner : Handles(r)) \/ Finalize \/ DeleteClip \/ Aside
<1>1. CASE UNCHANGED vars
  BY <1>1 DEF vars, queueVars, handlerVars, Aside, Stands
<1>2. CASE TimePasses
  <2>1. UNCHANGED <<config, clipVars, objectVars, handlerVars, pc, mine>>
    BY <1>2 DEF TimePasses, Queue!TimePasses, Queue!BecomesDue, Queue!LockExpires, Queue!runnerVars
  <2>2. QED BY <2>1 DEF handlerVars, Aside, Stands
<1>3. ASSUME NEW r \in Runner,
             RunnerNext(r) \/ Heartbeat(r) \/ OperationFails(r) \/ FailClipDbError(r) \/ Faulty(r)
      PROVE  Handles(r) \/ Aside
  BY <1>3, LifeAside DEF RunnerNext, Handles
<1>4. QED BY <1>1, <1>2, <1>3 DEF Next

(* Once out of `created` and `processing`, a clip stays out, and once deleted  *)
(* it stays deleted.                                                       *)
LEMMA ClipGoesOn ==
    ASSUME NEW r \in Runner, Handles(r)
    PROVE  /\ clip' \in {"created", "processing"} => clip' = clip
           /\ Deleted => clip' = clip
BY DEF Handles, LoadClip, Validate, CheckObject, MarkReady, Optimize, HeadSource, Reconcile, Encode,
       PutCandidate, Compare, DiscardCandidate, KeepOriginal, Activate, CheckSource, StampSize,
       TidyCandidate, CleanCandidate, OperationFails, FailClip, Deleted, clipVars

(* A handler's step moves no other runner. *)
LEMMA HandlerAlone ==
    ASSUME Types, NEW r \in Runner, Handles(r)
    PROVE  \A q \in Runner \ {r} : Stands(q)
<1>1. \A q \in Runner \ {r} : pc'[q] = pc[q] /\ mine'[q] = mine[q] /\ step'[q] = step[q]
  BY HandlerMoves DEF Outcome, GivesUp, GoesOn, Move, Types, RunnerTypes, Steps
<1>2. seen \in [Runner -> Seen]
  BY DEF Types, ClipTypes
<1>3. \A q \in Runner \ {r} : seen'[q] = seen[q]
  <2>1. CASE UNCHANGED seen
    BY <2>1
  <2>2. CASE \E v : seen' = [seen EXCEPT ![r] = v]
    BY <1>2, <2>2
  <2>3. /\ \A kinds : FollowUp(r, kinds) => UNCHANGED seen
        /\ \A s : Proceed(r, s) => UNCHANGED seen
        /\ Fail(r) => \E v : seen' = [seen EXCEPT ![r] = v]
    BY DEF FollowUp, Proceed, Fail, Leave
  <2>4. UNCHANGED seen \/ \E v : seen' = [seen EXCEPT ![r] = v]
    BY <2>3 DEF Handles, LoadClip, Validate, CheckObject, MarkReady, Optimize, HeadSource, Reconcile, Encode,
                PutCandidate, Compare, DiscardCandidate, KeepOriginal, Activate, CheckSource, StampSize,
                TidyCandidate, CleanCandidate, OperationFails, FailClip
  <2>5. QED BY <2>1, <2>2, <2>4
<1>4. QED BY <1>1, <1>3 DEF Stands

-----------------------------------------------------------------------------
(* Validation *)

LEMMA ValidatedKept ==
    ASSUME Types, Validated, [Next]_vars
    PROVE  Validated'
<1>1. CASE Aside
  <2>1. clip' = clip
    BY <1>1 DEF Aside, clipVars
  <2>2. ASSUME NEW q \in Runner, InHandler(q, "validate", "enqueueing")'
        PROVE  InHandler(q, "validate", "enqueueing")
    BY <1>1, <2>2 DEF Aside, Stands, InHandler, Kind
  <2>3. QED BY <2>1, <2>2 DEF Validated
<1>2. CASE Finalize
  <2>1. UNCHANGED <<pc, mine, step>> /\ clip \in {"created", "processing"}
    BY <1>2 DEF Finalize, handlerVars, Queue!FinalizeInsert, Queue!runnerVars
  <2>2. QED BY <2>1 DEF Validated, InHandler, Kind
<1>3. CASE DeleteClip
  BY <1>3 DEF DeleteClip, Validated
<1>4. ASSUME NEW r \in Runner, Handles(r) PROVE Validated'
  <2> SUFFICES ASSUME NEW q \in Runner, InHandler(q, "validate", "enqueueing")'
               PROVE  clip' \notin {"created", "processing"}
    BY DEF Validated
  <2>1. CASE q # r
    <3>1. InHandler(q, "validate", "enqueueing")
      BY <1>4, <2>1, HandlerAlone DEF Stands, InHandler, Kind
    <3>2. QED BY <1>4, <3>1, ClipGoesOn DEF Validated
  <2>2. CASE q = r
    <3>1. /\ mine' = mine /\ pc[r] = "working" /\ step'[r] = "enqueueing" /\ Kind(r) = "validate"
          /\ step[r] # "enqueueing"
      <4>1. step'[r] = "enqueueing" /\ pc'[r] = "working" /\ mine'[r].task.kind = "validate"
        BY <2>2 DEF InHandler, Kind
      <4>2. Outcome(r) /\ step[r] # "enqueueing" /\ pc \in [Runner -> Queue!RunnerStep]
            /\ step \in [Runner -> HandlerStep] /\ DOMAIN mine = Runner
        BY <1>4, HandlerMoves DEF Types, RunnerTypes, Steps
      <4>3. ~GivesUp(r)
        BY <4>1, <4>2 DEF GivesUp, Move
      <4>4. \E s, ts : GoesOn(r, s, ts)
        BY <4>2, <4>3 DEF Outcome
      <4>5. pc'[r] = pc[r] /\ mine' = mine
        BY <4>2, <4>4, Types DEF GoesOn, Move, RunnerTypes, Types
      <4>6. QED BY <4>1, <4>2, <4>5 DEF Kind
    <3>2. CASE LoadClip(r)
      <4>1. ~Fail(r) /\ ~Step(r, "heading")
        BY <3>1 DEF Fail, Leave, Step, Types, Steps
      <4>2. clip' = clip /\ (Deleted \/ clip = "ready")
        BY <3>2, <4>1 DEF LoadClip, clipVars
      <4>3. QED BY <4>2 DEF Deleted
    <3>3. CASE Validate(r)
      <4>1. ~Fail(r) /\ ~Proceed(r, "marking")
        BY <3>1 DEF Fail, Proceed, Leave, Step, Types, Steps
      <4>2. MarkReady(r)
        BY <3>3, <4>1 DEF Validate, CheckObject
      <4>3. QED BY <4>1, <4>2 DEF MarkReady
    <3>4. ~Optimize(r)
      BY <3>1 DEF Optimize, InHandler, HeadSource, Reconcile, Encode, PutCandidate, Compare,
                  DiscardCandidate, KeepOriginal, Activate, CheckSource, StampSize, TidyCandidate,
                  CleanCandidate
    <3>5. ~OperationFails(r)
      BY <3>1 DEF OperationFails, Fail, Proceed, Leave, Step, Types, Steps
    <3>6. ~FailClip(r)
      BY <3>1 DEF FailClip
    <3>7. QED BY <1>4, <3>2, <3>3, <3>4, <3>5, <3>6 DEF Handles
  <2>3. QED BY <2>1, <2>2
<1>5. QED BY <1>1, <1>2, <1>3, <1>4, WhoWrites

(* A live validate job stays, but for a success or a death. *)
LEMMA AttendantsStay ==
    ASSUME Types, LocksMatch, Shape, InForce("validate")
    PROVE  \/ InForce("validate")'
           \/ \E r \in Runner : InHandler(r, "validate", "enqueueing")
           \/ \E r \in Runner : step'[r] = "failing_clip"
<1>1. PICK i \in JobId : jobs[i].status \in {"pending", "running"} /\ jobs[i].task.kind = "validate"
  BY DEF InForce, Queue!Active
<1>2. CASE jobs'[i].task = jobs[i].task /\ jobs'[i].status \in {"pending", "running"}
  BY <1>1, <1>2 DEF InForce, Queue!Active
<1>3. CASE Quiet
  BY <1>1, <1>2, <1>3 DEF Quiet
<1>4. ASSUME NEW j \in JobId, NEW t \in Queue!ClipTask, Inserts(j, t)
      PROVE  jobs'[i].task = jobs[i].task /\ jobs'[i].status \in {"pending", "running"}
  <2>1. i # j
    BY <1>1, <1>4 DEF Inserts, Queue!Free
  <2>2. QED BY <1>1, <1>4, <2>1 DEF Inserts, Types, TableTypes
<1>5. ASSUME NEW r \in Runner, NEW j \in JobId, ClaimsRow(r, j)
      PROVE  jobs'[i].task = jobs[i].task /\ jobs'[i].status \in {"pending", "running"}
  BY <1>1, <1>5, RowsClaimed
<1>6. ASSUME NEW j \in JobId, NEW b \in BOOLEAN, Ages(j, b)
      PROVE  jobs'[i].task = jobs[i].task /\ jobs'[i].status \in {"pending", "running"}
  BY <1>1, <1>6, RowsAged
<1>7. ASSUME NEW r \in Runner, NEW st \in {"succeeded", "pending", "dead"}, Releases(r, st)
      PROVE  \/ jobs'[i].task = jobs[i].task /\ jobs'[i].status \in {"pending", "running"}
             \/ InHandler(r, "validate", "enqueueing")
             \/ step'[r] = "failing_clip"
  <2>1. CASE i # mine[r].id
    BY <1>1, <1>7, <2>1, RowsReleased
  <2>2. CASE i = mine[r].id
    <3>1. Kind(r) = "validate"
      BY <1>1, <1>7, <2>2 DEF Releases, LocksMatch, Kind
    <3>2. CASE st = "pending"
      BY <1>1, <1>7, <2>2, <3>2, RowsReleased
    <3>3. CASE st = "succeeded"
      BY <1>7, <3>1, <3>3 DEF Releases, InHandler
    <3>4. CASE st = "dead"
      <4>1. step' = [step EXCEPT ![r] = "failing_clip"]
        BY <1>7, <3>1, <3>4 DEF Releases, FirstRite
      <4>2. QED BY <4>1 DEF Types, Steps
    <3>5. QED BY <3>2, <3>3, <3>4
  <2>3. QED BY <2>1, <2>2
<1>8. QED BY <1>2, <1>3, <1>4, <1>5, <1>6, <1>7 DEF Shape

LEMMA AttendedKept ==
    ASSUME Types, LocksMatch, Validated, ProcessingIsAttended, [Next]_vars
    PROVE  ProcessingIsAttended'
<1> SUFFICES ASSUME clip' = "processing", faults'["crash"] = 0, faults'["db"] = 0
             PROVE  InForce("validate")' \/ \E r \in Runner : step'[r] = "failing_clip"
  BY DEF ProcessingIsAttended
<1>0. faults["crash"] = 0 /\ faults["db"] = 0 /\ Shape
  <2>1. Shape
    BY StepShape
  <2>2. faults' = faults \/ FaultsGrow
    BY <2>1 DEF Shape, Quiet, Inserts, ClaimsRow, Ages, Releases
  <2>3. "crash" \in Queue!FaultKind /\ "db" \in Queue!FaultKind /\ faults \in [Queue!FaultKind -> Nat]
    BY FaultCounts DEF Types, TableTypes
  <2>4. QED BY <2>1, <2>2, <2>3 DEF FaultsGrow
<1>1. CASE Finalize
  BY <1>1, FinalizeShape DEF InForce, Queue!Active
<1>2. CASE DeleteClip
  BY <1>2 DEF DeleteClip
<1>3. CASE Aside
  <2>1. clip = "processing"
    BY <1>3 DEF Aside, clipVars
  <2>2. InForce("validate") \/ \E r \in Runner : step[r] = "failing_clip"
    BY <1>0, <2>1 DEF ProcessingIsAttended
  <2>3. ~\E r \in Runner : InHandler(r, "validate", "enqueueing")
    BY <2>1 DEF Validated
  <2>4. CASE InForce("validate")
    BY <1>0, <2>3, <2>4, AttendantsStay
  <2>5. ASSUME NEW r \in Runner, step[r] = "failing_clip" PROVE step'[r] = "failing_clip"
    BY <1>3, <2>5 DEF Aside
  <2>6. QED BY <2>2, <2>4, <2>5
<1>4. ASSUME NEW r \in Runner, Handles(r)
      PROVE  InForce("validate")' \/ \E q \in Runner : step'[q] = "failing_clip"
  <2>1. clip = "processing" /\ jobs' = jobs
    BY <1>4, ClipGoesOn, HandlerMoves DEF Outcome
  <2>2. InForce("validate") \/ \E q \in Runner : step[q] = "failing_clip"
    BY <1>0, <2>1 DEF ProcessingIsAttended
  <2>3. CASE InForce("validate")
    BY <2>1, <2>3 DEF InForce, Queue!Active
  <2>4. ASSUME NEW q \in Runner, step[q] = "failing_clip" PROVE step'[q] = "failing_clip"
    <3>1. CASE q # r
      BY <1>4, <2>4, <3>1, HandlerAlone DEF Stands
    <3>2. CASE q = r
      <4>1. pc[r] = "burying"
        BY <1>4, <2>4, <3>2, HandlerMoves
      <4>2. FailClip(r)
        BY <1>4, <4>1 DEF Handles, LoadClip, Validate, CheckObject, MarkReady, Optimize, InHandler, HeadSource,
                          Reconcile, Encode, PutCandidate, Compare, DiscardCandidate, KeepOriginal, Activate,
                          CheckSource, StampSize, TidyCandidate, CleanCandidate, OperationFails
      <4>3. QED BY <2>1, <4>2 DEF FailClip, Deleted
    <3>3. QED BY <3>1, <3>2
  <2>5. QED BY <2>2, <2>3, <2>4
<1>5. QED BY <1>1, <1>2, <1>3, <1>4, WhoWrites

-----------------------------------------------------------------------------
(* Optimization *)

(* Without a stall there is one runner at a time that optimizes the clip.    *)
LEMMA OneOptimizer ==
    ASSUME Types, LocksMatch, NoDuplicates, HoldersHold, faults["stall"] = 0,
           NEW q \in Runner, NEW r \in Runner, Optimizes(q), Optimizes(r)
    PROVE  q = r
<1>1. ASSUME NEW s \in {q, r}
      PROVE  /\ mine[s].id \in JobId /\ jobs[mine[s].id].status = "running"
             /\ jobs[mine[s].id].locked_by = s /\ jobs[mine[s].id].task = mine[s].task
             /\ mine[s].task \in Queue!ClipTask /\ mine[s].task.kind = "optimize"
  <2>1. Queue!OwnsRow(s) /\ pc[s] = "working"
    BY DEF HoldersHold, Optimizes, Unsettled
  <2>2. QED BY <2>1, Claims DEF LocksMatch, Queue!OwnsRow, Optimizes, Kind, InHand
<1>2. PICK c \in Clip : Clip = {c}
  BY PipelineAssumption
<1>3. mine[q].task = mine[r].task
  BY <1>1, <1>2 DEF Queue!ClipTask
<1>4. mine[q].id = mine[r].id
  BY <1>1, <1>3 DEF NoDuplicates, Queue!Active
<1>5. QED BY <1>1, <1>4

(* What an optimization has established, of its next step. *)
LEMMA AgreesNext ==
    ASSUME Types, NEW r \in Runner, Handles(r), Optimizes(r), Agrees(r), pc'[r] = "working"
    PROVE  Agrees(r)'
<1>1. /\ pc[r] = "working" /\ Kind(r) = "optimize" /\ step \in [Runner -> HandlerStep]
      /\ seen \in [Runner -> Seen] /\ config' = config
  BY HandlerMoves DEF Optimizes, Outcome, Types, ClipTypes, Steps
<1>2. ~Fail(r)
  BY FailMoves DEF Move, Types, RunnerTypes
<1>3. /\ \A s : Step(r, s) => step'[r] = s
      /\ \A s : Proceed(r, s) => step'[r] = s /\ seen' = seen
      /\ \A kinds : FollowUp(r, kinds) => step'[r] = "enqueueing" /\ seen' = seen
  BY <1>1 DEF Step, Proceed, FollowUp
<1>4. CASE LoadClip(r)
  <2>1. Kind(r) \notin MediaKinds
    BY <1>1, PipelineAssumption
  <2>2. CASE Deleted /\ FollowUp(r, <<>>)
    BY <1>3, <1>4, <2>2 DEF LoadClip, Agrees, Deleted, clipVars
  <2>3. CASE Step(r, "heading") /\ seen' = [seen EXCEPT ![r].size = size]
    <3>1. step'[r] = "heading" /\ seen'[r].size = size /\ size' = size
      BY <1>1, <1>3, <1>4, <2>3 DEF LoadClip, clipVars, Seen
    <3>2. QED BY <3>1 DEF Agrees
  <2>4. QED BY <1>2, <1>4, <2>1, <2>2, <2>3 DEF LoadClip
<1>5. CASE Validate(r)
  BY <1>1, <1>5 DEF Validate, CheckObject, MarkReady, InHandler
<1>6. CASE HeadSource(r)
  <2>1. /\ step[r] = "heading" /\ UNCHANGED <<size, source>> /\ seen'[r].head = source
        /\ step'[r] = IF source = seen[r].size THEN "encoding" ELSE "reconciling"
    BY <1>1, <1>3, <1>6 DEF HeadSource, InHandler, clipVars, objectVars, Seen
  <2>2. QED BY <2>1 DEF Agrees
<1>7. CASE Encode(r) \/ PutCandidate(r)
  <2>1. /\ step[r] \in {"encoding", "putting"} /\ UNCHANGED <<size, source>>
        /\ step'[r] \in {"putting", "comparing"}
    BY <1>3, <1>7 DEF Encode, PutCandidate, InHandler, clipVars, objectVars
  <2>2. QED BY <2>1 DEF Agrees
<1>8. CASE Compare(r)
  <2>1. /\ step[r] = "comparing" /\ UNCHANGED <<size, source>>
        /\ \/ step'[r] \in {"cleaning", "discarding", "keeping"}
           \/ step'[r] = "activating" /\ ~config.keep
    BY <1>3, <1>8 DEF Compare, InHandler, clipVars, objectVars
  <2>2. QED BY <1>1, <2>1 DEF Agrees
<1>9. CASE Reconcile(r) \/ DiscardCandidate(r) \/ TidyCandidate(r)
  <2>1. step[r] \in {"reconciling", "discarding", "tidying"} /\ step'[r] = "enqueueing" /\ UNCHANGED <<clip, source>>
    BY <1>3, <1>9 DEF Reconcile, DiscardCandidate, TidyCandidate, InHandler, clipVars, objectVars
  <2>2. ~Deleted => size' = source
    BY <1>9 DEF Reconcile, DiscardCandidate, TidyCandidate, InHandler, clipVars, Agrees, Recorded
  <2>3. QED BY <2>1, <2>2 DEF Agrees, Deleted
<1>10. CASE KeepOriginal(r)
  <2>1. step'[r] = "activating" /\ original' = source /\ source' = source
    BY <1>3, <1>10 DEF KeepOriginal
  <2>2. QED BY <2>1 DEF Agrees
<1>11. CASE Activate(r)
  <2>1. step'[r] \in {"cleaning", "checking"}
    BY <1>3, <1>11 DEF Activate
  <2>2. QED BY <2>1 DEF Agrees
<1>12. CASE CheckSource(r)
  <2>1. /\ step'[r] = (IF source = seen[r].made THEN "stamping" ELSE "cleaning") /\ seen' = seen
        /\ UNCHANGED <<size, source>>
    BY <1>3, <1>12 DEF CheckSource, clipVars, objectVars
  <2>2. QED BY <2>1 DEF Agrees
<1>13. CASE StampSize(r)
  <2>1. /\ step[r] = "stamping" /\ step'[r] = "tidying" /\ UNCHANGED <<clip, source>>
        /\ size' = Recorded(seen[r].made)
    BY <1>3, <1>13 DEF StampSize, InHandler, objectVars
  <2>2. QED BY <2>1 DEF Agrees, Deleted, Recorded
<1>14. ~CleanCandidate(r)
  BY <1>2 DEF CleanCandidate
<1>15. CASE OperationFails(r)
  <2>1. step'[r] = "cleaning"
    BY <1>2, <1>3, <1>15 DEF OperationFails
  <2>2. QED BY <2>1 DEF Agrees
<1>16. ~FailClip(r)
  BY <1>1 DEF FailClip
<1>17. QED BY <1>4, <1>5, <1>6, <1>7, <1>8, <1>9, <1>10, <1>11, <1>12, <1>13, <1>14, <1>15, <1>16
          DEF Handles, Optimize

(* Only an optimization writes what the others rely on. *)
LEMMA OptimizersWrite ==
    ASSUME NEW r \in Runner, Handles(r), ~Optimizes(r)
    PROVE  UNCHANGED <<size, source, original>>
BY DEF Handles, LoadClip, Validate, CheckObject, MarkReady, Optimize, InHandler, HeadSource, Reconcile,
       Encode, PutCandidate, Compare, DiscardCandidate, KeepOriginal, Activate, CheckSource, StampSize,
       TidyCandidate, CleanCandidate, OperationFails, FailClip, Optimizes, clipVars, objectVars

LEMMA OptimizationKept ==
    ASSUME Types, LocksMatch, NoDuplicates, HoldersHold, OptimizationAgrees, [Next]_vars
    PROVE  OptimizationAgrees'
<1>0. faults'["stall"] = 0 => faults["stall"] = 0
  <2>1. Shape
    BY StepShape
  <2>2. faults' = faults \/ FaultsGrow
    BY <2>1 DEF Shape, Quiet, Inserts, ClaimsRow, Ages, Releases
  <2>3. "stall" \in Queue!FaultKind /\ faults["stall"] \in Nat
    BY FaultCounts DEF Types, TableTypes
  <2>4. QED BY <2>2, <2>3 DEF FaultsGrow
<1> SUFFICES ASSUME faults'["stall"] = 0, NEW q \in Runner, Optimizes(q)'
             PROVE  Agrees(q)'
  BY DEF OptimizationAgrees
<1>1. pc'[q] = "working" /\ mine'[q].task.kind = "optimize"
  BY DEF Optimizes, Kind
<1>2. Optimizes(q) => Agrees(q)
  BY <1>0 DEF OptimizationAgrees
<1>3. CASE Aside
  <2>1. CASE step'[q] = "loading"
    BY <2>1 DEF Agrees
  <2>2. CASE Stands(q)
    <3>1. Optimizes(q)
      BY <1>1, <2>2 DEF Stands, Optimizes, Kind
    <3>2. step'[q] = step[q] /\ seen'[q] = seen[q] /\ UNCHANGED <<config, clip, size, source, original>>
      BY <1>3, <2>2 DEF Aside, Stands, clipVars, objectVars
    <3>3. QED BY <1>2, <3>1, <3>2 DEF Agrees, Deleted
  <2>3. QED BY <1>1, <1>3, <2>1, <2>2 DEF Aside
<1>4. CASE Finalize \/ DeleteClip
  <2>1. UNCHANGED <<pc, mine, step, seen, config, size, source, original>> /\ (Deleted => Deleted')
    BY <1>4 DEF Finalize, DeleteClip, queueVars, objectVars, handlerVars, Queue!FinalizeInsert,
                Queue!runnerVars, Deleted
  <2>2. QED BY <1>1, <1>2, <2>1 DEF Agrees, Optimizes, Kind
<1>5. ASSUME NEW r \in Runner, Handles(r) PROVE Agrees(q)'
  <2>1. CASE q # r
    <3>1. Stands(q)
      BY <1>5, <2>1, HandlerAlone
    <3>2. Optimizes(q)
      BY <1>1, <3>1 DEF Stands, Optimizes, Kind
    <3>3. ~Optimizes(r)
      BY <1>0, <2>1, <3>2, OneOptimizer
    <3>4. UNCHANGED <<config, size, source, original>> /\ (Deleted => Deleted')
      BY <1>5, <3>3, OptimizersWrite, ClipGoesOn, HandlerMoves DEF Outcome, Deleted
    <3>5. QED BY <1>2, <3>1, <3>2, <3>4 DEF Agrees, Stands
  <2>2. CASE q = r
    <3>1. Outcome(r) /\ pc[r] \in {"working", "burying"} /\ pc \in [Runner -> Queue!RunnerStep]
          /\ DOMAIN mine = Runner
      BY <1>5, HandlerMoves DEF Types, RunnerTypes
    <3>2. ~GivesUp(r)
      BY <1>1, <2>2, <3>1 DEF GivesUp, Move
    <3>3. \E s, ts : GoesOn(r, s, ts)
      BY <3>1, <3>2 DEF Outcome
    <3>4. pc'[r] = pc[r] /\ mine'[r] = mine[r]
      BY <3>1, <3>3 DEF GoesOn, Move
    <3>5. Optimizes(r)
      BY <1>1, <2>2, <3>4 DEF Optimizes, Kind
    <3>6. QED BY <1>1, <1>2, <1>5, <2>2, <3>5, AgreesNext
  <2>3. QED BY <2>1, <2>2
<1>6. QED BY <1>3, <1>4, <1>5, WhoWrites

-----------------------------------------------------------------------------
(* The theorems *)

LEMMA PipelineInit == Init => PipelineInv
<1> SUFFICES ASSUME Init PROVE PipelineInv
  OBVIOUS
<1>0. /\ jobs = [j \in JobId |-> Queue!NoRow] /\ due = {} /\ ahead = [j \in JobId |-> {}]
      /\ pc = [r \in Runner |-> "down"] /\ mine = [r \in Runner |-> Queue!NoClaim]
      /\ todo = [r \in Runner |-> <<>>] /\ enq = [r \in Runner |-> "none"]
      /\ faults = [k \in Queue!FaultKind |-> 0]
      /\ config \in Configs /\ clip = "created" /\ size = 0 /\ source = 0 /\ candidate = NoObject
      /\ original = NoObject /\ step = [r \in Runner |-> "none"] /\ seen = [r \in Runner |-> NothingSeen]
  BY DEF Init, Queue!Init
<1>1. Queue!NoRow \in Queue!Row /\ Queue!NoRow.status = "absent"
  BY DEF Queue!NoRow, Queue!Row, Queue!Status
<1>2. TableTypes
  BY <1>0, <1>1 DEF TableTypes
<1>3. RunnerTypes
  BY <1>0 DEF RunnerTypes, Queue!RunnerStep, Queue!EnqStep, InHand
<1>4. 0 \in Generation
  BY PipelineAssumption DEF Generation
<1>5. ClipTypes
  BY <1>0, <1>4 DEF ClipTypes, NothingSeen, Seen
<1>6. Steps
  BY <1>0 DEF Steps, StepOK, HandlerStep
<1>7. \A r \in Runner : ~Queue!OwnsRow(r) /\ pc[r] = "down"
  BY <1>0 DEF Queue!OwnsRow
<1>8. \A j \in JobId : ~Queue!Active(j)
  BY <1>0, <1>1 DEF Queue!Active
<1>9. QED BY <1>0, <1>2, <1>3, <1>5, <1>6, <1>7, <1>8
          DEF PipelineInv, Types, LocksMatch, NoDuplicates, HoldersHold, Validated, ProcessingIsAttended,
              OptimizationAgrees, Optimizes, InHandler, Unsettled

LEMMA PipelineStep == PipelineInv /\ [Next]_vars => PipelineInv'
<1> SUFFICES ASSUME PipelineInv, [Next]_vars PROVE PipelineInv'
  OBVIOUS
<1>1. Types /\ LocksMatch /\ NoDuplicates /\ HoldersHold /\ Validated /\ ProcessingIsAttended
      /\ OptimizationAgrees
  BY DEF PipelineInv
<1>2. Types' /\ Shape
  BY <1>1, StepShape
<1>3. LocksMatch' /\ NoDuplicates' /\ HoldersHold'
  BY <1>1, <1>2, LocksMatchKept, NoDuplicatesKept, HoldersHoldKept
<1>4. Validated' /\ ProcessingIsAttended'
  BY <1>1, ValidatedKept, AttendedKept
<1>5. OptimizationAgrees'
  BY <1>1, OptimizationKept
<1>6. QED BY <1>2, <1>3, <1>4, <1>5 DEF PipelineInv

(* The inductive invariant: types, the queue's locks and live rows, and what    *)
(* validations and optimizations have established by each step.             *)
THEOREM PipelineInvariant == Spec => []PipelineInv
BY PipelineInit, PipelineStep, PTL DEF Spec

(* Every row, claim, handler and object is of its kind, whatever the queue and *)
(* the handlers do.                                                        *)
THEOREM TypeCorrect == Spec => []TypeOK
<1>1. PipelineInv => TypeOK
  <2> SUFFICES ASSUME Types PROVE TypeOK
    BY DEF PipelineInv
  <2>1. Queue!TypeOK
    BY ClipTasksOnly DEF Types, TableTypes, RunnerTypes, Queue!TypeOK
  <2>2. QED BY <2>1 DEF Types, ClipTypes, Steps, TypeOK
<1>2. QED BY <1>1, PipelineInvariant, PTL

(* A clip in `processing` always has a validate job to take it out again, or a  *)
(* runner about to fail it, as long as no process dies and no statement fails: *)
(* through retries, lost locks, reclaims and deaths of the job.             *)
THEOREM ProcessingIsAlwaysAttended == Spec => []ProcessingIsAttended
<1>1. PipelineInv => ProcessingIsAttended
  BY DEF PipelineInv
<1>2. QED BY <1>1, PipelineInvariant, PTL

(* No step settles an optimize job as succeeded while the clip row describes    *)
(* another object than the one that is served, unless a holder has stalled.  *)
THEOREM OptimizedSizeIsAlwaysRecorded == Spec => OptimizedSizeIsRecorded
<1>1. ASSUME PipelineInv, [Next]_vars
      PROVE  clip = "ready" /\ faults["stall"] = 0 =>
               \A j \in JobId :
                  Running(j, "optimize") /\ jobs'[j].status = "succeeded" => size = source
  <2> SUFFICES ASSUME clip = "ready", faults["stall"] = 0, NEW j \in JobId, Running(j, "optimize"),
                      jobs'[j].status = "succeeded"
               PROVE  size = source
    OBVIOUS
  <2>1. Types /\ LocksMatch /\ OptimizationAgrees /\ Shape
    BY <1>1, StepShape DEF PipelineInv
  <2>2. jobs[j].status = "running" /\ jobs[j].task.kind = "optimize"
    BY DEF Running
  <2>3. ~Quiet
    BY <2>2 DEF Quiet
  <2>4. ASSUME NEW i \in JobId, NEW t \in Queue!ClipTask PROVE ~Inserts(i, t)
    <3>1. SUFFICES ASSUME Inserts(i, t) PROVE FALSE
      OBVIOUS
    <3>2. i # j
      BY <2>2, <3>1 DEF Inserts, Queue!Free
    <3>3. QED BY <2>1, <2>2, <3>1, <3>2 DEF Inserts, Types, TableTypes
  <2>5. ASSUME NEW r \in Runner, NEW i \in JobId PROVE ~ClaimsRow(r, i)
    BY <2>1, <2>2, RowsClaimed
  <2>6. ASSUME NEW i \in JobId, NEW b \in BOOLEAN PROVE ~Ages(i, b)
    BY <2>1, <2>2, RowsAged
  <2>7. PICK r \in Runner, st \in {"succeeded", "pending", "dead"} : Releases(r, st)
    BY <2>1, <2>3, <2>4, <2>5, <2>6 DEF Shape
  <2>8. j = mine[r].id /\ st = "succeeded"
    BY <2>1, <2>2, <2>7, RowsReleased
  <2>9. Optimizes(r) /\ step[r] = "enqueueing"
    BY <2>1, <2>2, <2>7, <2>8 DEF Releases, LocksMatch, Optimizes, Kind
  <2>10. QED BY <2>1, <2>9 DEF OptimizationAgrees, Agrees, Deleted
<1>2. QED BY <1>1, PipelineInvariant, PTL DEF Spec, OptimizedSizeIsRecorded

(* No step replaces the source of a clip whose originals are kept before it     *)
(* has been copied aside, unless a holder has stalled.                     *)
THEOREM ReplacedIsAlwaysKept == Spec => ReplacedIsKept
<1>1. ASSUME PipelineInv, [Next]_vars
      PROVE  config.keep /\ source' # source /\ faults["stall"] = 0 => original = source
  <2> SUFFICES ASSUME config.keep, source' # source, faults["stall"] = 0 PROVE original = source
    OBVIOUS
  <2>1. Types /\ OptimizationAgrees
    BY <1>1 DEF PipelineInv
  <2>2. PICK r \in Runner : Handles(r)
    BY <1>1, <2>1, WhoWrites DEF Finalize, DeleteClip, Aside, objectVars
  <2>3. Activate(r)
    BY <2>2 DEF Handles, LoadClip, Validate, CheckObject, MarkReady, Optimize, HeadSource, Reconcile,
                Encode, PutCandidate, Compare, DiscardCandidate, KeepOriginal, CheckSource, StampSize,
                TidyCandidate, CleanCandidate, OperationFails, FailClip, objectVars
  <2>4. Optimizes(r) /\ step[r] = "activating"
    BY <2>3 DEF Activate, InHandler, Optimizes
  <2>5. QED BY <2>1, <2>4 DEF OptimizationAgrees, Agrees
<1>2. QED BY <1>1, PipelineInvariant, PTL DEF Spec, ReplacedIsKept

=============================================================================
