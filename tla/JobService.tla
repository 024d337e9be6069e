----------------------------- MODULE JobService -----------------------------
(* What the job queue promises about the jobs of clips, with no rows, locks *)
(* or enqueue statements in sight: a task has one job in force at most, and *)
(* a job is in force until the worker that took it last, and only that one, *)
(* finishes it or, once it was taken MaxAttempts times, buries it.  Until   *)
(* then no take is forgotten, whichever worker drops it or fails.           *)
EXTENDS Naturals

CONSTANTS Worker, Task, MaxAttempts, NoWorker, NoTask

VARIABLES
  job,   \* whether a task's job is in force, how often it was taken, who holds it
  hand   \* the task each worker works on, or buries

Settled == [inForce |-> FALSE, takes |-> 0, holder |-> NoWorker]
InForce(n, w) == [inForce |-> TRUE, takes |-> n, holder |-> w]

Idle == [task |-> NoTask, burying |-> FALSE]
Busy(t, b) == [task |-> t, burying |-> b]

Init ==
  /\ job = [t \in Task |-> Settled]
  /\ hand = [w \in Worker |-> Idle]

Submit(t) ==
  /\ ~job[t].inForce
  /\ job' = [job EXCEPT ![t] = InForce(0, NoWorker)]
  /\ UNCHANGED hand

\* A job may be taken from a worker that holds it: it is not told.
Take(w, t) ==
  /\ hand[w] = Idle /\ job[t].inForce
  /\ job' = [job EXCEPT ![t] = InForce(job[t].takes + 1, w)]
  /\ hand' = [hand EXCEPT ![w] = Busy(t, FALSE)]

Holds(w, t) == hand[w] = Busy(t, FALSE) /\ job[t].inForce /\ job[t].holder = w

Finish(w, t) ==
  /\ Holds(w, t)
  /\ job' = [job EXCEPT ![t] = Settled]
  /\ hand' = [hand EXCEPT ![w] = Idle]

PutBack(w, t) ==
  /\ Holds(w, t) /\ job[t].takes < MaxAttempts
  /\ job' = [job EXCEPT ![t] = InForce(job[t].takes, NoWorker)]
  /\ hand' = [hand EXCEPT ![w] = Idle]

GiveUp(w, t) ==
  /\ Holds(w, t) /\ job[t].takes >= MaxAttempts
  /\ job' = [job EXCEPT ![t] = Settled]
  /\ hand' = [hand EXCEPT ![w] = Busy(t, TRUE)]

\* The worker is done with the burial, fails, or finds that it was too late.
Leave(w) ==
  /\ hand' = [hand EXCEPT ![w] = Idle]
  /\ UNCHANGED job

\* The owner of the tasks goes away, and their jobs with it.
Cancel(T) ==
  /\ UNCHANGED hand
  /\ job' = [t \in Task |-> IF t \in T THEN Settled ELSE job[t]]

Next ==
  \/ \E T \in SUBSET Task : Cancel(T)
  \/ \E w \in Worker : Leave(w)
  \/ \E t \in Task : Submit(t)
  \/ \E w \in Worker, t \in Task : Take(w, t) \/ Finish(w, t) \/ PutBack(w, t) \/ GiveUp(w, t)

Spec == Init /\ [][Next]_<<job, hand>>
=============================================================================
