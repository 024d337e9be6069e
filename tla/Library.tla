------------------------------ MODULE Library ------------------------------
(***************************************************************************)
(* The clip library: an owner's requests about finished clips (visibility, *)
(* metadata, delete, and both in bulk), the public share links, and the    *)
(* comments under a shared clip.                                           *)
(*                                                                         *)
(* A handler reads a row, writes it in a later statement, adds an audit    *)
(* row in another and answers what it then reads.  A bulk request reads    *)
(* all of its rows first and then writes them in one transaction, which    *)
(* keeps the rows it has written from every other writer until it ends (on *)
(* SQLite, the whole database).                                            *)
(***************************************************************************)
EXTENDS Clips, Naturals, Sequences, SequencesExt

CONSTANTS
  Admins,        \* users whose role is admin or owner
  Proc,          \* requests in flight
  Workloads,     \* bound: what is asked for together, by whom and of which
                 \* clips, how often, and how many requests stop half-way
  BulkOrders,    \* bound: the clip lists of bulk requests
  CommentLimit,  \* PUBLIC_COMMENT_LIMIT
  MaxComments    \* bound: comments ever written

Visibility == {"private", "unlisted", "public"}
BulkOp == {"bulk_visibility", "bulk_delete"}
ClipOp == BulkOp \cup {"visibility", "update", "delete"}
CommentOp == {"comment", "uncomment"}
Op == ClipOp \cup CommentOp
NoShare == 0
ShareId == 1 .. 2 * Cardinality(Clip) * (1 + Cardinality(Proc))
Top == 0   \* no parent comment

ASSUME LibraryAssumption ==
  /\ IsFiniteSet(Proc) /\ Admins \subseteq User
  /\ BulkOrders \subseteq Seq(Clip) /\ \A cs \in BulkOrders : IsInjective(cs)
  /\ Workloads \subseteq [ops : SUBSET Op, users : SUBSET User, to : SUBSET Visibility,
                          start : [Clip -> {"processing", "ready", "shared"}],
                          requests : Nat, faults : Nat]
  /\ CommentLimit \in Nat /\ MaxComments \in Nat

VARIABLES
  workload,  \* the operations clients ask for
  clips,     \* table clips
  comments,  \* table clip_comments, in the order of creation
  audit,     \* audit rows about visibility changes and deletes, by clip
  changed,   \* history: such changes committed, by clip
  reqs,      \* requests
  settled,   \* history: what the last answer about a clip said, while no
             \* request about it has been in flight since
  begun,     \* bound: requests begun
  faults     \* bound: requests stopped half-way

vars == <<database, workload, clips, comments, audit, changed, reqs, settled, begun, faults>>
counts == <<begun, faults>>
setup == <<database, workload>>

Idle == [op |-> "none", pc |-> "idle", user |-> "none", on |-> <<>>, to |-> "private",
         plan |-> <<>>, row |-> 0, share |-> NoShare, target |-> "none",
         parent |-> Top]

TypeOK ==
  /\ database \in Databases /\ workload \in Workloads
  /\ clips \in [Clip -> [status : {"processing", "ready", "deleted"},
                         visibility : Visibility, share : ShareId \cup {NoShare}]]
  /\ comments \in Seq([clip : Clip, parent : Nat, by : User, deleted : BOOLEAN])
  /\ audit \in [Clip -> Nat] /\ changed \in [Clip -> Nat]
  /\ \A p \in Proc : reqs[p] = Idle \/ reqs[p].op \in workload.ops
  /\ begun \in 0 .. workload.requests /\ faults \in 0 .. workload.faults

\* A shared clip is public and has a share id and a comment of its owner.
SharedFirst == SetToSeq({c \in Clip : workload.start[c] = "shared"})
StartOf(c) ==
  IF workload.start[c] = "shared"
    THEN [status |-> "ready", visibility |-> "public",
          share |-> CHOOSE s \in DOMAIN SharedFirst : SharedFirst[s] = c]
    ELSE [status |-> workload.start[c], visibility |-> "private", share |-> NoShare]

Init ==
  /\ database \in Databases /\ workload \in Workloads
  /\ clips = [c \in Clip |-> StartOf(c)]
  /\ comments = [i \in DOMAIN SharedFirst |->
                   [clip |-> SharedFirst[i], parent |-> Top, by |-> OwnerOf[SharedFirst[i]],
                    deleted |-> FALSE]]
  /\ audit = [c \in Clip |-> 0] /\ changed = [c \in Clip |-> 0]
  /\ reqs = [p \in Proc |-> Idle]
  /\ settled = [c \in Clip |-> "open"]
  /\ begun = 0 /\ faults = 0

-----------------------------------------------------------------------------
(* Rows and what can be seen of them.                                      *)

Deleted(c) == clips[c].status = "deleted"
OwnedReady(u, c) == OwnerOf[c] = u /\ clips[c].status = "ready"
OwnedNonDeleted(u, c) == OwnerOf[c] = u /\ ~Deleted(c)

\* Whom a share id opens.
Opens(c, s) ==
  /\ s # NoShare /\ clips[c].share = s
  /\ clips[c].status = "ready" /\ clips[c].visibility \in {"public", "unlisted"}

\* The anonymous library.
InPublicLibrary(c) ==
  /\ clips[c].visibility = "public" /\ clips[c].status = "ready"
  /\ clips[c].share # NoShare

On(p) == ToSet(reqs[p].on)
Others(p) == Proc \ {p}
At(p, pc) == reqs[p].pc = pc
Continue(p, pc) == reqs' = [reqs EXCEPT ![p].pc = pc]
End(p) == reqs' = [reqs EXCEPT ![p] = Idle]

\* The rows that p's open transaction has written.
Held(p) == IF At(p, "rows") THEN {reqs[p].on[i] : i \in 1 .. reqs[p].row} ELSE {}
\* A statement of one of the processes in ps waits to write the rows cs.
Waits(ps, cs) ==
  \E q \in Proc \ ps : IF database = "sqlite" THEN Held(q) # {} ELSE Held(q) \cap cs # {}

-----------------------------------------------------------------------------
(* Requests about clips.                                                   *)

\* normalize_bulk_ids drops repeated ids, so "on" repeats none.  A bulk
\* delete takes its rows in the order asked for, a bulk change of visibility
\* in the one in which the database gave them: any.
Begin(p, r) ==
  /\ reqs[p] = Idle /\ begun < workload.requests /\ r.op \in workload.ops
  /\ reqs' = [reqs EXCEPT ![p] = r] /\ begun' = begun + 1
  /\ settled' = [c \in Clip |-> IF c \in ToSet(r.on) /\ settled[c] # "deleted"
                                  THEN "open" ELSE settled[c]]
  /\ UNCHANGED <<setup, clips, comments, audit, changed, faults>>

AskOne(p) ==
  \E u \in workload.users, c \in Clip, op \in {"visibility", "update", "delete"}, v \in workload.to \cup {"private"} :
    /\ IF op = "visibility" THEN v \in workload.to ELSE v = "private"
    /\ Begin(p, [Idle EXCEPT !.op = op, !.pc = "load", !.user = u, !.on = <<c>>, !.to = v])

AskBulk(p) ==
  \E u \in workload.users, cs \in BulkOrders, op \in BulkOp, v \in workload.to \cup {"private"} :
    /\ IF op = "bulk_visibility" THEN v \in workload.to ELSE v = "private"
    /\ Begin(p, [Idle EXCEPT !.op = op, !.pc = "load", !.user = u, !.on = cs, !.to = v])

\* get_owned_ready and get_owned_non_deleted; list_owned_for_bulk must find all.
Found(p) ==
  \A c \in On(p) :
    IF reqs[p].op \in {"visibility", "bulk_visibility"}
      THEN OwnedReady(reqs[p].user, c) ELSE OwnedNonDeleted(reqs[p].user, c)

\* The i-th new share id.  Ids that nothing refers to any more are taken
\* again, which nothing can tell from the random ones of the code.
Referred == {clips[c].share : c \in Clip}
            \cup UNION {{reqs[p].share} \cup ToSet(reqs[p].plan) : p \in Proc}
NewShare(i) ==
  CHOOSE s \in ShareId \ Referred :
    Cardinality({t \in ShareId \ Referred : t < s}) = i - 1

\* The share id a clip will have: none, the one it has, or a new one.
ShareFor(p, i) ==
  LET share == clips[reqs[p].on[i]].share
  IN IF reqs[p].to = "private" THEN NoShare
     ELSE IF share # NoShare THEN share ELSE NewShare(i)

Load(p) ==
  /\ At(p, "load") /\ reqs[p].op \in ClipOp
  /\ IF Found(p)
       THEN reqs' = [reqs EXCEPT
                       ![p].pc = IF reqs[p].op \in BulkOp THEN "rows" ELSE "write",
                       ![p].plan = [i \in 1 .. Len(reqs[p].on) |-> ShareFor(p, i)]]
       ELSE End(p)
  /\ UNCHANGED <<setup, clips, comments, audit, changed, settled, counts>>

\* set_visibility names the id only; soft_delete too; update_metadata leaves
\* a deleted row alone.
Written(p) ==
  CASE reqs[p].op = "visibility" ->
         [c \in Clip |-> IF c \in On(p)
                           THEN [clips[c] EXCEPT !.visibility = reqs[p].to,
                                                 !.share = reqs[p].plan[1]]
                           ELSE clips[c]]
    [] reqs[p].op = "delete" ->
         [c \in Clip |-> IF c \in On(p) THEN [clips[c] EXCEPT !.status = "deleted"]
                         ELSE clips[c]]
    [] OTHER -> clips

Write(p) ==
  /\ At(p, "write") /\ reqs[p].op \in ClipOp /\ ~Waits({p}, On(p))
  /\ clips' = Written(p)
  /\ changed' = [c \in Clip |-> IF c \in On(p) /\ reqs[p].op # "update"
                                  THEN changed[c] + 1 ELSE changed[c]]
  /\ reqs' = [reqs EXCEPT ![p].pc = "audit"]
  /\ UNCHANGED <<setup, comments, audit, settled, counts>>

-----------------------------------------------------------------------------
(* Answers.                                                                *)

InFlight(p, c) == \E q \in Others(p) : c \in On(q)

\* The history of an answer about the clips p asked for.
Answers(p, says) ==
  settled' = [c \in Clip |->
    IF c \notin On(p) \/ settled[c] = "deleted" THEN settled[c]
    ELSE IF reqs[p].op \in {"delete", "bulk_delete"} THEN "deleted"
    ELSE IF InFlight(p, c) THEN "open" ELSE says[c]]

\* The audit row; a delete is answered then, the others read the row again.
Audit(p) ==
  /\ At(p, "audit") /\ reqs[p].op \in ClipOp /\ ~Waits({p}, {})
  /\ audit' = [c \in Clip |-> IF c \in On(p) /\ reqs[p].op # "update"
                                THEN audit[c] + 1 ELSE audit[c]]
  /\ IF reqs[p].op = "delete"
       THEN End(p) /\ Answers(p, settled)
       ELSE Continue(p, "reread") /\ UNCHANGED settled
  /\ UNCHANGED <<setup, clips, comments, changed, counts>>

Reread(p) == Found(p)

AnswerOk(p) ==
  /\ At(p, "reread") /\ Reread(p) /\ End(p)
  /\ IF reqs[p].op = "visibility" THEN Answers(p, [c \in Clip |-> clips[c].visibility])
     ELSE UNCHANGED settled
  /\ UNCHANGED <<setup, clips, comments, audit, changed, counts>>

\* "clip was deleted before the update completed"
AnswerConflict(p) ==
  /\ At(p, "reread") /\ ~Reread(p) /\ End(p)
  /\ UNCHANGED <<setup, clips, comments, audit, changed, settled, counts>>

-----------------------------------------------------------------------------
(* The transaction of a bulk request.                                      *)

NextRow(p) == reqs[p].on[reqs[p].row + 1]
RowsLeft(p) == At(p, "rows") /\ reqs[p].row < Len(reqs[p].on)

\* Mutant: the update names the row and its owner only.
RowOwned(p) == OwnerOf[NextRow(p)] = reqs[p].user
\* rows_affected must be 1: the WHERE clause is read again under the lock.
RowMatches(p) ==
  IF reqs[p].op = "bulk_visibility" THEN OwnedReady(reqs[p].user, NextRow(p))
  ELSE OwnedNonDeleted(reqs[p].user, NextRow(p))

WriteRow(p) ==
  /\ RowsLeft(p) /\ ~Waits({p}, {NextRow(p)}) /\ RowMatches(p)
  /\ reqs' = [reqs EXCEPT ![p].row = @ + 1]
  /\ UNCHANGED <<setup, clips, comments, audit, changed, settled, counts>>

\* Mutant: the audit rows are written outside the transaction.
RefuseRowAudited(p) ==
  /\ RowsLeft(p) /\ ~Waits({p}, {NextRow(p)}) /\ ~RowMatches(p) /\ End(p)
  /\ audit' = [c \in Clip |-> IF c \in Held(p) THEN audit[c] + 1 ELSE audit[c]]
  /\ UNCHANGED <<setup, clips, comments, changed, settled, counts>>
\* Mutant: the transaction tries the row again.
RefuseRowRetried(p) ==
  /\ RowsLeft(p) /\ ~Waits({p}, {NextRow(p)}) /\ ~RowMatches(p) /\ UNCHANGED vars
\* RowNotFound: the transaction is dropped, and with it its rows and audit rows.
RefuseRow(p) ==
  /\ RowsLeft(p) /\ ~Waits({p}, {NextRow(p)}) /\ ~RowMatches(p) /\ End(p)
  /\ UNCHANGED <<setup, clips, comments, audit, changed, settled, counts>>

WaitsFor(p, q) == RowsLeft(p) /\ q # p /\ NextRow(p) \in Held(q)

\* Postgres ends one of the transactions that wait for each other.
BreakDeadlock(p) ==
  /\ database = "postgres"
  /\ \E S \in SUBSET Proc : /\ p \in S /\ \E q \in S : WaitsFor(q, p)
                            /\ \A q \in S : \E r \in S : WaitsFor(q, r)
  /\ End(p)
  /\ UNCHANGED <<setup, clips, comments, audit, changed, settled, counts>>

Planned(p, c) == reqs[p].plan[CHOOSE i \in DOMAIN reqs[p].on : reqs[p].on[i] = c]
BulkWritten(p, c) ==
  IF c \notin Held(p) THEN clips[c]
  ELSE IF reqs[p].op = "bulk_delete" THEN [clips[c] EXCEPT !.status = "deleted"]
  ELSE [clips[c] EXCEPT !.visibility = reqs[p].to, !.share = Planned(p, c)]

Commit(p) ==
  /\ At(p, "rows") /\ ~RowsLeft(p) /\ End(p)
  /\ clips' = [c \in Clip |-> BulkWritten(p, c)]
  /\ changed' = [c \in Clip |-> IF c \in Held(p) THEN changed[c] + 1 ELSE changed[c]]
  /\ audit' = [c \in Clip |-> IF c \in Held(p) THEN audit[c] + 1 ELSE audit[c]]
  /\ Answers(p, [c \in Clip |-> reqs[p].to])
  /\ UNCHANGED <<setup, comments, counts>>

-----------------------------------------------------------------------------
(* Comments.                                                               *)

AskComment(p) ==
  \E u \in workload.users, s \in {clips[c].share : c \in Clip} \ {NoShare},
     k \in Top .. Len(comments), op \in CommentOp :
    /\ op = "uncomment" => k # Top
    /\ Begin(p, [Idle EXCEPT !.op = op, !.pc = "load", !.user = u, !.share = s, !.parent = k])

LoadShared(p) ==
  /\ At(p, "load") /\ reqs[p].op \in CommentOp
  /\ IF \E c \in Clip : Opens(c, reqs[p].share)
       THEN \E c \in Clip :
              /\ Opens(c, reqs[p].share)
              /\ reqs' = [reqs EXCEPT ![p].target = c, ![p].pc =
                            IF reqs[p].parent = Top THEN "write" ELSE "check"]
       ELSE End(p)
  /\ UNCHANGED <<setup, clips, comments, audit, changed, settled, counts>>

Subject(p) == comments[reqs[p].parent]
UnderThisClip(p) == ~Subject(p).deleted /\ Subject(p).clip = reqs[p].target
\* viewer_can_delete_comment
MayUncomment(p) ==
  \/ Subject(p).by = reqs[p].user \/ OwnerOf[reqs[p].target] = reqs[p].user
  \/ reqs[p].user \in Admins
\* Replies can only target top-level comments.
MayReply(p) == Subject(p).parent = Top

Check(p) ==
  /\ At(p, "check")
  /\ IF UnderThisClip(p)
        /\ IF reqs[p].op = "comment" THEN MayReply(p) ELSE MayUncomment(p)
       THEN Continue(p, "write") ELSE End(p)
  /\ UNCHANGED <<setup, clips, comments, audit, changed, settled, counts>>

\* The comments' own audit rows change nothing that is modelled here.
WriteComment(p) ==
  /\ At(p, "write") /\ reqs[p].op = "comment" /\ ~Waits({p}, {}) /\ End(p)
  /\ comments' = IF Len(comments) = MaxComments THEN comments
                 ELSE Append(comments, [clip |-> reqs[p].target, parent |-> reqs[p].parent,
                                        by |-> reqs[p].user, deleted |-> FALSE])
  /\ UNCHANGED <<setup, clips, audit, changed, settled, counts>>

Uncomment(p) ==
  /\ At(p, "write") /\ reqs[p].op = "uncomment" /\ ~Waits({p}, {}) /\ End(p)
  /\ comments' = [comments EXCEPT ![reqs[p].parent].deleted = TRUE]
  /\ UNCHANGED <<setup, clips, audit, changed, settled, counts>>

\* What list_for_clip returns, as positions in the order of creation.
LiveUnder(c, k) == comments[k].clip = c /\ ~comments[k].deleted
\* Mutant: the join with the parent is left out.
AnyParent(c, k) == LiveUnder(c, k)
ParentListed(c, k) ==
  \/ comments[k].parent = Top
  \/ LiveUnder(c, comments[k].parent) /\ comments[comments[k].parent].parent = Top
Newest(S) == {k \in S : Cardinality({j \in S : j > k}) < CommentLimit}
Thread(c) == Newest({k \in 1 .. Len(comments) : LiveUnder(c, k) /\ ParentListed(c, k)})

-----------------------------------------------------------------------------
(* The rest of the system.                                                 *)

\* mark_ready: the validate job ends, unless the clip has been deleted.
\* Mutant: the update does not look at the status.
AnyStatus(c) == c \in Clip
StillThere(c) == ~Deleted(c)
MarkReady(c) ==
  /\ clips[c].status # "ready" /\ StillThere(c) /\ ~Waits({}, {c})
  /\ clips' = [clips EXCEPT ![c].status = "ready"]
  /\ UNCHANGED <<setup, comments, audit, changed, reqs, settled, counts>>

\* The client goes away, or a statement fails: an open transaction is undone.
Stop(p) ==
  /\ reqs[p] # Idle /\ faults < workload.faults /\ faults' = faults + 1 /\ End(p)
  /\ UNCHANGED <<setup, clips, comments, audit, changed, settled, begun>>

Step(p) ==
  \/ Load(p) \/ Write(p) \/ Audit(p) \/ AnswerOk(p) \/ AnswerConflict(p)
  \/ WriteRow(p) \/ RefuseRow(p) \/ BreakDeadlock(p) \/ Commit(p)
  \/ LoadShared(p) \/ Check(p) \/ WriteComment(p) \/ Uncomment(p)

Next ==
  \/ \E p \in Proc : Step(p) \/ AskOne(p) \/ AskBulk(p) \/ AskComment(p) \/ Stop(p)
  \/ \E c \in Clip : MarkReady(c)

Spec == Init /\ [][Next]_vars /\ \A p \in Proc : WF_vars(Step(p))

-----------------------------------------------------------------------------
(* What the library promises.                                              *)

\* What an answer said of a clip is what the public gets until somebody asks
\* again: a deleted clip stays gone whatever was under way, a private one is
\* opened by no link, an unlisted one is not in the public library.
AnswersHold ==
  \A c \in Clip :
    LET seen == {s \in ShareId : Opens(c, s)}
    IN settled[c] # "open" =>
         /\ settled[c] \in {"deleted", "private"} => seen = {} /\ ~InPublicLibrary(c)
         /\ settled[c] = "unlisted" => seen # {} /\ ~InPublicLibrary(c)
         /\ settled[c] = "public" => seen # {} /\ InPublicLibrary(c)

\* A bulk request that is answered has done what it says to every one of its
\* clips, whatever happened to them since it looked them up.
BulkIsWhole ==
  [][\A p \in Proc : Commit(p) =>
       \A c \in On(p) :
         /\ OwnerOf[c] = reqs[p].user /\ ~Deleted(c)
         /\ IF reqs[p].op = "bulk_delete" THEN clips'[c].status = "deleted"
            ELSE clips[c].status = "ready" /\ clips'[c].visibility = reqs[p].to]_vars

\* Visibility changes and deletes appear in the audit log, and nothing else
\* does: it is at most behind by the requests about to write their row and by
\* those that stopped before.
AuditMatchesChanges ==
  \A c \in Clip :
    /\ audit[c] <= changed[c]
    /\ changed[c] <= audit[c] + faults
                     + Cardinality({p \in Proc : At(p, "audit") /\ c \in On(p)})

\* A listed reply stands under a listed comment of its clip, or under one
\* that only the limit has cut off: never under a deleted comment, and never
\* under another reply.
ThreadsAreSound ==
  \A c \in Clip : \A k \in Thread(c) :
    LET parent == comments[k].parent
    IN parent # Top =>
         /\ ~comments[parent].deleted /\ comments[parent].clip = c
         /\ comments[parent].parent = Top
         /\ parent \in Thread(c) \/ Cardinality(Thread(c)) = CommentLimit

\* Every request is answered: bulk transactions that take their rows in
\* opposite orders do not wait for each other for ever.
EveryRequestIsAnswered ==
  \A p \in Proc : reqs[p] # Idle ~> reqs[p] = Idle
=============================================================================
