--------------------------- MODULE LibraryProofs ---------------------------
(***************************************************************************)
(* Proofs about Library: for any number of clips, users and requests under *)
(* way, on both databases, what an answer has said of a clip holds until   *)
(* somebody asks about it again, a bulk request that is answered has done  *)
(* what it says to all of its clips, the audit log keeps up with the       *)
(* changes, and a listed reply has its parent; and, in the second part,    *)
(* about Browse: for any library, list and page size, what a walk through  *)
(* a list shows, and what its figures count.                               *)
(***************************************************************************)
EXTENDS Library, Browse, FiniteSetTheorems, SequenceTheorems, WellFoundedInduction, TLAPS

Pc == {"idle", "load", "rows", "write", "audit", "reread", "check"}
Share == ShareId \cup {NoShare}
Request ==
  [op : Op \cup {"none"}, pc : Pc, user : User \cup {"none"}, on : Seq(Clip),
   to : Visibility, plan : Seq(Share), row : Nat, share : Share,
   target : Clip \cup {"none"}, parent : Nat]
Row == [status : {"processing", "ready", "deleted"}, visibility : Visibility, share : Share]
Comment == [clip : Clip, parent : Nat, by : User, deleted : BOOLEAN]

Types ==
  /\ database \in Databases /\ workload \in Workloads
  /\ clips \in [Clip -> Row] /\ comments \in Seq(Comment)
  /\ audit \in [Clip -> Nat] /\ changed \in [Clip -> Nat]
  /\ reqs \in [Proc -> Request]
  /\ settled \in [Clip -> Visibility \cup {"open", "deleted"}]
  /\ begun \in 0 .. workload.requests /\ faults \in 0 .. workload.faults

\* A request about clips: how long its lists are, and that it opens a link
\* for each clip it is about to open.
ClipRequestOK(r) ==
  /\ r.op \in workload.ops /\ r.share = NoShare
  /\ Len(r.on) <= Cardinality(Clip) /\ r.row <= Len(r.plan)
  /\ Len(r.plan) = IF r.pc = "load" THEN 0 ELSE Len(r.on)
  /\ r.pc \in IF r.op \in BulkOp THEN {"load", "rows"} ELSE {"load", "write", "audit", "reread"}
  /\ r.op \notin BulkOp => Len(r.on) = 1
  /\ r.to # "private" => \A i \in DOMAIN r.plan : r.plan[i] # NoShare

\* A request about comments: the comment it names, and the clip it has found.
CommentRequestOK(r) ==
  /\ r.op \in workload.ops /\ r.user \in User
  /\ r.on = <<>> /\ r.plan = <<>> /\ r.row = 0
  /\ r.pc \in {"load", "check", "write"} /\ r.parent <= Len(comments)
  /\ r.pc # "load" => r.target \in Clip
  /\ r.op = "uncomment" => r.parent # Top

RequestsAreSound ==
  \A p \in Proc :
    /\ reqs[p].op \notin Op => reqs[p] = Idle
    /\ reqs[p].op \in ClipOp => ClipRequestOK(reqs[p])
    /\ reqs[p].op \in CommentOp => CommentRequestOK(reqs[p])

\* A clip that is not private has a link.
OpenClipsHaveALink == \A c \in Clip : clips[c].visibility # "private" => clips[c].share # NoShare

\* What a transaction has read of the rows it holds is still so.
Matches(p, c) ==
  IF reqs[p].op = "bulk_visibility" THEN OwnedReady(reqs[p].user, c)
  ELSE OwnedNonDeleted(reqs[p].user, c)
HeldRowsMatch == \A p \in Proc : \A c \in Held(p) : Matches(p, c)

\* No two transactions hold a row, and on SQLite only one holds any.
RowsAreHeldOnce ==
  \A p, q \in Proc : p # q =>
    IF database = "sqlite" THEN Held(p) = {} \/ Held(q) = {} ELSE Held(p) \cap Held(q) = {}

\* The clip of a delete that has been written is deleted.
WrittenDeletes ==
  \A p \in Proc : reqs[p].op = "delete" /\ At(p, "audit") => \A c \in On(p) : Deleted(c)

\* What an answer has said of a clip is what its row says: for good of a
\* delete, and as long as no request about the clip is under way otherwise.
AnswersAreRows ==
  \A c \in Clip :
    /\ settled[c] = "deleted" => Deleted(c)
    /\ settled[c] \in Visibility =>
         /\ clips[c].status = "ready" /\ clips[c].visibility = settled[c]
         /\ \A p \in Proc : c \notin On(p)

\* The requests that have changed a clip and are about to say so.
Owing(c) == {p \in Proc : At(p, "audit") /\ reqs[p].op # "update" /\ c \in On(p)}
AuditIsOwed ==
  \A c \in Clip :
    /\ audit[c] + Cardinality(Owing(c)) <= changed[c]
    /\ changed[c] <= audit[c] + faults + Cardinality(Owing(c))

\* Replies are to comments there are.
ParentsExist == \A k \in DOMAIN comments : comments[k].parent <= Len(comments)

LibraryInv ==
  /\ Types /\ RequestsAreSound /\ OpenClipsHaveALink /\ HeldRowsMatch /\ RowsAreHeldOnce
  /\ WrittenDeletes /\ AnswersAreRows /\ AuditIsOwed /\ ParentsExist

-----------------------------------------------------------------------------
(* Counting.                                                               *)

LEMMA Sizes ==
  Cardinality(Clip) \in Nat /\ Cardinality(Proc) \in Nat /\ IsFiniteSet(Clip) /\ IsFiniteSet(Proc)
BY LibraryAssumption, ClipsAssumption, FS_CardinalityType

\* In a finite set with a total order as many elements are below one as its
\* rank says, and every rank up to the size of the set is taken once.
Below(S, R, x) == {t \in S : <<t, x>> \in R}
LEMMA Ranks ==
  ASSUME NEW S, IsFiniteSet(S), NEW R,
         \A x \in S : <<x, x>> \notin R,
         \A x, y \in S : x # y => <<x, y>> \in R \/ <<y, x>> \in R,
         \A x, y, z \in S : <<x, y>> \in R /\ <<y, z>> \in R => <<x, z>> \in R
  PROVE  [x \in S |-> Cardinality(Below(S, R, x))] \in Bijection(S, 0 .. Cardinality(S) - 1)
<1> DEFINE f == [x \in S |-> Cardinality(Below(S, R, x))]
           T == 0 .. Cardinality(S) - 1
<1>1. Cardinality(S) \in Nat
  BY FS_CardinalityType
<1>2. IsFiniteSet(T) /\ Cardinality(T) = Cardinality(S)
  <2>1. Cardinality(S) - 1 \in Int /\ 0 \in Int
    BY <1>1
  <2>2. IsFiniteSet(T) /\ Cardinality(T) = IF 0 > Cardinality(S) - 1 THEN 0 ELSE Cardinality(S) - 1 - 0 + 1
    BY <2>1, FS_Interval
  <2>3. QED BY <1>1, <2>2
<1>3. ASSUME NEW x \in S
      PROVE  IsFiniteSet(Below(S, R, x)) /\ Cardinality(Below(S, R, x)) \in T
  <2>1. IsFiniteSet(S \ {x}) /\ Cardinality(S \ {x}) = Cardinality(S) - 1
    BY FS_RemoveElement
  <2>2. Below(S, R, x) \in SUBSET (S \ {x})
    BY DEF Below
  <2>3. IsFiniteSet(Below(S, R, x)) /\ Cardinality(Below(S, R, x)) <= Cardinality(S) - 1
    BY <2>1, <2>2, FS_Subset
  <2>4. Cardinality(Below(S, R, x)) \in Nat
    BY <2>3, FS_CardinalityType
  <2>5. QED BY <1>1, <2>3, <2>4
<1>4. ASSUME NEW x \in S, NEW y \in S, <<x, y>> \in R
      PROVE  Cardinality(Below(S, R, x)) < Cardinality(Below(S, R, y))
  <2>1. x \notin Below(S, R, x)
    BY DEF Below
  <2>2. IsFiniteSet(Below(S, R, x) \cup {x})
        /\ Cardinality(Below(S, R, x) \cup {x}) = Cardinality(Below(S, R, x)) + 1
    BY <1>3, <2>1, FS_AddElement
  <2>3. Below(S, R, x) \cup {x} \in SUBSET Below(S, R, y)
    BY <1>4 DEF Below
  <2>4. Cardinality(Below(S, R, x)) + 1 <= Cardinality(Below(S, R, y))
    BY <1>3, <2>2, <2>3, FS_Subset
  <2>5. Cardinality(Below(S, R, x)) \in Nat /\ Cardinality(Below(S, R, y)) \in Nat
    BY <1>1, <1>3
  <2>6. QED BY <2>4, <2>5
<1>5. f \in [S -> T]
  BY <1>3
<1>6. ASSUME NEW x \in S, NEW y \in S, f[x] = f[y] PROVE x = y
  <2>1. SUFFICES ASSUME x # y PROVE FALSE
    OBVIOUS
  <2>2. Cardinality(Below(S, R, x)) \in Nat /\ Cardinality(Below(S, R, y)) \in Nat
    BY <1>1, <1>3
  <2>3. Cardinality(Below(S, R, x)) = Cardinality(Below(S, R, y))
    BY <1>6
  <2>4. CASE <<x, y>> \in R
    BY <1>4, <2>2, <2>3, <2>4
  <2>5. CASE <<y, x>> \in R
    BY <1>4, <2>2, <2>3, <2>5
  <2>6. QED BY <2>1, <2>4, <2>5
<1>7. f \in Injection(S, T)
  BY <1>5, <1>6 DEF Injection, IsInjective
<1>8. f \in Surjection(S, T)
  BY <1>2, <1>7, FS_Injection
<1>9. QED BY <1>7, <1>8 DEF Bijection

\* The new share ids of a request exist: more ids than rows and requests
\* can refer to.
LEMMA NewShareIsNew ==
  ASSUME Types, RequestsAreSound, NEW i \in 1 .. Cardinality(Clip)
  PROVE  NewShare(i) \in ShareId \ Referred
<1> DEFINE N == Cardinality(Clip)
           M == Cardinality(Proc)
           Pairs == (1 .. N) \X Proc
           g == [x \in Pairs |-> IF x[1] <= Len(reqs[x[2]].plan) THEN reqs[x[2]].plan[x[1]]
                                 ELSE reqs[x[2]].share]
           h == [c \in Clip |-> clips[c].share]
           G == {g[x] : x \in Pairs}
           H == {h[c] : c \in Clip}
           Free == ShareId \ Referred
<1>1. N \in Nat /\ M \in Nat /\ IsFiniteSet(Clip) /\ IsFiniteSet(Proc)
  BY Sizes
<1>2. IsFiniteSet(1 .. N) /\ Cardinality(1 .. N) = N
  BY <1>1, FS_Interval
<1>3. IsFiniteSet(Pairs) /\ Cardinality(Pairs) = N * M
  BY <1>1, <1>2, FS_Product
<1>4. g \in Surjection(Pairs, G)
  BY DEF Surjection
<1>5. IsFiniteSet(G) /\ Cardinality(G) <= N * M
  <2>. HIDE DEF g, G, Pairs
  <2>1. QED BY <1>3, <1>4, FS_Surjection
<1>6. h \in Surjection(Clip, H)
  BY DEF Surjection
<1>7. IsFiniteSet(H) /\ Cardinality(H) <= N
  <2>. HIDE DEF h, H
  <2>1. QED BY <1>1, <1>6, FS_Surjection
<1>8. Cardinality(G) \in Nat /\ Cardinality(H) \in Nat
  BY <1>5, <1>7, FS_CardinalityType
<1>9. IsFiniteSet(H \cup G) /\ Cardinality(H \cup G) <= N + N * M
  <2>1. IsFiniteSet(H \cap G)
    <3>1. H \cap G \in SUBSET H
      OBVIOUS
    <3>2. QED BY <1>7, <3>1, FS_Subset
  <2>2. Cardinality(H \cap G) \in Nat
    BY <2>1, FS_CardinalityType
  <2>3. IsFiniteSet(H \cup G) /\ Cardinality(H \cup G) = Cardinality(H) + Cardinality(G) - Cardinality(H \cap G)
    BY <1>5, <1>7, FS_Union
  <2>4. N * M \in Nat
    BY <1>1
  <2>. HIDE DEF G, H, N, M
  <2>5. QED BY <1>1, <1>5, <1>7, <1>8, <2>2, <2>3, <2>4
<1>10. ShareId \cap Referred \in SUBSET (H \cup G)
  <2>1. SUFFICES ASSUME NEW s \in ShareId, s \in Referred PROVE s \in H \cup G
    OBVIOUS
  <2>2. s # NoShare
    BY <1>1 DEF ShareId, NoShare
  <2>3. CASE \E c \in Clip : s = clips[c].share
    BY <2>3
  <2>4. ASSUME NEW p \in Proc, s = reqs[p].share \/ s \in ToSet(reqs[p].plan) PROVE s \in G
    <3>1. reqs[p] \in Request
      BY DEF Types
    <3>2. reqs[p].plan \in Seq(Share) /\ reqs[p].share \in Share
      BY <3>1 DEF Request
    <3>3. CASE s \in ToSet(reqs[p].plan)
      <4>1. PICK k \in 1 .. Len(reqs[p].plan) : s = reqs[p].plan[k]
        BY <3>2, <3>3 DEF ToSet
      <4>2. Len(reqs[p].plan) <= N
        <5>1. reqs[p].op \in ClipOp
          <6>1. Len(reqs[p].plan) > 0
            BY <3>2, <4>1
          <6>2. QED BY <6>1 DEF RequestsAreSound, CommentRequestOK, Idle, Op
        <5>2. Len(reqs[p].plan) \in {0, Len(reqs[p].on)} /\ Len(reqs[p].on) <= N
          BY <5>1 DEF RequestsAreSound, ClipRequestOK
        <5>3. QED BY <1>1, <5>2
      <4>3. k \in 1 .. N /\ k <= Len(reqs[p].plan)
        BY <1>1, <3>2, <4>1, <4>2
      <4>4. <<k, p>> \in Pairs /\ g[<<k, p>>] = s
        BY <4>1, <4>3
      <4>5. QED BY <4>4
    <3>4. CASE s = reqs[p].share
      <4>1. reqs[p].op \notin ClipOp
        BY <2>2, <3>4 DEF RequestsAreSound, ClipRequestOK
      <4>2. Len(reqs[p].plan) = 0
        BY <4>1 DEF RequestsAreSound, CommentRequestOK, Idle, Op
      <4>3. 1 \in 1 .. N
        BY <1>1
      <4>4. <<1, p>> \in Pairs /\ g[<<1, p>>] = s
        BY <3>4, <4>2, <4>3
      <4>5. QED BY <4>4
    <3>5. QED BY <2>4, <3>3, <3>4
  <2>5. QED BY <2>1, <2>3, <2>4 DEF Referred
<1>11. IsFiniteSet(ShareId) /\ Cardinality(ShareId) = 2 * N * (1 + M)
  <2>1. 2 * N * (1 + M) \in Nat
    BY <1>1
  <2>2. QED BY <2>1, FS_Interval DEF ShareId
<1>12. IsFiniteSet(Free) /\ Cardinality(Free) = Cardinality(ShareId) - Cardinality(ShareId \cap Referred)
  BY <1>11, FS_Difference
<1>13. Cardinality(ShareId \cap Referred) \in Nat /\ Cardinality(ShareId \cap Referred) <= N + N * M
  <2>1. IsFiniteSet(ShareId \cap Referred) /\ Cardinality(ShareId \cap Referred) <= Cardinality(H \cup G)
    <3>. HIDE DEF G, H
    <3>1. QED BY <1>9, <1>10, FS_Subset
  <2>2. Cardinality(ShareId \cap Referred) \in Nat
    BY <2>1, FS_CardinalityType
  <2>3. Cardinality(H \cup G) \in Nat
    BY <1>9, FS_CardinalityType
  <2>4. N * M \in Nat
    BY <1>1
  <2>. HIDE DEF G, H, N, M
  <2>5. QED BY <1>1, <1>9, <2>1, <2>2, <2>3, <2>4
<1>14. Cardinality(Free) \in Nat /\ i - 1 \in 0 .. Cardinality(Free) - 1
  <2>1. Cardinality(Free) \in Nat
    BY <1>12, FS_CardinalityType
  <2>2. 2 * N * (1 + M) = N + N * M + N + N * M /\ N * M \in Nat
    BY <1>1
  <2>3. Cardinality(Free) >= N
    <3>. HIDE DEF N, M, Free
    <3>1. QED BY <1>1, <1>11, <1>12, <1>13, <2>1, <2>2
  <2>. HIDE DEF Free
  <2>4. QED BY <1>1, <2>1, <2>3
<1> DEFINE R == {x \in Nat \X Nat : x[1] < x[2]}
<1>15. Free \subseteq Nat
  BY DEF ShareId
<1>16. \A s \in Free : Below(Free, R, s) = {t \in Free : t < s}
  BY <1>15 DEF Below
<1>17. [s \in Free |-> Cardinality(Below(Free, R, s))] \in Bijection(Free, 0 .. Cardinality(Free) - 1)
  <2>1. \A x, y \in Free : <<x, y>> \in R <=> x < y
    BY <1>15
  <2>2. /\ \A x \in Free : <<x, x>> \notin R
        /\ \A x, y \in Free : x # y => <<x, y>> \in R \/ <<y, x>> \in R
        /\ \A x, y, z \in Free : <<x, y>> \in R /\ <<y, z>> \in R => <<x, z>> \in R
    BY <1>15, <2>1
  <2>. HIDE DEF Free, R
  <2>3. QED BY <1>12, <2>2, Ranks
<1>18. \E s \in Free : Cardinality({t \in Free : t < s}) = i - 1
  <2>1. PICK s \in Free : [x \in Free |-> Cardinality(Below(Free, R, x))][s] = i - 1
    <3>. HIDE DEF Free, R
    <3>1. QED BY <1>14, <1>17 DEF Bijection, Surjection
  <2>2. QED BY <1>16, <2>1
<1>19. QED BY <1>18 DEF NewShare

-----------------------------------------------------------------------------
(* The steps of a request.                                                 *)

\* A request that changes and no other does.
LEMMA OneRequest ==
  ASSUME Types, RequestsAreSound, NEW p \in Proc, NEW r \in Request,
         reqs' = [reqs EXCEPT ![p] = r], workload' = workload, Len(comments') \in Nat,
         Len(comments') >= Len(comments),
         r.op \notin Op => r = Idle,
         r.op \in ClipOp => ClipRequestOK(r)',
         r.op \in CommentOp => CommentRequestOK(r)'
  PROVE  reqs' \in [Proc -> Request] /\ RequestsAreSound'
<1>1. reqs' \in [Proc -> Request]
  BY DEF Types
<1>2. Len(comments) \in Nat
  BY DEF Types
<1>3. ASSUME NEW q \in Proc
      PROVE  (/\ reqs[q].op \notin Op => reqs[q] = Idle
              /\ reqs[q].op \in ClipOp => ClipRequestOK(reqs[q])
              /\ reqs[q].op \in CommentOp => CommentRequestOK(reqs[q]))'
  <2>1. CASE q = p
    <3>1. reqs'[q] = r
      BY <2>1 DEF Types
    <3>2. QED BY <3>1 DEF ClipRequestOK, CommentRequestOK
  <2>2. CASE q # p
    <3>1. reqs'[q] = reqs[q]
      BY <2>2 DEF Types
    <3>2. PICK s \in Request : s = reqs[q]
      BY DEF Types
    <3>3. ClipRequestOK(s) => ClipRequestOK(s)'
      BY DEF ClipRequestOK
    <3>4. CommentRequestOK(s) => CommentRequestOK(s)'
      <4>1. s.parent \in Nat
        BY DEF Request
      <4>2. QED BY <1>2, <4>1 DEF CommentRequestOK
    <3>5. /\ s.op \notin Op => s = Idle
          /\ s.op \in ClipOp => ClipRequestOK(s)
          /\ s.op \in CommentOp => CommentRequestOK(s)
      BY <3>2 DEF RequestsAreSound
    <3>6. reqs'[q] = s
      BY <3>1, <3>2
    <3>7. QED BY <3>3, <3>4, <3>5, <3>6 DEF ClipRequestOK, CommentRequestOK
  <2>3. QED BY <2>1, <2>2
<1>4. QED BY <1>1, <1>3 DEF RequestsAreSound

LEMMA IdleIsARequest == Idle \in Request /\ Idle.op \notin Op /\ Idle.on = <<>> /\ Idle.pc = "idle"
<1>1. <<>> \in Seq(Clip) /\ <<>> \in Seq(Share)
  OBVIOUS
<1>2. QED BY <1>1 DEF Idle, Request, Pc, Visibility, Share, NoShare, Top, Op, ClipOp, BulkOp, CommentOp

\* A request that ends.
LEMMA Ended ==
  ASSUME Types, RequestsAreSound, NEW p \in Proc, End(p), workload' = workload,
         Len(comments') \in Nat, Len(comments') >= Len(comments)
  PROVE  reqs' \in [Proc -> Request] /\ RequestsAreSound'
<1>1. PICK r \in Request : r = Idle
  BY IdleIsARequest
<1>2. reqs' = [reqs EXCEPT ![p] = r] /\ r.op \notin Op
  BY <1>1, IdleIsARequest DEF End
<1>3. r.op \notin ClipOp /\ r.op \notin CommentOp
  BY <1>2 DEF Op
<1>4. QED BY <1>1, <1>2, <1>3, OneRequest

\* What is asked for is a request.
LEMMA Asked ==
  ASSUME Types, RequestsAreSound, NEW p \in Proc, AskOne(p) \/ AskBulk(p) \/ AskComment(p)
  PROVE  /\ reqs' \in [Proc -> Request] /\ RequestsAreSound'
         /\ reqs[p] = Idle /\ reqs'[p].pc = "load"
         /\ \E r : reqs' = [reqs EXCEPT ![p] = r] /\ Begin(p, r)
<1>1. /\ workload.ops \subseteq Op /\ workload.users \subseteq User /\ workload.to \subseteq Visibility
  BY LibraryAssumption, ClipsAssumption DEF Types
<1>2. Len(comments) \in Nat
  BY DEF Types
<1>3. CASE AskOne(p)
  <2>1. PICK u \in workload.users, c \in Clip, op \in {"visibility", "update", "delete"},
             v \in workload.to \cup {"private"} :
          Begin(p, [Idle EXCEPT !.op = op, !.pc = "load", !.user = u, !.on = <<c>>, !.to = v])
    BY <1>3 DEF AskOne
  <2>2. PICK r : r = [Idle EXCEPT !.op = op, !.pc = "load", !.user = u, !.on = <<c>>, !.to = v]
    OBVIOUS
  <2>begun. Begin(p, r) /\ r.op \in workload.ops
    BY <2>1, <2>2 DEF Begin
  <2>moved. /\ reqs' = [reqs EXCEPT ![p] = r] /\ reqs[p] = Idle /\ reqs'[p] = r
            /\ workload' = workload /\ comments' = comments
    BY <2>begun DEF Begin, setup, Types
  <2>3. /\ r.op = op /\ r.pc = "load" /\ r.user = u /\ r.on = <<c>> /\ r.to = v
        /\ r.plan = <<>> /\ r.row = 0 /\ r.share = NoShare
    BY <2>2 DEF Idle
  <2>4. r \in Request
    <3>1. v \in Visibility /\ u \in User /\ <<c>> \in Seq(Clip)
      BY <1>1 DEF Visibility
    <3>2. QED BY <2>2, <3>1, IdleIsARequest DEF Request, Idle, Pc, Op, ClipOp
  <2>5. Len(r.on) = 1 /\ Len(r.on) <= Cardinality(Clip)
    BY <2>3, Sizes, FS_EmptySet
  <2>6. r.op \in ClipOp /\ r.op \notin BulkOp /\ r.op \notin CommentOp /\ r.op \in Op
    BY <2>3 DEF ClipOp, BulkOp, CommentOp, Op
  <2>7. ClipRequestOK(r)'
    BY <2>3, <2>5, <2>6, <2>begun, <2>moved DEF ClipRequestOK
  <2>sound. reqs' \in [Proc -> Request] /\ RequestsAreSound'
    <3>1. Len(comments') \in Nat /\ Len(comments') >= Len(comments)
      BY <1>2, <2>moved
    <3>2. QED BY <3>1, <2>3, <2>4, <2>6, <2>7, <2>moved, OneRequest
  <2>9. QED BY <2>3, <2>begun, <2>moved, <2>sound
<1>4. CASE AskBulk(p)
  <2>1. PICK u \in workload.users, cs \in BulkOrders, op \in BulkOp,
             v \in workload.to \cup {"private"} :
          Begin(p, [Idle EXCEPT !.op = op, !.pc = "load", !.user = u, !.on = cs, !.to = v])
    BY <1>4 DEF AskBulk
  <2>2. PICK r : r = [Idle EXCEPT !.op = op, !.pc = "load", !.user = u, !.on = cs, !.to = v]
    OBVIOUS
  <2>begun. Begin(p, r) /\ r.op \in workload.ops
    BY <2>1, <2>2 DEF Begin
  <2>moved. /\ reqs' = [reqs EXCEPT ![p] = r] /\ reqs[p] = Idle /\ reqs'[p] = r
            /\ workload' = workload /\ comments' = comments
    BY <2>begun DEF Begin, setup, Types
  <2>3. /\ r.op = op /\ r.pc = "load" /\ r.user = u /\ r.on = cs /\ r.to = v
        /\ r.plan = <<>> /\ r.row = 0 /\ r.share = NoShare
    BY <2>2 DEF Idle
  <2>4. cs \in Seq(Clip) /\ IsInjective(cs)
    BY LibraryAssumption, ClipsAssumption
  <2>5. r \in Request
    <3>1. v \in Visibility /\ u \in User
      BY <1>1 DEF Visibility
    <3>2. QED BY <2>2, <2>4, <3>1, IdleIsARequest DEF Request, Idle, Pc, Op, ClipOp
  <2>6. Len(r.on) \in Nat /\ Len(r.on) <= Cardinality(Clip)
    <3>1. cs \in Injection(1 .. Len(cs), Clip)
      BY <2>4 DEF Injection
    <3>2. Len(cs) \in Nat
      BY <2>4
    <3>3. Cardinality(1 .. Len(cs)) <= Cardinality(Clip)
      BY <3>1, Sizes, FS_Injection
    <3>4. Cardinality(1 .. Len(cs)) = Len(cs)
      <4>1. Cardinality(1 .. Len(cs)) = IF 1 > Len(cs) THEN 0 ELSE Len(cs) - 1 + 1
        BY <3>2, FS_Interval
      <4>2. QED BY <3>2, <4>1
    <3>5. QED BY <2>3, <3>2, <3>3, <3>4
  <2>7. r.op \in ClipOp /\ r.op \in BulkOp /\ r.op \notin CommentOp /\ r.op \in Op
    BY <2>3 DEF ClipOp, BulkOp, CommentOp, Op
  <2>8. ClipRequestOK(r)'
    BY <2>3, <2>6, <2>7, <2>begun, <2>moved DEF ClipRequestOK
  <2>sound. reqs' \in [Proc -> Request] /\ RequestsAreSound'
    <3>1. Len(comments') \in Nat /\ Len(comments') >= Len(comments)
      BY <1>2, <2>moved
    <3>2. QED BY <3>1, <2>3, <2>5, <2>7, <2>8, <2>moved, OneRequest
  <2>10. QED BY <2>3, <2>begun, <2>moved, <2>sound
<1>5. CASE AskComment(p)
  <2>1. PICK u \in workload.users, s \in {clips[c].share : c \in Clip} \ {NoShare},
             k \in Top .. Len(comments), op \in CommentOp :
          /\ op = "uncomment" => k # Top
          /\ Begin(p, [Idle EXCEPT !.op = op, !.pc = "load", !.user = u, !.share = s, !.parent = k])
    BY <1>5 DEF AskComment
  <2>2. PICK r : r = [Idle EXCEPT !.op = op, !.pc = "load", !.user = u, !.share = s, !.parent = k]
    OBVIOUS
  <2>begun. Begin(p, r) /\ r.op \in workload.ops
    BY <2>1, <2>2 DEF Begin
  <2>moved. /\ reqs' = [reqs EXCEPT ![p] = r] /\ reqs[p] = Idle /\ reqs'[p] = r
            /\ workload' = workload /\ comments' = comments
    BY <2>begun DEF Begin, setup, Types
  <2>3. /\ r.op = op /\ r.pc = "load" /\ r.user = u /\ r.on = <<>> /\ r.parent = k
        /\ r.plan = <<>> /\ r.row = 0 /\ r.share = s
    BY <2>2 DEF Idle
  <2>4. s \in Share /\ k \in Nat /\ k <= Len(comments) /\ u \in User
    BY <1>1, <1>2 DEF Types, Row, Top
  <2>5. r \in Request
    BY <2>2, <2>4, IdleIsARequest DEF Request, Idle, Pc, Op
  <2>6. r.op \in CommentOp /\ r.op \notin ClipOp /\ r.op \in Op
    BY <2>3 DEF ClipOp, BulkOp, CommentOp, Op
  <2>7. CommentRequestOK(r)'
    BY <2>1, <2>3, <2>4, <2>6, <2>begun, <2>moved DEF CommentRequestOK
  <2>sound. reqs' \in [Proc -> Request] /\ RequestsAreSound'
    <3>1. Len(comments') \in Nat /\ Len(comments') >= Len(comments)
      BY <1>2, <2>moved
    <3>2. QED BY <3>1, <2>3, <2>5, <2>6, <2>7, <2>moved, OneRequest
  <2>9. QED BY <2>3, <2>begun, <2>moved, <2>sound
<1>6. QED BY <1>3, <1>4, <1>5

\* What a request about clips has loaded: a plan, with an id for each clip
\* it is to open.
LEMMA Loaded ==
  ASSUME Types, RequestsAreSound, NEW p \in Proc, Load(p)
  PROVE  reqs' \in [Proc -> Request] /\ RequestsAreSound'
<1>1. CASE ~Found(p)
  BY <1>1, Ended DEF Load, setup, Types
<1>2. CASE Found(p)
  <2>1. PICK q \in Request : q = reqs[p]
    BY DEF Types
  <2>2. PICK plan : plan = [i \in 1 .. Len(q.on) |-> ShareFor(p, i)]
    OBVIOUS
  <2>3. PICK pc : pc = IF q.op \in BulkOp THEN "rows" ELSE "write"
    OBVIOUS
  <2>4. PICK r : r = [q EXCEPT !.pc = pc, !.plan = plan]
    OBVIOUS
  <2>5. reqs' = [reqs EXCEPT ![p] = r]
    BY <1>2, <2>1, <2>2, <2>3, <2>4 DEF Load
  <2>6. q.op \in ClipOp /\ q.pc = "load" /\ ClipRequestOK(q)
    BY <2>1 DEF Load, At, RequestsAreSound
  <2>7. q.on \in Seq(Clip) /\ q.to \in Visibility
    BY DEF Request
  <2>8. Len(q.on) \in Nat /\ Len(q.on) <= Cardinality(Clip) /\ Cardinality(Clip) \in Nat
    BY <2>6, <2>7, Sizes DEF ClipRequestOK
  <2>9. ASSUME NEW i \in 1 .. Len(q.on)
        PROVE  ShareFor(p, i) \in Share /\ (q.to # "private" => ShareFor(p, i) # NoShare)
    <3>1. NewShare(i) \in ShareId
      BY <2>8, NewShareIsNew
    <3>2. NewShare(i) # NoShare
      BY <3>1, Sizes DEF ShareId, NoShare
    <3>3. q.on[i] \in Clip
      BY <2>7
    <3>4. clips[q.on[i]].share \in Share
      BY <3>3 DEF Types, Row
    <3>5. NoShare \in Share /\ NewShare(i) \in Share
      BY <3>1 DEF Share
    <3>6. QED BY <2>1, <3>2, <3>4, <3>5 DEF ShareFor
  <2>10. plan \in Seq(Share) /\ Len(plan) = Len(q.on) /\ DOMAIN plan = 1 .. Len(q.on)
    BY <2>2, <2>8, <2>9
  <2>11. r \in Request
    BY <2>3, <2>4, <2>10 DEF Request, Pc
  <2>12. /\ r.op = q.op /\ r.pc = pc /\ r.user = q.user /\ r.on = q.on /\ r.to = q.to
         /\ r.plan = plan /\ r.row = q.row /\ r.share = q.share
    BY <2>4 DEF Request
  <2>13. ClipRequestOK(r)'
    <3>1. r.to # "private" => \A i \in DOMAIN r.plan : r.plan[i] # NoShare
      BY <2>2, <2>9, <2>10, <2>12
    <3>2. pc \in {"rows", "write"} /\ pc # "load" /\ (q.op \in BulkOp => pc = "rows") /\ (q.op \notin BulkOp => pc = "write")
      BY <2>3
    <3>3. workload' = workload
      BY DEF Load, setup
    <3>4. q.row <= 0 /\ q.row \in Nat
      BY <2>6 DEF ClipRequestOK, Request
    <3>5. r.row <= Len(r.plan)
      BY <2>8, <2>10, <2>12, <3>4
    <3>6. QED BY <2>6, <2>10, <2>12, <3>1, <3>2, <3>3, <3>5 DEF ClipRequestOK
  <2>14. r.op \in Op /\ r.op \notin CommentOp
    BY <2>6, <2>12 DEF ClipOp, BulkOp, CommentOp, Op
  <2>15. workload' = workload /\ Len(comments') \in Nat /\ Len(comments') >= Len(comments)
    BY DEF Load, setup, Types
  <2>16. QED BY <2>5, <2>11, <2>13, <2>14, <2>15, OneRequest
<1>3. QED BY <1>1, <1>2

\* A request about clips whose next statement comes.
LEMMA ClipRequestMoves ==
  ASSUME Types, RequestsAreSound, NEW p \in Proc, NEW pc \in {"audit", "reread"},
         reqs[p].op \in ClipOp \ BulkOp, reqs[p].pc \in {"write", "audit"},
         reqs' = [reqs EXCEPT ![p].pc = pc],
         workload' = workload, comments' = comments
  PROVE  reqs' \in [Proc -> Request] /\ RequestsAreSound'
<1>1. PICK q \in Request : q = reqs[p]
  BY DEF Types
<1>2. PICK r : r = [q EXCEPT !.pc = pc]
  OBVIOUS
<1>3. reqs' = [reqs EXCEPT ![p] = r]
  BY <1>1, <1>2
<1>4. ClipRequestOK(q)
  BY <1>1 DEF RequestsAreSound
<1>5. r \in Request
  BY <1>2 DEF Request, Pc
<1>6. /\ r.op = q.op /\ r.pc = pc /\ r.user = q.user /\ r.on = q.on /\ r.to = q.to
      /\ r.plan = q.plan /\ r.row = q.row /\ r.share = q.share
  BY <1>2 DEF Request
<1>7. ClipRequestOK(r)'
  BY <1>1, <1>4, <1>6 DEF ClipRequestOK
<1>8. r.op \in Op /\ r.op \notin CommentOp
  BY <1>1, <1>6 DEF ClipOp, BulkOp, CommentOp, Op
<1>9. Len(comments') \in Nat /\ Len(comments') >= Len(comments)
  BY DEF Types
<1>10. QED BY <1>3, <1>5, <1>7, <1>8, <1>9, OneRequest

\* A bulk request that writes a row.
LEMMA RowWritten ==
  ASSUME Types, RequestsAreSound, NEW p \in Proc, WriteRow(p)
  PROVE  /\ reqs' \in [Proc -> Request] /\ RequestsAreSound'
         /\ reqs[p].op \in BulkOp /\ NextRow(p) \in Clip
         /\ reqs'[p].on = reqs[p].on /\ reqs'[p].op = reqs[p].op /\ reqs'[p].user = reqs[p].user
         /\ reqs'[p].pc = "rows" /\ reqs'[p].row = reqs[p].row + 1
<1>1. PICK q \in Request : q = reqs[p]
  BY DEF Types
<1>2. PICK r : r = [q EXCEPT !.row = q.row + 1]
  OBVIOUS
<1>3. reqs' = [reqs EXCEPT ![p] = r]
  BY <1>1, <1>2 DEF WriteRow
<1>4. q.pc = "rows" /\ q.row < Len(q.on)
  BY <1>1 DEF WriteRow, RowsLeft, At
<1>5. q.op \in ClipOp /\ ClipRequestOK(q)
  BY <1>1, <1>4 DEF RequestsAreSound, CommentRequestOK, Idle, Op
<1>6. q.row \in Nat /\ Len(q.on) \in Nat /\ q.on \in Seq(Clip)
  BY DEF Request
<1>7. r \in Request
  BY <1>2, <1>6 DEF Request
<1>8. /\ r.op = q.op /\ r.pc = q.pc /\ r.user = q.user /\ r.on = q.on /\ r.to = q.to
      /\ r.plan = q.plan /\ r.row = q.row + 1 /\ r.share = q.share
  BY <1>2 DEF Request
<1>9. workload' = workload
  BY DEF WriteRow, setup
<1>10. ClipRequestOK(r)'
  BY <1>4, <1>5, <1>6, <1>8, <1>9 DEF ClipRequestOK
<1>11. r.op \in Op /\ r.op \notin CommentOp /\ q.op \in BulkOp
  BY <1>4, <1>5, <1>8 DEF ClipOp, BulkOp, CommentOp, Op, ClipRequestOK
<1>12. Len(comments') \in Nat /\ Len(comments') >= Len(comments)
  BY DEF WriteRow, Types
<1>13. reqs' \in [Proc -> Request] /\ RequestsAreSound'
  BY <1>3, <1>7, <1>9, <1>10, <1>11, <1>12, OneRequest
<1>14. reqs'[p] = r
  BY <1>3 DEF Types
<1>15. NextRow(p) \in Clip
  BY <1>1, <1>4, <1>6 DEF NextRow
<1>16. QED BY <1>1, <1>4, <1>8, <1>11, <1>13, <1>14, <1>15

\* A request about comments whose next statement comes.
LEMMA CommentRequestMoves ==
  ASSUME Types, RequestsAreSound, NEW p \in Proc, LoadShared(p) \/ Check(p)
  PROVE  reqs' \in [Proc -> Request] /\ RequestsAreSound'
<1>1. /\ workload' = workload /\ comments' = comments
      /\ Len(comments') \in Nat /\ Len(comments') >= Len(comments)
  BY DEF LoadShared, Check, setup, Types
<1>2. CASE End(p)
  BY <1>1, <1>2, Ended
<1>3. CASE ~End(p)
  <2>1. PICK q \in Request : q = reqs[p]
    BY DEF Types
  <2>2. q.op \in CommentOp /\ CommentRequestOK(q)
    BY <2>1 DEF LoadShared, Check, At, RequestsAreSound, ClipRequestOK, Idle, Op
  <2>3. \E pc \in {"check", "write"}, c \in Clip :
          reqs' = [reqs EXCEPT ![p] = [q EXCEPT !.pc = pc, !.target = c]]
    <3>1. CASE LoadShared(p)
      <4>1. PICK c \in Clip : reqs' = [reqs EXCEPT ![p].target = c, ![p].pc =
                                         IF reqs[p].parent = Top THEN "write" ELSE "check"]
        BY <1>3, <3>1 DEF LoadShared
      <4>2. PICK pc \in {"check", "write"} : pc = IF q.parent = Top THEN "write" ELSE "check"
        OBVIOUS
      <4>3. reqs' = [reqs EXCEPT ![p] = [q EXCEPT !.target = c, !.pc = pc]]
        <5>1. reqs' = [reqs EXCEPT ![p].target = c, ![p].pc = pc]
          BY <2>1, <4>1, <4>2
        <5>2. QED BY <2>1, <5>1 DEF Types
      <4>4. [q EXCEPT !.target = c, !.pc = pc] = [q EXCEPT !.pc = pc, !.target = c]
        BY DEF Request
      <4>5. QED BY <4>3, <4>4
    <3>2. CASE Check(p)
      <4>1. reqs' = [reqs EXCEPT ![p].pc = "write"] /\ q.pc = "check"
        BY <1>3, <2>1, <3>2 DEF Check, Continue, At
      <4>2. q.target \in Clip
        BY <2>2, <4>1 DEF CommentRequestOK
      <4>3. [q EXCEPT !.pc = "write"] = [q EXCEPT !.pc = "write", !.target = q.target]
        BY DEF Request
      <4>4. reqs' = [reqs EXCEPT ![p] = [q EXCEPT !.pc = "write"]]
        BY <2>1, <4>1
      <4>5. QED BY <4>2, <4>3, <4>4
    <3>3. QED BY <3>1, <3>2
  <2>4. PICK pc \in {"check", "write"}, c \in Clip :
          reqs' = [reqs EXCEPT ![p] = [q EXCEPT !.pc = pc, !.target = c]]
    BY <2>3
  <2>5. PICK r : r = [q EXCEPT !.pc = pc, !.target = c]
    OBVIOUS
  <2>6. r \in Request
    BY <2>5 DEF Request, Pc
  <2>7. /\ r.op = q.op /\ r.pc = pc /\ r.user = q.user /\ r.on = q.on /\ r.plan = q.plan
        /\ r.row = q.row /\ r.target = c /\ r.parent = q.parent
    BY <2>5 DEF Request
  <2>8. CommentRequestOK(r)'
    BY <1>1, <2>2, <2>7 DEF CommentRequestOK
  <2>9. r.op \in Op /\ r.op \notin ClipOp
    BY <2>2, <2>7 DEF ClipOp, BulkOp, CommentOp, Op
  <2>10. QED BY <1>1, <2>4, <2>5, <2>6, <2>8, <2>9, OneRequest
<1>4. QED BY <1>2, <1>3

-----------------------------------------------------------------------------
(* What is written to the rows.                                            *)

\* The request of a clip that is at its statement: one clip, loaded.
LEMMA OneClip ==
  ASSUME Types, RequestsAreSound, NEW p \in Proc, reqs[p].op \in ClipOp,
         reqs[p].pc \in {"write", "audit", "reread"}
  PROVE  /\ reqs[p].op \in {"visibility", "update", "delete"}
         /\ On(p) \subseteq Clip /\ Held(p) = {} /\ reqs[p].to \in Visibility
         /\ reqs[p].plan[1] \in Share
         /\ reqs[p].to # "private" => reqs[p].plan[1] # NoShare
<1>1. ClipRequestOK(reqs[p]) /\ reqs[p] \in Request
  BY DEF RequestsAreSound, Types
<1>2. reqs[p].op \notin BulkOp /\ Len(reqs[p].on) = 1 /\ Len(reqs[p].plan) = 1
  BY <1>1 DEF ClipRequestOK
<1>3. reqs[p].on \in Seq(Clip) /\ reqs[p].plan \in Seq(Share) /\ reqs[p].to \in Visibility
  BY <1>1 DEF Request
<1>4. 1 \in DOMAIN reqs[p].plan
  BY <1>2, <1>3
<1>5. reqs[p].plan[1] \in Share /\ (reqs[p].to # "private" => reqs[p].plan[1] # NoShare)
  BY <1>1, <1>3, <1>4 DEF ClipRequestOK
<1>6. On(p) \subseteq Clip
  BY <1>3 DEF On, ToSet
<1>7. Held(p) = {}
  BY DEF Held, At
<1>8. QED BY <1>2, <1>3, <1>5, <1>6, <1>7 DEF ClipOp, BulkOp

LEMMA Writing ==
  ASSUME Types, RequestsAreSound, OpenClipsHaveALink, NEW p \in Proc, Write(p)
  PROVE  /\ clips' \in [Clip -> Row] /\ OpenClipsHaveALink'
         /\ \A c \in Clip : c \notin On(p) => clips'[c] = clips[c]
         /\ \A c \in Clip : clips'[c].status = clips[c].status \/ clips'[c].status = "deleted"
         /\ reqs[p].op = "delete" => \A c \in On(p) : clips'[c].status = "deleted"
<1>1. reqs[p].op \in ClipOp /\ reqs[p].pc = "write" /\ clips' = Written(p)
  BY DEF Write, At
<1>2. /\ reqs[p].op \in {"visibility", "update", "delete"} /\ reqs[p].to \in Visibility
      /\ reqs[p].plan[1] \in Share /\ (reqs[p].to # "private" => reqs[p].plan[1] # NoShare)
  BY <1>1, OneClip
<1>3. clips \in [Clip -> Row]
  BY DEF Types
<1>4. ASSUME NEW c \in Clip
      PROVE  /\ [clips[c] EXCEPT !.visibility = reqs[p].to, !.share = reqs[p].plan[1]] \in Row
             /\ [clips[c] EXCEPT !.visibility = reqs[p].to, !.share = reqs[p].plan[1]].status = clips[c].status
             /\ [clips[c] EXCEPT !.visibility = reqs[p].to, !.share = reqs[p].plan[1]].visibility = reqs[p].to
             /\ [clips[c] EXCEPT !.visibility = reqs[p].to, !.share = reqs[p].plan[1]].share = reqs[p].plan[1]
             /\ [clips[c] EXCEPT !.status = "deleted"] \in Row
             /\ [clips[c] EXCEPT !.status = "deleted"].status = "deleted"
             /\ [clips[c] EXCEPT !.status = "deleted"].visibility = clips[c].visibility
             /\ [clips[c] EXCEPT !.status = "deleted"].share = clips[c].share
  BY <1>2, <1>3 DEF Row
<1>5. CASE reqs[p].op = "visibility"
  BY <1>1, <1>2, <1>3, <1>4, <1>5 DEF Written, OpenClipsHaveALink
<1>6. CASE reqs[p].op = "delete"
  <2>1. clips' = [c \in Clip |-> IF c \in On(p) THEN [clips[c] EXCEPT !.status = "deleted"] ELSE clips[c]]
    BY <1>1, <1>6 DEF Written
  <2>2. On(p) \subseteq Clip
    BY <1>1, OneClip
  <2>3. \A c \in Clip : c \in On(p) =>
          /\ clips'[c] \in Row /\ clips'[c].status = "deleted"
          /\ clips'[c].visibility = clips[c].visibility /\ clips'[c].share = clips[c].share
    BY <1>4, <2>1
  <2>4. \A c \in Clip : c \notin On(p) => clips'[c] = clips[c]
    BY <2>1
  <2>5. \A c \in Clip : clips'[c] \in Row
    BY <1>3, <2>3, <2>4
  <2>6. clips' \in [Clip -> Row]
    BY <2>1, <2>5
  <2>7. OpenClipsHaveALink'
    BY <2>3, <2>4 DEF OpenClipsHaveALink
  <2>8. QED BY <2>2, <2>3, <2>4, <2>6, <2>7
<1>7. CASE reqs[p].op = "update"
  BY <1>1, <1>2, <1>3, <1>7 DEF Written, OpenClipsHaveALink
<1>8. QED BY <1>2, <1>5, <1>6, <1>7

\* A transaction that commits holds all of its rows.
LEMMA HoldsAll ==
  ASSUME Types, RequestsAreSound, NEW p \in Proc, Commit(p)
  PROVE  /\ On(p) = Held(p) /\ On(p) \subseteq Clip
         /\ reqs[p].op \in BulkOp /\ reqs[p].to \in Visibility
<1>1. reqs[p] \in Request /\ reqs[p].pc = "rows" /\ ~(reqs[p].row < Len(reqs[p].on))
  BY DEF Commit, RowsLeft, At, Types
<1>2. reqs[p].op \in ClipOp /\ ClipRequestOK(reqs[p])
  BY <1>1 DEF RequestsAreSound, CommentRequestOK, Idle, Op
<1>3. reqs[p].op \in BulkOp
  BY <1>1, <1>2 DEF ClipRequestOK
<1>4. reqs[p].on \in Seq(Clip) /\ reqs[p].row \in Nat /\ reqs[p].to \in Visibility
  BY <1>1 DEF Request
<1>5. reqs[p].row = Len(reqs[p].on)
  BY <1>1, <1>2, <1>4 DEF ClipRequestOK
<1>6. On(p) = Held(p)
  BY <1>1, <1>4, <1>5 DEF On, ToSet, Held, At
<1>7. On(p) \subseteq Clip
  BY <1>4 DEF On, ToSet
<1>8. QED BY <1>3, <1>4, <1>6, <1>7

LEMMA PlanFits ==
  ASSUME Types, RequestsAreSound, NEW p \in Proc, Commit(p), NEW c \in On(p)
  PROVE  Planned(p, c) \in Share /\ (reqs[p].to # "private" => Planned(p, c) # NoShare)
<1>1. reqs[p] \in Request /\ reqs[p].pc = "rows"
  BY DEF Commit, RowsLeft, At, Types
<1>2. reqs[p].op \in ClipOp /\ ClipRequestOK(reqs[p])
  BY <1>1 DEF RequestsAreSound, CommentRequestOK, Idle, Op
<1>3. reqs[p].on \in Seq(Clip) /\ reqs[p].plan \in Seq(Share)
  BY <1>1 DEF Request
<1>4. Len(reqs[p].plan) = Len(reqs[p].on)
  BY <1>1, <1>2 DEF ClipRequestOK
<1>5. DOMAIN reqs[p].on = DOMAIN reqs[p].plan
  BY <1>3, <1>4
<1>6. \E i \in DOMAIN reqs[p].on : reqs[p].on[i] = c
  BY <1>3 DEF On, ToSet
<1>7. PICK i \in DOMAIN reqs[p].plan : Planned(p, c) = reqs[p].plan[i]
  BY <1>5, <1>6 DEF Planned
<1>8. reqs[p].plan[i] \in Share
  BY <1>3
<1>9. reqs[p].to # "private" => reqs[p].plan[i] # NoShare
  BY <1>2 DEF ClipRequestOK
<1>10. QED BY <1>7, <1>8, <1>9

LEMMA Committing ==
  ASSUME Types, RequestsAreSound, OpenClipsHaveALink, NEW p \in Proc, Commit(p)
  PROVE  /\ clips' \in [Clip -> Row] /\ OpenClipsHaveALink'
         /\ \A c \in Clip : c \notin On(p) => clips'[c] = clips[c]
         /\ \A c \in Clip : clips'[c].status = clips[c].status \/ clips'[c].status = "deleted"
         /\ reqs[p].op = "bulk_delete" => \A c \in On(p) : clips'[c].status = "deleted"
         /\ reqs[p].op = "bulk_visibility" =>
              \A c \in On(p) : clips'[c].status = clips[c].status /\ clips'[c].visibility = reqs[p].to
<1>1. clips' = [c \in Clip |-> BulkWritten(p, c)]
  BY DEF Commit
<1>2. On(p) = Held(p) /\ On(p) \subseteq Clip /\ reqs[p].op \in BulkOp /\ reqs[p].to \in Visibility
  BY HoldsAll
<1>3. clips \in [Clip -> Row]
  BY DEF Types
<1>4. ASSUME NEW c \in Clip, c \notin On(p) PROVE clips'[c] = clips[c]
  BY <1>1, <1>2, <1>4 DEF BulkWritten
<1>5. ASSUME NEW c \in On(p), reqs[p].op = "bulk_delete"
      PROVE  /\ clips'[c] \in Row /\ clips'[c].status = "deleted"
             /\ clips'[c].visibility = clips[c].visibility /\ clips'[c].share = clips[c].share
  <2>1. clips'[c] = [clips[c] EXCEPT !.status = "deleted"]
    BY <1>1, <1>2, <1>5 DEF BulkWritten
  <2>2. clips[c] \in Row
    BY <1>2, <1>3
  <2>3. QED BY <2>1, <2>2 DEF Row
<1>6. ASSUME NEW c \in On(p), reqs[p].op = "bulk_visibility"
      PROVE  /\ clips'[c] \in Row /\ clips'[c].status = clips[c].status
             /\ clips'[c].visibility = reqs[p].to /\ clips'[c].share = Planned(p, c)
  <2>1. clips'[c] = [clips[c] EXCEPT !.visibility = reqs[p].to, !.share = Planned(p, c)]
    BY <1>1, <1>2, <1>6 DEF BulkWritten
  <2>2. clips[c] \in Row /\ Planned(p, c) \in Share
    BY <1>2, <1>3, PlanFits
  <2>3. QED BY <1>2, <2>1, <2>2 DEF Row
<1>7. reqs[p].op \in {"bulk_delete", "bulk_visibility"}
  BY <1>2 DEF BulkOp
<1>8. clips' \in [Clip -> Row]
  <2>1. \A c \in Clip : clips'[c] \in Row
    BY <1>3, <1>4, <1>5, <1>6, <1>7
  <2>2. QED BY <1>1, <2>1
<1>9. OpenClipsHaveALink'
  <2>1. SUFFICES ASSUME NEW c \in Clip, clips'[c].visibility # "private"
                 PROVE  clips'[c].share # NoShare
    BY DEF OpenClipsHaveALink
  <2>2. clips[c].visibility # "private" => clips[c].share # NoShare
    BY DEF OpenClipsHaveALink
  <2>3. c \in On(p) => (reqs[p].to # "private" => Planned(p, c) # NoShare)
    BY PlanFits
  <2>4. QED BY <1>4, <1>5, <1>6, <1>7, <2>1, <2>2, <2>3
<1>10. QED BY <1>2, <1>4, <1>5, <1>6, <1>7, <1>8, <1>9

\* A comment is written or taken away.
LEMMA Commenting ==
  ASSUME Types, RequestsAreSound, ParentsExist, NEW p \in Proc, WriteComment(p) \/ Uncomment(p)
  PROVE  /\ comments' \in Seq(Comment) /\ Len(comments') \in Nat /\ Len(comments') >= Len(comments)
         /\ ParentsExist'
<1>1. reqs[p].op \in CommentOp /\ reqs[p].pc = "write" /\ reqs[p] \in Request
  BY DEF WriteComment, Uncomment, At, CommentOp, Types
<1>2. CommentRequestOK(reqs[p])
  BY <1>1 DEF RequestsAreSound
<1>3. reqs[p].target \in Clip /\ reqs[p].user \in User /\ reqs[p].parent \in Nat /\ reqs[p].parent <= Len(comments)
  BY <1>1, <1>2 DEF CommentRequestOK, Request
<1>4. comments \in Seq(Comment) /\ Len(comments) \in Nat
  BY DEF Types
<1>5. \A k \in 1 .. Len(comments) : comments[k].parent \in Nat /\ comments[k].parent <= Len(comments)
  <2>1. \A k \in 1 .. Len(comments) : comments[k] \in Comment
    BY <1>4
  <2>2. QED BY <1>4, <2>1 DEF ParentsExist, Comment
<1>6. CASE comments' = comments
  BY <1>4, <1>6 DEF ParentsExist
<1>7. CASE comments' # comments /\ WriteComment(p)
  <2>1. PICK e : e = [clip |-> reqs[p].target, parent |-> reqs[p].parent,
                      by |-> reqs[p].user, deleted |-> FALSE]
    OBVIOUS
  <2>2. e \in Comment /\ e.parent = reqs[p].parent
    BY <1>3, <2>1 DEF Comment
  <2>3. comments' = Append(comments, e)
    BY <1>7, <2>1 DEF WriteComment
  <2>4. comments' \in Seq(Comment) /\ Len(comments') = Len(comments) + 1
    BY <1>4, <2>2, <2>3
  <2>5. \A k \in DOMAIN comments' : comments'[k].parent <= Len(comments)
    BY <1>3, <1>4, <1>5, <2>2, <2>3
  <2>6. \A k \in DOMAIN comments' : comments'[k].parent \in Nat
    <3>1. \A k \in DOMAIN comments' : comments'[k] \in Comment
      BY <2>4
    <3>2. QED BY <3>1 DEF Comment
  <2>7. \A k \in DOMAIN comments' : comments'[k].parent <= Len(comments')
    BY <1>4, <2>4, <2>5, <2>6
  <2>8. QED BY <1>4, <2>4, <2>7 DEF ParentsExist
<1>8. CASE Uncomment(p)
  <2>1. PICK i : i = reqs[p].parent
    OBVIOUS
  <2>2. comments' = [comments EXCEPT ![i].deleted = TRUE]
    BY <1>8, <2>1 DEF Uncomment
  <2>3. i \in 1 .. Len(comments)
    BY <1>2, <1>3, <1>4, <1>8, <2>1 DEF CommentRequestOK, Uncomment, Top
  <2>4. comments[i] \in Comment
    BY <1>4, <2>3
  <2>5. PICK e : e = [comments[i] EXCEPT !.deleted = TRUE]
    OBVIOUS
  <2>6. e \in Comment /\ e.parent = comments[i].parent
    BY <2>4, <2>5 DEF Comment
  <2>7. comments' = [comments EXCEPT ![i] = e]
    BY <2>2, <2>5
  <2>8. comments' \in Seq(Comment) /\ Len(comments') = Len(comments)
    BY <1>4, <2>3, <2>6, <2>7
  <2>9. \A k \in 1 .. Len(comments) : comments'[k].parent = comments[k].parent
    BY <1>4, <2>3, <2>6, <2>7
  <2>10. QED BY <1>4, <1>5, <2>8, <2>9 DEF ParentsExist
<1>9. QED BY <1>6, <1>7, <1>8

-----------------------------------------------------------------------------
(* What every step keeps of the tables and requests.                       *)

Sound == Types /\ RequestsAreSound /\ OpenClipsHaveALink /\ ParentsExist

LEMMA AnswersAreTyped ==
  ASSUME Types, NEW p \in Proc, NEW says, \A c \in On(p) \cap Clip : says[c] \in Visibility \cup {"open", "deleted"},
         Answers(p, says)
  PROVE  settled' \in [Clip -> Visibility \cup {"open", "deleted"}]
BY DEF Answers, Types

\* Rows, comments, counts and answers that a step leaves alone.
Calm == UNCHANGED <<setup, clips, comments, audit, changed, settled, counts>>

LEMMA SoundRequests ==
  ASSUME Sound, NEW p \in Proc, Calm, reqs' \in [Proc -> Request], RequestsAreSound'
  PROVE  Sound'
BY DEF Sound, Calm, Types, OpenClipsHaveALink, ParentsExist, setup, counts

LEMMA StepIsSound ==
  ASSUME Sound, NEW p \in Proc, Step(p)
  PROVE  Sound'
<1>1. Types /\ RequestsAreSound /\ OpenClipsHaveALink /\ ParentsExist
  BY DEF Sound
<1>2. Len(comments) \in Nat
  BY <1>1 DEF Types
<1>3. CASE Load(p)
  BY <1>1, <1>3, Loaded, SoundRequests DEF Calm, Load
<1>4. CASE Write(p)
  <2>1. reqs[p].op \in ClipOp /\ reqs[p].pc = "write" /\ reqs' = [reqs EXCEPT ![p].pc = "audit"]
        /\ workload' = workload /\ comments' = comments
    BY <1>4 DEF Write, At, setup
  <2>2. reqs[p].op \in ClipOp \ BulkOp
    BY <1>1, <2>1, OneClip DEF BulkOp
  <2>3. reqs' \in [Proc -> Request] /\ RequestsAreSound'
    BY <1>1, <2>1, <2>2, ClipRequestMoves
  <2>4. clips' \in [Clip -> Row] /\ OpenClipsHaveALink'
    BY <1>1, <1>4, Writing
  <2>5. changed' \in [Clip -> Nat]
    BY <1>1, <1>4 DEF Write, Types
  <2>6. QED BY <1>1, <1>4, <2>3, <2>4, <2>5 DEF Write, Sound, Types, ParentsExist, setup, counts
<1>5. CASE Audit(p)
  <2>1. reqs[p].op \in ClipOp /\ reqs[p].pc = "audit" /\ workload' = workload /\ comments' = comments
    BY <1>5 DEF Audit, At, setup
  <2>2. reqs[p].op \in ClipOp \ BulkOp
    BY <1>1, <2>1, OneClip DEF BulkOp
  <2>3. reqs' \in [Proc -> Request] /\ RequestsAreSound'
    <3>1. CASE reqs[p].op = "delete"
      BY <1>1, <1>2, <1>5, <2>1, <3>1, Ended DEF Audit
    <3>2. CASE reqs[p].op # "delete"
      <4>1. reqs' = [reqs EXCEPT ![p].pc = "reread"]
        BY <1>5, <3>2 DEF Audit, Continue
      <4>2. QED BY <1>1, <2>1, <2>2, <4>1, ClipRequestMoves
    <3>3. QED BY <3>1, <3>2
  <2>4. audit' \in [Clip -> Nat]
    BY <1>1, <1>5 DEF Audit, Types
  <2>5. settled' \in [Clip -> Visibility \cup {"open", "deleted"}]
    <3>1. CASE Answers(p, settled)
      BY <1>1, <3>1, AnswersAreTyped DEF Types
    <3>2. CASE UNCHANGED settled
      BY <1>1, <3>2 DEF Types
    <3>3. QED BY <1>5, <3>1, <3>2 DEF Audit
  <2>6. QED BY <1>1, <1>5, <2>3, <2>4, <2>5 DEF Audit, Sound, Types, OpenClipsHaveALink, ParentsExist, setup, counts
<1>6. CASE AnswerOk(p)
  <2>1. reqs' \in [Proc -> Request] /\ RequestsAreSound'
    BY <1>1, <1>2, <1>6, Ended DEF AnswerOk, setup
  <2>2. settled' \in [Clip -> Visibility \cup {"open", "deleted"}]
    <3>1. CASE Answers(p, [c \in Clip |-> clips[c].visibility])
      <4>1. \A c \in Clip : clips[c].visibility \in Visibility
        BY <1>1 DEF Types, Row
      <4>2. QED BY <1>1, <3>1, <4>1, AnswersAreTyped
    <3>2. CASE UNCHANGED settled
      BY <1>1, <3>2 DEF Types
    <3>3. QED BY <1>6, <3>1, <3>2 DEF AnswerOk
  <2>3. QED BY <1>1, <1>6, <2>1, <2>2 DEF AnswerOk, Sound, Types, OpenClipsHaveALink, ParentsExist, setup, counts
<1>7. CASE AnswerConflict(p) \/ RefuseRow(p) \/ BreakDeadlock(p)
  <2>1. End(p) /\ Calm
    BY <1>7 DEF AnswerConflict, RefuseRow, BreakDeadlock, Calm
  <2>2. QED BY <1>1, <1>2, <2>1, Ended, SoundRequests DEF Calm, setup
<1>8. CASE WriteRow(p)
  BY <1>1, <1>8, RowWritten, SoundRequests DEF Calm, WriteRow
<1>9. CASE Commit(p)
  <2>1. reqs' \in [Proc -> Request] /\ RequestsAreSound'
    BY <1>1, <1>2, <1>9, Ended DEF Commit, setup
  <2>2. clips' \in [Clip -> Row] /\ OpenClipsHaveALink'
    BY <1>1, <1>9, Committing
  <2>3. changed' \in [Clip -> Nat] /\ audit' \in [Clip -> Nat]
    BY <1>1, <1>9 DEF Commit, Types
  <2>4. settled' \in [Clip -> Visibility \cup {"open", "deleted"}]
    <3>1. Answers(p, [c \in Clip |-> reqs[p].to]) /\ reqs[p].to \in Visibility
      BY <1>1, <1>9, HoldsAll DEF Commit
    <3>2. QED BY <1>1, <3>1, AnswersAreTyped
  <2>5. QED BY <1>1, <1>9, <2>1, <2>2, <2>3, <2>4 DEF Commit, Sound, Types, ParentsExist, setup, counts
<1>10. CASE LoadShared(p) \/ Check(p)
  BY <1>1, <1>10, CommentRequestMoves, SoundRequests DEF Calm, LoadShared, Check
<1>11. CASE WriteComment(p) \/ Uncomment(p)
  <2>1. /\ comments' \in Seq(Comment) /\ Len(comments') \in Nat /\ Len(comments') >= Len(comments)
        /\ ParentsExist'
    BY <1>1, <1>11, Commenting
  <2>2. End(p) /\ UNCHANGED <<setup, clips, audit, changed, settled, counts>>
    BY <1>11 DEF WriteComment, Uncomment
  <2>3. reqs' \in [Proc -> Request] /\ RequestsAreSound'
    BY <1>1, <2>1, <2>2, Ended DEF setup
  <2>4. QED BY <1>1, <2>1, <2>2, <2>3 DEF Sound, Types, OpenClipsHaveALink, setup, counts
<1>12. QED
  BY <1>3, <1>4, <1>5, <1>6, <1>7, <1>8, <1>9, <1>10, <1>11 DEF Step

LEMMA AskingIsSound ==
  ASSUME Sound, NEW p \in Proc, AskOne(p) \/ AskBulk(p) \/ AskComment(p)
  PROVE  Sound'
<1>1. Types /\ RequestsAreSound /\ OpenClipsHaveALink /\ ParentsExist
  BY DEF Sound
<1>2. reqs' \in [Proc -> Request] /\ RequestsAreSound'
  BY <1>1, Asked
<1>3. PICK r : Begin(p, r)
  BY <1>1, Asked
<1>4. begun' \in 0 .. workload'.requests
  <2>1. workload.requests \in Nat
    BY <1>1, LibraryAssumption, ClipsAssumption DEF Types
  <2>2. QED BY <1>1, <1>3, <2>1 DEF Begin, Types, setup
<1>5. settled' \in [Clip -> Visibility \cup {"open", "deleted"}]
  BY <1>1, <1>3 DEF Begin, Types
<1>6. QED BY <1>1, <1>2, <1>3, <1>4, <1>5 DEF Begin, Sound, Types, OpenClipsHaveALink, ParentsExist, setup

LEMMA StoppingIsSound ==
  ASSUME Sound, NEW p \in Proc, Stop(p)
  PROVE  Sound'
<1>1. Types /\ RequestsAreSound /\ OpenClipsHaveALink /\ ParentsExist /\ Len(comments) \in Nat
  BY DEF Sound, Types
<1>2. reqs' \in [Proc -> Request] /\ RequestsAreSound'
  BY <1>1, Ended DEF Stop, setup
<1>3. faults' \in 0 .. workload'.faults
  <2>1. workload.faults \in Nat
    BY <1>1, LibraryAssumption, ClipsAssumption DEF Types
  <2>2. QED BY <1>1, <2>1 DEF Stop, Types, setup
<1>4. QED BY <1>1, <1>2, <1>3 DEF Stop, Sound, Types, OpenClipsHaveALink, ParentsExist, setup

LEMMA BecomingReady ==
  ASSUME Types, OpenClipsHaveALink, NEW c \in Clip, MarkReady(c)
  PROVE  /\ clips' \in [Clip -> Row] /\ OpenClipsHaveALink' /\ clips[c].status = "processing"
         /\ clips'[c].status = "ready"
         /\ \A d \in Clip : d # c => clips'[d] = clips[d]
<1>1. clips \in [Clip -> Row] /\ clips[c] \in Row
  BY DEF Types
<1>2. clips[c].status = "processing"
  BY <1>1 DEF MarkReady, StillThere, Deleted, Row
<1>3. PICK r : r = [clips[c] EXCEPT !.status = "ready"]
  OBVIOUS
<1>4. /\ r \in Row /\ r.status = "ready" /\ r.visibility = clips[c].visibility
      /\ r.share = clips[c].share
  BY <1>1, <1>3 DEF Row
<1>5. clips' = [clips EXCEPT ![c] = r]
  BY <1>3 DEF MarkReady
<1>6. QED BY <1>1, <1>2, <1>4, <1>5 DEF OpenClipsHaveALink

LEMMA NextIsSound ==
  ASSUME Sound, [Next]_vars
  PROVE  Sound'
<1>1. CASE UNCHANGED vars
  BY <1>1 DEF Sound, Types, RequestsAreSound, ClipRequestOK, CommentRequestOK, OpenClipsHaveALink, ParentsExist, vars
<1>2. ASSUME NEW c \in Clip, MarkReady(c) PROVE Sound'
  <2>1. Types /\ RequestsAreSound /\ OpenClipsHaveALink /\ ParentsExist
    BY DEF Sound
  <2>2. clips' \in [Clip -> Row] /\ OpenClipsHaveALink'
    BY <1>2, <2>1, BecomingReady
  <2>3. UNCHANGED <<setup, comments, audit, changed, reqs, settled, counts>>
    BY <1>2 DEF MarkReady
  <2>4. RequestsAreSound'
    BY <2>1, <2>3 DEF RequestsAreSound, ClipRequestOK, CommentRequestOK, setup
  <2>5. QED BY <2>1, <2>2, <2>3, <2>4 DEF Sound, Types, ParentsExist, setup, counts
<1>3. QED
  BY <1>1, <1>2, StepIsSound, AskingIsSound, StoppingIsSound DEF Next

-----------------------------------------------------------------------------
(* The rows a transaction holds.                                           *)

\* A row somebody else holds is not written.
LEMMA HeldByOne ==
  ASSUME NEW ps, NEW cs, ~Waits(ps, cs), NEW q \in Proc \ ps, NEW c \in Held(q)
  PROVE  c \notin cs
BY DEF Waits

\* Nothing new is held, and what is held is left as it was.
LEMMA HeldStays ==
  ASSUME HeldRowsMatch, RowsAreHeldOnce, database' = database,
         \A q \in Proc : Held(q)' \subseteq Held(q),
         \A q \in Proc : Held(q)' # {} => reqs'[q].op = reqs[q].op /\ reqs'[q].user = reqs[q].user,
         \A q \in Proc : \A c \in Held(q)' : clips'[c].status = clips[c].status
  PROVE  HeldRowsMatch' /\ RowsAreHeldOnce'
<1>1. ASSUME NEW q \in Proc, NEW c \in Held(q)' PROVE Matches(q, c)'
  <2>1. Matches(q, c)
    BY <1>1 DEF HeldRowsMatch
  <2>2. reqs'[q].op = reqs[q].op /\ reqs'[q].user = reqs[q].user /\ clips'[c].status = clips[c].status
    BY <1>1
  <2>3. QED BY <2>1, <2>2 DEF Matches, OwnedReady, OwnedNonDeleted, Deleted
<1>2. HeldRowsMatch'
  BY <1>1 DEF HeldRowsMatch
<1>3. ASSUME NEW q \in Proc, NEW r \in Proc, q # r
      PROVE  (IF database = "sqlite" THEN Held(q) = {} \/ Held(r) = {} ELSE Held(q) \cap Held(r) = {})'
  <2>1. IF database = "sqlite" THEN Held(q) = {} \/ Held(r) = {} ELSE Held(q) \cap Held(r) = {}
    BY <1>3 DEF RowsAreHeldOnce
  <2>2. Held(q)' \subseteq Held(q) /\ Held(r)' \subseteq Held(r)
    OBVIOUS
  <2>3. QED BY <2>1, <2>2
<1>4. QED BY <1>2, <1>3 DEF RowsAreHeldOnce

\* What a request that steps does to what is held: nobody else's rows change
\* hands, and its own are let go.
LEMMA HeldByOthers ==
  ASSUME Types, NEW p \in Proc, NEW r, reqs' = [reqs EXCEPT ![p] = r]
  PROVE  /\ \A q \in Proc : q # p => reqs'[q] = reqs[q] /\ Held(q)' = Held(q)
         /\ reqs'[p] = r
<1>1. reqs'[p] = r
  BY DEF Types
<1>2. ASSUME NEW q \in Proc, q # p PROVE reqs'[q] = reqs[q] /\ Held(q)' = Held(q)
  <2>1. reqs'[q] = reqs[q]
    BY <1>2 DEF Types
  <2>2. QED BY <2>1 DEF Held, At
<1>3. QED BY <1>1, <1>2

LEMMA LetGo ==
  ASSUME Types, HeldRowsMatch, RowsAreHeldOnce, database' = database, NEW p \in Proc, NEW r,
         reqs' = [reqs EXCEPT ![p] = r], Held(p)' = {},
         \A q \in Proc : \A c \in Held(q) : q # p => clips'[c].status = clips[c].status
  PROVE  HeldRowsMatch' /\ RowsAreHeldOnce'
<1>1. \A q \in Proc : q # p => reqs'[q] = reqs[q] /\ Held(q)' = Held(q)
  BY HeldByOthers
<1>2. QED BY <1>1, HeldStays

LEMMA LetGoIdle ==
  ASSUME Types, NEW p \in Proc, End(p)
  PROVE  Held(p)' = {} /\ reqs' = [reqs EXCEPT ![p] = Idle] /\ reqs'[p] = Idle
<1>1. reqs' = [reqs EXCEPT ![p] = Idle] /\ reqs'[p] = Idle
  BY DEF End, Types
<1>2. QED BY <1>1 DEF Held, At, Idle

LEMMA HeldAreClips ==
  ASSUME Types, RequestsAreSound, NEW q \in Proc
  PROVE  Held(q) \subseteq Clip
<1>1. reqs[q] \in Request
  BY DEF Types
<1>2. reqs[q].pc = "rows" => reqs[q].op \in ClipOp
  BY DEF RequestsAreSound, CommentRequestOK, Idle, Op
<1>3. reqs[q].pc = "rows" => reqs[q].row <= Len(reqs[q].on)
  BY <1>2 DEF RequestsAreSound, ClipRequestOK
<1>4. reqs[q].on \in Seq(Clip) /\ reqs[q].row \in Nat
  BY <1>1 DEF Request
<1>5. QED BY <1>3, <1>4 DEF Held, At

LEMMA TransactionsHold ==
  ASSUME Sound, Sound', HeldRowsMatch, RowsAreHeldOnce, [Next]_vars
  PROVE  HeldRowsMatch' /\ RowsAreHeldOnce'
<1> USE DEF setup
<1>1. Types /\ RequestsAreSound /\ OpenClipsHaveALink
  BY DEF Sound
<1>2. CASE UNCHANGED vars
  BY <1>2, HeldStays DEF vars, Held, At
<1>3. ASSUME NEW c \in Clip, MarkReady(c) PROVE HeldRowsMatch' /\ RowsAreHeldOnce'
  <2>1. \A q \in Proc : c \notin Held(q)
    BY <1>3, HeldByOne DEF MarkReady
  <2>2. \A d \in Clip : d # c => clips'[d] = clips[d]
    BY <1>1, <1>3, BecomingReady
  <2>3. \A q \in Proc : Held(q) \subseteq Clip
    BY <1>1, HeldAreClips
  <2>4. reqs' = reqs /\ database' = database
    BY <1>3 DEF MarkReady
  <2>5. \A q \in Proc : Held(q)' = Held(q)
    BY <2>4 DEF Held, At
  <2>6. QED BY <2>1, <2>2, <2>3, <2>4, <2>5, HeldStays
<1>4. ASSUME NEW p \in Proc, End(p), UNCHANGED <<setup, clips>> PROVE HeldRowsMatch' /\ RowsAreHeldOnce'
  BY <1>1, <1>4, LetGo, LetGoIdle
<1>5. ASSUME NEW p \in Proc, AskOne(p) \/ AskBulk(p) \/ AskComment(p) PROVE HeldRowsMatch' /\ RowsAreHeldOnce'
  <2>1. PICK r : reqs' = [reqs EXCEPT ![p] = r] /\ Begin(p, r)
    BY <1>1, <1>5, Asked
  <2>2. Held(p)' = {}
    BY <1>1, <1>5, Asked DEF Held, At
  <2>3. QED BY <1>1, <2>1, <2>2, LetGo DEF Begin
<1>6. ASSUME NEW p \in Proc, NEW pc, pc # "rows", reqs' = [reqs EXCEPT ![p].pc = pc], UNCHANGED setup,
             \A q \in Proc : \A c \in Held(q) : q # p => clips'[c].status = clips[c].status
      PROVE  HeldRowsMatch' /\ RowsAreHeldOnce'
  <2>1. PICK r : r = [reqs[p] EXCEPT !.pc = pc]
    OBVIOUS
  <2>2. reqs' = [reqs EXCEPT ![p] = r]
    BY <1>6, <2>1
  <2>3. reqs[p] \in Request
    BY <1>1 DEF Types
  <2>4. reqs'[p].pc = pc
    <3>1. reqs'[p] = r
      BY <1>1, <2>2, HeldByOthers
    <3>2. r.pc = pc
      BY <2>1, <2>3 DEF Request
    <3>3. QED BY <3>1, <3>2
  <2>5. Held(p)' = {}
    BY <1>6, <2>4 DEF Held, At
  <2>6. QED BY <1>1, <1>6, <2>2, <2>5, LetGo
<1>7. ASSUME NEW p \in Proc, Step(p) PROVE HeldRowsMatch' /\ RowsAreHeldOnce'
  <2>1. CASE Load(p)
    <3>1. CASE End(p)
      BY <1>4, <2>1, <3>1 DEF Load
    <3>2. CASE ~End(p)
      <4>1. PICK pc, plan : reqs' = [reqs EXCEPT ![p].pc = pc, ![p].plan = plan]
        BY <2>1, <3>2 DEF Load
      <4>2. PICK r : r = [reqs[p] EXCEPT !.pc = pc, !.plan = plan]
        OBVIOUS
      <4>3. reqs' = [reqs EXCEPT ![p] = r]
        BY <4>1, <4>2
      <4>4. reqs[p] \in Request
        BY <1>1 DEF Types
      <4>5. r.row = reqs[p].row
        BY <4>2, <4>4 DEF Request
      <4>6. reqs[p].row = 0
        <5>1. ClipRequestOK(reqs[p]) /\ reqs[p].pc = "load" /\ reqs[p].row \in Nat
          BY <1>1, <2>1, <4>4 DEF RequestsAreSound, Load, At, Request
        <5>2. QED BY <5>1 DEF ClipRequestOK
      <4>7. reqs'[p].row = 0
        BY <1>1, <4>3, <4>5, <4>6, HeldByOthers
      <4>8. Held(p)' = {}
        BY <4>7 DEF Held
      <4>9. QED BY <1>1, <2>1, <4>3, <4>8, LetGo DEF Load
    <3>3. QED BY <3>1, <3>2
  <2>2. CASE Write(p)
    <3>1. \A q \in Proc : \A c \in Held(q) : q # p => clips'[c].status = clips[c].status
      <4>1. SUFFICES ASSUME NEW q \in Proc, NEW c \in Held(q), q # p PROVE clips'[c].status = clips[c].status
        OBVIOUS
      <4>2. c \notin On(p)
        BY <2>2, <4>1, HeldByOne DEF Write
      <4>3. c \in Clip
        BY <1>1, <4>1, HeldAreClips
      <4>4. QED BY <1>1, <2>2, <4>2, <4>3, Writing
    <3>2. QED BY <1>6, <2>2, <3>1 DEF Write
  <2>3. CASE Audit(p)
    <3>1. CASE reqs[p].op = "delete"
      BY <1>4, <2>3, <3>1 DEF Audit
    <3>2. CASE reqs[p].op # "delete"
      BY <1>6, <2>3, <3>2 DEF Audit, Continue
    <3>3. QED BY <3>1, <3>2
  <2>4. CASE AnswerOk(p) \/ AnswerConflict(p) \/ RefuseRow(p) \/ BreakDeadlock(p) \/ WriteComment(p) \/ Uncomment(p)
    BY <1>4, <2>4 DEF AnswerOk, AnswerConflict, RefuseRow, BreakDeadlock, WriteComment, Uncomment
  <2>5. CASE WriteRow(p)
    <3>1. /\ reqs'[p].on = reqs[p].on /\ reqs'[p].op = reqs[p].op /\ reqs'[p].user = reqs[p].user
          /\ reqs'[p].pc = "rows" /\ reqs'[p].row = reqs[p].row + 1
      BY <1>1, <2>5, RowWritten
    <3>2. reqs[p].pc = "rows" /\ reqs[p].row \in Nat
      BY <1>1, <2>5 DEF WriteRow, RowsLeft, At, Types, Request
    <3>3. Held(p)' = Held(p) \cup {NextRow(p)}
      BY <3>1, <3>2 DEF Held, At, NextRow
    <3>4. \E r : reqs' = [reqs EXCEPT ![p] = r]
      BY <2>5 DEF WriteRow
    <3>5. \A q \in Proc : q # p => reqs'[q] = reqs[q] /\ Held(q)' = Held(q)
      BY <1>1, <3>4, HeldByOthers
    <3>6. clips' = clips /\ database' = database
      BY <2>5 DEF WriteRow
    <3>7. ASSUME NEW q \in Proc, NEW c \in Held(q)' PROVE Matches(q, c)'
      <4>1. reqs'[q].op = reqs[q].op /\ reqs'[q].user = reqs[q].user
        BY <3>1, <3>5
      <4>2. Matches(q, c)
        <5>1. CASE c \in Held(q)
          BY <5>1 DEF HeldRowsMatch
        <5>2. CASE c \notin Held(q)
          <6>1. q = p /\ c = NextRow(p)
            BY <3>3, <3>5, <3>7, <5>2
          <6>2. QED BY <2>5, <6>1 DEF WriteRow, RowMatches, Matches
        <5>3. QED BY <5>1, <5>2
      <4>3. QED BY <3>6, <4>1, <4>2 DEF Matches, OwnedReady, OwnedNonDeleted, Deleted
    <3>8. ASSUME NEW q \in Proc, q # p
          PROVE  IF database = "sqlite" THEN Held(q) = {} ELSE NextRow(p) \notin Held(q)
      BY <2>5, <3>8 DEF WriteRow, Waits
    <3>9. ASSUME NEW q \in Proc, NEW r \in Proc, q # r
          PROVE  (IF database = "sqlite" THEN Held(q) = {} \/ Held(r) = {} ELSE Held(q) \cap Held(r) = {})'
      <4>1. IF database = "sqlite" THEN Held(q) = {} \/ Held(r) = {} ELSE Held(q) \cap Held(r) = {}
        BY <3>9 DEF RowsAreHeldOnce
      <4>2. CASE q = p
        BY <3>3, <3>5, <3>6, <3>8, <3>9, <4>1, <4>2
      <4>3. CASE r = p
        BY <3>3, <3>5, <3>6, <3>8, <3>9, <4>1, <4>3
      <4>4. CASE q # p /\ r # p
        BY <3>5, <3>6, <4>1, <4>4
      <4>5. QED BY <4>2, <4>3, <4>4
    <3>10. HeldRowsMatch'
      BY <3>7 DEF HeldRowsMatch
    <3>11. QED BY <3>9, <3>10 DEF RowsAreHeldOnce
  <2>6. CASE Commit(p)
    <3>1. On(p) = Held(p)
      BY <1>1, <2>6, HoldsAll
    <3>2. \A q \in Proc : \A c \in Held(q) : q # p => clips'[c].status = clips[c].status
      <4>1. SUFFICES ASSUME NEW q \in Proc, NEW c \in Held(q), q # p PROVE clips'[c].status = clips[c].status
        OBVIOUS
      <4>2. c \notin Held(p)
        BY <4>1 DEF RowsAreHeldOnce
      <4>3. c \in Clip
        BY <1>1, HeldAreClips
      <4>4. QED BY <1>1, <2>6, <3>1, <4>2, <4>3, Committing
    <3>3. End(p) /\ database' = database
      BY <2>6 DEF Commit
    <3>4. QED BY <1>1, <3>2, <3>3, LetGo, LetGoIdle
  <2>7. CASE LoadShared(p)
    <3>1. CASE End(p)
      BY <1>4, <2>7, <3>1 DEF LoadShared
    <3>2. CASE ~End(p)
      <4>1. PICK c, pc : reqs' = [reqs EXCEPT ![p].target = c, ![p].pc = pc]
        BY <2>7, <3>2 DEF LoadShared
      <4>2. PICK r : r = [reqs[p] EXCEPT !.target = c, !.pc = pc]
        OBVIOUS
      <4>3. reqs' = [reqs EXCEPT ![p] = r]
        BY <4>1, <4>2
      <4>4. reqs[p] \in Request
        BY <1>1 DEF Types
      <4>5. r.row = reqs[p].row
        BY <4>2, <4>4 DEF Request
      <4>6. reqs[p].row = 0
        BY <1>1, <2>7 DEF RequestsAreSound, LoadShared, CommentRequestOK
      <4>7. reqs'[p].row = 0
        BY <1>1, <4>3, <4>5, <4>6, HeldByOthers
      <4>8. Held(p)' = {}
        BY <4>7 DEF Held
      <4>9. QED BY <1>1, <2>7, <4>3, <4>8, LetGo DEF LoadShared
    <3>3. QED BY <3>1, <3>2
  <2>8. CASE Check(p)
    <3>1. CASE End(p)
      BY <1>4, <2>8, <3>1 DEF Check
    <3>2. CASE ~End(p)
      BY <1>6, <2>8, <3>2 DEF Check, Continue
    <3>3. QED BY <3>1, <3>2
  <2>9. QED BY <1>7, <2>1, <2>2, <2>3, <2>4, <2>5, <2>6, <2>7, <2>8 DEF Step
<1>8. ASSUME NEW p \in Proc, Stop(p) PROVE HeldRowsMatch' /\ RowsAreHeldOnce'
  BY <1>4, <1>8 DEF Stop
<1>9. QED BY <1>2, <1>3, <1>5, <1>7, <1>8 DEF Next

-----------------------------------------------------------------------------
(* Answers.                                                                *)

LEMMA ClipsOnlyWritten ==
  ASSUME Next
  PROVE  \/ clips' = clips
         \/ \E p \in Proc : (Write(p) \/ Commit(p)) /\ Step(p)
         \/ \E c \in Clip : MarkReady(c)
<1>1. ASSUME NEW p \in Proc, Step(p) PROVE clips' = clips \/ Write(p) \/ Commit(p)
  <2>1. CASE Load(p) \/ Audit(p) \/ AnswerOk(p) \/ AnswerConflict(p) \/ WriteRow(p)
    BY <2>1 DEF Load, Audit, AnswerOk, AnswerConflict, WriteRow
  <2>2. CASE RefuseRow(p) \/ BreakDeadlock(p) \/ LoadShared(p) \/ Check(p) \/ WriteComment(p) \/ Uncomment(p)
    BY <2>2 DEF RefuseRow, BreakDeadlock, LoadShared, Check, WriteComment, Uncomment
  <2>3. QED BY <1>1, <2>1, <2>2 DEF Step
<1>2. ASSUME NEW p \in Proc, AskOne(p) \/ AskBulk(p) \/ AskComment(p) \/ Stop(p) PROVE clips' = clips
  <2>1. ASSUME NEW r, Begin(p, r) PROVE clips' = clips
    BY <2>1 DEF Begin
  <2>2. QED BY <1>2, <2>1 DEF AskOne, AskBulk, AskComment, Stop
<1>3. QED BY <1>1, <1>2 DEF Next

\* A step of a request writes no clip but its own, and no step brings a
\* deleted clip back.
LEMMA RowsOfOthers ==
  ASSUME Sound, [Next]_vars
  PROVE  /\ \A c \in Clip : clips[c].status = "deleted" => clips'[c].status = "deleted"
         /\ \A c \in Clip : clips[c].status = "ready" /\ (\A p \in Proc : c \notin On(p)) => clips'[c] = clips[c]
<1>1. Types /\ RequestsAreSound /\ OpenClipsHaveALink
  BY DEF Sound
<1>2. CASE clips' = clips
  BY <1>2
<1>3. ASSUME NEW p \in Proc, Write(p) \/ Commit(p)
      PROVE  /\ \A c \in Clip : c \notin On(p) => clips'[c] = clips[c]
             /\ \A c \in Clip : clips'[c].status = clips[c].status \/ clips'[c].status = "deleted"
  BY <1>1, <1>3, Writing, Committing
<1>4. ASSUME NEW d \in Clip, MarkReady(d)
      PROVE  /\ clips[d].status = "processing"
             /\ \A c \in Clip : c # d => clips'[c] = clips[c]
  BY <1>1, <1>4, BecomingReady
<1>5. CASE \E p \in Proc : Write(p) \/ Commit(p)
  BY <1>3, <1>5
<1>6. CASE \E c \in Clip : MarkReady(c)
  BY <1>4, <1>6
<1>7. QED BY <1>2, <1>5, <1>6, ClipsOnlyWritten DEF vars

\* A step of a request leaves the others where they are.
LEMMA OthersWait ==
  ASSUME Types, NEW q \in Proc, Step(q), NEW p \in Proc, q # p
  PROVE  reqs'[p] = reqs[p]
<1>1. CASE End(q)
  BY <1>1 DEF End
<1>2. CASE Load(q) /\ ~End(q)
  <2>1. PICK pc, plan : reqs' = [reqs EXCEPT ![q].pc = pc, ![q].plan = plan]
    BY <1>2 DEF Load
  <2>2. PICK r : r = [reqs[q] EXCEPT !.pc = pc, !.plan = plan]
    OBVIOUS
  <2>3. reqs' = [reqs EXCEPT ![q] = r]
    BY <2>1, <2>2
  <2>4. QED BY HeldByOthers, <2>3
<1>3. CASE Write(q)
  BY <1>3 DEF Write
<1>4. CASE Audit(q) /\ ~End(q)
  <2>1. reqs' = [reqs EXCEPT ![q].pc = "reread"]
    BY <1>4 DEF Audit, Continue
  <2>2. QED BY <2>1
<1>5. CASE WriteRow(q)
  BY <1>5 DEF WriteRow
<1>6. CASE LoadShared(q) /\ ~End(q)
  <2>1. PICK pc, c : reqs' = [reqs EXCEPT ![q].target = c, ![q].pc = pc]
    BY <1>6 DEF LoadShared
  <2>2. PICK r : r = [reqs[q] EXCEPT !.target = c, !.pc = pc]
    OBVIOUS
  <2>3. reqs' = [reqs EXCEPT ![q] = r]
    BY <2>1, <2>2
  <2>4. QED BY HeldByOthers, <2>3
<1>7. CASE Check(q) /\ ~End(q)
  <2>1. reqs' = [reqs EXCEPT ![q].pc = "write"]
    BY <1>7 DEF Check, Continue
  <2>2. QED BY <2>1
<1>8. QED BY <1>1, <1>2, <1>3, <1>4, <1>5, <1>6, <1>7
          DEF Step, AnswerOk, AnswerConflict, RefuseRow, BreakDeadlock, Commit, WriteComment, Uncomment

\* What becomes of a request in a step.
LEMMA RequestSteps ==
  ASSUME Sound, [Next]_vars, NEW p \in Proc
  PROVE  \/ reqs'[p] = reqs[p]
         \/ reqs'[p] = Idle
         \/ reqs[p] = Idle /\ reqs'[p].pc = "load" /\ (\E r : Begin(p, r) /\ reqs'[p] = r)
         \/ /\ reqs'[p].on = reqs[p].on /\ reqs'[p].op = reqs[p].op
            /\ reqs'[p].pc = "audit" => Write(p)
<1>1. Types /\ RequestsAreSound
  BY DEF Sound
<1>2. reqs[p] \in Request
  BY <1>1 DEF Types
<1>3. CASE reqs' = reqs
  BY <1>3
<1>4. ASSUME NEW q \in Proc, NEW r, reqs' = [reqs EXCEPT ![q] = r], q # p PROVE reqs'[p] = reqs[p]
  BY <1>4
<1>5. ASSUME NEW q \in Proc, AskOne(q) \/ AskBulk(q) \/ AskComment(q)
      PROVE  reqs'[p] = reqs[p] \/ (reqs[p] = Idle /\ reqs'[p].pc = "load" /\ (\E r : Begin(p, r) /\ reqs'[p] = r))
  <2>1. /\ reqs[q] = Idle /\ reqs'[q].pc = "load"
        /\ \E r : reqs' = [reqs EXCEPT ![q] = r] /\ Begin(q, r)
    BY <1>1, <1>5, Asked
  <2>2. PICK r : reqs' = [reqs EXCEPT ![q] = r] /\ Begin(q, r)
    BY <2>1
  <2>3. reqs'[q] = r
    BY <1>1, <2>2, HeldByOthers
  <2>4. CASE q = p
    BY <2>1, <2>2, <2>3, <2>4
  <2>5. CASE q # p
    BY <1>4, <2>2, <2>5
  <2>6. QED BY <2>4, <2>5
<1>6. ASSUME NEW q \in Proc, End(q) PROVE reqs'[p] = reqs[p] \/ reqs'[p] = Idle
  BY <1>1, <1>6 DEF End, Types
<1>7. ASSUME NEW pc, reqs' = [reqs EXCEPT ![p].pc = pc]
      PROVE  reqs'[p].on = reqs[p].on /\ reqs'[p].op = reqs[p].op /\ reqs'[p].pc = pc
  <2>1. reqs'[p] = [reqs[p] EXCEPT !.pc = pc]
    BY <1>1, <1>7 DEF Types
  <2>2. QED BY <1>2, <2>1 DEF Request
<1>8. ASSUME NEW q \in Proc, Step(q), q # p PROVE reqs'[p] = reqs[p]
  BY <1>1, <1>8, OthersWait
<1>9. ASSUME Step(p), reqs'[p] # Idle
      PROVE  /\ reqs'[p].on = reqs[p].on /\ reqs'[p].op = reqs[p].op
             /\ reqs'[p].pc = "audit" => Write(p)
  <2>1. ~End(p)
    BY <1>1, <1>9, LetGoIdle
  <2>2. CASE Load(p)
    <3>1. PICK pc \in {"rows", "write"} : \E plan : reqs' = [reqs EXCEPT ![p].pc = pc, ![p].plan = plan]
      <4>1. PICK pc \in {"rows", "write"} : pc = IF reqs[p].op \in BulkOp THEN "rows" ELSE "write"
        OBVIOUS
      <4>2. QED BY <2>1, <2>2, <4>1 DEF Load
    <3>2. PICK plan : reqs'[p] = [reqs[p] EXCEPT !.pc = pc, !.plan = plan]
      BY <1>1, <3>1 DEF Types
    <3>3. reqs'[p].on = reqs[p].on /\ reqs'[p].op = reqs[p].op /\ reqs'[p].pc = pc
      BY <1>2, <3>2 DEF Request
    <3>4. QED BY <3>3
  <2>3. CASE Write(p)
    BY <1>7, <2>3 DEF Write
  <2>4. CASE Audit(p)
    <3>1. reqs' = [reqs EXCEPT ![p].pc = "reread"]
      BY <2>1, <2>4 DEF Audit, Continue
    <3>2. reqs'[p].on = reqs[p].on /\ reqs'[p].op = reqs[p].op /\ reqs'[p].pc = "reread"
      BY <1>7, <3>1
    <3>3. QED BY <3>2
  <2>5. CASE WriteRow(p)
    BY <1>1, <2>5, RowWritten
  <2>6. CASE LoadShared(p)
    <3>1. PICK pc \in {"check", "write"}, c \in Clip : reqs' = [reqs EXCEPT ![p].target = c, ![p].pc = pc]
      <4>1. PICK pc \in {"check", "write"} : pc = IF reqs[p].parent = Top THEN "write" ELSE "check"
        OBVIOUS
      <4>2. QED BY <2>1, <2>6, <4>1 DEF LoadShared
    <3>2. reqs'[p] = [reqs[p] EXCEPT !.target = c, !.pc = pc]
      BY <1>1, <3>1 DEF Types
    <3>3. reqs'[p].on = reqs[p].on /\ reqs'[p].op = reqs[p].op /\ reqs'[p].pc = pc
      BY <1>2, <3>2 DEF Request
    <3>4. QED BY <3>3
  <2>7. CASE Check(p)
    <3>1. reqs' = [reqs EXCEPT ![p].pc = "write"]
      BY <2>1, <2>7 DEF Check, Continue
    <3>2. reqs'[p].on = reqs[p].on /\ reqs'[p].op = reqs[p].op /\ reqs'[p].pc = "write"
      BY <1>7, <3>1
    <3>3. QED BY <3>2
  <2>8. QED BY <1>9, <2>1, <2>2, <2>3, <2>4, <2>5, <2>6, <2>7
            DEF Step, AnswerOk, AnswerConflict, RefuseRow, BreakDeadlock, Commit, WriteComment, Uncomment
<1>10. ASSUME NEW q \in Proc, Step(q) \/ Stop(q) \/ AskOne(q) \/ AskBulk(q) \/ AskComment(q)
       PROVE  \/ reqs'[p] = reqs[p]
              \/ reqs'[p] = Idle
              \/ reqs[p] = Idle /\ reqs'[p].pc = "load" /\ (\E r : Begin(p, r) /\ reqs'[p] = r)
              \/ /\ reqs'[p].on = reqs[p].on /\ reqs'[p].op = reqs[p].op
                 /\ reqs'[p].pc = "audit" => Write(p)
  <2>1. CASE Step(q)
    BY <1>8, <1>9, <2>1
  <2>2. CASE Stop(q)
    BY <1>6, <2>2 DEF Stop
  <2>3. CASE AskOne(q) \/ AskBulk(q) \/ AskComment(q)
    BY <1>5, <2>3
  <2>4. QED BY <1>10, <2>1, <2>2, <2>3
<1>11. ASSUME NEW c \in Clip, MarkReady(c) PROVE reqs' = reqs
  BY <1>11 DEF MarkReady
<1>12. QED BY <1>3, <1>10, <1>11 DEF Next, vars

LEMMA DeletesAreWritten ==
  ASSUME Sound, WrittenDeletes, [Next]_vars
  PROVE  WrittenDeletes'
<1>1. Types /\ RequestsAreSound /\ OpenClipsHaveALink
  BY DEF Sound
<1>2. SUFFICES ASSUME NEW p \in Proc, reqs'[p].op = "delete", reqs'[p].pc = "audit", NEW c \in On(p)'
               PROVE  clips'[c].status = "deleted"
  BY DEF WrittenDeletes, At, Deleted
<1>3. CASE reqs'[p] = reqs[p]
  <2>1. c \in On(p) /\ reqs[p].op = "delete" /\ reqs[p].pc = "audit"
    BY <1>2, <1>3 DEF On
  <2>2. clips[c].status = "deleted"
    BY <2>1 DEF WrittenDeletes, At, Deleted
  <2>3. c \in Clip
    BY <1>1, <2>1, OneClip DEF ClipOp
  <2>4. QED BY <2>2, <2>3, RowsOfOthers
<1>4. CASE reqs'[p].on = reqs[p].on /\ reqs'[p].op = reqs[p].op /\ Write(p)
  <2>1. c \in On(p) /\ reqs[p].op = "delete"
    BY <1>2, <1>4 DEF On
  <2>2. QED BY <1>1, <1>4, <2>1, Writing
<1>5. reqs'[p] # Idle
  BY <1>2 DEF Idle
<1>6. QED BY <1>2, <1>3, <1>4, <1>5, RequestSteps

\* A request that is answered: what it says of its clips is what their rows
\* say, and nobody else asks about a clip of which it says how it is seen.
LEMMA Answering ==
  ASSUME Sound, AnswersAreRows, [Next]_vars, NEW p \in Proc, NEW says, Answers(p, says), End(p),
         reqs[p].op \in {"delete", "bulk_delete"} => \A c \in On(p) : clips'[c].status = "deleted",
         reqs[p].op \notin {"delete", "bulk_delete"} =>
           \A c \in On(p) : /\ says[c] \in Visibility
                            /\ clips'[c].status = "ready" /\ clips'[c].visibility = says[c]
  PROVE  AnswersAreRows'
<1>1. SUFFICES ASSUME NEW c \in Clip
      PROVE  (/\ settled[c] = "deleted" => Deleted(c)
              /\ settled[c] \in Visibility =>
                   /\ clips[c].status = "ready" /\ clips[c].visibility = settled[c]
                   /\ \A q \in Proc : c \notin On(q))'
  BY DEF AnswersAreRows
<1>2. Types
  BY DEF Sound
<1>3. /\ settled[c] = "deleted" => clips[c].status = "deleted"
      /\ settled[c] \in Visibility =>
           /\ clips[c].status = "ready" /\ clips[c].visibility = settled[c]
           /\ \A q \in Proc : c \notin On(q)
  BY DEF AnswersAreRows, Deleted
<1>4. /\ clips[c].status = "deleted" => clips'[c].status = "deleted"
      /\ clips[c].status = "ready" /\ (\A q \in Proc : c \notin On(q)) => clips'[c] = clips[c]
  BY RowsOfOthers
<1>5. /\ \A q \in Proc : q # p => On(q)' = On(q)
      /\ On(p)' = {}
  <2>1. reqs'[p] = Idle /\ \A q \in Proc : q # p => reqs'[q] = reqs[q]
    BY <1>2 DEF End, Types
  <2>2. QED BY <2>1 DEF On, ToSet, Idle
<1>6. settled'[c] = IF c \notin On(p) \/ settled[c] = "deleted" THEN settled[c]
                    ELSE IF reqs[p].op \in {"delete", "bulk_delete"} THEN "deleted"
                    ELSE IF InFlight(p, c) THEN "open" ELSE says[c]
  BY DEF Answers
<1>7. "deleted" \notin Visibility /\ "open" \notin Visibility
  BY DEF Visibility
<1>8. CASE c \notin On(p) \/ settled[c] = "deleted"
  BY <1>3, <1>4, <1>5, <1>6, <1>7, <1>8 DEF Deleted
<1>9. CASE c \in On(p) /\ settled[c] # "deleted" /\ reqs[p].op \in {"delete", "bulk_delete"}
  BY <1>6, <1>7, <1>9 DEF Deleted
<1>10. CASE c \in On(p) /\ settled[c] # "deleted" /\ reqs[p].op \notin {"delete", "bulk_delete"}
  <2>1. CASE InFlight(p, c)
    BY <1>6, <1>7, <1>10, <2>1
  <2>2. CASE ~InFlight(p, c)
    <3>1. \A q \in Proc : c \notin On(q)'
      BY <1>5, <2>2 DEF InFlight, Others
    <3>2. QED BY <1>6, <1>7, <1>10, <2>2, <3>1 DEF Deleted
  <2>3. QED BY <2>1, <2>2
<1>11. QED BY <1>8, <1>9, <1>10

\* Nothing is said.
LEMMA NotAnswering ==
  ASSUME Sound, AnswersAreRows, [Next]_vars, settled' = settled, begun' = begun
  PROVE  AnswersAreRows'
<1>1. ASSUME NEW p \in Proc PROVE On(p)' \subseteq On(p)
  <2>1. begun \in Nat
    <3>1. begun \in 0 .. workload.requests
      BY DEF Sound, Types
    <3>2. QED BY <3>1
  <2>2. ~ \E r : Begin(p, r)
    BY <2>1 DEF Begin
  <2>3. reqs'[p].on = reqs[p].on => On(p)' = On(p)
    BY DEF On
  <2>4. reqs'[p] = Idle => On(p)' = {}
    BY DEF On, Idle, ToSet
  <2>5. QED BY <2>2, <2>3, <2>4, RequestSteps
<1>2. QED BY <1>1, RowsOfOthers DEF AnswersAreRows, Deleted, Visibility

LEMMA AnswersStand ==
  ASSUME Sound, HeldRowsMatch, WrittenDeletes, AnswersAreRows, [Next]_vars
  PROVE  AnswersAreRows'
<1>1. Types /\ RequestsAreSound /\ OpenClipsHaveALink
  BY DEF Sound
<1>2. ASSUME NEW p \in Proc, AskOne(p) \/ AskBulk(p) \/ AskComment(p) PROVE AnswersAreRows'
  <2>1. PICK r : reqs' = [reqs EXCEPT ![p] = r] /\ Begin(p, r)
    BY <1>1, <1>2, Asked
  <2>2. /\ clips' = clips
        /\ settled' = [c \in Clip |-> IF c \in ToSet(r.on) /\ settled[c] # "deleted" THEN "open" ELSE settled[c]]
    BY <2>1 DEF Begin
  <2>3. On(p)' = ToSet(r.on) /\ \A q \in Proc : q # p => On(q)' = On(q)
    <3>1. reqs'[p] = r /\ \A q \in Proc : q # p => reqs'[q] = reqs[q]
      BY <1>1, <2>1, HeldByOthers
    <3>2. QED BY <3>1 DEF On
  <2>4. "deleted" \notin Visibility /\ "open" \notin Visibility
    BY DEF Visibility
  <2>5. QED BY <2>2, <2>3, <2>4 DEF AnswersAreRows, Deleted
<1>3. ASSUME NEW p \in Proc, Audit(p), reqs[p].op = "delete" PROVE AnswersAreRows'
  <2>1. \A c \in On(p) : clips'[c].status = "deleted"
    BY <1>3 DEF WrittenDeletes, Audit, Deleted
  <2>2. QED BY <1>3, <2>1, Answering DEF Audit
<1>4. ASSUME NEW p \in Proc, AnswerOk(p), reqs[p].op = "visibility" PROVE AnswersAreRows'
  <2>1. On(p) \subseteq Clip
    BY <1>1, <1>4, OneClip DEF AnswerOk, At, ClipOp
  <2>2. \A c \in On(p) : clips[c].status = "ready"
    BY <1>4 DEF AnswerOk, Reread, Found, OwnedReady
  <2>3. \A c \in Clip : clips[c].visibility \in Visibility
    BY <1>1 DEF Types, Row
  <2>4. PICK says : says = [c \in Clip |-> clips[c].visibility]
    OBVIOUS
  <2>5. Answers(p, says) /\ End(p) /\ clips' = clips
    BY <1>4, <2>4 DEF AnswerOk
  <2>6. \A c \in On(p) : /\ says[c] \in Visibility
                         /\ clips'[c].status = "ready" /\ clips'[c].visibility = says[c]
    BY <2>1, <2>2, <2>3, <2>4, <2>5
  <2>7. QED BY <1>4, <2>5, <2>6, Answering
<1>5. ASSUME NEW p \in Proc, Commit(p) PROVE AnswersAreRows'
  <2>1. On(p) = Held(p) /\ On(p) \subseteq Clip /\ reqs[p].op \in BulkOp /\ reqs[p].to \in Visibility
    BY <1>1, <1>5, HoldsAll
  <2>2. PICK says : says = [c \in Clip |-> reqs[p].to]
    OBVIOUS
  <2>3. Answers(p, says) /\ End(p)
    BY <1>5, <2>2 DEF Commit
  <2>4. CASE reqs[p].op = "bulk_delete"
    <3>1. \A c \in On(p) : clips'[c].status = "deleted"
      BY <1>1, <1>5, <2>4, Committing
    <3>2. QED BY <2>3, <2>4, <3>1, Answering
  <2>5. CASE reqs[p].op = "bulk_visibility"
    <3>1. \A c \in On(p) : clips'[c].status = clips[c].status /\ clips'[c].visibility = reqs[p].to
      BY <1>1, <1>5, <2>5, Committing
    <3>2. \A c \in On(p) : clips[c].status = "ready"
      BY <2>1, <2>5 DEF HeldRowsMatch, Matches, OwnedReady
    <3>3. \A c \in On(p) : /\ says[c] \in Visibility
                           /\ clips'[c].status = "ready" /\ clips'[c].visibility = says[c]
      BY <2>1, <2>2, <3>1, <3>2
    <3>4. QED BY <2>3, <2>5, <3>3, Answering
  <2>6. QED BY <2>1, <2>4, <2>5 DEF BulkOp
<1>6. ASSUME settled' = settled, begun' = begun PROVE AnswersAreRows'
  BY <1>6, NotAnswering
<1>7. ASSUME NEW p \in Proc, Step(p) PROVE AnswersAreRows'
  <2>1. CASE Load(p) \/ Write(p) \/ AnswerConflict(p) \/ WriteRow(p) \/ RefuseRow(p)
    BY <1>6, <2>1 DEF Load, Write, AnswerConflict, WriteRow, RefuseRow, counts
  <2>2. CASE BreakDeadlock(p) \/ LoadShared(p) \/ Check(p) \/ WriteComment(p) \/ Uncomment(p)
    BY <1>6, <2>2 DEF BreakDeadlock, LoadShared, Check, WriteComment, Uncomment, counts
  <2>3. CASE Audit(p) /\ reqs[p].op # "delete"
    BY <1>6, <2>3 DEF Audit, counts
  <2>4. CASE AnswerOk(p) /\ reqs[p].op # "visibility"
    BY <1>6, <2>4 DEF AnswerOk, counts
  <2>5. QED BY <1>3, <1>4, <1>5, <1>7, <2>1, <2>2, <2>3, <2>4 DEF Step
<1>8. ASSUME NEW p \in Proc, Stop(p) PROVE AnswersAreRows'
  BY <1>6, <1>8 DEF Stop
<1>9. ASSUME NEW c \in Clip, MarkReady(c) PROVE AnswersAreRows'
  BY <1>6, <1>9 DEF MarkReady, counts
<1>10. CASE UNCHANGED vars
  BY <1>6, <1>10 DEF vars
<1>11. QED BY <1>2, <1>7, <1>8, <1>9, <1>10 DEF Next

-----------------------------------------------------------------------------
(* The audit log.                                                          *)

LEMMA OwingIsFinite ==
  ASSUME NEW c
  PROVE  IsFiniteSet(Owing(c)) /\ Cardinality(Owing(c)) \in Nat
<1>1. Owing(c) \in SUBSET Proc
  BY DEF Owing
<1>2. IsFiniteSet(Owing(c))
  BY <1>1, Sizes, FS_Subset
<1>3. QED BY <1>2, FS_CardinalityType

\* The requests that owe an audit row stay the same where only requests that
\* owe none move.
LEMMA OwingStays ==
  ASSUME Sound, [Next]_vars, \A p \in Proc : ~Write(p),
         \A p \in Proc : reqs[p].pc = "audit" => reqs'[p] = reqs[p]
  PROVE  \A c \in Clip : Owing(c)' = Owing(c)
<1>1. SUFFICES ASSUME NEW c \in Clip, NEW p \in Proc PROVE p \in Owing(c)' <=> p \in Owing(c)
  BY DEF Owing
<1>2. CASE reqs'[p] = reqs[p]
  BY <1>2 DEF Owing, At, On
<1>3. CASE reqs'[p] # reqs[p]
  <2>1. reqs[p].pc # "audit"
    BY <1>3
  <2>2. reqs'[p].pc # "audit"
    <3>1. reqs'[p] = Idle => reqs'[p].pc # "audit"
      BY DEF Idle
    <3>2. ~Write(p)
      OBVIOUS
    <3>3. QED BY <1>3, <3>1, <3>2, RequestSteps
  <2>3. QED BY <2>1, <2>2 DEF Owing, At
<1>4. QED BY <1>2, <1>3

LEMMA OwedStays ==
  ASSUME AuditIsOwed, \A c \in Clip : Owing(c)' = Owing(c),
         audit' = audit, changed' = changed, faults' = faults
  PROVE  AuditIsOwed'
<1>1. SUFFICES ASSUME NEW c \in Clip
               PROVE  /\ audit[c] + Cardinality(Owing(c)') <= changed[c]
                      /\ changed[c] <= audit[c] + faults + Cardinality(Owing(c)')
  BY DEF AuditIsOwed
<1>2. Owing(c)' = Owing(c)
  OBVIOUS
<1>3. QED BY <1>2 DEF AuditIsOwed

\* A request that owed an audit row and no longer does.
LEMMA OwingLess ==
  ASSUME Types, NEW p \in Proc, \A q \in Proc : q # p => reqs'[q] = reqs[q],
         reqs'[p].pc # "audit", NEW c \in Clip
  PROVE  /\ Owing(c)' = Owing(c) \ {p}
         /\ Cardinality(Owing(c)') = IF p \in Owing(c) THEN Cardinality(Owing(c)) - 1 ELSE Cardinality(Owing(c))
<1>1. Owing(c)' = Owing(c) \ {p}
  <2>1. SUFFICES ASSUME NEW q \in Proc PROVE q \in Owing(c)' <=> q \in Owing(c) \ {p}
    BY DEF Owing
  <2>2. CASE q = p
    BY <2>2 DEF Owing, At
  <2>3. CASE q # p
    BY <2>3 DEF Owing, At, On
  <2>4. QED BY <2>2, <2>3
<1>2. CASE p \in Owing(c)
  <2>1. Cardinality(Owing(c) \ {p}) = Cardinality(Owing(c)) - 1
    BY <1>2, OwingIsFinite, FS_RemoveElement
  <2>2. QED BY <1>1, <1>2, <2>1
<1>3. CASE p \notin Owing(c)
  <2>1. Owing(c) \ {p} = Owing(c)
    BY <1>3
  <2>2. QED BY <1>1, <1>3, <2>1
<1>4. QED BY <1>2, <1>3

LEMMA WritingIsOwed ==
  ASSUME Sound, AuditIsOwed, NEW p \in Proc, Write(p)
  PROVE  AuditIsOwed'
<1>1. Types /\ RequestsAreSound
  BY DEF Sound
<1>2. reqs[p] \in Request /\ reqs[p].pc = "write" /\ reqs' = [reqs EXCEPT ![p].pc = "audit"]
  BY <1>1 DEF Write, At, Types
<1>3. PICK r : r = [reqs[p] EXCEPT !.pc = "audit"]
  OBVIOUS
<1>4. reqs' = [reqs EXCEPT ![p] = r]
  BY <1>2, <1>3
<1>5. reqs'[p] = r /\ \A q \in Proc : q # p => reqs'[q] = reqs[q]
  BY <1>1, <1>4, HeldByOthers
<1>6. r.pc = "audit" /\ r.op = reqs[p].op /\ r.on = reqs[p].on
  BY <1>2, <1>3 DEF Request
<1>7. SUFFICES ASSUME NEW c \in Clip
               PROVE  (/\ audit[c] + Cardinality(Owing(c)) <= changed[c]
                       /\ changed[c] <= audit[c] + faults + Cardinality(Owing(c)))'
  BY DEF AuditIsOwed
<1>8. /\ audit[c] \in Nat /\ changed[c] \in Nat /\ faults \in Nat
  <2>1. faults \in 0 .. workload.faults
    BY <1>1 DEF Types
  <2>2. QED BY <1>1, <2>1 DEF Types
<1>9. /\ audit[c] + Cardinality(Owing(c)) <= changed[c]
      /\ changed[c] <= audit[c] + faults + Cardinality(Owing(c))
  BY DEF AuditIsOwed
<1>10. audit' = audit /\ faults' = faults
       /\ changed' = [d \in Clip |-> IF d \in On(p) /\ reqs[p].op # "update" THEN changed[d] + 1 ELSE changed[d]]
  BY DEF Write, counts
<1>11. CASE c \in On(p) /\ reqs[p].op # "update"
  <2>1. Owing(c)' = Owing(c) \cup {p}
    <3>1. SUFFICES ASSUME NEW q \in Proc PROVE q \in Owing(c)' <=> q \in Owing(c) \cup {p}
      BY DEF Owing
    <3>2. CASE q = p
      BY <1>5, <1>6, <1>11, <3>2 DEF Owing, At, On
    <3>3. CASE q # p
      BY <1>5, <3>3 DEF Owing, At, On
    <3>4. QED BY <3>2, <3>3
  <2>2. p \notin Owing(c)
    BY <1>2 DEF Owing, At
  <2>3. Cardinality(Owing(c) \cup {p}) = Cardinality(Owing(c)) + 1
    BY <2>2, OwingIsFinite, FS_AddElement
  <2>4. changed'[c] = changed[c] + 1
    BY <1>10, <1>11
  <2>5. Cardinality(Owing(c)) \in Nat /\ Cardinality(Owing(c)') = Cardinality(Owing(c)) + 1
    BY <2>1, <2>3, OwingIsFinite
  <2>6. QED BY <1>8, <1>9, <1>10, <2>4, <2>5
<1>12. CASE ~(c \in On(p) /\ reqs[p].op # "update")
  <2>1. Owing(c)' = Owing(c)
    <3>1. SUFFICES ASSUME NEW q \in Proc PROVE q \in Owing(c)' <=> q \in Owing(c)
      BY DEF Owing
    <3>2. CASE q = p
      BY <1>2, <1>5, <1>6, <1>12, <3>2 DEF Owing, At, On
    <3>3. CASE q # p
      BY <1>5, <3>3 DEF Owing, At, On
    <3>4. QED BY <3>2, <3>3
  <2>2. changed'[c] = changed[c]
    BY <1>10, <1>12
  <2>3. QED BY <1>9, <1>10, <2>1, <2>2
<1>13. QED BY <1>11, <1>12

LEMMA AuditingIsOwed ==
  ASSUME Sound, AuditIsOwed, NEW p \in Proc, Audit(p)
  PROVE  AuditIsOwed'
<1>1. Types /\ RequestsAreSound
  BY DEF Sound
<1>2. reqs[p] \in Request /\ reqs[p].pc = "audit"
  BY <1>1 DEF Audit, At, Types
<1>3. reqs'[p].pc # "audit" /\ \A q \in Proc : q # p => reqs'[q] = reqs[q]
  <2>1. CASE reqs[p].op = "delete"
    <3>1. End(p)
      BY <2>1 DEF Audit
    <3>2. reqs'[p] = Idle /\ reqs' = [reqs EXCEPT ![p] = Idle]
      BY <1>1, <3>1, LetGoIdle
    <3>3. QED BY <3>2 DEF Idle
  <2>2. CASE reqs[p].op # "delete"
    <3>1. reqs' = [reqs EXCEPT ![p].pc = "reread"]
      BY <2>2 DEF Audit, Continue
    <3>2. PICK r : r = [reqs[p] EXCEPT !.pc = "reread"]
      OBVIOUS
    <3>3. reqs' = [reqs EXCEPT ![p] = r]
      BY <3>1, <3>2
    <3>4. reqs'[p] = r /\ \A q \in Proc : q # p => reqs'[q] = reqs[q]
      BY <1>1, <3>3, HeldByOthers
    <3>5. r.pc = "reread"
      BY <1>2, <3>2 DEF Request
    <3>6. QED BY <3>4, <3>5
  <2>3. QED BY <2>1, <2>2
<1>4. SUFFICES ASSUME NEW c \in Clip
               PROVE  (/\ audit[c] + Cardinality(Owing(c)) <= changed[c]
                       /\ changed[c] <= audit[c] + faults + Cardinality(Owing(c)))'
  BY DEF AuditIsOwed
<1>5. /\ audit[c] \in Nat /\ changed[c] \in Nat /\ faults \in Nat
  <2>1. faults \in 0 .. workload.faults
    BY <1>1 DEF Types
  <2>2. QED BY <1>1, <2>1 DEF Types
<1>6. /\ audit[c] + Cardinality(Owing(c)) <= changed[c]
      /\ changed[c] <= audit[c] + faults + Cardinality(Owing(c))
  BY DEF AuditIsOwed
<1>7. changed' = changed /\ faults' = faults
      /\ audit' = [d \in Clip |-> IF d \in On(p) /\ reqs[p].op # "update" THEN audit[d] + 1 ELSE audit[d]]
  BY DEF Audit, counts
<1>8. Cardinality(Owing(c)') = IF p \in Owing(c) THEN Cardinality(Owing(c)) - 1 ELSE Cardinality(Owing(c))
  BY <1>1, <1>3, OwingLess
<1>9. p \in Owing(c) <=> c \in On(p) /\ reqs[p].op # "update"
  BY <1>2 DEF Owing, At
<1>10. audit'[c] = IF p \in Owing(c) THEN audit[c] + 1 ELSE audit[c]
  BY <1>7, <1>9
<1>11. Cardinality(Owing(c)) \in Nat
  BY OwingIsFinite
<1>12. QED BY <1>5, <1>6, <1>7, <1>8, <1>10, <1>11

LEMMA StoppingIsOwed ==
  ASSUME Sound, AuditIsOwed, NEW p \in Proc, Stop(p)
  PROVE  AuditIsOwed'
<1>1. Types /\ RequestsAreSound
  BY DEF Sound
<1>2. reqs'[p].pc # "audit" /\ \A q \in Proc : q # p => reqs'[q] = reqs[q]
  <2>1. reqs'[p] = Idle /\ reqs' = [reqs EXCEPT ![p] = Idle]
    BY <1>1, LetGoIdle DEF Stop
  <2>2. QED BY <2>1 DEF Idle
<1>3. SUFFICES ASSUME NEW c \in Clip
               PROVE  (/\ audit[c] + Cardinality(Owing(c)) <= changed[c]
                       /\ changed[c] <= audit[c] + faults + Cardinality(Owing(c)))'
  BY DEF AuditIsOwed
<1>4. /\ audit[c] \in Nat /\ changed[c] \in Nat /\ faults \in Nat
  <2>1. faults \in 0 .. workload.faults
    BY <1>1 DEF Types
  <2>2. QED BY <1>1, <2>1 DEF Types
<1>5. /\ audit[c] + Cardinality(Owing(c)) <= changed[c]
      /\ changed[c] <= audit[c] + faults + Cardinality(Owing(c))
  BY DEF AuditIsOwed
<1>6. Cardinality(Owing(c)') = IF p \in Owing(c) THEN Cardinality(Owing(c)) - 1 ELSE Cardinality(Owing(c))
  BY <1>1, <1>2, OwingLess
<1>7. audit' = audit /\ changed' = changed /\ faults' = faults + 1
  BY DEF Stop
<1>8. Cardinality(Owing(c)) \in Nat
  BY OwingIsFinite
<1>9. QED BY <1>4, <1>5, <1>6, <1>7, <1>8

LEMMA CommittingIsOwed ==
  ASSUME Sound, AuditIsOwed, NEW p \in Proc, Commit(p), \A c \in Clip : Owing(c)' = Owing(c)
  PROVE  AuditIsOwed'
<1>1. SUFFICES ASSUME NEW c \in Clip
               PROVE  (/\ audit[c] + Cardinality(Owing(c)) <= changed[c]
                       /\ changed[c] <= audit[c] + faults + Cardinality(Owing(c)))'
  BY DEF AuditIsOwed
<1>2. audit[c] \in Nat /\ changed[c] \in Nat /\ faults \in Nat
  <2>1. faults \in 0 .. workload.faults
    BY DEF Sound, Types
  <2>2. QED BY <2>1 DEF Sound, Types
<1>3. /\ audit[c] + Cardinality(Owing(c)) <= changed[c]
      /\ changed[c] <= audit[c] + faults + Cardinality(Owing(c))
  BY DEF AuditIsOwed
<1>4. Cardinality(Owing(c)') = Cardinality(Owing(c)) /\ Cardinality(Owing(c)) \in Nat
  BY OwingIsFinite
<1>5. faults' = faults
      /\ audit' = [d \in Clip |-> IF d \in Held(p) THEN audit[d] + 1 ELSE audit[d]]
      /\ changed' = [d \in Clip |-> IF d \in Held(p) THEN changed[d] + 1 ELSE changed[d]]
  BY DEF Commit, counts
<1>6. CASE c \in Held(p)
  <2>1. audit'[c] = audit[c] + 1 /\ changed'[c] = changed[c] + 1
    BY <1>5, <1>6
  <2>2. QED BY <1>2, <1>3, <1>4, <1>5, <2>1
<1>7. CASE c \notin Held(p)
  <2>1. audit'[c] = audit[c] /\ changed'[c] = changed[c]
    BY <1>5, <1>7
  <2>2. QED BY <1>3, <1>4, <1>5, <2>1
<1>8. QED BY <1>6, <1>7

LEMMA AuditKeepsUp ==
  ASSUME Sound, AuditIsOwed, [Next]_vars
  PROVE  AuditIsOwed'
<1>1. Types /\ RequestsAreSound
  BY DEF Sound
<1>2. CASE \E p \in Proc : Write(p) \/ Audit(p) \/ Stop(p)
  BY <1>2, WritingIsOwed, AuditingIsOwed, StoppingIsOwed
<1>3. CASE ~ \E p \in Proc : Write(p) \/ Audit(p) \/ Stop(p)
  <2>1. ASSUME NEW p \in Proc, Step(p)
        PROVE  reqs[p].pc # "audit" /\ \A q \in Proc : q # p => reqs'[q] = reqs[q]
    <3>1. reqs[p].pc # "audit"
      <4>1. CASE BreakDeadlock(p)
        <5>1. RowsLeft(p)
          BY <4>1 DEF BreakDeadlock, WaitsFor
        <5>2. QED BY <5>1 DEF RowsLeft, At
      <4>2. CASE WriteComment(p) \/ Uncomment(p) \/ LoadShared(p) \/ Check(p)
        BY <4>2 DEF WriteComment, Uncomment, LoadShared, Check, At
      <4>3. CASE Load(p) \/ AnswerOk(p) \/ AnswerConflict(p) \/ WriteRow(p) \/ RefuseRow(p) \/ Commit(p)
        BY <4>3 DEF Load, AnswerOk, AnswerConflict, WriteRow, RefuseRow, Commit, RowsLeft, At
      <4>4. QED BY <1>3, <2>1, <4>1, <4>2, <4>3 DEF Step
    <3>2. QED BY <1>1, <2>1, <3>1, OthersWait
  <2>2. ASSUME NEW p \in Proc, AskOne(p) \/ AskBulk(p) \/ AskComment(p)
        PROVE  reqs[p].pc # "audit" /\ \A q \in Proc : q # p => reqs'[q] = reqs[q]
    <3>1. reqs[p] = Idle /\ \E r : reqs' = [reqs EXCEPT ![p] = r]
      BY <1>1, <2>2, Asked
    <3>2. QED BY <1>1, <3>1, HeldByOthers DEF Idle
  <2>3. ASSUME NEW c \in Clip, MarkReady(c) PROVE reqs' = reqs
    BY <2>3 DEF MarkReady
  <2>4. \A p \in Proc : reqs[p].pc = "audit" => reqs'[p] = reqs[p]
    BY <1>3, <2>1, <2>2, <2>3 DEF Next, vars
  <2>5. \A c \in Clip : Owing(c)' = Owing(c)
    BY <1>3, <2>4, OwingStays
  <2>6. ASSUME NEW p \in Proc, Commit(p) PROVE AuditIsOwed'
    BY <2>5, <2>6, CommittingIsOwed
  <2>7. ASSUME NEW p \in Proc, Step(p), ~Commit(p) PROVE audit' = audit /\ changed' = changed /\ faults' = faults
    <3>1. CASE Load(p) \/ AnswerOk(p) \/ AnswerConflict(p) \/ WriteRow(p) \/ RefuseRow(p)
      BY <3>1 DEF Load, AnswerOk, AnswerConflict, WriteRow, RefuseRow, counts
    <3>2. CASE BreakDeadlock(p) \/ LoadShared(p) \/ Check(p) \/ WriteComment(p) \/ Uncomment(p)
      BY <3>2 DEF BreakDeadlock, LoadShared, Check, WriteComment, Uncomment, counts
    <3>3. QED BY <1>3, <2>7, <3>1, <3>2 DEF Step
  <2>8. ASSUME NEW p \in Proc, AskOne(p) \/ AskBulk(p) \/ AskComment(p)
        PROVE  audit' = audit /\ changed' = changed /\ faults' = faults
    <3>1. PICK r : Begin(p, r)
      BY <1>1, <2>8, Asked
    <3>2. QED BY <3>1 DEF Begin
  <2>9. ASSUME NEW c \in Clip, MarkReady(c) PROVE audit' = audit /\ changed' = changed /\ faults' = faults
    BY <2>9 DEF MarkReady, counts
  <2>10. CASE \E p \in Proc : Commit(p)
    BY <2>6, <2>10
  <2>11. CASE ~ \E p \in Proc : Commit(p)
    <3>1. audit' = audit /\ changed' = changed /\ faults' = faults
      BY <1>3, <2>7, <2>8, <2>9, <2>11 DEF Next, vars
    <3>2. QED BY <2>5, <3>1, OwedStays
  <2>12. QED BY <2>10, <2>11
<1>4. QED BY <1>2, <1>3

-----------------------------------------------------------------------------
(* The start.                                                              *)

LEMMA SharedIsListed ==
  ASSUME workload \in Workloads
  PROVE  LET S == {c \in Clip : workload.start[c] = "shared"}
         IN  /\ SharedFirst \in Seq(Clip) /\ Len(SharedFirst) \in 0 .. Cardinality(Clip)
             /\ DOMAIN SharedFirst = 1 .. Len(SharedFirst)
             /\ \A c \in S : \E i \in DOMAIN SharedFirst : SharedFirst[i] = c
<1> DEFINE S == {c \in Clip : workload.start[c] = "shared"}
           n == Cardinality(S)
<1>1. IsFiniteSet(S) /\ n <= Cardinality(Clip)
  <2>1. S \in SUBSET Clip
    OBVIOUS
  <2>. HIDE DEF S
  <2>2. QED BY <2>1, Sizes, FS_Subset
<1>2. n \in Nat /\ ExistsBijection(1 .. n, S)
  BY <1>1, FS_CardinalityType
<1>3. \E f \in [1 .. n -> S] : IsInjective(f)
  BY <1>2 DEF ExistsBijection, Bijection, Injection
<1>4. SharedFirst \in [1 .. n -> S] /\ IsInjective(SharedFirst)
  BY <1>3 DEF SharedFirst, SetToSeq
<1>5. SharedFirst \in Injection(1 .. n, S)
  BY <1>4 DEF Injection
<1>6. IsFiniteSet(1 .. n) /\ Cardinality(1 .. n) = n
  <2>1. IsFiniteSet(1 .. n) /\ Cardinality(1 .. n) = IF 1 > n THEN 0 ELSE n - 1 + 1
    BY <1>2, FS_Interval
  <2>. HIDE DEF n
  <2>2. QED BY <1>2, <2>1
<1>7. SharedFirst \in Surjection(1 .. n, S)
  <2>. HIDE DEF S
  <2>1. QED BY <1>1, <1>5, <1>6, FS_Injection
<1>8. SharedFirst \in [1 .. n -> Clip] /\ DOMAIN SharedFirst = 1 .. n
  BY <1>4
<1>9. SharedFirst \in Seq(Clip) /\ Len(SharedFirst) = n
  <2>. HIDE DEF n, S
  <2>1. QED BY <1>2, <1>8
<1>10. \A c \in S : \E i \in DOMAIN SharedFirst : SharedFirst[i] = c
  <2>. HIDE DEF n, S
  <2>1. QED BY <1>7, <1>8 DEF Surjection
<1>11. n \in 0 .. Cardinality(Clip)
  BY <1>1, <1>2, Sizes
<1>12. QED BY <1>8, <1>9, <1>10, <1>11

LEMMA StartIsSound ==
  ASSUME Init
  PROVE  LibraryInv
<1>1. workload \in Workloads /\ database \in Databases
  BY DEF Init
<1>2. workload.start \in [Clip -> {"processing", "ready", "shared"}] /\ workload.requests \in Nat /\ workload.faults \in Nat
  BY <1>1, LibraryAssumption, ClipsAssumption
<1>3. /\ SharedFirst \in Seq(Clip) /\ Len(SharedFirst) \in 0 .. Cardinality(Clip)
      /\ DOMAIN SharedFirst = 1 .. Len(SharedFirst)
      /\ \A c \in Clip : workload.start[c] = "shared" => \E i \in DOMAIN SharedFirst : SharedFirst[i] = c
  BY <1>1, SharedIsListed
<1>4. 1 .. Cardinality(Clip) \subseteq ShareId
  <2> DEFINE N == Cardinality(Clip)
             M == Cardinality(Proc)
  <2>1. N \in Nat /\ M \in Nat
    BY Sizes
  <2>2. N * M \in Nat /\ 2 * N * (1 + M) = N + N * M + N + N * M
    BY <2>1
  <2>3. N <= 2 * N * (1 + M) /\ 2 * N * (1 + M) \in Nat
    <3>. HIDE DEF N, M
    <3>1. QED BY <2>1, <2>2
  <2>4. QED BY <2>1, <2>3 DEF ShareId
<1>5. ASSUME NEW c \in Clip
      PROVE  /\ StartOf(c) \in Row
             /\ StartOf(c).visibility # "private" => StartOf(c).share # NoShare
  <2>1. CASE workload.start[c] = "shared"
    <3>1. PICK i \in DOMAIN SharedFirst : i = (CHOOSE s \in DOMAIN SharedFirst : SharedFirst[s] = c)
      BY <1>3, <2>1
    <3>2. i \in ShareId /\ i # NoShare
      BY <1>3, <1>4, Sizes DEF NoShare
    <3>3. StartOf(c) = [status |-> "ready", visibility |-> "public", share |-> i]
      BY <2>1, <3>1 DEF StartOf
    <3>4. QED BY <3>2, <3>3 DEF Row, Share, Visibility
  <2>2. CASE workload.start[c] # "shared"
    <3>1. StartOf(c) = [status |-> workload.start[c], visibility |-> "private", share |-> NoShare]
      BY <2>2 DEF StartOf
    <3>2. workload.start[c] \in {"processing", "ready"}
      BY <1>2, <2>2
    <3>3. QED BY <3>1, <3>2 DEF Row, Share, Visibility
  <2>3. QED BY <2>1, <2>2
<1>6. clips \in [Clip -> Row] /\ OpenClipsHaveALink
  BY <1>5 DEF Init, OpenClipsHaveALink
<1>7. comments \in Seq(Comment) /\ ParentsExist
  <2> DEFINE e(i) == [clip |-> SharedFirst[i], parent |-> Top, by |-> OwnerOf[SharedFirst[i]], deleted |-> FALSE]
  <2>1. comments = [i \in 1 .. Len(SharedFirst) |-> e(i)] /\ Len(SharedFirst) \in Nat
    BY <1>3, Sizes DEF Init
  <2>2. \A i \in 1 .. Len(SharedFirst) : e(i) \in Comment /\ e(i).parent = 0
    <3>1. SUFFICES ASSUME NEW i \in 1 .. Len(SharedFirst) PROVE e(i) \in Comment /\ e(i).parent = 0
      OBVIOUS
    <3>2. SharedFirst[i] \in Clip
      BY <1>3
    <3>3. OwnerOf[SharedFirst[i]] \in User
      BY <3>2, LibraryAssumption, ClipsAssumption
    <3>4. QED BY <3>2, <3>3 DEF Comment, Top
  <2>. HIDE DEF e
  <2>3. comments \in Seq(Comment) /\ Len(comments) = Len(SharedFirst) /\ DOMAIN comments = 1 .. Len(SharedFirst)
    BY <2>1, <2>2
  <2>4. \A k \in DOMAIN comments : comments[k].parent = 0
    BY <2>1, <2>2, <2>3
  <2>5. QED BY <2>1, <2>3, <2>4 DEF ParentsExist
<1>8. /\ audit = [c \in Clip |-> 0] /\ changed = [c \in Clip |-> 0] /\ reqs = [p \in Proc |-> Idle]
      /\ settled = [c \in Clip |-> "open"] /\ begun = 0 /\ faults = 0
  BY DEF Init
<1>9. Types
  BY <1>1, <1>2, <1>6, <1>7, <1>8, IdleIsARequest DEF Types
<1>10. \A p \in Proc : reqs[p] = Idle
  BY <1>8
<1>11. RequestsAreSound
  BY <1>10, IdleIsARequest DEF RequestsAreSound, Op
<1>12. \A p \in Proc : Held(p) = {} /\ On(p) = {} /\ reqs[p].pc # "audit"
  BY <1>10 DEF Held, On, At, Idle, ToSet
<1>13. HeldRowsMatch /\ RowsAreHeldOnce /\ WrittenDeletes
  BY <1>12 DEF HeldRowsMatch, RowsAreHeldOnce, WrittenDeletes, At
<1>14. AnswersAreRows
  BY <1>8 DEF AnswersAreRows, Visibility
<1>15. AuditIsOwed
  <2>1. SUFFICES ASSUME NEW c \in Clip
                 PROVE  /\ audit[c] + Cardinality(Owing(c)) <= changed[c]
                        /\ changed[c] <= audit[c] + faults + Cardinality(Owing(c))
    BY DEF AuditIsOwed
  <2>2. Owing(c) = {}
    BY <1>12 DEF Owing, At
  <2>3. Cardinality(Owing(c)) = 0
    BY <2>2, FS_EmptySet
  <2>4. QED BY <1>8, <2>3
<1>16. QED BY <1>6, <1>7, <1>9, <1>11, <1>13, <1>14, <1>15 DEF LibraryInv

-----------------------------------------------------------------------------
(* What follows.                                                           *)

\* The invariant holds in every state of the library.
THEOREM LibraryInvariant == Spec => []LibraryInv
<1>1. Init => LibraryInv
  BY StartIsSound
<1>2. LibraryInv /\ [Next]_vars => LibraryInv'
  <2>1. SUFFICES ASSUME LibraryInv, [Next]_vars PROVE LibraryInv'
    OBVIOUS
  <2>2. Sound /\ Sound'
    BY <2>1, NextIsSound DEF LibraryInv, Sound
  <2>3. HeldRowsMatch' /\ RowsAreHeldOnce'
    BY <2>1, <2>2, TransactionsHold DEF LibraryInv
  <2>4. WrittenDeletes'
    BY <2>1, <2>2, DeletesAreWritten DEF LibraryInv
  <2>5. AnswersAreRows'
    BY <2>1, <2>2, AnswersStand DEF LibraryInv
  <2>6. AuditIsOwed'
    BY <2>1, <2>2, AuditKeepsUp DEF LibraryInv
  <2>7. QED BY <2>2, <2>3, <2>4, <2>5, <2>6 DEF LibraryInv, Sound
<1>3. QED BY <1>1, <1>2, PTL DEF Spec

\* Every table and every request has its type: what the library's requests
\* find and write are rows with links that exist.
THEOREM LibraryTypes == Spec => []TypeOK
<1>1. LibraryInv => TypeOK
  <2>1. SUFFICES ASSUME LibraryInv PROVE TypeOK
    OBVIOUS
  <2>2. Types /\ RequestsAreSound
    BY <2>1 DEF LibraryInv
  <2>3. ASSUME NEW p \in Proc PROVE reqs[p] = Idle \/ reqs[p].op \in workload.ops
    <3>1. CASE reqs[p].op \notin Op
      BY <2>2, <3>1 DEF RequestsAreSound
    <3>2. CASE reqs[p].op \in ClipOp
      BY <2>2, <3>2 DEF RequestsAreSound, ClipRequestOK
    <3>3. CASE reqs[p].op \in CommentOp
      BY <2>2, <3>3 DEF RequestsAreSound, CommentRequestOK
    <3>4. QED BY <3>1, <3>2, <3>3 DEF Op
  <2>4. QED BY <2>2, <2>3 DEF TypeOK, Types, Row, Comment, Share
<1>2. QED BY <1>1, LibraryInvariant, PTL

\* What an answer has said of a clip is what the public gets until somebody
\* asks again: a deleted clip stays gone, a private one is opened by no link,
\* an unlisted one is not in the public library.
THEOREM AnswersAlwaysHold == Spec => []AnswersHold
<1>1. LibraryInv => AnswersHold
  <2>1. SUFFICES ASSUME LibraryInv, NEW c \in Clip, settled[c] # "open"
        PROVE  LET seen == {s \in ShareId : Opens(c, s)}
               IN /\ settled[c] \in {"deleted", "private"} => seen = {} /\ ~InPublicLibrary(c)
                  /\ settled[c] = "unlisted" => seen # {} /\ ~InPublicLibrary(c)
                  /\ settled[c] = "public" => seen # {} /\ InPublicLibrary(c)
    BY DEF AnswersHold
  <2>2. /\ settled[c] = "deleted" => clips[c].status = "deleted"
        /\ settled[c] \in Visibility => clips[c].status = "ready" /\ clips[c].visibility = settled[c]
    BY <2>1 DEF LibraryInv, AnswersAreRows, Deleted
  <2>3. clips[c].visibility # "private" => clips[c].share # NoShare
    BY <2>1 DEF LibraryInv, OpenClipsHaveALink
  <2>4. clips[c].share \in ShareId \cup {NoShare}
    BY <2>1 DEF LibraryInv, Types, Row, Share
  <2>5. CASE settled[c] = "deleted"
    BY <2>2, <2>5 DEF Opens, InPublicLibrary
  <2>6. CASE settled[c] = "private"
    BY <2>2, <2>6 DEF Opens, InPublicLibrary, Visibility
  <2>7. ASSUME settled[c] \in {"unlisted", "public"} PROVE Opens(c, clips[c].share) /\ clips[c].share \in ShareId
    BY <2>2, <2>3, <2>4, <2>7 DEF Opens, Visibility
  <2>8. CASE settled[c] = "unlisted"
    BY <2>2, <2>7, <2>8 DEF InPublicLibrary, Visibility
  <2>9. CASE settled[c] = "public"
    BY <2>2, <2>3, <2>7, <2>9 DEF InPublicLibrary, Visibility
  <2>10. settled[c] \in {"deleted", "private", "unlisted", "public"}
    BY <2>1 DEF LibraryInv, Types, Visibility
  <2>11. QED BY <2>5, <2>6, <2>8, <2>9, <2>10
<1>2. QED BY <1>1, LibraryInvariant, PTL

\* A bulk request that is answered has done what it says to every one of its
\* clips, whatever happened to them since it looked them up: nobody else
\* writes a row it holds.
THEOREM BulkIsAlwaysWhole == Spec => BulkIsWhole
<1>1. LibraryInv /\ [Next]_vars =>
        [\A p \in Proc : Commit(p) =>
           \A c \in On(p) :
             /\ OwnerOf[c] = reqs[p].user /\ ~Deleted(c)
             /\ IF reqs[p].op = "bulk_delete" THEN clips'[c].status = "deleted"
                ELSE clips[c].status = "ready" /\ clips'[c].visibility = reqs[p].to]_vars
  <2>1. SUFFICES ASSUME LibraryInv, NEW p \in Proc, Commit(p), NEW c \in On(p)
        PROVE  /\ OwnerOf[c] = reqs[p].user /\ ~Deleted(c)
               /\ IF reqs[p].op = "bulk_delete" THEN clips'[c].status = "deleted"
                  ELSE clips[c].status = "ready" /\ clips'[c].visibility = reqs[p].to
    OBVIOUS
  <2>2. Types /\ RequestsAreSound /\ OpenClipsHaveALink /\ HeldRowsMatch
    BY <2>1 DEF LibraryInv
  <2>3. On(p) = Held(p) /\ reqs[p].op \in BulkOp
    BY <2>1, <2>2, HoldsAll
  <2>4. Matches(p, c)
    BY <2>2, <2>3 DEF HeldRowsMatch
  <2>5. /\ reqs[p].op = "bulk_delete" => clips'[c].status = "deleted"
        /\ reqs[p].op = "bulk_visibility" => clips'[c].visibility = reqs[p].to
    BY <2>1, <2>2, Committing
  <2>6. CASE reqs[p].op = "bulk_delete"
    BY <2>4, <2>5, <2>6 DEF Matches, OwnedNonDeleted
  <2>7. CASE reqs[p].op = "bulk_visibility"
    BY <2>4, <2>5, <2>7 DEF Matches, OwnedReady, Deleted
  <2>8. QED BY <2>3, <2>6, <2>7 DEF BulkOp
<1>2. QED BY <1>1, LibraryInvariant, PTL DEF Spec, BulkIsWhole

\* The audit log tells of visibility changes and deletes, and of nothing
\* else: it is behind by no more than the requests about to write their row
\* and those that stopped before.
THEOREM AuditAlwaysMatches == Spec => []AuditMatchesChanges
<1>1. LibraryInv => AuditMatchesChanges
  <2>1. SUFFICES ASSUME LibraryInv, NEW c \in Clip
        PROVE  /\ audit[c] <= changed[c]
               /\ changed[c] <= audit[c] + faults
                                + Cardinality({p \in Proc : At(p, "audit") /\ c \in On(p)})
    BY DEF AuditMatchesChanges
  <2> DEFINE A == {p \in Proc : At(p, "audit") /\ c \in On(p)}
  <2>2. A \in SUBSET Proc /\ Owing(c) \in SUBSET A
    BY DEF Owing
  <2>. HIDE DEF A
  <2>3. IsFiniteSet(A)
    BY <2>2, Sizes, FS_Subset
  <2>4. Cardinality(A) \in Nat /\ Cardinality(Owing(c)) <= Cardinality(A)
    BY <2>2, <2>3, FS_Subset, FS_CardinalityType
  <2>5. Cardinality(Owing(c)) \in Nat
    BY OwingIsFinite
  <2>6. /\ audit[c] \in Nat /\ changed[c] \in Nat /\ faults \in Nat
    <3>1. faults \in 0 .. workload.faults
      BY <2>1 DEF LibraryInv, Types
    <3>2. QED BY <2>1, <3>1 DEF LibraryInv, Types
  <2>7. /\ audit[c] + Cardinality(Owing(c)) <= changed[c]
        /\ changed[c] <= audit[c] + faults + Cardinality(Owing(c))
    BY <2>1 DEF LibraryInv, AuditIsOwed
  <2>8. audit[c] <= changed[c] /\ changed[c] <= audit[c] + faults + Cardinality(A)
    BY <2>4, <2>5, <2>6, <2>7
  <2>9. QED BY <2>8 DEF A
<1>2. QED BY <1>1, LibraryInvariant, PTL

\* The newest of a finite set of comments are as many as the limit, once
\* there are that many.
LEMMA NewestCount ==
  ASSUME NEW L \in SUBSET Nat, IsFiniteSet(L), Cardinality(L) >= CommentLimit
  PROVE  Cardinality(Newest(L)) = CommentLimit
<1> DEFINE R == {x \in Nat \X Nat : x[1] > x[2]}
           n == Cardinality(L)
           T == 0 .. n - 1
           U == 0 .. CommentLimit - 1
           f == [x \in L |-> Cardinality(Below(L, R, x))]
           g == [x \in Newest(L) |-> f[x]]
<1>1. \A x, y \in L : <<x, y>> \in R <=> x > y
  OBVIOUS
<1>2. /\ \A x \in L : <<x, x>> \notin R
      /\ \A x, y \in L : x # y => <<x, y>> \in R \/ <<y, x>> \in R
      /\ \A x, y, z \in L : <<x, y>> \in R /\ <<y, z>> \in R => <<x, z>> \in R
  BY <1>1
<1>3. f \in Bijection(L, T)
  <2>. HIDE DEF R
  <2>1. QED BY <1>2, Ranks
<1>4. \A x \in L : Below(L, R, x) = {j \in L : j > x}
  BY <1>1 DEF Below
<1>5. Newest(L) = {x \in L : f[x] < CommentLimit}
  BY <1>4 DEF Newest
<1>6. n \in Nat /\ CommentLimit \in Nat /\ n >= CommentLimit
  BY FS_CardinalityType, LibraryAssumption, ClipsAssumption
<1>7. f \in [L -> T] /\ IsInjective(f) /\ \A t \in T : \E x \in L : f[x] = t
  BY <1>3 DEF Bijection, Injection, Surjection
<1>8. \A t : t \in U <=> t \in T /\ t < CommentLimit
  <2>. HIDE DEF n
  <2>1. QED BY <1>6
<1>9. g \in [Newest(L) -> U]
  <2>. HIDE DEF f, T, U
  <2>1. QED BY <1>5, <1>7, <1>8
<1>10. \A t \in U : \E x \in Newest(L) : g[x] = t
  <2>. HIDE DEF f, T, U
  <2>1. QED BY <1>5, <1>7, <1>8
<1>11. g \in Injection(Newest(L), U)
  <2>. HIDE DEF f, T, U
  <2>1. \A a, b \in Newest(L) : g[a] = g[b] => a = b
    BY <1>5, <1>7 DEF IsInjective
  <2>. HIDE DEF g
  <2>2. DOMAIN g = Newest(L)
    BY <1>9
  <2>3. QED BY <1>9, <2>1, <2>2 DEF Injection, IsInjective
<1>12. g \in Surjection(Newest(L), U)
  BY <1>9, <1>10 DEF Surjection
<1>13. IsFiniteSet(U) /\ Cardinality(U) = CommentLimit
  <2>1. 0 \in Int /\ CommentLimit - 1 \in Int
    BY <1>6
  <2>2. IsFiniteSet(U) /\ Cardinality(U) = IF 0 > CommentLimit - 1 THEN 0 ELSE CommentLimit - 1 - 0 + 1
    BY <2>1, FS_Interval
  <2>3. QED BY <1>6, <2>2
<1>14. QED
  <2>. HIDE DEF g, U
  <2>1. Cardinality(Newest(L)) = Cardinality(U)
    BY <1>11, <1>12, <1>13, FS_Injection
  <2>2. QED BY <1>13, <2>1

\* A listed reply stands under a listed comment of its clip, or under one
\* that only the limit has cut off.
THEOREM ThreadsAreAlwaysSound == Spec => []ThreadsAreSound
<1>1. LibraryInv => ThreadsAreSound
  <2>1. SUFFICES ASSUME LibraryInv, NEW c \in Clip, NEW k \in Thread(c), comments[k].parent # Top
        PROVE  LET parent == comments[k].parent
               IN /\ ~comments[parent].deleted /\ comments[parent].clip = c
                  /\ comments[parent].parent = Top
                  /\ parent \in Thread(c) \/ Cardinality(Thread(c)) = CommentLimit
    BY DEF ThreadsAreSound
  <2> DEFINE L == {j \in 1 .. Len(comments) : LiveUnder(c, j) /\ ParentListed(c, j)}
             parent == comments[k].parent
  <2>2. Thread(c) = Newest(L) /\ Newest(L) = {j \in L : Cardinality({i \in L : i > j}) < CommentLimit}
    BY DEF Thread, Newest
  <2>3. k \in L
    BY <2>1, <2>2
  <2>4. LiveUnder(c, parent) /\ comments[parent].parent = Top
    BY <2>1, <2>3 DEF ParentListed
  <2>5. comments \in Seq(Comment) /\ Len(comments) \in Nat /\ ParentsExist
    BY <2>1 DEF LibraryInv, Types
  <2>6. parent \in 1 .. Len(comments)
    <3>1. comments[k] \in Comment /\ k \in DOMAIN comments
      BY <2>3, <2>5
    <3>2. parent \in Nat /\ parent <= Len(comments)
      BY <2>5, <3>1 DEF Comment, ParentsExist
    <3>3. QED BY <2>1, <2>5, <3>2 DEF Top
  <2>7. parent \in L
    BY <2>4, <2>6 DEF ParentListed
  <2>8. IsFiniteSet(L) /\ L \in SUBSET Nat
    <3>1. L \in SUBSET (1 .. Len(comments)) /\ 1 .. Len(comments) \subseteq Nat
      OBVIOUS
    <3>2. IsFiniteSet(1 .. Len(comments))
      BY <2>5, FS_Interval
    <3>. HIDE DEF L
    <3>3. QED BY <3>1, <3>2, FS_Subset
  <2>9. CASE parent \notin Thread(c)
    <3>1. Cardinality({i \in L : i > parent}) >= CommentLimit
      <4>1. ~(Cardinality({i \in L : i > parent}) < CommentLimit)
        BY <2>2, <2>7, <2>9
      <4>2. Cardinality({i \in L : i > parent}) \in Nat
        <5>1. {i \in L : i > parent} \in SUBSET L
          OBVIOUS
        <5>. HIDE DEF L, parent
        <5>2. QED BY <2>8, <5>1, FS_Subset, FS_CardinalityType
      <4>. HIDE DEF L, parent
      <4>3. QED BY <4>1, <4>2, LibraryAssumption, ClipsAssumption
    <3>2. Cardinality(L) >= CommentLimit
      <4>1. {i \in L : i > parent} \in SUBSET L
        OBVIOUS
      <4>. HIDE DEF L, parent
      <4>2. Cardinality({i \in L : i > parent}) <= Cardinality(L) /\ IsFiniteSet({i \in L : i > parent})
        BY <2>8, <4>1, FS_Subset
      <4>3. Cardinality({i \in L : i > parent}) \in Nat /\ Cardinality(L) \in Nat
        BY <2>8, <4>2, FS_CardinalityType
      <4>4. QED BY <3>1, <4>2, <4>3, LibraryAssumption, ClipsAssumption
    <3>3. Cardinality(Newest(L)) = CommentLimit
      <4>. HIDE DEF L
      <4>1. QED BY <2>8, <3>2, NewestCount
    <3>4. QED BY <2>2, <2>4, <3>3 DEF LiveUnder
  <2>10. CASE parent \in Thread(c)
    BY <2>4, <2>10 DEF LiveUnder
  <2>11. QED BY <2>9, <2>10
<1>2. QED BY <1>1, LibraryInvariant, PTL

-----------------------------------------------------------------------------
(***************************************************************************)
(* Browse: what a reader sees of the library.                              *)
(***************************************************************************)

(* Where a clip stands in a list: the clips before it.                      *)
Earlier(l, ask, c) == {d \in Selected(l, ask) : Before(l, ask.sort, d, c)}
Rank(l, ask, c) == Cardinality(Earlier(l, ask, c))

(* How many clips the pages up to the next one pass over.                   *)
PassedOver(w) == IF w.pc = "query" THEN (w.page - 1) * w.ask.size ELSE w.page * w.ask.size

Paged(w) == w.ask.list \in {"own", "public"}
FromStart(w) == PageOf(w.ask, w.ask.page) = 1
Begun(w) == w.pc \in {"query", "count", "answered", "done"}
Listing(w) == Begun(w) /\ w.ask.list # "games"

(* What left the list or came into it is on record.                         *)
ThroughOK(l, w) ==
  /\ w.through \subseteq Selected(l, w.ask)
  /\ ~w.came => Selected(l, w.ask) \subseteq w.through
  /\ ~w.went => ToSet(w.got) \subseteq Selected(l, w.ask)

(* A clip that was there all along has been shown or is still to come.      *)
NoneMissed(l, w) ==
  Paged(w) /\ FromStart(w) /\ ~w.went =>
    \A c \in w.through :
      \/ c \in ToSet(w.got)
      \/ (w.pc = "query" \/ w.more) /\ PassedOver(w) <= Rank(l, w.ask, c)

(* What has been shown stands before what is still to come, and in order.   *)
NoneRepeated(l, w) ==
  BelowLastPage(w) /\ ~w.came =>
    /\ ~RepeatsIn(w.got)
    /\ Paged(w) =>
         /\ \A c \in ToSet(w.got) \cap Selected(l, w.ask) : Rank(l, w.ask, c) < PassedOver(w)
         /\ \A i, j \in DOMAIN w.got :
              i < j /\ {w.got[i], w.got[j]} \subseteq Selected(l, w.ask) =>
                Before(l, w.ask.sort, w.got[i], w.got[j])

PagesEnd(w) ==
  /\ w.pc = "done" => ~w.more
  /\ w.ask.list = "own" => w.page <= MaxPage
  /\ w.ask.list = "profile" => ~w.more /\ (w.pc = "query" => w.got = <<>>)

(* The numbers of a page whose queries nothing came between.                *)
NumbersOK(l, w) ==
  w.still /\ w.pc # "query" /\ w.ask.list \in {"own", "profile"} =>
    /\ Len(w.rows) <= Cardinality(Selected(l, w.ask))
    /\ w.ask.list = "own" => (w.more <=> Cardinality(Selected(l, w.ask)) > w.page * w.ask.size)
    /\ w.pc # "count" => w.total = Cardinality(Selected(l, w.ask))

WalkInv ==
  /\ Listing(walk) => /\ ThroughOK(lib, walk) /\ NoneMissed(lib, walk) /\ NoneRepeated(lib, walk)
                      /\ PagesEnd(walk) /\ NumbersOK(lib, walk)
  /\ Begun(walk) /\ walk.ask.list = "games" =>
       /\ walk.pc \in {"count", "done"} /\ walk.got = <<>>
       /\ walk.pc = "done" => walk.total = PublicGames

-----------------------------------------------------------------------------
(* Lists and their orders                                                   *)

LEMMA SelectedIsFinite ==
  ASSUME NEW l, LibraryOK(l), NEW ask
  PROVE  /\ Selected(l, ask) \subseteq DOMAIN l.clips /\ Selected(l, ask) \subseteq Clip
         /\ IsFiniteSet(Selected(l, ask)) /\ Cardinality(Selected(l, ask)) \in Nat
         /\ Cardinality(Selected(l, ask)) <= MaxInt
<1>1. Selected(l, ask) \subseteq DOMAIN l.clips /\ DOMAIN l.clips \subseteq Clip
  BY DEF Selected, LibraryOK
<1>2. IsFiniteSet(Clip) /\ Cardinality(Clip) <= MaxInt /\ MaxInt \in Nat
  BY ClipsAssumption, BrowseAssumption
<1>3. /\ IsFiniteSet(Selected(l, ask))
      /\ Cardinality(Selected(l, ask)) <= Cardinality(Clip)
  BY <1>1, <1>2, FS_Subset
<1>4. Cardinality(Selected(l, ask)) \in Nat /\ Cardinality(Clip) \in Nat
  BY <1>2, <1>3, FS_CardinalityType
<1> QED BY <1>1, <1>2, <1>3, <1>4

(* A column of a clip that lists are sorted by is a moment or is missing.   *)
LEMMA SortColumns ==
  ASSUME NEW l, LibraryOK(l), NEW ask, AskOK(ask), NEW c \in DOMAIN l.clips
  PROVE  /\ l.clips[c][ask.sort.column] \in Moments /\ c \in Int
         /\ ask.sort.dir \in {"asc", "desc"}
<1>1. l.clips[c] \in ClipRow /\ ask.sort.column \in SortColumn /\ ask.sort.dir \in {"asc", "desc"}
  BY DEF LibraryOK, AskOK
<1>2. c \in Nat
  BY BrowseAssumption DEF LibraryOK
<1>3. /\ l.clips[c]["recorded"] \in Moments /\ l.clips[c]["uploaded"] \in Moments
      /\ l.clips[c]["duration"] \in Moments /\ l.clips[c]["updated"] \in Moments
  BY <1>1 DEF ClipRow, Moments
<1> QED BY <1>1, <1>2, <1>3 DEF SortColumn

(* Of two clips one stands before the other, and no clip before itself.     *)
LEMMA BeforeIsTotal ==
  ASSUME NEW l, LibraryOK(l), NEW ask, AskOK(ask),
         NEW c \in DOMAIN l.clips, NEW d \in DOMAIN l.clips
  PROVE  /\ ~(Before(l, ask.sort, c, d) /\ Before(l, ask.sort, d, c))
         /\ c # d => Before(l, ask.sort, c, d) \/ Before(l, ask.sort, d, c)
         /\ ~Before(l, ask.sort, c, c)
<1> DEFINE x == l.clips[c][ask.sort.column]
           y == l.clips[d][ask.sort.column]
<1>1. x \in Moments /\ y \in Moments /\ c \in Int /\ d \in Int
  BY SortColumns
<1>2. Null \notin Nat
  BY BrowseAssumption
<1>3. /\ Before(l, ask.sort, c, d) <=> \/ x # Null /\ y = Null
                                       \/ x # Null /\ y # Null /\ Less(ask.sort, x, y)
                                       \/ x = y /\ Less(ask.sort, c, d)
      /\ Before(l, ask.sort, d, c) <=> \/ y # Null /\ x = Null
                                       \/ y # Null /\ x # Null /\ Less(ask.sort, y, x)
                                       \/ y = x /\ Less(ask.sort, d, c)
      /\ Before(l, ask.sort, c, c) <=> \/ x # Null /\ x = Null
                                       \/ x # Null /\ x # Null /\ Less(ask.sort, x, x)
                                       \/ x = x /\ Less(ask.sort, c, c)
  BY DEF Before
<1> HIDE DEF x, y
<1>4. ASSUME NEW a \in Int, NEW b \in Int
      PROVE  /\ ~(Less(ask.sort, a, b) /\ Less(ask.sort, b, a)) /\ ~Less(ask.sort, a, a)
             /\ a # b => Less(ask.sort, a, b) \/ Less(ask.sort, b, a)
  BY DEF Less
<1>5. x = Null \/ x \in Int
  BY <1>1 DEF Moments
<1>6. y = Null \/ y \in Int
  BY <1>1 DEF Moments
<1> QED BY <1>1, <1>2, <1>3, <1>4, <1>5, <1>6

(* What the database returns, for any order it may choose.                  *)
LEMMA OrderOfList ==
  ASSUME NEW l, LibraryOK(l), NEW ask, AskOK(ask), NEW s \in Orders(l, ask)
  PROVE  LET N == Cardinality(Selected(l, ask)) IN
         /\ s \in [1 .. N -> Selected(l, ask)] /\ s \in Seq(Clip) /\ Len(s) = N
         /\ \A c \in Selected(l, ask) : \E i \in 1 .. N : s[i] = c
         /\ \A i, j \in 1 .. N : i < j => Before(l, ask.sort, s[i], s[j])
         /\ \A i, j \in 1 .. N : i # j => s[i] # s[j]
<1> DEFINE N == Cardinality(Selected(l, ask))
<1>1. /\ s \in [1 .. N -> Selected(l, ask)] /\ \A i, j \in 1 .. N : i # j => s[i] # s[j]
      /\ \A i, j \in DOMAIN s : i < j => ~Before(l, ask.sort, s[j], s[i])
  BY DEF Orders, SetToSeqs
<1>2. /\ Selected(l, ask) \subseteq DOMAIN l.clips /\ Selected(l, ask) \subseteq Clip
      /\ IsFiniteSet(Selected(l, ask)) /\ N \in Nat
  BY SelectedIsFinite
<1> HIDE DEF N
<1>3. s \in Seq(Clip) /\ Len(s) = N
  BY <1>1, <1>2
<1>4. s \in Injection(1 .. N, Selected(l, ask))
  BY <1>1 DEF Injection, IsInjective
<1>5. Cardinality(1 .. N) = N /\ IsFiniteSet(1 .. N)
  BY <1>2, FS_Interval
<1>6. s \in Surjection(1 .. N, Selected(l, ask))
  BY <1>2, <1>4, <1>5, FS_Injection DEF N
<1>7. \A c \in Selected(l, ask) : \E i \in 1 .. N : s[i] = c
  BY <1>6 DEF Surjection
<1>8. ASSUME NEW i \in 1 .. N, NEW j \in 1 .. N, i < j PROVE Before(l, ask.sort, s[i], s[j])
  <2>1. s[i] # s[j] /\ ~Before(l, ask.sort, s[j], s[i])
    BY <1>1, <1>8
  <2>2. s[i] \in DOMAIN l.clips /\ s[j] \in DOMAIN l.clips
    BY <1>1, <1>2
  <2> QED BY <2>1, <2>2, BeforeIsTotal
<1> QED BY <1>1, <1>3, <1>7, <1>8 DEF N

(* A clip stands in the list where as many clips are before it.             *)
LEMMA PlaceIsRank ==
  ASSUME NEW l, LibraryOK(l), NEW ask, AskOK(ask), NEW s \in Orders(l, ask),
         NEW j \in 1 .. Cardinality(Selected(l, ask))
  PROVE  Rank(l, ask, s[j]) = j - 1
<1> DEFINE N == Cardinality(Selected(l, ask))
           E == Earlier(l, ask, s[j])
           f == [i \in 1 .. j - 1 |-> s[i]]
<1>1. /\ s \in [1 .. N -> Selected(l, ask)] /\ \A i, k \in 1 .. N : i # k => s[i] # s[k]
      /\ \A c \in Selected(l, ask) : \E i \in 1 .. N : s[i] = c
      /\ \A i, k \in 1 .. N : i < k => Before(l, ask.sort, s[i], s[k])
  BY OrderOfList
<1>2. N \in Nat /\ Selected(l, ask) \subseteq DOMAIN l.clips
  BY SelectedIsFinite
<1> HIDE DEF N
<1>3. j \in 1 .. N
  BY DEF N
<1>4. ASSUME NEW i \in 1 .. j - 1 PROVE s[i] \in E
  <2>1. i \in 1 .. N /\ i < j
    BY <1>2, <1>3
  <2> QED BY <1>1, <1>3, <2>1 DEF Earlier
<1>5. ASSUME NEW c \in E PROVE \E i \in 1 .. j - 1 : s[i] = c
  <2>1. c \in Selected(l, ask) /\ Before(l, ask.sort, c, s[j])
    BY DEF Earlier
  <2>2. PICK i \in 1 .. N : s[i] = c
    BY <1>1, <2>1
  <2>3. c \in DOMAIN l.clips /\ s[j] \in DOMAIN l.clips
    BY <1>1, <1>2, <1>3, <2>1
  <2>4. ~(i >= j)
    BY <1>1, <1>3, <2>1, <2>2, <2>3, BeforeIsTotal
  <2> QED BY <1>2, <1>3, <2>2, <2>4
<1>6. f \in [1 .. j - 1 -> E]
  BY <1>4
<1>7. f \in Surjection(1 .. j - 1, E)
  BY <1>5, <1>6 DEF Surjection
<1>8. f \in Injection(1 .. j - 1, E)
  BY <1>1, <1>2, <1>3, <1>6 DEF Injection, IsInjective
<1>9. Cardinality(1 .. j - 1) = j - 1 /\ IsFiniteSet(1 .. j - 1)
  BY <1>2, <1>3, FS_Interval
<1>10. Cardinality(E) = j - 1
  BY <1>7, <1>8, <1>9, FS_Surjection
<1> QED BY <1>10 DEF Rank
(* How many clips stand before one, and how that moves with the library.    *)
LEMMA RankBounds ==
  ASSUME NEW l, LibraryOK(l), NEW ask, AskOK(ask), NEW c \in Selected(l, ask)
  PROVE  /\ Rank(l, ask, c) \in Nat /\ Rank(l, ask, c) < Cardinality(Selected(l, ask))
         /\ IsFiniteSet(Earlier(l, ask, c))
<1>1. /\ Selected(l, ask) \subseteq DOMAIN l.clips
      /\ IsFiniteSet(Selected(l, ask)) /\ Cardinality(Selected(l, ask)) \in Nat
  BY SelectedIsFinite
<1>2. Earlier(l, ask, c) \subseteq Selected(l, ask)
  BY DEF Earlier
<1>3. c \notin Earlier(l, ask, c)
  BY <1>1, BeforeIsTotal DEF Earlier
<1>4. /\ IsFiniteSet(Earlier(l, ask, c))
      /\ Cardinality(Earlier(l, ask, c)) <= Cardinality(Selected(l, ask))
      /\ Cardinality(Selected(l, ask)) = Cardinality(Earlier(l, ask, c)) => Selected(l, ask) = Earlier(l, ask, c)
  BY <1>1, <1>2, FS_Subset
<1>5. Cardinality(Earlier(l, ask, c)) \in Nat
  BY <1>4, FS_CardinalityType
<1> QED BY <1>1, <1>3, <1>4, <1>5 DEF Rank

Unmoved(l, m, ask) ==
  \A c, d \in Selected(l, ask) \cap Selected(m, ask) :
    Before(l, ask.sort, c, d) <=> Before(m, ask.sort, c, d)

LEMMA RankMoves ==
  ASSUME NEW l, LibraryOK(l), NEW m, LibraryOK(m), NEW ask, AskOK(ask),
         Unmoved(l, m, ask), Selected(l, ask) \subseteq Selected(m, ask),
         NEW c \in Selected(l, ask)
  PROVE  Rank(l, ask, c) <= Rank(m, ask, c)
<1>1. Earlier(l, ask, c) \subseteq Earlier(m, ask, c)
  BY DEF Earlier, Unmoved
<1>2. IsFiniteSet(Earlier(m, ask, c))
  BY RankBounds
<1> QED BY <1>1, <1>2, FS_Subset DEF Rank

-----------------------------------------------------------------------------
(* Types                                                                    *)

LEMMA WalkFields ==
  ASSUME BrowseTypeOK
  PROVE  /\ walk = [pc |-> walk.pc, ask |-> walk.ask, page |-> walk.page, rows |-> walk.rows,
                    got |-> walk.got, more |-> walk.more, total |-> walk.total,
                    still |-> walk.still, through |-> walk.through,
                    came |-> walk.came, went |-> walk.went]
         /\ walk.pc \in {"idle", "query", "count", "answered", "done", "refused"}
         /\ walk.page \in Nat \ {0} /\ walk.rows \in Seq(Clip) /\ walk.got \in Seq(Clip)
         /\ walk.more \in BOOLEAN /\ walk.still \in BOOLEAN
         /\ walk.came \in BOOLEAN /\ walk.went \in BOOLEAN
         /\ walk.through \subseteq Clip /\ walk.ask \in Asks \cup {Null}
         /\ Begun(walk) => walk.ask \in Asks /\ AskOK(walk.ask)
BY BrowseAssumption DEF BrowseTypeOK, Begun

LEMMA PageIsPositive ==
  ASSUME NEW ask, NEW page \in Int
  PROVE  PageOf(ask, page) \in Nat \ {0}
BY BrowseAssumption DEF PageOf

(* Nothing but a change of the library writes the tables.                   *)
LEMMA InitTypes == BrowseInit => BrowseTypeOK
<1> SUFFICES ASSUME BrowseInit PROVE BrowseTypeOK
  OBVIOUS
<1>1. LibraryOK(lib)
  BY BrowseAssumption DEF BrowseInit
<1>2. walk.rows \in Seq(Clip) /\ walk.got \in Seq(Clip)
  BY DEF BrowseInit, NoWalk
<1> QED BY <1>1, <1>2 DEF BrowseInit, BrowseTypeOK, NoWalk

LEMMA RowIsWritten ==
  ASSUME BrowseTypeOK, NEW c \in DOMAIN lib.clips, NEW row \in ClipRow
  PROVE  LibraryOK(Set(c, row))
<1>1. Now \in Nat
  BY DEF BrowseTypeOK, Now, Epoch
<1> DEFINE new == [row EXCEPT !.updated = Now]
<1>2. new \in ClipRow
  BY <1>1 DEF ClipRow
<1>3. /\ lib = [clips |-> lib.clips, category |-> lib.category] /\ lib.category \in [Game -> Category]
      /\ DOMAIN lib.clips \subseteq Clip /\ lib.clips \in [DOMAIN lib.clips -> ClipRow]
  BY DEF BrowseTypeOK, LibraryOK
<1>4. Set(c, row) = [clips |-> [lib.clips EXCEPT ![c] = new], category |-> lib.category]
  BY <1>3 DEF Set
<1> HIDE DEF new
<1>5. [lib.clips EXCEPT ![c] = new] \in [DOMAIN lib.clips -> ClipRow]
  BY <1>2, <1>3
<1> QED BY <1>3, <1>4, <1>5 DEF LibraryOK

(* Every change of the library leaves clips that are clips.                 *)
Changes ==
  \/ \E c \in Clip :
       \/ \E game \in Game \cup {Null} : Create(c, Null, game)
       \/ Finalize(c) \/ MarkClipReady(c) \/ SoftDelete(c) \/ UpdateProbeMetadata(c, 2)
       \/ \E visibility \in {"private", "unlisted", "public"} : SetVisibility(c, visibility)
       \/ \E title \in Titles, recorded \in {Null, Now} : UpdateMetadata(c, title, recorded)
  \/ \E game \in Game, category \in Category : Regroup(game, category)

LEMMA ChangesKeepTables ==
  ASSUME BrowseTypeOK, Changes
  PROVE  \E l : LibraryOK(l) /\ Change(l)
<1>1. Now \in Nat /\ Now \in Moments /\ Null \in Moments /\ 2 \in Moments
  BY DEF BrowseTypeOK, Now, Epoch, Moments
<1>2. /\ lib = [clips |-> lib.clips, category |-> lib.category] /\ lib.category \in [Game -> Category]
      /\ DOMAIN lib.clips \subseteq Clip /\ lib.clips \in [DOMAIN lib.clips -> ClipRow]
  BY DEF BrowseTypeOK, LibraryOK
<1>3. ASSUME NEW c \in Clip, NEW game \in Game \cup {Null}, Create(c, Null, game)
      PROVE  \E l : LibraryOK(l) /\ Change(l)
  <2> DEFINE row == [status |-> "created", visibility |-> "private", shared |-> FALSE,
                     recorded |-> Null, uploaded |-> Null, duration |-> Null, created |-> Now,
                     updated |-> Now, title |-> <<>>, game |-> game]
             table == [d \in DOMAIN lib.clips \cup {c} |-> IF d # c THEN lib.clips[d] ELSE row]
             new == [clips |-> table, category |-> lib.category]
  <2>1. <<>> \in Text
    BY DEF Text
  <2>2. row \in ClipRow
    BY <1>1, <2>1 DEF ClipRow
  <2>3. table \in [DOMAIN lib.clips \cup {c} -> ClipRow]
    <3> HIDE DEF row
    <3> QED BY <1>2, <2>2
  <2>4. Change([lib EXCEPT !.clips = table])
    BY <1>3 DEF Create
  <2> HIDE DEF table
  <2>5. [lib EXCEPT !.clips = table] = new
    BY <1>2
  <2>6. LibraryOK(new)
    BY <1>2, <2>3 DEF LibraryOK
  <2> QED BY <2>4, <2>5, <2>6
<1>4. ASSUME NEW c \in Clip, NEW row \in ClipRow, c \in DOMAIN lib.clips, Change(Set(c, row))
      PROVE  \E l : LibraryOK(l) /\ Change(l)
  BY <1>4, RowIsWritten
<1>5. ASSUME NEW c \in DOMAIN lib.clips
      PROVE  lib.clips[c] \in ClipRow
  BY <1>2
<1>6. ASSUME NEW c \in Clip, Finalize(c)
      PROVE  \E l : LibraryOK(l) /\ Change(l)
  <2>1. c \in DOMAIN lib.clips
    BY <1>6 DEF Finalize, Live
  <2>2. [lib.clips[c] EXCEPT !.status = "processing", !.uploaded = Now] \in ClipRow
    BY <1>1, <1>5, <2>1 DEF ClipRow
  <2> QED BY <1>4, <1>6, <2>1, <2>2 DEF Finalize
<1>7. ASSUME NEW c \in Clip, MarkClipReady(c)
      PROVE  \E l : LibraryOK(l) /\ Change(l)
  <2>1. c \in DOMAIN lib.clips
    BY <1>7 DEF MarkClipReady, Live
  <2>2. [lib.clips[c] EXCEPT !.status = "ready"] \in ClipRow
    BY <1>5, <2>1 DEF ClipRow
  <2> QED BY <1>4, <1>7, <2>1, <2>2 DEF MarkClipReady
<1>8. ASSUME NEW c \in Clip, SoftDelete(c)
      PROVE  \E l : LibraryOK(l) /\ Change(l)
  <2>1. c \in DOMAIN lib.clips
    BY <1>8 DEF SoftDelete, Live
  <2>2. [lib.clips[c] EXCEPT !.status = "deleted"] \in ClipRow
    BY <1>5, <2>1 DEF ClipRow
  <2> QED BY <1>4, <1>8, <2>1, <2>2 DEF SoftDelete
<1>9. ASSUME NEW c \in Clip, UpdateProbeMetadata(c, 2)
      PROVE  \E l : LibraryOK(l) /\ Change(l)
  <2>1. c \in DOMAIN lib.clips
    BY <1>9 DEF UpdateProbeMetadata, Live
  <2>2. [lib.clips[c] EXCEPT !.duration = 2] \in ClipRow
    BY <1>1, <1>5, <2>1 DEF ClipRow
  <2> QED BY <1>4, <1>9, <2>1, <2>2 DEF UpdateProbeMetadata
<1>10. ASSUME NEW c \in Clip, NEW visibility \in {"private", "unlisted", "public"},
              SetVisibility(c, visibility)
       PROVE  \E l : LibraryOK(l) /\ Change(l)
  <2>1. c \in DOMAIN lib.clips
    BY <1>10 DEF SetVisibility, Live
  <2>2. [lib.clips[c] EXCEPT !.visibility = visibility, !.shared = visibility # "private"] \in ClipRow
    BY <1>5, <2>1 DEF ClipRow
  <2> QED BY <1>4, <1>10, <2>1, <2>2 DEF SetVisibility
<1>11. ASSUME NEW c \in Clip, NEW title \in Titles, NEW recorded \in {Null, Now},
              UpdateMetadata(c, title, recorded)
       PROVE  \E l : LibraryOK(l) /\ Change(l)
  <2>1. c \in DOMAIN lib.clips /\ title \in Text
    BY <1>11, BrowseAssumption DEF UpdateMetadata, Live
  <2>2. [lib.clips[c] EXCEPT !.title = title, !.recorded = recorded] \in ClipRow
    BY <1>1, <1>5, <2>1 DEF ClipRow
  <2> QED BY <1>4, <1>11, <2>1, <2>2 DEF UpdateMetadata
<1>12. ASSUME NEW game \in Game, NEW category \in Category, Regroup(game, category)
       PROVE  \E l : LibraryOK(l) /\ Change(l)
  <2> DEFINE new == [clips |-> lib.clips, category |-> [lib.category EXCEPT ![game] = category]]
  <2>1. [lib EXCEPT !.category[game] = category] = new
    BY <1>2
  <2>2. LibraryOK(new)
    BY <1>2 DEF LibraryOK
  <2> QED BY <1>12, <2>1, <2>2 DEF Regroup
<1> QED BY <1>3, <1>6, <1>7, <1>8, <1>9, <1>10, <1>11, <1>12 DEF Changes
-----------------------------------------------------------------------------
(* Pages                                                                    *)

LEMMA MinOfTwo ==
  ASSUME NEW a \in Int, NEW b \in Int
  PROVE  Min({a, b}) \in {a, b} /\ Min({a, b}) <= a /\ Min({a, b}) <= b
<1>1. \E x \in {a, b} : \A y \in {a, b} : x <= y
  OBVIOUS
<1>2. Min({a, b}) \in {a, b} /\ \A y \in {a, b} : Min({a, b}) <= y
  BY <1>1 DEF Min
<1> QED BY <1>2

(* The rows of a page, without the one that shows whether there are more.   *)
Shown(ask, rows) ==
  IF ask.list = "profile" \/ Len(rows) <= ask.size THEN rows ELSE SubSeq(rows, 1, ask.size)

LEMMA PageSizes ==
  ASSUME NEW ask, AskOK(ask), NEW page \in Nat \ {0}
  PROVE  /\ ask.size \in Nat \ {0} /\ (page - 1) * ask.size \in Nat
         /\ page * ask.size = (page - 1) * ask.size + ask.size
         /\ page * ask.size \in Nat
         /\ OffsetOf(ask, page) \in Nat /\ OffsetOf(ask, page) <= (page - 1) * ask.size
         /\ OffsetOf(ask, page) < (page - 1) * ask.size => OffsetOf(ask, page) = MaxInt
<1>1. ask.size \in Nat \ {0}
  BY DEF AskOK
<1>2. PICK k \in Nat : page = k + 1
  OBVIOUS
<1>3. k * ask.size \in Nat
  BY <1>1
<1>4. page * ask.size = k * ask.size + ask.size /\ page - 1 = k
  BY <1>1, <1>2
<1> HIDE <1>2
<1>5. (page - 1) * ask.size \in Nat /\ page * ask.size = (page - 1) * ask.size + ask.size
  BY <1>3, <1>4
<1>6. page * ask.size \in Nat
  BY <1>1, <1>5
<1>7. MaxInt \in Nat
  BY BrowseAssumption
<1> DEFINE o == (page - 1) * ask.size
<1>8. OffsetOf(ask, page) = IF ask.list = "own" /\ o > MaxInt THEN MaxInt ELSE o
  BY DEF OffsetOf
<1>9. o \in Nat
  BY <1>5
<1> HIDE DEF o
<1>10. OffsetOf(ask, page) \in Nat /\ OffsetOf(ask, page) <= o /\ (OffsetOf(ask, page) < o => OffsetOf(ask, page) = MaxInt)
  BY <1>7, <1>8, <1>9
<1> QED BY <1>1, <1>5, <1>6, <1>10 DEF o

(* A page is a piece of the order, and the row beyond it tells of more.     *)
LEMMA PageOfOrder ==
  ASSUME NEW l, LibraryOK(l), NEW ask, AskOK(ask), NEW order \in Orders(l, ask),
         NEW page \in Nat \ {0}
  PROVE  LET N == Cardinality(Selected(l, ask))
             off == (page - 1) * ask.size
             rows == Window(order, ask, page)
             shown == Shown(ask, rows)
         IN /\ rows \in Seq(Clip) /\ shown \in Seq(Clip) /\ Len(shown) <= N
            /\ \A i \in 1 .. Len(shown) : off + i \in 1 .. N /\ shown[i] = order[off + i]
            /\ ask.list # "profile" =>
                 /\ Len(shown) <= ask.size
                 /\ Len(rows) > ask.size <=> N > off + ask.size
                 /\ Len(rows) > ask.size => Len(shown) = ask.size
                 /\ ~(Len(rows) > ask.size) => \A j \in 1 .. N : j > off => j - off \in 1 .. Len(shown)
<1> DEFINE N == Cardinality(Selected(l, ask))
           off == (page - 1) * ask.size
           o == OffsetOf(ask, page)
           e == Min({o + LimitOf(ask), Len(order)})
           rows == Window(order, ask, page)
           shown == Shown(ask, rows)
           size == ask.size
<1>1. N \in Nat /\ N <= MaxInt /\ MaxInt \in Nat
  BY SelectedIsFinite, BrowseAssumption
<1>2. order \in Seq(Clip) /\ Len(order) = N
  BY OrderOfList
<1>3. /\ size \in Nat \ {0} /\ off \in Nat /\ o \in Nat /\ o <= off
      /\ o < off => o = MaxInt
  BY PageSizes
<1>4. LimitOf(ask) \in Nat /\ (ask.list # "profile" => LimitOf(ask) = size + 1)
  BY <1>3, BrowseAssumption DEF LimitOf
<1> HIDE DEF N, off, o, size
<1>5. /\ e \in {o + LimitOf(ask), N} /\ e <= o + LimitOf(ask) /\ e <= N /\ e \in Nat
  <2>1. o + LimitOf(ask) \in Nat
    BY <1>3, <1>4
  <2>2. LET m == Min({o + LimitOf(ask), Len(order)}) IN
        m \in {o + LimitOf(ask), Len(order)} /\ m <= o + LimitOf(ask) /\ m <= Len(order)
    <3> DEFINE a == o + LimitOf(ask)
               b == Len(order)
    <3>1. a \in Int /\ b \in Int
      BY <1>1, <1>2, <2>1
    <3> HIDE DEF a, b
    <3>2. Min({a, b}) \in {a, b} /\ Min({a, b}) <= a /\ Min({a, b}) <= b
      BY <3>1, MinOfTwo
    <3> QED BY <3>2 DEF a, b
  <2> QED BY <1>1, <1>2, <2>1, <2>2
<1>6. rows = SubSeq(order, o + 1, e)
  BY DEF Window, o
<1> HIDE DEF e, rows
<1>7. \A i \in o + 1 .. e : order[i] \in Clip
  BY <1>1, <1>2, <1>3, <1>5
<1>8. /\ rows \in Seq(Clip) /\ Len(rows) = IF o + 1 <= e THEN e - o ELSE 0
      /\ \A i \in 1 .. e - o : rows[i] = order[o + i]
  <2>1. o + 1 \in Int /\ e \in Int
    BY <1>3, <1>5
  <2>2. /\ SubSeq(order, o + 1, e) \in Seq(Clip)
        /\ Len(SubSeq(order, o + 1, e)) = IF o + 1 <= e THEN e - (o + 1) + 1 ELSE 0
        /\ \A i \in 1 .. e - (o + 1) + 1 : SubSeq(order, o + 1, e)[i] = order[o + 1 + i - 1]
    BY <1>7, <2>1, SubSeqProperties
  <2> QED BY <1>3, <1>5, <1>6, <2>2
<1>9. Len(rows) \in Nat /\ Len(rows) <= N /\ (Len(rows) > 0 => o = off)
  BY <1>1, <1>3, <1>5, <1>8
<1>10. CASE ask.list = "profile" \/ Len(rows) <= size
  <2>1. shown = rows
    BY <1>10 DEF Shown, size
  <2>2. ask.list # "profile" => e = N
    BY <1>1, <1>3, <1>4, <1>5, <1>8, <1>10
  <2>3. \A i \in 1 .. Len(shown) : off + i \in 1 .. N /\ shown[i] = order[off + i]
    BY <1>1, <1>3, <1>5, <1>8, <1>9, <2>1
  <2>4. ASSUME ask.list # "profile"
        PROVE  /\ ~(Len(rows) > size) /\ ~(N > off + size) /\ Len(shown) <= size
               /\ \A j \in 1 .. N : j > off => j - off \in 1 .. Len(shown)
    BY <1>1, <1>3, <1>5, <1>8, <1>9, <1>10, <2>1, <2>2, <2>4
  <2> QED BY <1>8, <1>9, <2>1, <2>3, <2>4 DEF N, off, size, rows
<1>11. CASE ask.list # "profile" /\ Len(rows) > size
  <2>1. shown = SubSeq(rows, 1, size)
    BY <1>3, <1>9, <1>11 DEF Shown, size
  <2>2. \A i \in 1 .. size : rows[i] \in Clip
    BY <1>3, <1>8, <1>11
  <2>3. /\ shown \in Seq(Clip) /\ Len(shown) = size
        /\ \A i \in 1 .. size : shown[i] = rows[i]
    <3>1. /\ SubSeq(rows, 1, size) \in Seq(Clip)
          /\ Len(SubSeq(rows, 1, size)) = IF 1 <= size THEN size - 1 + 1 ELSE 0
          /\ \A i \in 1 .. size - 1 + 1 : SubSeq(rows, 1, size)[i] = rows[1 + i - 1]
      BY <1>3, <2>2, SubSeqProperties
    <3> QED BY <1>3, <2>1, <3>1
  <2>4. Len(rows) = e - o /\ o = off /\ e = off + size + 1 /\ e <= N
    <3>1. LimitOf(ask) = size + 1
      BY <1>4, <1>11
    <3>2. o + 1 <= e /\ Len(rows) = e - o
      BY <1>3, <1>5, <1>8, <1>11
    <3>3. o = off
      BY <1>3, <1>9, <1>11
    <3> QED BY <1>1, <1>3, <1>5, <1>11, <3>1, <3>2, <3>3
  <2>5. \A i \in 1 .. size : off + i \in 1 .. N /\ shown[i] = order[off + i]
    <3> SUFFICES ASSUME NEW i \in 1 .. size
                 PROVE  off + i \in 1 .. N /\ shown[i] = order[off + i]
      OBVIOUS
    <3>1. i \in 1 .. e - o /\ shown[i] = rows[i]
      BY <1>3, <1>5, <2>3, <2>4
    <3>2. rows[i] = order[o + i] /\ off + i \in 1 .. N
      BY <1>1, <1>3, <1>5, <1>8, <2>4, <3>1
    <3> QED BY <2>4, <3>1, <3>2
  <2>6. N > off + size /\ size <= N
    BY <1>1, <1>3, <1>5, <2>4
  <2> QED BY <1>3, <1>8, <1>9, <1>11, <2>3, <2>5, <2>6 DEF N, off, size, rows
<1> QED BY <1>3, <1>9, <1>10, <1>11
(* What a list has depends on the database, which stays the same.           *)
LEMMA SameSelection ==
  ASSUME database' = database, NEW l, NEW ask
  PROVE  Selected(l, ask)' = Selected(l, ask)
<1>1. ASSUME NEW text PROVE Lower(text)' = Lower(text)
  BY DEF Lower
<1>2. ASSUME NEW c, NEW q PROVE Finds(l, c, q)' = Finds(l, c, q)
  BY <1>1 DEF Finds
<1>3. ASSUME NEW c, NEW name, NEW value PROVE SatisfiesPublic(l, c, name, value)' = SatisfiesPublic(l, c, name, value)
  BY <1>2 DEF SatisfiesPublic
<1>4. ASSUME NEW c, NEW name, NEW value PROVE Satisfies(l, c, name, value)' = Satisfies(l, c, name, value)
  BY <1>3 DEF Satisfies
<1>5. ASSUME NEW c PROVE Passes(l, c, ask.list, ask.filter)' = Passes(l, c, ask.list, ask.filter)
  BY <1>3, <1>4 DEF Passes, PassesOwn, PassesPublic
<1> QED BY <1>5 DEF Selected

LEMMA SameWalk ==
  ASSUME database' = database, NEW l, NEW w
  PROVE  /\ ThroughOK(l, w)' <=> ThroughOK(l, w)
         /\ NoneMissed(l, w)' <=> NoneMissed(l, w)
         /\ NoneRepeated(l, w)' <=> NoneRepeated(l, w)
         /\ NumbersOK(l, w)' <=> NumbersOK(l, w)
<1>1. Selected(l, w.ask)' = Selected(l, w.ask)
  BY SameSelection
<1>2. ASSUME NEW c PROVE Rank(l, w.ask, c)' = Rank(l, w.ask, c)
  BY <1>1 DEF Rank, Earlier
<1> QED BY <1>1, <1>2 DEF ThroughOK, NoneMissed, NoneRepeated, NumbersOK

(* The next page of a list.                                                 *)
LEMMA ToSetOfConcat ==
  ASSUME NEW s \in Seq(Clip), NEW t \in Seq(Clip)
  PROVE  /\ s \o t \in Seq(Clip) /\ DOMAIN (s \o t) = 1 .. Len(s) + Len(t)
         /\ \A i \in DOMAIN (s \o t) :
              \/ i \in DOMAIN s /\ (s \o t)[i] = s[i]
              \/ i - Len(s) \in DOMAIN t /\ i > Len(s) /\ (s \o t)[i] = t[i - Len(s)]
         /\ ToSet(s \o t) = ToSet(s) \cup ToSet(t)
<1>1. /\ s \o t \in Seq(Clip) /\ Len(s \o t) = Len(s) + Len(t)
      /\ \A i \in 1 .. Len(s) + Len(t) : (s \o t)[i] = IF i <= Len(s) THEN s[i] ELSE t[i - Len(s)]
  BY ConcatProperties
<1>2. DOMAIN (s \o t) = 1 .. Len(s) + Len(t) /\ DOMAIN s = 1 .. Len(s) /\ DOMAIN t = 1 .. Len(t)
      /\ Len(s) \in Nat /\ Len(t) \in Nat
  BY <1>1
<1> DEFINE u == s \o t
<1> HIDE DEF u
<1>3. \A i \in DOMAIN u : \/ i \in DOMAIN s /\ u[i] = s[i]
                          \/ i - Len(s) \in DOMAIN t /\ i > Len(s) /\ u[i] = t[i - Len(s)]
  BY <1>1, <1>2 DEF u
<1>4. \A i \in DOMAIN s : i \in DOMAIN u /\ u[i] = s[i]
  BY <1>1, <1>2 DEF u
<1>5. \A i \in DOMAIN t : i + Len(s) \in DOMAIN u /\ u[i + Len(s)] = t[i]
  BY <1>1, <1>2 DEF u
<1>6. ToSet(u) = ToSet(s) \cup ToSet(t)
  BY <1>3, <1>4, <1>5 DEF ToSet
<1> QED BY <1>1, <1>2, <1>3, <1>6 DEF u

LEMMA QueryStep ==
  ASSUME BrowseTypeOK, WalkInv, Query
  PROVE  BrowseTypeOK' /\ WalkInv'
<1> DEFINE ask == walk.ask
           page == walk.page
           off == (page - 1) * ask.size
           N == Cardinality(Selected(lib, ask))
           got == walk.got
           w == walk'
<1>1. /\ walk.pc = "query" /\ Begun(walk) /\ ask.list # "games" /\ Listing(walk)
  BY DEF Query, Begun, Listing, WalkInv
<1>2. /\ page \in Nat \ {0} /\ got \in Seq(Clip) /\ AskOK(ask) /\ ask \in Asks
      /\ walk.came \in BOOLEAN /\ walk.went \in BOOLEAN /\ walk.through \subseteq Clip
  BY <1>1, WalkFields
<1>3. LibraryOK(lib) /\ lib' = lib /\ changes' = changes /\ database' = database
  BY DEF BrowseTypeOK, Query
<1>4. PICK order \in Orders(lib, ask) :
        LET rows == Window(order, ask, page)
        IN w = [walk EXCEPT
            !.pc = IF ask.list = "public" THEN "answered" ELSE "count",
            !.rows = Shown(ask, rows), !.got = @ \o Shown(ask, rows),
            !.more = ask.list # "profile" /\ Len(rows) > ask.size, !.still = TRUE]
  BY DEF Query, Shown
<1> DEFINE rows == Window(order, ask, page)
           shown == Shown(ask, rows)
<1>5. /\ w.pc = IF ask.list = "public" THEN "answered" ELSE "count"
      /\ w.rows = shown /\ w.got = got \o shown
      /\ w.more = (ask.list # "profile" /\ Len(rows) > ask.size) /\ w.still = TRUE
      /\ w.ask = ask /\ w.page = page /\ w.through = walk.through
      /\ w.came = walk.came /\ w.went = walk.went /\ w.total = walk.total
      /\ w = [pc |-> w.pc, ask |-> ask, page |-> page, rows |-> shown, got |-> w.got,
              more |-> w.more, total |-> w.total, still |-> TRUE, through |-> walk.through,
              came |-> walk.came, went |-> walk.went]
  <2> HIDE DEF shown, w
  <2>1. w = [walk EXCEPT !.pc = IF ask.list = "public" THEN "answered" ELSE "count",
            !.rows = shown, !.got = @ \o shown,
            !.more = ask.list # "profile" /\ Len(rows) > ask.size, !.still = TRUE]
    BY <1>4 DEF shown
  <2> QED BY <2>1, WalkFields
<1>6. /\ shown \in Seq(Clip) /\ Len(shown) <= N
      /\ \A i \in 1 .. Len(shown) : off + i \in 1 .. N /\ shown[i] = order[off + i]
      /\ ask.list # "profile" =>
           /\ Len(shown) <= ask.size
           /\ Len(rows) > ask.size <=> N > off + ask.size
           /\ Len(rows) > ask.size => Len(shown) = ask.size
           /\ ~(Len(rows) > ask.size) => \A j \in 1 .. N : j > off => j - off \in 1 .. Len(shown)
  BY <1>2, <1>3, PageOfOrder
<1>7. /\ off \in Nat /\ ask.size \in Nat \ {0} /\ page * ask.size = off + ask.size
  BY <1>2, PageSizes
<1>8. N \in Nat
  BY <1>3, SelectedIsFinite
<1>9. /\ order \in [1 .. N -> Selected(lib, ask)]
      /\ \A c \in Selected(lib, ask) : \E i \in 1 .. N : order[i] = c
      /\ \A i, j \in 1 .. N : i < j => Before(lib, ask.sort, order[i], order[j])
      /\ \A i, j \in 1 .. N : i # j => order[i] # order[j]
  BY <1>2, <1>3, OrderOfList
<1>10. \A j \in 1 .. N : Rank(lib, ask, order[j]) = j - 1
  BY <1>2, <1>3, PlaceIsRank
<1>11. /\ w.got \in Seq(Clip)
       /\ \A i \in DOMAIN w.got :
            \/ i \in DOMAIN got /\ w.got[i] = got[i]
            \/ i - Len(got) \in DOMAIN shown /\ i > Len(got) /\ w.got[i] = shown[i - Len(got)]
       /\ ToSet(w.got) = ToSet(got) \cup ToSet(shown)
       /\ DOMAIN shown = 1 .. Len(shown) /\ Len(shown) \in Nat
       /\ DOMAIN got = 1 .. Len(got) /\ Len(got) \in Nat /\ DOMAIN w.got \subseteq Nat
  <2> HIDE DEF got, shown, w
  <2>1. /\ got \o shown \in Seq(Clip) /\ DOMAIN (got \o shown) = 1 .. Len(got) + Len(shown)
        /\ \A i \in DOMAIN (got \o shown) :
             \/ i \in DOMAIN got /\ (got \o shown)[i] = got[i]
             \/ i - Len(got) \in DOMAIN shown /\ i > Len(got) /\ (got \o shown)[i] = shown[i - Len(got)]
        /\ ToSet(got \o shown) = ToSet(got) \cup ToSet(shown)
    BY <1>2, <1>6, ToSetOfConcat
  <2>2. /\ DOMAIN shown = 1 .. Len(shown) /\ Len(shown) \in Nat
        /\ DOMAIN got = 1 .. Len(got) /\ Len(got) \in Nat
    BY <1>2, <1>6
  <2>3. DOMAIN (got \o shown) \subseteq Nat
    BY <2>1, <2>2
  <2>4. w.got = got \o shown
    BY <1>5
  <2> QED BY <2>1, <2>2, <2>3, <2>4
<1>12. PassedOver(walk) = off /\ PassedOver(w) = off + ask.size
  BY <1>1, <1>5, <1>7 DEF PassedOver
<1>13. /\ ThroughOK(lib, walk) /\ NoneMissed(lib, walk) /\ NoneRepeated(lib, walk)
       /\ PagesEnd(walk)
  BY <1>1 DEF WalkInv
<1>14. BrowseTypeOK'
  <2>1. w.more \in BOOLEAN
    BY <1>5
  <2>2. w.ask \in Asks /\ w.pc \in {"answered", "count"}
    BY <1>2, <1>5
  <2> QED BY <1>2, <1>3, <1>5, <1>6, <1>11, <2>1, <2>2 DEF BrowseTypeOK
<1> HIDE DEF ask, page, off, N, got, w, rows, shown
<1>15. ToSet(shown) \subseteq Selected(lib, ask)
  BY <1>6, <1>9, <1>11 DEF ToSet
<1>16. ThroughOK(lib, w)
  BY <1>5, <1>11, <1>13, <1>15 DEF ThroughOK, ask, got
<1>17. NoneMissed(lib, w)
  <2> SUFFICES ASSUME Paged(w), FromStart(w), ~w.went, NEW c \in w.through, c \notin ToSet(w.got)
               PROVE  w.more /\ PassedOver(w) <= Rank(lib, w.ask, c)
    BY DEF NoneMissed
  <2>1. Paged(walk) /\ FromStart(walk) /\ ~walk.went /\ c \in walk.through /\ c \notin ToSet(got)
    BY <1>5, <1>11 DEF Paged, FromStart, ask
  <2>2. off <= Rank(lib, ask, c) /\ c \in Selected(lib, ask)
    BY <1>12, <1>13, <2>1 DEF NoneMissed, ThroughOK, ask, got
  <2>3. PICK j \in 1 .. N : order[j] = c
    BY <1>9, <2>2
  <2>4. j > off /\ Rank(lib, ask, c) = j - 1
    BY <1>7, <1>8, <1>10, <2>2, <2>3
  <2>5. ask.list # "profile" /\ j - off \notin 1 .. Len(shown)
    <3>1. ASSUME j - off \in 1 .. Len(shown) PROVE FALSE
      <4>1. shown[j - off] = order[off + (j - off)] /\ off + (j - off) = j
        BY <1>6, <1>7, <1>8, <3>1
      <4> QED BY <1>11, <2>3, <3>1, <4>1 DEF ToSet
    <3> QED BY <2>1, <3>1 DEF Paged, ask
  <2>6. w.more /\ Len(shown) = ask.size
    BY <1>5, <1>6, <2>4, <2>5
  <2> QED BY <1>5, <1>7, <1>8, <1>12, <2>4, <2>5, <2>6
<1>18. NoneRepeated(lib, w)
  <2> SUFFICES ASSUME BelowLastPage(w), ~w.came
               PROVE  /\ ~RepeatsIn(w.got)
                      /\ Paged(w) =>
                         /\ \A c \in ToSet(w.got) \cap Selected(lib, ask) : Rank(lib, ask, c) < off + ask.size
                         /\ \A i, j \in DOMAIN w.got :
                              i < j /\ {w.got[i], w.got[j]} \subseteq Selected(lib, ask) =>
                                Before(lib, ask.sort, w.got[i], w.got[j])
    BY <1>5, <1>12 DEF NoneRepeated
  <2>1. /\ ~RepeatsIn(got)
        /\ Paged(w) => /\ \A c \in ToSet(got) \cap Selected(lib, ask) : Rank(lib, ask, c) < off
                       /\ \A i, j \in DOMAIN got :
                            i < j /\ {got[i], got[j]} \subseteq Selected(lib, ask) =>
                              Before(lib, ask.sort, got[i], got[j])
    <3>1. BelowLastPage(walk) /\ ~walk.came /\ (Paged(walk) <=> Paged(w))
      BY <1>5 DEF BelowLastPage, Paged, ask, page
    <3> QED BY <1>12, <1>13, <3>1 DEF NoneRepeated, ask, got
  <2>2. ASSUME NEW k \in DOMAIN shown
        PROVE  /\ off + k \in 1 .. N /\ shown[k] = order[off + k] /\ shown[k] \in Selected(lib, ask)
               /\ Rank(lib, ask, shown[k]) = off + k - 1
    <3>1. off + k \in 1 .. N /\ shown[k] = order[off + k]
      BY <1>6, <1>11
    <3> DEFINE j == off + k
    <3>2. j \in 1 .. N
      BY <3>1
    <3> HIDE DEF j
    <3>3. order[j] \in Selected(lib, ask) /\ Rank(lib, ask, order[j]) = j - 1
      BY <1>9, <1>10, <3>2
    <3>4. shown[k] = order[j]
      BY <3>1 DEF j
    <3>5. shown[k] \in Selected(lib, ask) /\ Rank(lib, ask, shown[k]) = j - 1
      BY <3>3, <3>4
    <3> QED BY <1>7, <1>11, <3>1, <3>5 DEF j
  <2>3. CASE ~Paged(w)
    <3>1. got = <<>>
      BY <1>1, <1>5, <1>13, <1>2, <2>3 DEF PagesEnd, Paged, ask, got, AskOK
    <3>2. ASSUME NEW i \in DOMAIN w.got PROVE i \in DOMAIN shown /\ w.got[i] = shown[i]
      BY <1>11, <3>1
    <3>3. ASSUME NEW i \in DOMAIN w.got, NEW j \in DOMAIN w.got, i < j PROVE w.got[i] # w.got[j]
      <4>1. /\ i \in DOMAIN shown /\ w.got[i] = shown[i]
            /\ j \in DOMAIN shown /\ w.got[j] = shown[j]
        BY <3>2
      <4>2. off + i # off + j
        BY <1>7, <1>11, <3>3
      <4> QED BY <1>9, <2>2, <4>1, <4>2
    <3> QED BY <2>3, <3>3 DEF RepeatsIn
  <2>4. CASE Paged(w)
    <3>1. \A c \in ToSet(w.got) \cap Selected(lib, ask) : Rank(lib, ask, c) < off + ask.size
      <4> SUFFICES ASSUME NEW c \in ToSet(w.got), c \in Selected(lib, ask)
                   PROVE  Rank(lib, ask, c) < off + ask.size
        OBVIOUS
      <4>1. CASE c \in ToSet(got)
        <5>1. Rank(lib, ask, c) < off /\ Rank(lib, ask, c) \in Nat
          BY <1>2, <1>3, <2>1, <2>4, <4>1, RankBounds DEF ask
        <5> QED BY <1>7, <5>1
      <4>2. CASE c \in ToSet(shown)
        <5>1. PICK k \in DOMAIN shown : shown[k] = c
          BY <4>2 DEF ToSet
        <5>2. Rank(lib, ask, c) = off + k - 1 /\ k \in 1 .. Len(shown)
          BY <1>11, <2>2, <5>1
        <5>3. Len(shown) <= ask.size
          BY <1>5, <1>6, <2>4 DEF Paged
        <5> QED BY <1>7, <1>11, <5>2, <5>3
      <4> QED BY <1>11, <4>1, <4>2
    <3>2. ASSUME NEW i \in DOMAIN w.got, NEW j \in DOMAIN w.got, i < j
          PROVE  /\ w.got[i] # w.got[j]
                 /\ {w.got[i], w.got[j]} \subseteq Selected(lib, ask) =>
                      Before(lib, ask.sort, w.got[i], w.got[j])
      <4>1. CASE j \in DOMAIN got /\ w.got[j] = got[j]
        <5>1. i \in DOMAIN got /\ w.got[i] = got[i]
          BY <1>11, <3>2, <4>1
        <5> QED BY <2>1, <2>4, <3>2, <4>1, <5>1 DEF RepeatsIn
      <4>2. CASE j - Len(got) \in DOMAIN shown /\ j > Len(got) /\ w.got[j] = shown[j - Len(got)]
        <5> DEFINE k == j - Len(got)
        <5>1. k \in DOMAIN shown /\ w.got[j] = shown[k]
          BY <4>2
        <5> HIDE DEF k
        <5>2. /\ off + k \in 1 .. N /\ w.got[j] = order[off + k] /\ w.got[j] \in Selected(lib, ask)
              /\ Rank(lib, ask, w.got[j]) = off + k - 1
          BY <2>2, <5>1
        <5>3. CASE i \in DOMAIN got /\ w.got[i] = got[i]
          <6>1. CASE w.got[i] \notin Selected(lib, ask)
            BY <5>2, <6>1
          <6>2. CASE w.got[i] \in Selected(lib, ask)
            <7>1. Rank(lib, ask, w.got[i]) < off
              BY <2>1, <2>4, <5>3, <6>2 DEF ToSet
            <7>2. PICK m \in 1 .. N : order[m] = w.got[i]
              BY <1>9, <6>2
            <7>3. m - 1 < off
              BY <1>10, <7>1, <7>2
            <7>4. m < off + k
              BY <1>7, <1>8, <1>11, <5>1, <7>2, <7>3
            <7> QED BY <1>9, <5>2, <7>2, <7>4
          <6> QED BY <6>1, <6>2
        <5>4. CASE i - Len(got) \in DOMAIN shown /\ i > Len(got) /\ w.got[i] = shown[i - Len(got)]
          <6> DEFINE m == i - Len(got)
          <6>1. m \in DOMAIN shown /\ w.got[i] = shown[m]
            BY <5>4
          <6>2. m < k
            BY <1>11, <3>2, <4>2, <5>4 DEF k
          <6> HIDE DEF m
          <6>3. off + m \in 1 .. N /\ w.got[i] = order[off + m]
            BY <2>2, <6>1
          <6>4. off + m < off + k
            BY <1>7, <1>11, <5>1, <6>1, <6>2
          <6> QED BY <1>9, <5>2, <6>3, <6>4
        <5> QED BY <1>11, <5>3, <5>4
      <4> QED BY <1>11, <4>1, <4>2
    <3> QED BY <3>1, <3>2 DEF RepeatsIn
  <2> QED BY <2>3, <2>4
<1>19. PagesEnd(w)
  BY <1>5, <1>13 DEF PagesEnd, ask, page
<1>20. NumbersOK(lib, w)
  BY <1>5, <1>6, <1>7 DEF NumbersOK, ask, N
<1>21. w.ask.list # "games"
  BY <1>1, <1>5 DEF ask
<1>22. /\ ThroughOK(lib', walk') /\ NoneMissed(lib', walk') /\ NoneRepeated(lib', walk')
       /\ PagesEnd(walk') /\ NumbersOK(lib', walk') /\ walk'.ask.list # "games"
  BY <1>3, <1>16, <1>17, <1>18, <1>19, <1>20, <1>21 DEF w
<1>23. WalkInv'
  <2>1. /\ ThroughOK(lib, walk)' /\ NoneMissed(lib, walk)' /\ NoneRepeated(lib, walk)'
        /\ NumbersOK(lib, walk)'
    BY <1>3, <1>22, SameWalk
  <2> QED BY <1>22, <2>1 DEF WalkInv
<1> QED BY <1>14, <1>23
(* A walk begins with nothing shown and everything to come.                 *)
LEMMA BeginListStep ==
  ASSUME BrowseTypeOK, NEW ask \in Asks, BeginList(ask)
  PROVE  BrowseTypeOK' /\ WalkInv'
<1>1. /\ AskOK(ask) /\ LibraryOK(lib) /\ lib' = lib /\ changes' = changes /\ database' = database
      /\ ask.list # "games"
  BY BrowseAssumption DEF BeginList, BrowseTypeOK
<1>2. CASE Refused(ask, ask.page)
  <2>1. walk' = [walk EXCEPT !.pc = "refused"]
    BY <1>2 DEF BeginList
  <2>2. walk'.pc = "refused" /\ BrowseTypeOK'
    BY <1>1, <2>1, WalkFields DEF BrowseTypeOK
  <2> QED BY <2>2 DEF WalkInv, Listing, Begun
<1>3. CASE ~Refused(ask, ask.page)
  <2> DEFINE w == walk'
             page == PageOf(ask, ask.page)
             sel == Selected(lib, ask)
  <2>1. walk' = [NoWalk EXCEPT !.pc = "query", !.ask = ask, !.page = page, !.through = sel]
    BY <1>3 DEF BeginList
  <2>2. w = [pc |-> "query", ask |-> ask, page |-> page, rows |-> <<>>, got |-> <<>>,
             more |-> FALSE, total |-> 0, still |-> TRUE, through |-> sel,
             came |-> FALSE, went |-> FALSE]
    BY <2>1 DEF NoWalk
  <2>3. page \in Nat \ {0}
    BY <1>1, PageIsPositive DEF AskOK
  <2>4. sel \subseteq Clip /\ \A c \in sel : Rank(lib, ask, c) \in Nat
    BY <1>1, SelectedIsFinite, RankBounds
  <2>5. ask.size \in Nat \ {0} /\ (ask.list = "own" => page <= MaxPage)
    BY <1>1, BrowseAssumption DEF AskOK, PageOf
  <2>6. PageOf(ask, ask.page) = page
    OBVIOUS
  <2> HIDE DEF w, page, sel
  <2>7. BrowseTypeOK'
    <3>1. walk'.rows \in Seq(Clip) /\ walk'.got \in Seq(Clip)
      BY <2>2 DEF w
    <3> QED BY <1>1, <2>2, <2>3, <2>4, <3>1 DEF BrowseTypeOK, w
  <2>8. ToSet(w.got) = {} /\ ~RepeatsIn(w.got) /\ DOMAIN w.got = {}
    BY <2>2 DEF ToSet, RepeatsIn
  <2>9. ThroughOK(lib, w)
    BY <2>2, <2>8 DEF ThroughOK, sel
  <2>10. NoneMissed(lib, w)
    <3> SUFFICES ASSUME FromStart(w), NEW c \in w.through
                 PROVE  w.pc = "query" /\ PassedOver(w) <= Rank(lib, w.ask, c)
      BY DEF NoneMissed
    <3>1. page = 1
      BY <2>2, <2>6 DEF FromStart
    <3>2. PassedOver(w) = (page - 1) * ask.size /\ page - 1 = 0
      BY <2>2, <3>1 DEF PassedOver
    <3>3. PassedOver(w) = 0
      BY <2>5, <3>2
    <3> QED BY <2>2, <2>4, <3>3
  <2>11. NoneRepeated(lib, w)
    BY <2>8 DEF NoneRepeated
  <2>12. PagesEnd(w)
    BY <2>2, <2>5 DEF PagesEnd
  <2>13. NumbersOK(lib, w)
    BY <2>2 DEF NumbersOK
  <2>14. /\ ThroughOK(lib, walk)' /\ NoneMissed(lib, walk)' /\ NoneRepeated(lib, walk)'
         /\ NumbersOK(lib, walk)' /\ PagesEnd(walk)' /\ walk'.ask.list # "games"
    BY <1>1, <2>2, <2>9, <2>10, <2>11, <2>12, <2>13, SameWalk DEF w
  <2> QED BY <2>7, <2>14 DEF WalkInv
<1> QED BY <1>2, <1>3

LEMMA BeginGamesStep ==
  ASSUME BrowseTypeOK, NEW ask \in Asks, BeginGames(ask)
  PROVE  BrowseTypeOK' /\ WalkInv'
<1>1. walk' = [NoWalk EXCEPT !.pc = "count", !.ask = ask] /\ ask.list = "games"
  BY DEF BeginGames
<1>2. walk' = [pc |-> "count", ask |-> ask, page |-> 1, rows |-> <<>>, got |-> <<>>,
               more |-> FALSE, total |-> 0, still |-> TRUE, through |-> {},
               came |-> FALSE, went |-> FALSE]
  BY <1>1 DEF NoWalk
<1>3. lib' = lib /\ changes' = changes /\ database' = database
  BY DEF BeginGames
<1>4. walk'.rows \in Seq(Clip) /\ walk'.got \in Seq(Clip)
  BY <1>2
<1>5. BrowseTypeOK'
  BY <1>2, <1>3, <1>4 DEF BrowseTypeOK
<1>6. walk'.ask = ask /\ walk'.pc = "count" /\ walk'.got = <<>>
  BY <1>2
<1> QED BY <1>1, <1>5, <1>6 DEF WalkInv, Listing

(* The numbers are those of the list.                                       *)
LEMMA CountStep ==
  ASSUME BrowseTypeOK, WalkInv, Count
  PROVE  BrowseTypeOK' /\ WalkInv'
<1> DEFINE ask == walk.ask
           w == walk'
<1>1. /\ walk.pc = "count" /\ ask.list # "games" /\ Listing(walk) /\ Begun(walk)
      /\ lib' = lib /\ changes' = changes /\ database' = database
  BY DEF Count, Listing, Begun
<1>2. AskOK(ask) /\ ask \in Asks /\ LibraryOK(lib)
  BY <1>1, WalkFields DEF BrowseTypeOK
<1>3. PICK total : /\ w = [walk EXCEPT !.pc = "answered", !.total = total]
                   /\ total = IF ask.list = "own" THEN StatsForOwner(ask) ELSE CountPublicForOwner(ask.who)
  BY DEF Count
<1>4. w = [pc |-> "answered", ask |-> walk.ask, page |-> walk.page, rows |-> walk.rows,
           got |-> walk.got, more |-> walk.more, total |-> total,
           still |-> walk.still, through |-> walk.through, came |-> walk.came, went |-> walk.went]
  <2> HIDE DEF w
  <2> QED BY <1>3, WalkFields
<1>5. /\ ThroughOK(lib, walk) /\ NoneMissed(lib, walk) /\ NoneRepeated(lib, walk)
      /\ PagesEnd(walk) /\ NumbersOK(lib, walk)
  BY <1>1 DEF WalkInv
<1>6. ask.list \in {"own", "profile"} => total = Cardinality(Selected(lib, ask))
  <2>1. CASE ask.list = "own"
    BY <1>3, <2>1 DEF StatsForOwner
  <2>2. CASE ask.list = "profile"
    <3>1. DOMAIN ask.filter = {}
      BY <1>2, <2>2 DEF AskOK
    <3>2. \A c : Passes(lib, c, ask.list, ask.filter)
      BY <2>2, <3>1 DEF Passes, PassesPublic
    <3>3. Selected(lib, ask) =
            {c \in DOMAIN lib.clips :
              /\ lib.clips[c].visibility = "public" /\ lib.clips[c].status = "ready"
              /\ lib.clips[c].shared /\ OwnerOf[c] = ask.who}
      BY <2>2, <3>2 DEF Selected, InList, InPublicList
    <3> QED BY <1>3, <2>2, <3>3 DEF CountPublicForOwner
  <2> QED BY <2>1, <2>2
<1> HIDE DEF w
<1>7. BrowseTypeOK'
  <2>1. walk' = [pc |-> "answered", ask |-> walk.ask, page |-> walk.page, rows |-> walk.rows,
           got |-> walk.got, more |-> walk.more, total |-> total,
           still |-> walk.still, through |-> walk.through, came |-> walk.came, went |-> walk.went]
    BY <1>4 DEF w
  <2> QED BY <1>1, <1>2, <2>1, WalkFields DEF BrowseTypeOK
<1>8. PassedOver(w) = PassedOver(walk)
  BY <1>1, <1>4 DEF PassedOver
<1>9. /\ ThroughOK(lib, w) /\ PagesEnd(w)
  BY <1>1, <1>4, <1>5 DEF ThroughOK, PagesEnd
<1>10. NoneMissed(lib, w)
  BY <1>1, <1>4, <1>5, <1>8 DEF NoneMissed, Paged, FromStart
<1>11. NoneRepeated(lib, w)
  BY <1>1, <1>4, <1>5, <1>8 DEF NoneRepeated, BelowLastPage, Paged
<1>12. NumbersOK(lib, w)
  BY <1>1, <1>4, <1>5, <1>6 DEF NumbersOK
<1>13. /\ ThroughOK(lib, walk)' /\ NoneMissed(lib, walk)' /\ NoneRepeated(lib, walk)'
       /\ NumbersOK(lib, walk)' /\ PagesEnd(walk)' /\ walk'.ask.list # "games"
  BY <1>1, <1>4, <1>9, <1>10, <1>11, <1>12, SameWalk DEF w
<1> QED BY <1>7, <1>13 DEF WalkInv

LEMMA ListGamesStep ==
  ASSUME BrowseTypeOK, WalkInv, ListGames
  PROVE  BrowseTypeOK' /\ WalkInv'
<1>1. /\ walk.pc = "count" /\ walk.ask.list = "games" /\ Begun(walk)
      /\ lib' = lib /\ changes' = changes /\ database' = database
  BY DEF ListGames, Begun
<1>2. walk' = [walk EXCEPT !.pc = "done", !.total = PublicGames, !.still = TRUE]
  BY DEF ListGames
<1>3. walk' = [pc |-> "done", ask |-> walk.ask, page |-> walk.page, rows |-> walk.rows,
               got |-> walk.got, more |-> walk.more, total |-> PublicGames,
               still |-> TRUE, through |-> walk.through, came |-> walk.came, went |-> walk.went]
  BY <1>2, WalkFields
<1>4. PublicGames' = PublicGames
  BY <1>1 DEF PublicGames
<1>5. BrowseTypeOK'
  BY <1>1, <1>3, WalkFields DEF BrowseTypeOK
<1>6. walk.got = <<>>
  BY <1>1 DEF WalkInv
<1>7. walk'.ask.list = "games" /\ walk'.pc = "done" /\ walk'.got = <<>> /\ walk'.total = PublicGames'
  BY <1>1, <1>3, <1>4, <1>6
<1> QED BY <1>5, <1>7 DEF WalkInv, Listing

(* The walk goes on behind the page it has, or ends with the last.          *)
LEMMA NextPageStep ==
  ASSUME BrowseTypeOK, WalkInv, NextPage
  PROVE  BrowseTypeOK' /\ WalkInv'
<1> DEFINE ask == walk.ask
           page == PageOf(ask, walk.page + 1)
           w == walk'
           to == IF Refused(ask, walk.page + 1) THEN "refused" ELSE "query"
<1>1. /\ walk.pc = "answered" /\ walk.more /\ Begun(walk) /\ ask.list # "games" /\ Listing(walk)
      /\ lib' = lib /\ changes' = changes /\ database' = database
  BY DEF NextPage, Listing, Begun, WalkInv
<1>2. /\ AskOK(ask) /\ ask \in Asks /\ LibraryOK(lib) /\ walk.page \in Nat \ {0}
      /\ walk.got \in Seq(Clip) /\ walk.through \subseteq Clip
  BY <1>1, WalkFields DEF BrowseTypeOK
<1>3. w = [pc |-> to, ask |-> walk.ask, page |-> page, rows |-> walk.rows,
           got |-> walk.got, more |-> walk.more, total |-> walk.total,
           still |-> walk.still, through |-> walk.through, came |-> walk.came, went |-> walk.went]
  BY WalkFields DEF NextPage
<1>4. /\ ThroughOK(lib, walk) /\ NoneMissed(lib, walk) /\ NoneRepeated(lib, walk) /\ PagesEnd(walk)
  BY <1>1 DEF WalkInv
<1>5. /\ page \in Nat \ {0} /\ MaxPage \in Nat /\ page <= walk.page + 1
      /\ ask.list = "own" => page <= MaxPage
      /\ (ask.list = "own" => page < MaxPage) => page = walk.page + 1
      /\ (ask.list = "own" => walk.page <= MaxPage)
      /\ ask.list # "own" => page = walk.page + 1
  BY <1>2, <1>4, BrowseAssumption DEF PageOf, PagesEnd
<1> HIDE DEF page, w, to
<1>6. ask.list \in {"own", "public"}
  BY <1>1, <1>2, <1>4 DEF PagesEnd, AskOK
<1>7. BrowseTypeOK'
  <2>1. walk' = [pc |-> to, ask |-> walk.ask, page |-> page, rows |-> walk.rows,
           got |-> walk.got, more |-> walk.more, total |-> walk.total,
           still |-> walk.still, through |-> walk.through, came |-> walk.came, went |-> walk.went]
    BY <1>3 DEF w
  <2>2. to \in {"query", "refused"}
    BY DEF to
  <2> QED BY <1>1, <1>2, <1>5, <2>1, <2>2, WalkFields DEF BrowseTypeOK
<1>8. CASE to = "refused"
  <2>1. walk'.pc = "refused"
    BY <1>3, <1>8 DEF w
  <2> QED BY <1>7, <2>1 DEF WalkInv, Listing, Begun
<1>9. CASE to = "query"
  <2> DEFINE size == ask.size
  <2>1. /\ size \in Nat \ {0} /\ walk.page * size \in Nat /\ (page - 1) * size \in Nat
    BY <1>2, <1>5, PageSizes
  <2>2. PassedOver(walk) = walk.page * size /\ PassedOver(w) = (page - 1) * size
    BY <1>1, <1>3, <1>9 DEF PassedOver
  <2>3. (page - 1) * size <= walk.page * size
    <3>1. PICK k \in Nat : walk.page = (page - 1) + k
      <4>1. walk.page - (page - 1) \in Nat
        BY <1>2, <1>5
      <4> QED BY <1>2, <1>5, <4>1
    <3> DEFINE p == page - 1
    <3>2. p \in Nat
      BY <1>5
    <3> HIDE DEF p, size
    <3>3. (p + k) * size = p * size + k * size /\ k * size \in Nat /\ p * size \in Nat
      BY <2>1, <3>2
    <3>4. walk.page = p + k
      BY <3>1 DEF p
    <3> QED BY <3>2, <3>3, <3>4 DEF p
  <2> HIDE DEF size
  <2>4. ThroughOK(lib, w)
    BY <1>3, <1>4 DEF ThroughOK
  <2>5. NoneMissed(lib, w)
    <3> SUFFICES ASSUME FromStart(w), ~w.went, NEW c \in w.through, c \notin ToSet(w.got)
                 PROVE  w.pc = "query" /\ PassedOver(w) <= Rank(lib, w.ask, c)
      BY DEF NoneMissed
    <3>1. walk.page * size <= Rank(lib, ask, c) /\ c \in Selected(lib, ask)
      BY <1>1, <1>3, <1>4, <1>6, <2>2 DEF NoneMissed, Paged, FromStart, ThroughOK
    <3>2. Rank(lib, ask, c) \in Nat
      BY <1>2, <3>1, RankBounds
    <3> QED BY <1>3, <1>9, <2>1, <2>2, <2>3, <3>1, <3>2
  <2>6. NoneRepeated(lib, w)
    <3> SUFFICES ASSUME BelowLastPage(w), ~w.came
                 PROVE  /\ ~RepeatsIn(w.got)
                        /\ \A c \in ToSet(w.got) \cap Selected(lib, w.ask) : Rank(lib, w.ask, c) < PassedOver(w)
                        /\ \A i, j \in DOMAIN w.got :
                             i < j /\ {w.got[i], w.got[j]} \subseteq Selected(lib, w.ask) =>
                               Before(lib, w.ask.sort, w.got[i], w.got[j])
      BY DEF NoneRepeated
    <3>1. page = walk.page + 1 /\ (ask.list = "own" => page < MaxPage)
      BY <1>3, <1>5 DEF BelowLastPage
    <3>2. PassedOver(w) = PassedOver(walk)
      <4>1. page - 1 = walk.page
        BY <1>2, <3>1
      <4> QED BY <2>2, <4>1
    <3>3. BelowLastPage(walk) /\ ~walk.came /\ Paged(walk)
      BY <1>2, <1>3, <1>5, <1>6, <3>1 DEF BelowLastPage, Paged
    <3> QED BY <1>3, <1>4, <3>2, <3>3 DEF NoneRepeated
  <2>7. PagesEnd(w)
    BY <1>3, <1>5, <1>6, <1>9 DEF PagesEnd
  <2>8. NumbersOK(lib, w)
    BY <1>3, <1>9 DEF NumbersOK
  <2>9. /\ ThroughOK(lib, walk)' /\ NoneMissed(lib, walk)' /\ NoneRepeated(lib, walk)'
        /\ NumbersOK(lib, walk)' /\ PagesEnd(walk)' /\ walk'.ask.list # "games"
    BY <1>1, <1>3, <2>4, <2>5, <2>6, <2>7, <2>8, SameWalk DEF w
  <2> QED BY <1>7, <2>9 DEF WalkInv
<1> QED BY <1>8, <1>9 DEF to

LEMMA FinishStep ==
  ASSUME BrowseTypeOK, WalkInv, Finish
  PROVE  BrowseTypeOK' /\ WalkInv'
<1> DEFINE ask == walk.ask
           w == walk'
<1>1. /\ walk.pc = "answered" /\ ~walk.more /\ Begun(walk) /\ ask.list # "games" /\ Listing(walk)
      /\ lib' = lib /\ changes' = changes /\ database' = database
  BY DEF Finish, Listing, Begun, WalkInv
<1>2. w = [pc |-> "done", ask |-> walk.ask, page |-> walk.page, rows |-> walk.rows,
           got |-> walk.got, more |-> walk.more, total |-> walk.total,
           still |-> walk.still, through |-> walk.through, came |-> walk.came, went |-> walk.went]
  BY WalkFields DEF Finish
<1>3. /\ ThroughOK(lib, walk) /\ NoneMissed(lib, walk) /\ NoneRepeated(lib, walk)
      /\ PagesEnd(walk) /\ NumbersOK(lib, walk)
  BY <1>1 DEF WalkInv
<1>4. BrowseTypeOK'
  BY <1>1, <1>2, WalkFields DEF BrowseTypeOK
<1> HIDE DEF w
<1>5. PassedOver(w) = PassedOver(walk)
  BY <1>1, <1>2 DEF PassedOver
<1>6. ThroughOK(lib, w) /\ PagesEnd(w)
  BY <1>1, <1>2, <1>3 DEF ThroughOK, PagesEnd
<1>7. NoneMissed(lib, w)
  BY <1>1, <1>2, <1>3, <1>5 DEF NoneMissed, Paged, FromStart
<1>8. NoneRepeated(lib, w)
  BY <1>1, <1>2, <1>3, <1>5 DEF NoneRepeated, BelowLastPage, Paged
<1>9. NumbersOK(lib, w)
  BY <1>1, <1>2, <1>3 DEF NumbersOK
<1>10. /\ ThroughOK(lib, walk)' /\ NoneMissed(lib, walk)' /\ NoneRepeated(lib, walk)'
       /\ NumbersOK(lib, walk)' /\ PagesEnd(walk)' /\ walk'.ask.list # "games"
  BY <1>1, <1>2, <1>6, <1>7, <1>8, <1>9, SameWalk DEF w
<1> QED BY <1>4, <1>10 DEF WalkInv
(* What a change of the library does to a walk is on record.                *)
LEMMA NullIsNoAsk == Null \notin Asks
BY BrowseAssumption DEF AskOK

LEMMA ChangeStep ==
  ASSUME BrowseTypeOK, WalkInv, NEW l, LibraryOK(l), Change(l)
  PROVE  BrowseTypeOK' /\ WalkInv'
<1> DEFINE ask == walk.ask
           w == walk'
           was == Selected(lib, ask)
           is == Selected(l, ask)
<1>1. /\ walk.pc \in {"query", "count", "answered"} /\ Begun(walk)
      /\ lib' = l /\ changes' = changes + 1 /\ database' = database /\ w = Disturbed(walk, l)
  BY DEF Change, Begun
<1>2. /\ AskOK(ask) /\ ask \in Asks /\ ask # Null /\ LibraryOK(lib) /\ walk.through \subseteq Clip
      /\ walk.came \in BOOLEAN /\ walk.went \in BOOLEAN
  <2>1. ask \in Asks /\ AskOK(ask)
    BY <1>1, WalkFields
  <2>2. CASE ask = Null
    <3>1. w = [walk EXCEPT !.still = FALSE]
      BY <1>1, <2>2 DEF Disturbed
    <3> QED BY <2>1, <2>2, NullIsNoAsk
  <2> QED BY <2>1, <2>2, WalkFields DEF BrowseTypeOK
<1>3. CASE ask.list = "games"
  <2>1. w = [walk EXCEPT !.still = FALSE]
    BY <1>1, <1>3 DEF Disturbed
  <2>2. w = [pc |-> walk.pc, ask |-> walk.ask, page |-> walk.page, rows |-> walk.rows,
             got |-> walk.got, more |-> walk.more, total |-> walk.total,
             still |-> FALSE, through |-> walk.through, came |-> walk.came, went |-> walk.went]
    BY <2>1, WalkFields
  <2>3. walk.pc = "count" /\ walk.got = <<>>
    BY <1>1, <1>3 DEF WalkInv
  <2>4. BrowseTypeOK'
    BY <1>1, <1>2, <2>2, WalkFields DEF BrowseTypeOK, LibraryOK
  <2>5. walk'.ask.list = "games" /\ walk'.pc = "count" /\ walk'.got = <<>>
    BY <1>3, <2>2, <2>3
  <2> QED BY <2>4, <2>5 DEF WalkInv, Listing
<1>4. CASE ask.list # "games"
  <2> DEFINE moved == \E c, d \in was \cap is : Before(lib, ask.sort, c, d) # Before(l, ask.sort, c, d)
  <2>1. w = [walk EXCEPT !.still = FALSE, !.through = @ \cap is,
                 !.came = @ \/ moved \/ ~(is \subseteq was), !.went = @ \/ moved \/ ~(was \subseteq is)]
    BY <1>1, <1>2, <1>4 DEF Disturbed
  <2>2. w = [pc |-> walk.pc, ask |-> walk.ask, page |-> walk.page, rows |-> walk.rows,
             got |-> walk.got, more |-> walk.more, total |-> walk.total,
             still |-> FALSE, through |-> walk.through \cap is,
             came |-> (walk.came \/ moved \/ ~(is \subseteq was)),
             went |-> (walk.went \/ moved \/ ~(was \subseteq is))]
    <3> HIDE DEF w, moved, was, is
    <3> QED BY <2>1, WalkFields
  <2>3. ~moved => Unmoved(lib, l, ask) /\ Unmoved(l, lib, ask)
    BY DEF Unmoved
  <2>4. /\ ThroughOK(lib, walk) /\ NoneMissed(lib, walk) /\ NoneRepeated(lib, walk)
        /\ PagesEnd(walk)
    BY <1>1, <1>4 DEF WalkInv, Listing
  <2>5. BrowseTypeOK'
    <3> HIDE DEF moved, was, is
    <3>1. walk' = [pc |-> walk.pc, ask |-> walk.ask, page |-> walk.page, rows |-> walk.rows,
             got |-> walk.got, more |-> walk.more, total |-> walk.total,
             still |-> FALSE, through |-> walk.through \cap is,
             came |-> (walk.came \/ moved \/ ~(is \subseteq was)),
             went |-> (walk.went \/ moved \/ ~(was \subseteq is))]
      BY <2>2
    <3>2. walk'.came \in BOOLEAN /\ walk'.went \in BOOLEAN /\ walk'.through \subseteq Clip
      BY <1>2, <3>1
    <3>3. LibraryOK(lib)'
      BY <1>1 DEF LibraryOK
    <3> QED BY <1>1, <1>2, <3>1, <3>2, <3>3, WalkFields DEF BrowseTypeOK
  <2> HIDE DEF w, moved, was, is
  <2>6. PassedOver(w) = PassedOver(walk)
    BY <2>2 DEF PassedOver
  <2>7. ThroughOK(l, w)
    <3>1. /\ walk.through \subseteq was /\ (~walk.came => was \subseteq walk.through)
          /\ (~walk.went => ToSet(walk.got) \subseteq was)
      BY <2>4 DEF ThroughOK, was
    <3> QED BY <1>2, <2>2, <3>1 DEF ThroughOK, is
  <2>8. NoneMissed(l, w)
    <3> SUFFICES ASSUME Paged(w), FromStart(w), ~w.went, NEW c \in w.through, c \notin ToSet(w.got)
                 PROVE  (w.pc = "query" \/ w.more) /\ PassedOver(w) <= Rank(l, w.ask, c)
      BY DEF NoneMissed
    <3>1. ~walk.went /\ ~moved /\ was \subseteq is /\ c \in walk.through
      BY <1>2, <2>2
    <3>2. /\ walk.pc = "query" \/ walk.more
          /\ PassedOver(walk) <= Rank(lib, ask, c) /\ c \in was
      BY <2>2, <2>4, <3>1 DEF NoneMissed, Paged, FromStart, ThroughOK, was
    <3>3. Rank(lib, ask, c) <= Rank(l, ask, c)
      BY <1>2, <2>3, <3>1, <3>2, RankMoves DEF was, is
    <3>4. Rank(lib, ask, c) \in Nat /\ Rank(l, ask, c) \in Nat /\ PassedOver(walk) \in Nat
      BY <1>1, <1>2, <3>1, <3>2, RankBounds, PageSizes, WalkFields DEF was, is, PassedOver
    <3> QED BY <2>2, <2>6, <3>2, <3>3, <3>4
  <2>9. NoneRepeated(l, w)
    <3> SUFFICES ASSUME BelowLastPage(w), ~w.came
                 PROVE  /\ ~RepeatsIn(w.got)
                        /\ Paged(w) =>
                           /\ \A c \in ToSet(w.got) \cap Selected(l, w.ask) : Rank(l, w.ask, c) < PassedOver(w)
                           /\ \A i, j \in DOMAIN w.got :
                                i < j /\ {w.got[i], w.got[j]} \subseteq Selected(l, w.ask) =>
                                  Before(l, w.ask.sort, w.got[i], w.got[j])
      BY DEF NoneRepeated
    <3>1. ~walk.came /\ ~moved /\ is \subseteq was
      BY <1>2, <2>2
    <3>2. /\ ~RepeatsIn(walk.got)
          /\ Paged(walk) =>
               /\ \A c \in ToSet(walk.got) \cap was : Rank(lib, ask, c) < PassedOver(walk)
               /\ \A i, j \in DOMAIN walk.got :
                    i < j /\ {walk.got[i], walk.got[j]} \subseteq was =>
                      Before(lib, ask.sort, walk.got[i], walk.got[j])
      BY <2>2, <2>4, <3>1 DEF NoneRepeated, BelowLastPage, was
    <3>3. ASSUME Paged(w), NEW c \in ToSet(walk.got), c \in is
          PROVE  Rank(l, ask, c) < PassedOver(walk)
      <4>1. Rank(l, ask, c) <= Rank(lib, ask, c)
        BY <1>2, <2>3, <3>1, <3>3, RankMoves DEF was, is
      <4>2. Rank(lib, ask, c) < PassedOver(walk)
        BY <2>2, <3>1, <3>2, <3>3 DEF Paged
      <4>3. Rank(lib, ask, c) \in Nat /\ Rank(l, ask, c) \in Nat /\ PassedOver(walk) \in Nat
        BY <1>1, <1>2, <3>1, <3>3, RankBounds, PageSizes, WalkFields DEF was, is, PassedOver
      <4> QED BY <4>1, <4>2, <4>3
    <3>4. ASSUME Paged(w), NEW i \in DOMAIN walk.got, NEW j \in DOMAIN walk.got,
                 i < j, {walk.got[i], walk.got[j]} \subseteq is
          PROVE  Before(l, ask.sort, walk.got[i], walk.got[j])
      BY <2>2, <2>3, <3>1, <3>2, <3>4 DEF Unmoved, Paged, was, is
    <3> QED BY <2>2, <2>6, <3>2, <3>3, <3>4 DEF is
  <2>10. PagesEnd(w)
    BY <2>2, <2>4 DEF PagesEnd
  <2>11. NumbersOK(l, w)
    BY <2>2 DEF NumbersOK
  <2>12. /\ ThroughOK(lib, walk)' /\ NoneMissed(lib, walk)' /\ NoneRepeated(lib, walk)'
         /\ NumbersOK(lib, walk)' /\ PagesEnd(walk)' /\ walk'.ask.list # "games"
    BY <1>1, <1>4, <2>2, <2>7, <2>8, <2>9, <2>10, <2>11, SameWalk DEF w
  <2> QED BY <2>5, <2>12 DEF WalkInv
<1> QED BY <1>3, <1>4

-----------------------------------------------------------------------------
(* Theorems                                                                 *)

\* The steps a reader takes, and the changes of the library.
LEMMA StepKeepsWalk ==
  ASSUME BrowseTypeOK, WalkInv, [BrowseNext]_browseVars
  PROVE  BrowseTypeOK' /\ WalkInv'
<1>1. ASSUME NEW ask \in Asks, BeginList(ask) PROVE BrowseTypeOK' /\ WalkInv'
  BY <1>1, BeginListStep
<1>2. ASSUME NEW ask \in Asks, BeginGames(ask) PROVE BrowseTypeOK' /\ WalkInv'
  BY <1>2, BeginGamesStep
<1>3. CASE Changes
  <2>1. PICK l : LibraryOK(l) /\ Change(l)
    BY <1>3, ChangesKeepTables
  <2> QED BY <2>1, ChangeStep
<1>4. CASE UNCHANGED browseVars
  <2>1. lib' = lib /\ walk' = walk /\ database' = database /\ changes' = changes
    BY <1>4 DEF browseVars
  <2>2. PublicGames' = PublicGames
    BY <2>1 DEF PublicGames
  <2>3. /\ ThroughOK(lib, walk)' <=> ThroughOK(lib, walk)
        /\ NoneMissed(lib, walk)' <=> NoneMissed(lib, walk)
        /\ NoneRepeated(lib, walk)' <=> NoneRepeated(lib, walk)
        /\ NumbersOK(lib, walk)' <=> NumbersOK(lib, walk)
    BY <2>1, SameWalk
  <2>4. BrowseTypeOK'
    BY <2>1 DEF BrowseTypeOK, LibraryOK
  <2> QED BY <2>1, <2>2, <2>3, <2>4 DEF WalkInv, Listing, Begun, PagesEnd
<1> QED BY <1>1, <1>2, <1>3, <1>4, QueryStep, CountStep, ListGamesStep, NextPageStep, FinishStep
        DEF BrowseNext, Changes
(* What a walk has shown stands before the offset of its next page, and what *)
(* it has not shown and is still there at or behind it, by the number of    *)
(* clips before each (list_clips, list_public_clips, clip_order_by).        *)
THEOREM BrowseInvariant == BrowseSpec => [](BrowseTypeOK /\ WalkInv)
<1>1. BrowseInit => BrowseTypeOK /\ WalkInv
  <2> SUFFICES ASSUME BrowseInit PROVE WalkInv
    BY InitTypes
  <2> QED BY DEF BrowseInit, NoWalk, WalkInv, Listing, Begun
<1>2. BrowseTypeOK /\ WalkInv /\ [BrowseNext]_browseVars => (BrowseTypeOK /\ WalkInv)'
  BY StepKeepsWalk
<1> QED BY <1>1, <1>2, PTL DEF BrowseSpec

LEMMA InvariantShifts == BrowseTypeOK /\ WalkInv => OnlyShiftsDisturb
<1> SUFFICES ASSUME BrowseTypeOK, WalkInv PROVE OnlyShiftsDisturb
  OBVIOUS
<1>1. ASSUME Walked, ~walk.went PROVE walk.through \subseteq ToSet(walk.got)
  <2>1. /\ walk.pc = "done" /\ walk.ask.list \in {"own", "public"} /\ FromStart(walk) /\ Listing(walk)
        /\ Paged(walk)
    BY <1>1 DEF Walked, FromStart, Listing, Begun, Paged
  <2>2. NoneMissed(lib, walk) /\ ~walk.more
    BY <2>1 DEF WalkInv, PagesEnd
  <2> QED BY <1>1, <2>1, <2>2 DEF NoneMissed
<1>2. ASSUME walk.pc = "done", ~walk.came, BelowLastPage(walk) PROVE ~RepeatsIn(walk.got)
  <2>1. CASE walk.ask.list = "games"
    <3>1. walk.got = <<>>
      BY <1>2, <2>1 DEF WalkInv, Begun
    <3> QED BY <3>1 DEF RepeatsIn
  <2>2. CASE walk.ask.list # "games"
    BY <1>2, <2>2 DEF WalkInv, Listing, Begun, NoneRepeated
  <2> QED BY <2>1, <2>2
<1> QED BY <1>1, <1>2 DEF OnlyShiftsDisturb

(* A clip that is there all along is missed only if others leave the list   *)
(* or change places, and one is shown twice only if others come into it or  *)
(* change places (the offsets of list_clips and list_public_clips over      *)
(* clip_order_by).                                                          *)
THEOREM ShiftsOnly == BrowseSpec => []OnlyShiftsDisturb
BY BrowseInvariant, InvariantShifts, PTL

(* The count of a game in the list of games is that of the list it opens.   *)
LEMMA GameCounts ==
  ASSUME NEW cat
  PROVE  Cardinality(Selected(lib, [list |-> "public", who |-> Null, filter |-> [game_category_id |-> cat]]))
         = IF cat \in DOMAIN PublicGames THEN PublicGames[cat] ELSE 0
<1> DEFINE ask == [list |-> "public", who |-> Null, filter |-> [game_category_id |-> cat]]
           shown == {c \in DOMAIN lib.clips : /\ lib.clips[c].visibility = "public"
                                              /\ lib.clips[c].status = "ready"
                                              /\ lib.clips[c].shared /\ lib.clips[c].game # Null}
           counted(g) == {c \in shown : lib.category[lib.clips[c].game] = g}
           cats == {lib.category[lib.clips[c].game] : c \in shown}
<1>1. DOMAIN ask.filter = {"game_category_id"} /\ ask.filter["game_category_id"] = cat
  OBVIOUS
<1>2. Selected(lib, ask) = counted(cat)
  <2>1. ASSUME NEW c \in DOMAIN lib.clips
        PROVE  Passes(lib, c, ask.list, ask.filter) <=>
                 lib.clips[c].game # Null /\ lib.category[lib.clips[c].game] = cat
    BY <1>1 DEF Passes, PassesPublic, SatisfiesPublic
  <2>2. ASSUME NEW c \in DOMAIN lib.clips
        PROVE  InList(lib, c, ask.list, ask.who) <=> InPublicList(lib, c)
    BY DEF InList
  <2> QED BY <2>1, <2>2 DEF Selected, InPublicList
<1>3. PublicGames = [g \in cats |-> Cardinality(counted(g))]
  BY DEF PublicGames
<1>4. CASE cat \in cats
  <2>1. cat \in DOMAIN PublicGames /\ PublicGames[cat] = Cardinality(counted(cat))
    <3> HIDE DEF cats, counted
    <3> QED BY <1>3, <1>4
  <2> QED BY <1>2, <2>1
<1>5. CASE cat \notin cats
  <2>1. cat \notin DOMAIN PublicGames
    <3> HIDE DEF cats, counted
    <3> QED BY <1>3, <1>5
  <2>2. counted(cat) = {}
    BY <1>5
  <2> QED BY <1>2, <2>1, <2>2, FS_EmptySet
<1> QED BY <1>4, <1>5

LEMMA InvariantCounts == BrowseTypeOK /\ WalkInv => CountsMatchLists
<1> SUFFICES ASSUME BrowseTypeOK, WalkInv, walk.pc \in {"answered", "done"}, walk.still
             PROVE  CountsMatchLists
  BY DEF CountsMatchLists
<1>1. Begun(walk) /\ AskOK(walk.ask)
  BY WalkFields DEF Begun
<1>2. walk.ask.list \in {"own", "profile", "public", "games"}
  BY <1>1 DEF AskOK
<1>3. ASSUME walk.ask.list \in {"own", "profile"}
      PROVE  /\ Len(walk.rows) <= Cardinality(Selected(lib, walk.ask))
             /\ walk.ask.list = "own" =>
                  (walk.more <=> Cardinality(Selected(lib, walk.ask)) > walk.page * walk.ask.size)
             /\ walk.total = Cardinality(Selected(lib, walk.ask))
  BY <1>1, <1>3 DEF WalkInv, Listing, NumbersOK
<1>4. /\ Cardinality(Selected(lib, walk.ask)) \in Nat /\ Len(walk.rows) \in Nat
  BY SelectedIsFinite, WalkFields DEF BrowseTypeOK
<1>5. CASE walk.ask.list = "own"
  <2>1. (walk.more <=> walk.total > walk.page * walk.ask.size) /\ walk.total >= Len(walk.rows)
    BY <1>3, <1>4, <1>5
  <2> QED BY <1>5, <2>1 DEF CountsMatchLists
<1>6. CASE walk.ask.list = "profile"
  <2>1. walk.total = Cardinality(Selected(lib, walk.ask)) /\ walk.total >= Len(walk.rows)
    BY <1>3, <1>4, <1>6
  <2> QED BY <1>6, <2>1 DEF CountsMatchLists
<1>7. CASE walk.ask.list = "public"
  BY <1>7 DEF CountsMatchLists
<1>8. CASE walk.ask.list = "games"
  <2>1. walk.total = PublicGames
    BY <1>1, <1>8 DEF WalkInv
  <2> QED BY <1>8, <2>1, GameCounts DEF CountsMatchLists
<1> QED BY <1>2, <1>5, <1>6, <1>7, <1>8

(* Totals, has_more, the count of a profile and those of the games are the  *)
(* list's when nothing changed between their queries (stats_for_owner,      *)
(* count_public_for_owner, list_public_games).                              *)
THEOREM CountsAlwaysMatch == BrowseSpec => []CountsMatchLists
BY BrowseInvariant, InvariantCounts, PTL
-----------------------------------------------------------------------------
(* What a search finds: the recursions of a pattern and of its matching,    *)
(* each followed from one end to the other.                                 *)

LEMMA Upwards ==
  ASSUME NEW n \in Nat, NEW S, 0 \in S, \A k \in 0 .. n - 1 : k \in S => k + 1 \in S
  PROVE  0 .. n \subseteq S
<1> DEFINE Left == {k \in 0 .. n : k \notin S}
<1> SUFFICES ASSUME Left # {} PROVE FALSE
  OBVIOUS
<1>1. Left \subseteq Nat
  OBVIOUS
<1>2. \E x \in Left : \A y \in Left : ~(<<y, x>> \in OpToRel(<, Nat))
  BY <1>1, NatLessThanWellFounded, WFMin
<1>3. ASSUME NEW a \in Nat, NEW b \in Nat, a < b PROVE <<a, b>> \in OpToRel(<, Nat)
  <2>1. <<a, b>> \in Nat \X Nat /\ <<a, b>>[1] = a /\ <<a, b>>[2] = b
    OBVIOUS
  <2> QED BY <1>3, <2>1 DEF OpToRel
<1>4. PICK x \in Left : \A y \in Left : ~(y < x)
  BY <1>1, <1>2, <1>3
<1>5. x # 0 /\ x \in 0 .. n /\ x \notin S
  BY <1>4
<1>6. x - 1 \in 0 .. n - 1 /\ x - 1 + 1 = x /\ x - 1 < x
  BY <1>5
<1>7. x - 1 \in S
  BY <1>4, <1>6
<1> QED BY <1>5, <1>6, <1>7

LEMMA Downwards ==
  ASSUME NEW n \in Nat, NEW S, n \in S, \A k \in 1 .. n : k \in S => k - 1 \in S
  PROVE  0 .. n \subseteq S
<1> DEFINE T == {k \in 0 .. n : n - k \in S}
<1>1. 0 \in T
  OBVIOUS
<1>2. ASSUME NEW k \in 0 .. n - 1, k \in T PROVE k + 1 \in T
  <2>1. n - k \in 1 .. n /\ n - k \in S /\ n - (k + 1) = (n - k) - 1 /\ k + 1 \in 0 .. n
    BY <1>2
  <2> QED BY <2>1
<1> HIDE DEF T
<1>3. 0 .. n \subseteq T
  BY <1>1, <1>2, Upwards
<1>4. ASSUME NEW k \in 0 .. n PROVE k \in S
  <2>1. n - k \in 0 .. n /\ n - (n - k) = k
    OBVIOUS
  <2> QED BY <1>3, <2>1 DEF T
<1> QED BY <1>4

(* The sequences of a sequence one after the other.                         *)
JoinsTo(seqs, f, k) == f = [i \in 1 .. k |-> IF i = 1 THEN seqs[i] ELSE f[i - 1] \o seqs[i]]

LEMMA FlattenedTexts ==
  ASSUME NEW seqs \in Seq(Text)
  PROVE  \E F \in [0 .. Len(seqs) -> Text] :
           /\ F[0] = <<>> /\ F[Len(seqs)] = FlattenSeq(seqs)
           /\ \A i \in 1 .. Len(seqs) : F[i] = F[i - 1] \o seqs[i]
<1> DEFINE n == Len(seqs)
           Joins(f, k) == JoinsTo(seqs, f, k)
           S == {k \in 0 .. n : \E f : Joins(f, k)}
           flatten == CHOOSE f : Joins(f, n)
           F == [i \in 0 .. n |-> IF i = 0 THEN <<>> ELSE flatten[i]]
<1>1. n \in Nat /\ \A i \in 1 .. n : seqs[i] \in Text
  OBVIOUS
<1>2. FlattenSeq(seqs) = IF n = 0 THEN seqs ELSE flatten[n]
  BY DEF FlattenSeq, JoinsTo
<1>3. Joins([i \in 1 .. 0 |-> seqs[i]], 0)
  BY DEF JoinsTo
<1>4. 0 \in S
  BY <1>1, <1>3
<1>5. ASSUME NEW k \in 0 .. n - 1, k \in S PROVE k + 1 \in S
  <2>1. PICK f : Joins(f, k)
    BY <1>5
  <2> DEFINE g == [i \in 1 .. k + 1 |-> IF i = 1 THEN seqs[i] ELSE f[i - 1] \o seqs[i]]
  <2>2. ASSUME NEW i \in 1 .. k PROVE g[i] = f[i]
    <3>1. f[i] = IF i = 1 THEN seqs[i] ELSE f[i - 1] \o seqs[i]
      BY <2>1 DEF JoinsTo
    <3> QED BY <3>1
  <2>3. ASSUME NEW i \in 1 .. k + 1
        PROVE  g[i] = IF i = 1 THEN seqs[i] ELSE g[i - 1] \o seqs[i]
    <3>1. i # 1 => i - 1 \in 1 .. k
      OBVIOUS
    <3>2. g[i] = IF i = 1 THEN seqs[i] ELSE f[i - 1] \o seqs[i]
      OBVIOUS
    <3> QED BY <2>2, <3>1, <3>2
  <2>4. g = [i \in 1 .. k + 1 |-> g[i]]
    OBVIOUS
  <2> HIDE DEF g
  <2>5. g = [i \in 1 .. k + 1 |-> IF i = 1 THEN seqs[i] ELSE g[i - 1] \o seqs[i]]
    BY <2>3, <2>4
  <2>6. Joins(g, k + 1)
    BY <2>5 DEF JoinsTo
  <2>7. k + 1 \in 0 .. n
    BY <1>1, <1>5
  <2> QED BY <2>6, <2>7
<1> HIDE DEF S
<1>6. 0 .. n \subseteq S
  BY <1>1, <1>4, <1>5, Upwards
<1>7. Joins(flatten, n)
  BY <1>1, <1>6 DEF S
<1> HIDE DEF flatten
<1>8. \A i \in 1 .. n : flatten[i] = IF i = 1 THEN seqs[i] ELSE flatten[i - 1] \o seqs[i]
  BY <1>7 DEF JoinsTo
<1>9. \A i \in 1 .. n : i - 1 \in 0 .. n /\ i \in 0 .. n /\ i # 0 /\ (i # 1 => i - 1 # 0)
  BY <1>1
<1>10. <<>> \in Text /\ \A s \in Text, t \in Text : s \o t \in Text
  BY ConcatProperties DEF Text
<1>11. \A s \in Text : <<>> \o s = s
  BY DEF Text
<1>12. \A i \in 1 .. n : F[i] = F[i - 1] \o seqs[i]
  <2> TAKE i \in 1 .. n
  <2>1. CASE i = 1
    <3>1. F[i] = seqs[i] /\ F[i - 1] = <<>>
      BY <1>8, <1>9, <2>1
    <3> QED BY <1>1, <1>11, <3>1
  <2>2. CASE i # 1
    <3>1. F[i] = flatten[i] /\ F[i - 1] = flatten[i - 1]
      BY <1>9, <2>2
    <3> QED BY <1>8, <2>2, <3>1
  <2> QED BY <2>1, <2>2
<1>13. F[0] = <<>> /\ DOMAIN F = 0 .. n
  BY <1>1
<1>14. F[n] = FlattenSeq(seqs)
  <2>1. CASE n = 0
    <3>1. seqs = <<>>
      BY <2>1
    <3> QED BY <1>2, <1>13, <2>1, <3>1
  <2>2. CASE n # 0
    <3>1. n \in 0 .. n
      BY <1>1
    <3> QED BY <1>2, <2>2, <3>1
  <2> QED BY <2>1, <2>2
<1>15. F = [i \in 0 .. n |-> F[i]]
  OBVIOUS
<1> HIDE DEF F
<1> DEFINE U == {k \in 0 .. n : F[k] \in Text}
<1>16. 0 \in U
  BY <1>1, <1>10, <1>13
<1>17. ASSUME NEW k \in 0 .. n - 1, k \in U PROVE k + 1 \in U
  <2> DEFINE j == k + 1
  <2>1. j \in 1 .. n /\ j \in 0 .. n /\ j - 1 = k
    BY <1>1
  <2> HIDE DEF j
  <2>2. F[j] = F[j - 1] \o seqs[j] /\ seqs[j] \in Text
    BY <1>1, <1>12, <2>1
  <2>3. F[j] \in Text
    BY <1>10, <1>17, <2>1, <2>2
  <2>4. j \in U
    BY <2>1, <2>3
  <2> QED BY <2>4 DEF j
<1> HIDE DEF U
<1>18. 0 .. n \subseteq U
  BY <1>1, <1>16, <1>17, Upwards
<1>19. F \in [0 .. n -> Text]
  BY <1>15, <1>18 DEF U
<1> QED BY <1>12, <1>13, <1>14, <1>19
(* A pattern's characters: each of the search, after a backslash where LIKE *)
(* has a meaning of its own for it, between two wildcards.                  *)
Special == Wildcard \cup {Backslash}
EscapedChar(ch) == IF ch \in Special THEN <<Backslash, ch>> ELSE <<ch>>
CharAt(pattern, at, i, ch) ==
  \/ /\ ch \in Special /\ at[i + 1] = at[i] + 2
     /\ pattern[at[i]] = Backslash /\ pattern[at[i] + 1] = ch
  \/ /\ ch \notin Special /\ at[i + 1] = at[i] + 1 /\ pattern[at[i]] = ch

LEMMA LoweredText ==
  ASSUME NEW by, by \in [DOMAIN by -> Character], NEW text \in Text
  PROVE  /\ Lowered(by, text) \in Text /\ Len(Lowered(by, text)) = Len(text)
         /\ \A i \in 1 .. Len(text) :
              Lowered(by, text)[i] = IF text[i] \in DOMAIN by THEN by[text[i]] ELSE text[i]
<1>1. Len(text) \in Nat /\ DOMAIN text = 1 .. Len(text) /\ \A i \in 1 .. Len(text) : text[i] \in Character
  BY DEF Text
<1>2. Lowered(by, text) \in [1 .. Len(text) -> Character]
  BY <1>1 DEF Lowered
<1>3. Lowered(by, text) \in Seq(Character) /\ Len(Lowered(by, text)) = Len(text)
  BY <1>1, <1>2
<1> QED BY <1>1, <1>3 DEF Lowered, Text

LEMMA PatternShape ==
  ASSUME NEW q \in Text
  PROVE  LET low == Lowered(AsciiLower, q)
             pattern == EscapedLikePattern(q)
             n == Len(q)
         IN /\ pattern \in Text /\ Len(pattern) \in Nat \ {0, 1}
            /\ pattern[1] = AnyText /\ pattern[Len(pattern)] = AnyText
            /\ \E at \in [1 .. n + 1 -> 2 .. Len(pattern)] :
                 /\ at[1] = 2 /\ at[n + 1] = Len(pattern)
                 /\ \A i \in 1 .. n : CharAt(pattern, at, i, low[i])
<1> DEFINE low == Lowered(AsciiLower, q)
           pattern == EscapedLikePattern(q)
           n == Len(q)
           seqs == [i \in 1 .. n |-> EscapedChar(low[i])]
           flat == FlattenSeq(seqs)
<1>1. /\ n \in Nat /\ low \in Text /\ Len(low) = n /\ DOMAIN low = 1 .. n
      /\ \A i \in 1 .. n : low[i] \in Character
  <2>1. low \in Text /\ Len(low) = n
    BY BrowseAssumption, LoweredText
  <2> HIDE DEF low
  <2> QED BY <2>1 DEF Text
<1>2. pattern = (<<AnyText>> \o flat) \o <<AnyText>>
  BY <1>1 DEF EscapedLikePattern, EscapedChar, Special
<1> HIDE DEF low, pattern
<1>3. ASSUME NEW i \in 1 .. n
      PROVE  /\ seqs[i] \in Text /\ seqs[i] = EscapedChar(low[i])
             /\ low[i] \in Special => Len(seqs[i]) = 2 /\ seqs[i][1] = Backslash /\ seqs[i][2] = low[i]
             /\ low[i] \notin Special => Len(seqs[i]) = 1 /\ seqs[i][1] = low[i]
  <2>1. <<Backslash, low[i]>> \in Text /\ <<low[i]>> \in Text
    BY <1>1, BrowseAssumption DEF Text
  <2>2. seqs[i] = EscapedChar(low[i])
    OBVIOUS
  <2> QED BY <2>1, <2>2 DEF EscapedChar
<1>4. seqs \in Seq(Text) /\ Len(seqs) = n
  <2>1. seqs \in [1 .. n -> Text]
    BY <1>3
  <2> HIDE DEF seqs
  <2> QED BY <1>1, <2>1
<1> HIDE DEF seqs
<1>5. PICK F \in [0 .. n -> Text] :
        /\ F[0] = <<>> /\ F[n] = flat
        /\ \A i \in 1 .. n : F[i] = F[i - 1] \o seqs[i]
  BY <1>4, FlattenedTexts
<1> HIDE DEF flat
<1>6. flat \in Text /\ Len(flat) \in Nat
  <2>1. n \in 0 .. n
    BY <1>1
  <2>2. F[n] \in Text
    BY <1>5, <2>1
  <2> QED BY <1>5, <2>2 DEF Text
<1>7. /\ pattern \in Text /\ Len(pattern) = Len(flat) + 2
      /\ pattern[1] = AnyText /\ pattern[Len(pattern)] = AnyText
      /\ \A p \in 1 .. Len(flat) : pattern[p + 1] = flat[p]
  <2>1. AnyText \in Character
    BY BrowseAssumption DEF Wildcard
  <2> DEFINE head == <<AnyText>> \o flat
  <2>2. /\ head \in Seq(Character) /\ Len(head) = Len(flat) + 1 /\ head[1] = AnyText
        /\ \A p \in 1 .. Len(flat) : head[p + 1] = flat[p]
    BY <1>6, <2>1 DEF Text
  <2>3. pattern = head \o <<AnyText>>
    BY <1>2
  <2> HIDE DEF head
  <2>4. /\ pattern \in Seq(Character) /\ Len(pattern) = Len(head) + 1
        /\ \A p \in 1 .. Len(head) : pattern[p] = head[p]
        /\ pattern[Len(pattern)] = AnyText
    BY <2>1, <2>2, <2>3
  <2> QED BY <1>6, <2>2, <2>4 DEF Text
<1>8. ASSUME NEW i \in 1 .. n
      PROVE  /\ i \in 0 .. n /\ i - 1 \in 0 .. n /\ F[i] \in Text /\ F[i - 1] \in Text
             /\ Len(F[i - 1]) \in Nat /\ Len(F[i]) = Len(F[i - 1]) + Len(seqs[i])
             /\ \A p \in 1 .. Len(F[i - 1]) : F[i][p] = F[i - 1][p]
             /\ \A p \in 1 .. Len(seqs[i]) : F[i][Len(F[i - 1]) + p] = seqs[i][p]
  <2>1. i \in 0 .. n /\ i - 1 \in 0 .. n
    BY <1>1
  <2> DEFINE a == F[i - 1]
             b == seqs[i]
  <2>2. a \in Seq(Character) /\ b \in Seq(Character) /\ F[i] = a \o b
    BY <1>3, <1>5, <2>1 DEF Text
  <2> HIDE DEF a, b
  <2>3. /\ a \o b \in Seq(Character) /\ Len(a) \in Nat /\ Len(a \o b) = Len(a) + Len(b)
        /\ \A p \in 1 .. Len(a) : (a \o b)[p] = a[p]
        /\ \A p \in 1 .. Len(b) : (a \o b)[Len(a) + p] = b[p]
    BY <2>2
  <2> QED BY <2>1, <2>2, <2>3 DEF a, b, Text
<1> DEFINE S == {i \in 0 .. n : /\ Len(F[i]) <= Len(flat)
                                /\ \A p \in 1 .. Len(F[i]) : flat[p] = F[i][p]}
<1>9. n \in S
  BY <1>1, <1>5, <1>6
<1>10. ASSUME NEW k \in 1 .. n, k \in S PROVE k - 1 \in S
  <2> DEFINE a == F[k - 1]
             b == F[k]
  <2>1. /\ Len(b) <= Len(flat) /\ \A p \in 1 .. Len(b) : flat[p] = b[p]
    BY <1>10
  <2>2. /\ k - 1 \in 0 .. n /\ Len(a) \in Nat /\ Len(b) = Len(a) + Len(seqs[k])
        /\ Len(seqs[k]) \in Nat /\ \A p \in 1 .. Len(a) : b[p] = a[p]
    <3>1. Len(seqs[k]) \in Nat
      BY <1>3 DEF Text
    <3> QED BY <1>1, <1>8, <3>1
  <2> HIDE DEF a, b
  <2>3. Len(a) <= Len(flat) /\ \A p \in 1 .. Len(a) : flat[p] = a[p]
    BY <1>6, <2>1, <2>2
  <2> QED BY <2>2, <2>3 DEF a
<1> HIDE DEF S
<1>11. 0 .. n \subseteq S
  BY <1>1, <1>9, <1>10, Downwards
<1>12. ASSUME NEW i \in 0 .. n
       PROVE  /\ Len(F[i]) \in Nat /\ Len(F[i]) <= Len(flat)
              /\ \A p \in 1 .. Len(F[i]) : pattern[p + 1] = F[i][p]
  <2>1. F[i] \in Seq(Character) /\ i \in S
    BY <1>5, <1>11 DEF Text
  <2>2. Len(F[i]) \in Nat /\ Len(F[i]) <= Len(flat) /\ \A p \in 1 .. Len(F[i]) : flat[p] = F[i][p]
    BY <2>1 DEF S
  <2> QED BY <1>6, <1>7, <2>2
<1> DEFINE at == [i \in 1 .. n + 1 |-> Len(F[i - 1]) + 2]
<1>13. ASSUME NEW i \in 1 .. n + 1
       PROVE  at[i] = Len(F[i - 1]) + 2 /\ at[i] \in 2 .. Len(pattern)
  <2>1. i - 1 \in 0 .. n /\ at[i] = Len(F[i - 1]) + 2
    BY <1>1
  <2>2. Len(F[i - 1]) \in Nat /\ Len(F[i - 1]) <= Len(flat)
    BY <1>12, <2>1
  <2> QED BY <1>6, <1>7, <2>1, <2>2
<1>14. at \in [1 .. n + 1 -> 2 .. Len(pattern)]
  BY <1>13
<1>15. at[1] = 2 /\ at[n + 1] = Len(pattern)
  <2>1. 1 \in 1 .. n + 1 /\ n + 1 \in 1 .. n + 1 /\ 1 - 1 = 0 /\ (n + 1) - 1 = n
    BY <1>1
  <2>2. at[1] = Len(F[0]) + 2 /\ at[n + 1] = Len(F[n]) + 2
    BY <1>13, <2>1
  <2>3. Len(F[0]) = 0 /\ Len(F[n]) = Len(flat)
    BY <1>5
  <2> QED BY <1>6, <1>7, <2>2, <2>3
<1>16. ASSUME NEW i \in 1 .. n PROVE CharAt(pattern, at, i, low[i])
  <2>1. i \in 1 .. n + 1 /\ i + 1 \in 1 .. n + 1 /\ (i + 1) - 1 = i /\ i \in 0 .. n
    BY <1>1
  <2>2. at[i] = Len(F[i - 1]) + 2 /\ at[i + 1] = Len(F[i]) + 2
    <3>1. at[i + 1] = Len(F[(i + 1) - 1]) + 2
      BY <1>13, <2>1
    <3> QED BY <1>13, <2>1, <3>1
  <2> DEFINE m == Len(F[i - 1])
  <2>3. /\ m \in Nat /\ Len(F[i]) = m + Len(seqs[i])
        /\ \A p \in 1 .. Len(seqs[i]) : F[i][m + p] = seqs[i][p]
    BY <1>8
  <2>4. \A p \in 1 .. Len(F[i]) : pattern[p + 1] = F[i][p]
    BY <1>12, <2>1
  <2> HIDE DEF m, at
  <2>5. CASE low[i] \in Special
    <3>1. Len(seqs[i]) = 2 /\ seqs[i][1] = Backslash /\ seqs[i][2] = low[i]
      BY <1>3, <2>5
    <3>2. F[i][m + 1] = Backslash /\ F[i][m + 2] = low[i]
      BY <2>3, <3>1
    <3>3. m + 1 \in 1 .. Len(F[i]) /\ m + 2 \in 1 .. Len(F[i])
      BY <2>3, <3>1
    <3>4. pattern[(m + 1) + 1] = Backslash /\ pattern[(m + 2) + 1] = low[i]
      BY <2>4, <3>2, <3>3
    <3>5. at[i] = (m + 1) + 1 /\ at[i] + 1 = (m + 2) + 1 /\ at[i + 1] = at[i] + 2
      BY <2>2, <2>3, <3>1 DEF m
    <3> QED BY <2>5, <3>4, <3>5 DEF CharAt
  <2>6. CASE low[i] \notin Special
    <3>1. Len(seqs[i]) = 1 /\ seqs[i][1] = low[i]
      BY <1>3, <2>6
    <3>2. F[i][m + 1] = low[i]
      BY <2>3, <3>1
    <3>3. m + 1 \in 1 .. Len(F[i])
      BY <2>3, <3>1
    <3>4. pattern[(m + 1) + 1] = low[i]
      BY <2>4, <3>2, <3>3
    <3>5. at[i] = (m + 1) + 1 /\ at[i + 1] = at[i] + 1
      BY <2>2, <2>3, <3>1 DEF m
    <3> QED BY <2>6, <3>4, <3>5 DEF CharAt
  <2> QED BY <2>5, <2>6
<1>17. Len(pattern) \in Nat \ {0, 1}
  BY <1>6, <1>7
<1> HIDE DEF at, n
<1> QED BY <1>7, <1>14, <1>15, <1>16, <1>17 DEF low, pattern, n
(* Where in a text the rest of a pattern may start, from the pattern's end. *)
StartsAt(text, pattern, starts, p) ==
  IF p > Len(pattern) THEN {Len(text) + 1}
  ELSE IF pattern[p] = AnyText THEN {t \in 1 .. Len(text) + 1 : \E u \in starts[p + 1] : t <= u}
  ELSE IF pattern[p] = Backslash
       THEN {t \in 1 .. Len(text) : pattern[p + 1] = text[t] /\ t + 1 \in starts[p + 2]}
  ELSE {t \in 1 .. Len(text) : pattern[p] \in {AnyOne, text[t]} /\ t + 1 \in starts[p + 1]}
MatchesFrom(text, pattern, starts, k) ==
  starts = [p \in k .. Len(pattern) + 1 |-> StartsAt(text, pattern, starts, p)]

LEMMA LikeUnfolds ==
  ASSUME NEW text \in Text, NEW pattern \in Text, Len(pattern) > 0, pattern[Len(pattern)] # Backslash
  PROVE  \E starts :
           /\ \A p \in 1 .. Len(pattern) + 1 : starts[p] = StartsAt(text, pattern, starts, p)
           /\ Like(text, pattern) <=> 1 \in starts[1]
<1> DEFINE L == Len(pattern)
           S == {k \in 0 .. L : \E g : MatchesFrom(text, pattern, g, k + 1)}
           starts == CHOOSE g : MatchesFrom(text, pattern, g, 1)
<1>1. L \in Nat \ {0} /\ Len(text) \in Nat
  BY DEF Text
<1>2. Like(text, pattern) <=> 1 \in starts[1]
  BY Zenon DEF Like, MatchesFrom, StartsAt
<1>3. L \in S
  <2> DEFINE g == [p \in L + 1 .. L + 1 |-> {Len(text) + 1}]
  <2>1. \A p \in L + 1 .. L + 1 : g[p] = StartsAt(text, pattern, g, p)
    BY <1>1 DEF StartsAt
  <2>2. g = [p \in L + 1 .. L + 1 |-> g[p]]
    OBVIOUS
  <2> HIDE DEF g
  <2>3. g = [p \in L + 1 .. L + 1 |-> StartsAt(text, pattern, g, p)]
    BY <2>1, <2>2
  <2>4. MatchesFrom(text, pattern, g, L + 1)
    BY <2>3 DEF MatchesFrom
  <2> QED BY <1>1, <2>4
<1>4. ASSUME NEW k \in 1 .. L, k \in S PROVE k - 1 \in S
  <2>1. PICK f : MatchesFrom(text, pattern, f, k + 1)
    BY <1>4
  <2> DEFINE g == [p \in k .. L + 1 |-> IF p = k THEN StartsAt(text, pattern, f, p) ELSE f[p]]
  <2>2. ASSUME NEW p \in k + 1 .. L + 1
        PROVE  g[p] = f[p] /\ f[p] = StartsAt(text, pattern, f, p)
    <3>1. p \in k .. L + 1 /\ p # k
      OBVIOUS
    <3>2. f[p] = StartsAt(text, pattern, f, p)
      BY <2>1 DEF MatchesFrom
    <3> QED BY <3>1, <3>2
  <2>3. \A p \in k .. L + 1 : g[p] = IF p = k THEN StartsAt(text, pattern, f, p) ELSE f[p]
    OBVIOUS
  <2>4. g = [p \in k .. L + 1 |-> g[p]]
    OBVIOUS
  <2> HIDE DEF g
  <2>5. ASSUME NEW p \in k .. L + 1
        PROVE  StartsAt(text, pattern, g, p) = StartsAt(text, pattern, f, p)
    <3>1. p <= L => p + 1 \in k + 1 .. L + 1
      BY <1>1
    <3>2. p <= L => g[p + 1] = f[p + 1]
      BY <2>2, <3>1
    <3>3. p <= L /\ pattern[p] = Backslash => p + 2 \in k + 1 .. L + 1
      BY <1>1
    <3>4. p <= L /\ pattern[p] = Backslash => g[p + 2] = f[p + 2]
      BY <2>2, <3>3
    <3>5. p > L \/ p <= L
      BY <1>1
    <3>6. CASE p > L
      BY <3>6 DEF StartsAt
    <3>7. CASE p <= L
      <4> DEFINE a == g[p + 1]
                 b == f[p + 1]
                 c == g[p + 2]
                 d == f[p + 2]
      <4>1. a = b /\ (pattern[p] = Backslash => c = d)
        BY <3>2, <3>4, <3>7
      <4> HIDE DEF a, b, c, d
      <4>2. StartsAt(text, pattern, g, p) =
              IF p > Len(pattern) THEN {Len(text) + 1}
              ELSE IF pattern[p] = AnyText THEN {t \in 1 .. Len(text) + 1 : \E u \in a : t <= u}
              ELSE IF pattern[p] = Backslash
                   THEN {t \in 1 .. Len(text) : pattern[p + 1] = text[t] /\ t + 1 \in c}
              ELSE {t \in 1 .. Len(text) : pattern[p] \in {AnyOne, text[t]} /\ t + 1 \in a}
        BY DEF StartsAt, a, c
      <4>3. StartsAt(text, pattern, f, p) =
              IF p > Len(pattern) THEN {Len(text) + 1}
              ELSE IF pattern[p] = AnyText THEN {t \in 1 .. Len(text) + 1 : \E u \in b : t <= u}
              ELSE IF pattern[p] = Backslash
                   THEN {t \in 1 .. Len(text) : pattern[p + 1] = text[t] /\ t + 1 \in d}
              ELSE {t \in 1 .. Len(text) : pattern[p] \in {AnyOne, text[t]} /\ t + 1 \in b}
        BY DEF StartsAt, b, d
      <4>4. CASE pattern[p] = Backslash
        BY <4>1, <4>2, <4>3, <4>4
      <4>5. CASE pattern[p] # Backslash
        BY <4>1, <4>2, <4>3, <4>5
      <4> QED BY <4>4, <4>5
    <3> QED BY <3>5, <3>6, <3>7
  <2>6. \A p \in k .. L + 1 : g[p] = StartsAt(text, pattern, g, p)
    <3> TAKE p \in k .. L + 1
    <3>1. p = k \/ p \in k + 1 .. L + 1
      OBVIOUS
    <3> QED BY <2>2, <2>3, <2>5, <3>1
  <2>7. g = [p \in k .. L + 1 |-> StartsAt(text, pattern, g, p)]
    BY <2>4, <2>6
  <2>8. MatchesFrom(text, pattern, g, k)
    BY <2>7 DEF MatchesFrom
  <2>9. k - 1 + 1 = k /\ k - 1 \in 0 .. L
    BY <1>1
  <2>10. MatchesFrom(text, pattern, g, k - 1 + 1)
    BY <2>8, <2>9
  <2> QED BY <2>9, <2>10
<1> HIDE DEF S
<1>5. 0 .. L \subseteq S
  BY <1>1, <1>3, <1>4, Downwards
<1>6. \E g : MatchesFrom(text, pattern, g, 1)
  <2>1. 0 \in S /\ 0 + 1 = 1
    BY <1>1, <1>5
  <2> QED BY <2>1 DEF S
<1>7. MatchesFrom(text, pattern, starts, 1)
  BY <1>6
<1> HIDE DEF starts
<1>8. \A p \in 1 .. L + 1 : starts[p] = StartsAt(text, pattern, starts, p)
  BY <1>7 DEF MatchesFrom
<1> QED BY <1>2, <1>8
(* Where the characters of a search from one on stand in a text.            *)
StandsAt(text, low, i) ==
  {t \in 1 .. Len(text) + 1 :
     /\ t + (Len(low) - i) <= Len(text) + 1
     /\ \A k \in i + 1 .. Len(low) : text[t + (k - i - 1)] = low[k]}

LEMMA StandsEarlier ==
  ASSUME NEW text \in Text, NEW low \in Text, NEW i \in 1 .. Len(low)
  PROVE  StandsAt(text, low, i - 1)
         = {t \in 1 .. Len(text) : low[i] = text[t] /\ t + 1 \in StandsAt(text, low, i)}
<1> DEFINE M == Len(text)
           n == Len(low)
<1>1. M \in Nat /\ n \in Nat /\ i \in 1 .. n /\ i - 1 \in Nat
  BY DEF Text
<1> HIDE DEF M, n
<1>2. ASSUME NEW t \in StandsAt(text, low, i - 1)
      PROVE  t \in 1 .. M /\ low[i] = text[t] /\ t + 1 \in StandsAt(text, low, i)
  <2>1. /\ t \in 1 .. M + 1 /\ t + (n - (i - 1)) <= M + 1
        /\ \A k \in (i - 1) + 1 .. n : text[t + (k - (i - 1) - 1)] = low[k]
    BY DEF StandsAt, M, n
  <2>2. t \in 1 .. M /\ (i - 1) + 1 = i /\ t + (i - (i - 1) - 1) = t
    BY <1>1, <2>1
  <2>3. low[i] = text[t]
    BY <1>1, <2>1, <2>2
  <2>4. t + 1 \in 1 .. M + 1 /\ (t + 1) + (n - i) <= M + 1
    BY <1>1, <2>1
  <2>5. ASSUME NEW k \in i + 1 .. n PROVE text[(t + 1) + (k - i - 1)] = low[k]
    <3>1. k \in (i - 1) + 1 .. n /\ (t + 1) + (k - i - 1) = t + (k - (i - 1) - 1)
      BY <1>1, <2>1
    <3> QED BY <2>1, <3>1
  <2> QED BY <2>2, <2>3, <2>4, <2>5 DEF StandsAt, M, n
<1>3. ASSUME NEW t \in 1 .. M, low[i] = text[t], t + 1 \in StandsAt(text, low, i)
      PROVE  t \in StandsAt(text, low, i - 1)
  <2>1. /\ (t + 1) + (n - i) <= M + 1
        /\ \A k \in i + 1 .. n : text[(t + 1) + (k - i - 1)] = low[k]
    BY <1>3 DEF StandsAt, M, n
  <2>2. t \in 1 .. M + 1 /\ t + (n - (i - 1)) <= M + 1
    BY <1>1, <2>1
  <2>3. ASSUME NEW k \in (i - 1) + 1 .. n PROVE text[t + (k - (i - 1) - 1)] = low[k]
    <3>1. CASE k = i
      <4>1. t + (k - (i - 1) - 1) = t
        BY <1>1, <3>1
      <4> QED BY <1>3, <3>1, <4>1
    <3>2. CASE k # i
      <4>1. k \in i + 1 .. n /\ (t + 1) + (k - i - 1) = t + (k - (i - 1) - 1)
        BY <1>1, <3>2
      <4> QED BY <2>1, <4>1
    <3> QED BY <3>1, <3>2
  <2> QED BY <2>2, <2>3 DEF StandsAt, M, n
<1>4. \A t \in StandsAt(text, low, i - 1) :
        t \in 1 .. M /\ low[i] = text[t] /\ t + 1 \in StandsAt(text, low, i)
  BY <1>2
<1>5. \A t \in 1 .. M : low[i] = text[t] /\ t + 1 \in StandsAt(text, low, i)
        => t \in StandsAt(text, low, i - 1)
  BY <1>3
<1> QED BY <1>4, <1>5 DEF M

(* A pattern finds the texts that have the characters of the search in a    *)
(* row, a wildcard being one of them.                                       *)
LEMMA LikeFindsPart ==
  ASSUME NEW text \in Text, NEW q \in Text
  PROVE  Like(text, EscapedLikePattern(q)) <=>
           \E u \in 0 .. Len(text) - Len(q) :
             \A k \in 1 .. Len(q) : text[u + k] = Lowered(AsciiLower, q)[k]
<1> DEFINE low == Lowered(AsciiLower, q)
           pattern == EscapedLikePattern(q)
           n == Len(q)
           M == Len(text)
           L == Len(pattern)
<1>1. /\ n \in Nat /\ M \in Nat /\ low \in Text /\ Len(low) = n
      /\ DOMAIN low = 1 .. n
  <2>1. low \in Text /\ Len(low) = n
    BY BrowseAssumption, LoweredText
  <2> HIDE DEF low
  <2> QED BY <2>1 DEF Text
<1>2. /\ pattern \in Text /\ L \in Nat \ {0, 1}
      /\ pattern[1] = AnyText /\ pattern[L] = AnyText
      /\ \E at \in [1 .. n + 1 -> 2 .. L] :
           /\ at[1] = 2 /\ at[n + 1] = L
           /\ \A i \in 1 .. n : CharAt(pattern, at, i, low[i])
  BY PatternShape
<1> HIDE DEF low, pattern, L, M, n
<1>3. PICK at \in [1 .. n + 1 -> 2 .. L] :
        /\ at[1] = 2 /\ at[n + 1] = L
        /\ \A i \in 1 .. n : CharAt(pattern, at, i, low[i])
  BY <1>2
<1>4. AnyText # Backslash /\ AnyOne # Backslash /\ AnyText # AnyOne
  BY Zenon DEF AnyText, AnyOne, Backslash
<1>5. Special = {AnyText, AnyOne, Backslash}
  BY DEF Special, Wildcard
<1>6. PICK starts :
        /\ \A p \in 1 .. L + 1 : starts[p] = StartsAt(text, pattern, starts, p)
        /\ Like(text, pattern) <=> 1 \in starts[1]
  <2>1. Len(pattern) > 0 /\ pattern[Len(pattern)] # Backslash
    BY <1>2, <1>4 DEF L
  <2> QED BY <1>2, <2>1, LikeUnfolds DEF L
<1> DEFINE S == {i \in 0 .. n : starts[at[i + 1]] = StandsAt(text, low, i)}
<1>7. n \in S
  <2>1. L + 1 \in 1 .. L + 1 /\ L + 1 > L /\ L \in 1 .. L + 1 /\ ~(L > L)
    BY <1>2
  <2>2. starts[L + 1] = {M + 1}
    BY <1>6, <2>1 DEF StartsAt, L, M
  <2>3. starts[L] = {t \in 1 .. M + 1 : \E u \in starts[L + 1] : t <= u}
    BY <1>2, <1>6, <2>1 DEF StartsAt, L, M
  <2>4. starts[L] = 1 .. M + 1
    BY <1>1, <2>2, <2>3
  <2>5. StandsAt(text, low, n) = 1 .. M + 1
    <3>1. \A t \in 1 .. M + 1 : t + (n - n) <= M + 1
      BY <1>1
    <3>2. n + 1 .. n = {}
      BY <1>1
    <3> QED BY <1>1, <3>1, <3>2 DEF StandsAt, M
  <2> QED BY <1>1, <1>3, <2>4, <2>5
<1>8. ASSUME NEW i \in 1 .. n, i \in S PROVE i - 1 \in S
  <2>1. /\ i \in 1 .. n + 1 /\ i + 1 \in 1 .. n + 1 /\ (i - 1) + 1 = i /\ i - 1 \in 0 .. n
        /\ i \in 1 .. Len(low)
    BY <1>1
  <2>2. at[i] \in 1 .. L + 1 /\ at[i] <= L /\ at[i] \in Nat
    BY <1>2, <1>3, <2>1
  <2>3. CharAt(pattern, at, i, low[i])
    BY <1>3
  <2>4. starts[at[i + 1]] = StandsAt(text, low, i)
    BY <1>8
  <2>5. starts[at[i]] = StartsAt(text, pattern, starts, at[i])
    BY <1>6, <2>2
  <2> DEFINE p == at[i]
  <2>6. ~(p > L)
    BY <1>2, <2>2
  <2>7. starts[p] = {t \in 1 .. M : low[i] = text[t] /\ t + 1 \in StandsAt(text, low, i)}
    <3>1. CASE low[i] \in Special
      <4>1. at[i + 1] = p + 2 /\ pattern[p] = Backslash /\ pattern[p + 1] = low[i]
        BY <2>3, <3>1 DEF CharAt
      <4>2. starts[p + 2] = StandsAt(text, low, i)
        BY <2>4, <4>1
      <4> HIDE DEF p
      <4>3. StartsAt(text, pattern, starts, p) =
              {t \in 1 .. M : pattern[p + 1] = text[t] /\ t + 1 \in starts[p + 2]}
        BY <1>4, <2>6, <4>1 DEF StartsAt, L, M
      <4> QED BY <2>5, <4>1, <4>2, <4>3 DEF p
    <3>2. CASE low[i] \notin Special
      <4>1. /\ at[i + 1] = p + 1 /\ pattern[p] = low[i]
            /\ pattern[p] # AnyText /\ pattern[p] # Backslash /\ pattern[p] # AnyOne
        BY <1>5, <2>3, <3>2 DEF CharAt
      <4>2. starts[p + 1] = StandsAt(text, low, i)
        BY <2>4, <4>1
      <4> HIDE DEF p
      <4>3. StartsAt(text, pattern, starts, p) =
              {t \in 1 .. M : pattern[p] \in {AnyOne, text[t]} /\ t + 1 \in starts[p + 1]}
        BY <2>6, <4>1 DEF StartsAt, L, M
      <4>4. \A t \in 1 .. M : pattern[p] \in {AnyOne, text[t]} <=> low[i] = text[t]
        BY <4>1
      <4> QED BY <2>5, <4>2, <4>3, <4>4 DEF p
    <3> QED BY <3>1, <3>2
  <2>8. StandsAt(text, low, i - 1) = {t \in 1 .. M : low[i] = text[t] /\ t + 1 \in StandsAt(text, low, i)}
    BY <1>1, <2>1, StandsEarlier DEF M
  <2>9. starts[p] = StandsAt(text, low, i - 1)
    BY <2>7, <2>8
  <2> QED BY <2>1, <2>9
<1> HIDE DEF S
<1>9. 0 \in S
  <2>1. 0 .. n \subseteq S
    BY <1>1, <1>7, <1>8, Downwards
  <2> QED BY <1>1, <2>1
<1>10. starts[2] = StandsAt(text, low, 0)
  BY <1>3, <1>9 DEF S
<1>11. starts[1] = {t \in 1 .. M + 1 : \E u \in starts[2] : t <= u}
  <2>1. 1 \in 1 .. L + 1 /\ ~(1 > L) /\ 1 + 1 = 2
    BY <1>2
  <2> QED BY <1>2, <1>6, <2>1 DEF StartsAt, L, M
<1>12. StandsAt(text, low, 0) =
         {t \in 1 .. M + 1 : t + n <= M + 1 /\ \A k \in 1 .. n : text[t + (k - 1)] = low[k]}
  <2>1. n - 0 = n /\ 0 + 1 = 1 /\ \A k \in 1 .. n : k - 0 - 1 = k - 1
    BY <1>1
  <2> QED BY <1>1, <2>1 DEF StandsAt, M
<1>13. ASSUME NEW t \in StandsAt(text, low, 0)
       PROVE  \E u \in 0 .. M - n : \A k \in 1 .. n : text[u + k] = low[k]
  <2>1. t \in 1 .. M + 1 /\ t + n <= M + 1 /\ \A k \in 1 .. n : text[t + (k - 1)] = low[k]
    BY <1>12
  <2>2. t - 1 \in 0 .. M - n /\ \A k \in 1 .. n : t + (k - 1) = (t - 1) + k
    BY <1>1, <2>1
  <2> QED BY <2>1, <2>2
<1>14. ASSUME NEW u \in 0 .. M - n, \A k \in 1 .. n : text[u + k] = low[k]
       PROVE  u + 1 \in StandsAt(text, low, 0) /\ 1 <= u + 1
  <2>1. u + 1 \in 1 .. M + 1 /\ (u + 1) + n <= M + 1 /\ \A k \in 1 .. n : (u + 1) + (k - 1) = u + k
    BY <1>1
  <2> QED BY <1>12, <1>14, <2>1
<1>15. 1 \in starts[1] <=> \E u \in 0 .. M - n : \A k \in 1 .. n : text[u + k] = low[k]
  <2>1. 1 \in 1 .. M + 1
    BY <1>1
  <2> QED BY <1>10, <1>11, <1>13, <1>14, <2>1
<1> QED BY <1>6, <1>15 DEF low, pattern, n, M
(* A search without letters outside ASCII finds what holds its words.       *)
LEMMA PlainCharacters ==
  ASSUME NEW q \in Text, Plain(q), NEW text \in Text, database \in Databases,
         NEW i \in 1 .. Len(q), NEW j \in 1 .. Len(text)
  PROVE  Lower(text)[j] = Lowered(AsciiLower, q)[i]
         <=> Lowered(AsciiLower, text)[j] = Lowered(AsciiLower, q)[i]
<1> DEFINE ch == text[j]
           low == Lowered(AsciiLower, q)[i]
<1>1. /\ Lowered(AsciiLower, text)[j] = IF ch \in DOMAIN AsciiLower THEN AsciiLower[ch] ELSE ch
      /\ Lowered(UnicodeLower, text)[j] = IF ch \in DOMAIN UnicodeLower THEN UnicodeLower[ch] ELSE ch
  BY BrowseAssumption, LoweredText
<1>2. \A c \in DOMAIN UnicodeLower \ DOMAIN AsciiLower : low \notin {c, UnicodeLower[c]}
  <2>1. i \in DOMAIN q
    BY DEF Text
  <2> QED BY <2>1 DEF Plain
<1>3. \A c \in DOMAIN AsciiLower : c \in DOMAIN UnicodeLower /\ AsciiLower[c] = UnicodeLower[c]
  BY BrowseAssumption
<1>4. Lower(text) = IF database = "sqlite" THEN Lowered(AsciiLower, text)
                    ELSE Lowered(UnicodeLower, text)
  BY DEF Lower
<1> HIDE DEF ch, low
<1>5. CASE database = "sqlite"
  BY <1>4, <1>5
<1>6. CASE database # "sqlite"
  <2>1. Lowered(UnicodeLower, text)[j] = low <=> Lowered(AsciiLower, text)[j] = low
    BY <1>1, <1>2, <1>3
  <2> QED BY <1>4, <1>6, <2>1 DEF low
<1> QED BY <1>5, <1>6

LEMMA LowerText ==
  ASSUME NEW text \in Text
  PROVE  Lower(text) \in Text /\ Len(Lower(text)) = Len(text)
BY BrowseAssumption, LoweredText DEF Lower

LEMMA SameText ==
  ASSUME NEW q \in Text, NEW text \in Text, NEW u \in 0 .. Len(text) - Len(q)
  PROVE  Lowered(AsciiLower, SubSeq(text, u + 1, u + Len(q))) = Lowered(AsciiLower, q)
         <=> \A k \in 1 .. Len(q) : Lowered(AsciiLower, text)[u + k] = Lowered(AsciiLower, q)[k]
<1> DEFINE part == SubSeq(text, u + 1, u + Len(q))
           n == Len(q)
<1>1. n \in Nat /\ Len(text) \in Nat /\ text \in Seq(Character)
  BY DEF Text
<1>2. part \in Text /\ Len(part) = n /\ \A k \in 1 .. n : part[k] = text[u + k]
  <2>1. u + 1 \in 1 .. Len(text) + 1 /\ u + n \in (u + 1) - 1 .. Len(text)
    BY <1>1
  <2>2. part \in Seq(Character)
    BY <1>1, <2>1, SubSeqProperties
  <2> DEFINE a == u + 1
             b == u + n
  <2>3. a \in Int /\ b \in Int /\ (IF a <= b THEN b - a + 1 ELSE 0) = n /\ b - a + 1 = n
    BY <1>1
  <2>4. \A i \in a .. b : text[i] \in Character
    BY <1>1, <2>1
  <2>5. part = SubSeq(text, a, b) /\ \A k \in 1 .. n : a + k - 1 = u + k
    BY <1>1
  <2> HIDE DEF a, b, part
  <2>6. /\ Len(SubSeq(text, a, b)) = IF a <= b THEN b - a + 1 ELSE 0
        /\ \A k \in 1 .. b - a + 1 : SubSeq(text, a, b)[k] = text[a + k - 1]
    BY <2>3, <2>4, SubSeqProperties
  <2>7. Len(part) = n /\ \A k \in 1 .. n : part[k] = text[a + k - 1]
    BY <1>1, <2>3, <2>5, <2>6
  <2> QED BY <1>1, <2>2, <2>5, <2>7 DEF Text
<1> HIDE DEF part, n
<1> DEFINE a == Lowered(AsciiLower, part)
           b == Lowered(AsciiLower, q)
<1>3. /\ a \in Text /\ Len(a) = n /\ b \in Text /\ Len(b) = n
      /\ \A k \in 1 .. n : a[k] = IF part[k] \in DOMAIN AsciiLower THEN AsciiLower[part[k]] ELSE part[k]
  BY <1>2, BrowseAssumption, LoweredText DEF n
<1>4. ASSUME NEW k \in 1 .. n PROVE a[k] = Lowered(AsciiLower, text)[u + k]
  <2>1. u + k \in 1 .. Len(text)
    BY <1>1 DEF n
  <2> DEFINE j == u + k
  <2>2. Lowered(AsciiLower, text)[j] = IF text[j] \in DOMAIN AsciiLower THEN AsciiLower[text[j]] ELSE text[j]
    BY <2>1, BrowseAssumption, LoweredText
  <2>3. part[k] = text[j]
    BY <1>2
  <2> HIDE DEF j
  <2>4. a[k] = Lowered(AsciiLower, text)[j]
    BY <1>3, <2>2, <2>3
  <2> QED BY <2>4 DEF j
<1> HIDE DEF a, b
<1>5. a = b <=> \A k \in 1 .. n : a[k] = b[k]
  BY <1>1, <1>3 DEF Text
<1> QED BY <1>4, <1>5 DEF a, b, part, n

LEMMA SearchedTexts ==
  ASSUME NEW l, LibraryOK(l), NEW c \in DOMAIN l.clips
  PROVE  Searched(l, c) \subseteq Text
<1>1. l.clips[c] \in ClipRow /\ l.category \in [Game -> Category]
  BY DEF LibraryOK
<1>2. l.clips[c].title \in Text /\ l.clips[c].game \in Game \cup {Null}
  BY <1>1 DEF ClipRow
<1>3. NameOf \in [Game \cup Category -> Text]
  BY BrowseAssumption
<1> QED BY <1>1, <1>2, <1>3 DEF Searched

LEMMA SearchFindsNames ==
  ASSUME NEW l, LibraryOK(l), NEW c \in DOMAIN l.clips, NEW q \in Text, Plain(q),
         database \in Databases
  PROVE  Finds(l, c, q) <=> Names(l, c, q)
<1>1. ASSUME NEW text \in Text
      PROVE  Like(Lower(text), EscapedLikePattern(q)) <=>
               \E u \in 0 .. Len(text) - Len(q) :
                 Lowered(AsciiLower, SubSeq(text, u + 1, u + Len(q))) = Lowered(AsciiLower, q)
  <2>1. Lower(text) \in Text /\ Len(Lower(text)) = Len(text) /\ Len(text) \in Nat /\ Len(q) \in Nat
    BY LowerText DEF Text
  <2>2. Like(Lower(text), EscapedLikePattern(q)) <=>
          \E u \in 0 .. Len(text) - Len(q) :
            \A k \in 1 .. Len(q) : Lower(text)[u + k] = Lowered(AsciiLower, q)[k]
    <3> DEFINE t == Lower(text)
    <3>1. Like(t, EscapedLikePattern(q)) <=>
            \E u \in 0 .. Len(t) - Len(q) : \A k \in 1 .. Len(q) : t[u + k] = Lowered(AsciiLower, q)[k]
      <4> HIDE DEF t
      <4>1. t \in Text
        BY <2>1 DEF t
      <4> QED BY <4>1, LikeFindsPart
    <3> QED BY <2>1, <3>1
  <2>3. ASSUME NEW u \in 0 .. Len(text) - Len(q), NEW k \in 1 .. Len(q)
        PROVE  Lower(text)[u + k] = Lowered(AsciiLower, q)[k]
               <=> Lowered(AsciiLower, text)[u + k] = Lowered(AsciiLower, q)[k]
    <3>1. u + k \in 1 .. Len(text)
      BY <2>1
    <3> QED BY <3>1, PlainCharacters
  <2> QED BY <2>2, <2>3, SameText
<1>2. Searched(l, c) \subseteq Text
  BY SearchedTexts
<1> QED BY <1>1, <1>2 DEF Finds, Names

-----------------------------------------------------------------------------
(* A walk that nothing disturbed                                            *)

LEMMA WantedIsSelected ==
  ASSUME BrowseTypeOK, walk.ask \in Asks,
         "query" \in DOMAIN walk.ask.filter => Plain(walk.ask.filter["query"])
  PROVE  Wanted(walk.ask) = Selected(lib, walk.ask)
<1> DEFINE ask == walk.ask
           filter == ask.filter
           rest == Restrict(filter, DOMAIN filter \ {"query"})
<1>1. AskOK(ask) /\ LibraryOK(lib) /\ database \in Databases
  BY BrowseAssumption DEF BrowseTypeOK
<1>2. rest = [name \in DOMAIN filter \ {"query"} |-> filter[name]]
  BY DEF Restrict
<1> HIDE DEF ask, filter, rest
<1>3. /\ DOMAIN rest = DOMAIN filter \ {"query"}
      /\ \A name \in DOMAIN rest : rest[name] = filter[name]
  BY <1>2
<1>4. ASSUME NEW c \in DOMAIN lib.clips
      PROVE  Passes(lib, c, ask.list, filter) <=>
               /\ Passes(lib, c, ask.list, rest)
               /\ "query" \in DOMAIN filter => Finds(lib, c, filter["query"])
  <2>1. CASE ask.list = "own"
    <3>1. HasStatus(lib, c, filter) <=> HasStatus(lib, c, rest)
      BY <1>3 DEF HasStatus
    <3>2. Satisfies(lib, c, "query", filter["query"]) <=> Finds(lib, c, filter["query"])
      BY DEF Satisfies, SatisfiesPublic, PublicFilterName
    <3>3. PassesOwn(lib, c, filter) <=>
            /\ HasStatus(lib, c, filter)
            /\ \A name \in DOMAIN rest \ {"status"} : Satisfies(lib, c, name, filter[name])
            /\ "query" \in DOMAIN filter => Satisfies(lib, c, "query", filter["query"])
      BY <1>3 DEF PassesOwn
    <3>4. PassesOwn(lib, c, rest) <=>
            /\ HasStatus(lib, c, rest)
            /\ \A name \in DOMAIN rest \ {"status"} : Satisfies(lib, c, name, filter[name])
      BY <1>3 DEF PassesOwn
    <3> QED BY <2>1, <3>1, <3>2, <3>3, <3>4 DEF Passes
  <2>2. CASE ask.list # "own"
    <3>1. SatisfiesPublic(lib, c, "query", filter["query"]) <=> Finds(lib, c, filter["query"])
      BY DEF SatisfiesPublic
    <3>2. PassesPublic(lib, c, filter) <=>
            /\ \A name \in DOMAIN rest : SatisfiesPublic(lib, c, name, filter[name])
            /\ "query" \in DOMAIN filter => SatisfiesPublic(lib, c, "query", filter["query"])
      BY <1>3 DEF PassesPublic
    <3>3. PassesPublic(lib, c, rest) <=>
            \A name \in DOMAIN rest : SatisfiesPublic(lib, c, name, filter[name])
      BY <1>3 DEF PassesPublic
    <3> QED BY <2>2, <3>1, <3>2, <3>3 DEF Passes
  <2> QED BY <2>1, <2>2
<1>5. ASSUME NEW c \in DOMAIN lib.clips, "query" \in DOMAIN filter
      PROVE  Finds(lib, c, filter["query"]) <=> Names(lib, c, filter["query"])
  <2>1. filter["query"] \in Text /\ Plain(filter["query"])
    BY <1>1, <1>5 DEF AskOK, ask, filter
  <2> QED BY <1>1, <2>1, SearchFindsNames
<1>6. Wanted(ask) = {c \in DOMAIN lib.clips :
        /\ InList(lib, c, ask.list, ask.who) /\ Passes(lib, c, ask.list, rest)
        /\ "query" \in DOMAIN filter => Names(lib, c, filter["query"])}
  BY DEF Wanted, rest, filter
<1>7. Selected(lib, ask) = {c \in DOMAIN lib.clips :
        InList(lib, c, ask.list, ask.who) /\ Passes(lib, c, ask.list, filter)}
  BY DEF Selected, filter
<1>8. Wanted(ask) = Selected(lib, ask)
  BY <1>4, <1>5, <1>6, <1>7
<1> QED BY <1>8 DEF ask

LEMMA InvariantComplete == BrowseTypeOK /\ WalkInv => WalkIsComplete
<1> SUFFICES ASSUME BrowseTypeOK, WalkInv, Walked, ~walk.came, ~walk.went
             PROVE  WalkIsComplete
  BY DEF WalkIsComplete
<1>1. /\ walk.pc = "done" /\ FromStart(walk) /\ Listing(walk) /\ Paged(walk) /\ Begun(walk)
  BY DEF Walked, FromStart, Listing, Begun, Paged
<1>2. walk.ask \in Asks /\ AskOK(walk.ask) /\ LibraryOK(lib) /\ walk.got \in Seq(Clip)
  BY <1>1, WalkFields DEF BrowseTypeOK
<1>3. /\ ThroughOK(lib, walk) /\ NoneMissed(lib, walk) /\ NoneRepeated(lib, walk) /\ ~walk.more
  BY <1>1 DEF WalkInv, PagesEnd
<1>4. ToSet(walk.got) = Selected(lib, walk.ask)
  <2>1. walk.through = Selected(lib, walk.ask) /\ ToSet(walk.got) \subseteq Selected(lib, walk.ask)
    BY <1>3 DEF ThroughOK
  <2>2. walk.through \subseteq ToSet(walk.got)
    BY <1>1, <1>3 DEF NoneMissed
  <2> QED BY <2>1, <2>2
<1>5. ASSUME "query" \in DOMAIN walk.ask.filter => Plain(walk.ask.filter["query"])
      PROVE  ToSet(walk.got) = Wanted(walk.ask)
  BY <1>2, <1>4, <1>5, WantedIsSelected
<1>6. ASSUME BelowLastPage(walk)
      PROVE  /\ ~RepeatsIn(walk.got)
             /\ \A i, j \in DOMAIN walk.got : i < j => Before(lib, walk.ask.sort, walk.got[i], walk.got[j])
  <2>1. \A i \in DOMAIN walk.got : walk.got[i] \in Selected(lib, walk.ask)
    BY <1>4 DEF ToSet
  <2> QED BY <1>1, <1>3, <1>6, <2>1 DEF NoneRepeated
<1>7. ASSUME BelowLastPage(walk), NEW i \in DOMAIN walk.got, NEW j \in DOMAIN walk.got, i < j,
             lib.clips[walk.got[j]][walk.ask.sort.column] # Null
      PROVE  LET x == lib.clips[walk.got[i]][walk.ask.sort.column]
                 y == lib.clips[walk.got[j]][walk.ask.sort.column]
             IN  x # Null /\ ~Less(walk.ask.sort, y, x)
  <2> DEFINE x == lib.clips[walk.got[i]][walk.ask.sort.column]
             y == lib.clips[walk.got[j]][walk.ask.sort.column]
  <2>1. Before(lib, walk.ask.sort, walk.got[i], walk.got[j])
    BY <1>6, <1>7
  <2>2. walk.got[i] \in DOMAIN lib.clips /\ walk.got[j] \in DOMAIN lib.clips
    BY <1>2, <1>4, SelectedIsFinite DEF ToSet
  <2>3. x \in Moments /\ y \in Moments /\ walk.ask.sort.dir \in {"asc", "desc"}
    BY <1>2, <2>2, SortColumns
  <2>4. \/ x # Null /\ y # Null /\ Less(walk.ask.sort, x, y)
        \/ x = y
    BY <1>7, <2>1 DEF Before
  <2> HIDE DEF x, y
  <2>5. y # Null
    BY <1>7 DEF y
  <2>6. x # Null /\ x \in Nat /\ y \in Nat
    BY <2>3, <2>4, <2>5 DEF Moments
  <2>7. ~Less(walk.ask.sort, y, x)
    BY <2>4, <2>6 DEF Less
  <2> QED BY <2>6, <2>7 DEF x, y
<1> QED BY <1>5, <1>6, <1>7 DEF WalkIsComplete

(* A walk that nothing disturbed shows every clip that was asked for, none  *)
(* twice and in the order asked for (push_clip_optional_filters,            *)
(* escaped_like_pattern, clip_order_by, list_clips, list_public_clips).     *)
THEOREM WalksAreComplete == BrowseSpec => []WalkIsComplete
BY BrowseInvariant, InvariantComplete, PTL
=============================================================================
