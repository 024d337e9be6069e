------------------------ MODULE UploadAdmissionProofs ------------------------
(***************************************************************************)
(* Proofs about UploadAdmission: for any number of requests and of         *)
(* processes, any limits, quotas and sizes, the limits hold once the       *)
(* creates have settled, every multipart upload is one something leads to, *)
(* and the parts of a session are exactly its file.                        *)
(*                                                                         *)
(* The bytes of a user are a sum over a set, a recursive function of the   *)
(* community modules.  What is needed of sums is proved first, by taking a *)
(* least counterexample: subsets of a finite set, ordered by inclusion,    *)
(* are well-founded (WFMin), which takes the place of an induction.        *)
(***************************************************************************)
EXTENDS UploadAdmission, FiniteSetTheorems, WellFoundedInduction, TLAPS

\* The steps before the call of the store.
Early == {"lookup", "policy", "count", "quota", "store"}

\* A request in flight has a number of its own, and a size that was checked.
RequestsAreSound ==
  \A p \in Proc : reqs[p].pc # "idle" =>
    /\ reqs[p].id \in 1 .. begun /\ Valid(reqs[p].size)
    /\ \A q \in Proc : reqs[q].pc # "idle" /\ reqs[q].id = reqs[p].id => p = q

\* Before its transaction a request has no row, and before its call of the
\* store no multipart upload.
StepsAreInOrder ==
  \A p \in Proc :
    /\ reqs[p].pc \in Early \cup {"insert", "cleanup"} => rows[reqs[p].id] = NoRow
    /\ reqs[p].pc \in Early => reqs[p].id \notin multiparts
    /\ reqs[p].pc \in {"insert", "cleanup"} /\ reqs[p].id \in multiparts => Chunked(reqs[p].size)
    /\ reqs[p].pc = "delete" => reqs[p].id \notin multiparts \ stranded

\* Numbers not given yet are in no table, and an active session is of a clip
\* that counts, with the parts planned for its size.
RowsAreSound ==
  /\ \A i \in Id : i > begun => rows[i] = NoRow /\ i \notin multiparts
  /\ \A i \in Active :
       /\ rows[i].clip = "counted" /\ Valid(rows[i].size)
       /\ rows[i].part = ChoosePartSize(rows[i].size)

Undecided(pcs) == {i \in Id : \E p \in Proc : reqs[p].id = i /\ reqs[p].pc \in pcs}
CheckedSessions == (Active \ unchecked) \ Undecided({"recount", "abort", "delete"})
CheckedRows == (Id \ unchecked) \ Undecided({"recount", "requota", "abort", "delete"})

\* The sessions whose request has counted them with the others are within
\* the limit, and so are the bytes of those that have been added up.
CheckedIsWithinLimits ==
  /\ Cardinality(CheckedSessions) <= MaxActive
  /\ EffectiveQuota # NotSet => Bytes(CheckedRows) <= EffectiveQuota

AdmissionInv ==
  /\ TypeOK /\ RequestsAreSound /\ StepsAreInOrder /\ RowsAreSound
  /\ MultipartsAreReachable /\ CheckedIsWithinLimits

-----------------------------------------------------------------------------
(* Sums.                                                                   *)

\* How a sum goes: it takes the element it picks, and adds up the rest.
Pick(s) == CHOOSE x \in s : TRUE
IsSum(g, f, S) ==
  g = [s \in SUBSET S |-> IF s = {} THEN 0 ELSE f[Pick(s)] + g[s \ {Pick(s)}]]

\* The sum of f over S is the value at S of a function on the subsets of S.
LEMMA SumIsChosen ==
  ASSUME NEW f, NEW S
  PROVE  SumFunctionOnSet(f, S) = (CHOOSE g : IsSum(g, f, S))[S]
BY DEF SumFunctionOnSet, FoldFunctionOnSet, MapThenFoldSet, IsSum, Pick

\* Any collection of subsets of a finite set has one with no other below it.
LEMMA LeastSubset ==
  ASSUME NEW S, IsFiniteSet(S), NEW T, T \subseteq SUBSET S, T # {}
  PROVE  \E x \in T : \A y \in T : y \subseteq x => y = x
<1>1. IsWellFoundedOn(StrictSubsetOrdering(S), SUBSET S)
  BY FS_StrictSubsetOrderingWellFounded, FS_FiniteSubsetsOfFinite
<1>2. PICK x \in T : \A y \in T : ~ (<<y, x>> \in StrictSubsetOrdering(S))
  BY <1>1, WFMin
<1>3. QED BY <1>2 DEF StrictSubsetOrdering

\* The element a sum takes next is of the set.
LEMMA PickInSet == ASSUME NEW s, s # {} PROVE Pick(s) \in s
BY DEF Pick

\* On the subsets of a smaller set the two functions agree.
LEMMA SumsAgree ==
  ASSUME NEW f, NEW S, IsFiniteSet(S), NEW g, IsSum(g, f, S), NEW R \in SUBSET S, NEW h, IsSum(h, f, R)
  PROVE  \A s \in SUBSET R : g[s] = h[s]
<1> DEFINE Bad == {s \in SUBSET R : g[s] # h[s]}
<1>1. SUFFICES ASSUME Bad # {} PROVE FALSE
  OBVIOUS
<1>2. IsFiniteSet(R)
  BY FS_Subset
<1>3. PICK s \in Bad : \A t \in Bad : t \subseteq s => t = s
  <2>1. Bad \subseteq SUBSET R
    OBVIOUS
  <2>. HIDE DEF Bad
  <2>2. QED BY <1>1, <1>2, <2>1, LeastSubset
<1>4. s # {}
  BY <1>3 DEF IsSum
<1>5. Pick(s) \in s
  BY <1>4, PickInSet
<1>6. s \ {Pick(s)} \notin Bad
  BY <1>3, <1>5
<1>7. g[s] = f[Pick(s)] + g[s \ {Pick(s)}]
  BY <1>4 DEF IsSum
<1>8. h[s] = f[Pick(s)] + h[s \ {Pick(s)}]
  BY <1>4 DEF IsSum
<1>9. QED BY <1>3, <1>6, <1>7, <1>8

\* A function that adds up over S does so over its subsets.
LEMMA SumRestricted ==
  ASSUME NEW f, NEW S, NEW g, IsSum(g, f, S), NEW R \in SUBSET S
  PROVE  IsSum([s \in SUBSET R |-> g[s]], f, R)
BY DEF IsSum

\* There is a function that adds up, whatever the finite set.
LEMMA SumExists ==
  ASSUME NEW f, NEW S, IsFiniteSet(S)
  PROVE  \E g : IsSum(g, f, S)
<1> DEFINE Bad == {s \in SUBSET S : ~ \E g : IsSum(g, f, s)}
<1>1. SUFFICES ASSUME Bad # {} PROVE FALSE
  OBVIOUS
<1>2. PICK R \in Bad : \A t \in Bad : t \subseteq R => t = R
  <2>1. Bad \subseteq SUBSET S
    OBVIOUS
  <2>. HIDE DEF Bad
  <2>2. QED BY <1>1, <2>1, LeastSubset
<1> DEFINE Of(s) == CHOOSE g : IsSum(g, f, s)
           G == [s \in SUBSET R |-> IF s = {} THEN 0
                  ELSE f[Pick(s)] + Of(s \ {Pick(s)})[s \ {Pick(s)}]]
<1>3. \A s \in SUBSET R : s # R => IsSum(Of(s), f, s)
  <2>1. \A s \in SUBSET R : s # R => \E g : IsSum(g, f, s)
    BY <1>2
  <2>2. QED BY <2>1
<1>4. IsFiniteSet(R)
  BY <1>2, FS_Subset
<1>5. ASSUME NEW s \in SUBSET R, s # R, NEW t \in SUBSET s
      PROVE  Of(s)[t] = Of(t)[t]
  <2>1. IsSum(Of(s), f, s) /\ IsSum(Of(t), f, t)
    BY <1>3, <1>5
  <2>2. IsFiniteSet(s)
    BY <1>4, FS_Subset
  <2>. HIDE DEF Of
  <2>3. QED BY <2>1, <2>2, SumsAgree
<1>6. ASSUME NEW s \in SUBSET R, s # R
      PROVE  G[s] = Of(s)[s]
  <2>1. CASE s = {}
    <3>1. IsSum(Of(s), f, s)
      BY <1>3, <1>6
    <3>. HIDE DEF Of
    <3>2. Of(s)[s] = 0
      BY <3>1, <2>1 DEF IsSum
    <3>3. QED BY <3>2, <2>1
  <2>2. CASE s # {}
    <3>1. IsSum(Of(s), f, s)
      BY <1>3, <1>6
    <3>2. Of(s)[s \ {Pick(s)}] = Of(s \ {Pick(s)})[s \ {Pick(s)}]
      BY <1>5, <1>6
    <3>. HIDE DEF Of
    <3>3. Of(s)[s] = f[Pick(s)] + Of(s)[s \ {Pick(s)}]
      BY <3>1, <2>2 DEF IsSum
    <3>4. QED BY <3>2, <3>3, <2>2
  <2>3. QED BY <2>1, <2>2
<1>7. IsSum(G, f, R)
  <2>1. ASSUME NEW s \in SUBSET R, s # {}
        PROVE  G[s] = f[Pick(s)] + G[s \ {Pick(s)}]
    <3>1. Pick(s) \in s
      BY <2>1, PickInSet
    <3>2. G[s \ {Pick(s)}] = Of(s \ {Pick(s)})[s \ {Pick(s)}]
      <4>1. s \ {Pick(s)} \in SUBSET R /\ s \ {Pick(s)} # R
        BY <3>1
      <4>. HIDE DEF G, Of
      <4>2. QED BY <4>1, <1>6
    <3>. HIDE DEF Of
    <3>3. QED BY <2>1, <3>2
  <2>2. G = [s \in SUBSET R |-> IF s = {} THEN 0 ELSE f[Pick(s)] + G[s \ {Pick(s)}]]
    <3>1. \A s \in SUBSET R : G[s] = IF s = {} THEN 0 ELSE f[Pick(s)] + G[s \ {Pick(s)}]
      <4>1. G[{}] = 0
        OBVIOUS
      <4>. HIDE DEF G
      <4>2. QED BY <4>1, <2>1
    <3>2. G = [s \in SUBSET R |-> G[s]]
      <4>. HIDE DEF Of
      <4>1. QED OBVIOUS
    <3>. HIDE DEF G
    <3>3. QED BY <3>1, <3>2
  <2>3. QED BY <2>2 DEF IsSum
<1>8. QED BY <1>2, <1>7

\* Nothing adds up to nothing.
LEMMA SumEmpty == ASSUME NEW f PROVE SumFunctionOnSet(f, {}) = 0
<1>1. \E g : IsSum(g, f, {})
  BY FS_EmptySet, SumExists
<1>2. IsSum(CHOOSE g : IsSum(g, f, {}), f, {})
  BY <1>1
<1>3. QED BY <1>2, SumIsChosen DEF IsSum

\* The function of S gives the sums over all of its subsets.
LEMMA SumOfSubset ==
  ASSUME NEW f, NEW S, IsFiniteSet(S), NEW R \in SUBSET S, NEW g, IsSum(g, f, S)
  PROVE  SumFunctionOnSet(f, R) = g[R]
<1>1. IsFiniteSet(R)
  BY FS_Subset
<1> DEFINE h == CHOOSE g_1 : IsSum(g_1, f, R)
<1>2. IsSum(h, f, R)
  BY <1>1, SumExists
<1> HIDE DEF h
<1>3. g[R] = h[R]
  BY <1>2, SumsAgree
<1>4. QED BY <1>3, SumIsChosen DEF h

\* The recursion of a sum, for the element it picks.
LEMMA SumPicks ==
  ASSUME NEW f, NEW S, IsFiniteSet(S), S # {}
  PROVE  SumFunctionOnSet(f, S) = f[Pick(S)] + SumFunctionOnSet(f, S \ {Pick(S)})
<1>1. PICK g : IsSum(g, f, S)
  BY SumExists
<1>2. g[S] = f[Pick(S)] + g[S \ {Pick(S)}]
  BY <1>1 DEF IsSum
<1>3. QED BY <1>1, <1>2, SumOfSubset

\* A sum of naturals is one.
LEMMA SumType ==
  ASSUME NEW D, NEW f \in [D -> Nat], NEW S \in SUBSET D, IsFiniteSet(S)
  PROVE  SumFunctionOnSet(f, S) \in Nat
<1> DEFINE Bad == {s \in SUBSET S : SumFunctionOnSet(f, s) \notin Nat}
<1>1. SUFFICES ASSUME Bad # {} PROVE FALSE
  OBVIOUS
<1>2. PICK s \in Bad : \A t \in Bad : t \subseteq s => t = s
  <2>1. Bad \subseteq SUBSET S
    OBVIOUS
  <2>. HIDE DEF Bad
  <2>2. QED BY <1>1, <2>1, LeastSubset
<1>3. s # {} /\ IsFiniteSet(s) /\ s \subseteq S
  <2>1. SumFunctionOnSet(f, {}) \in Nat
    BY SumEmpty
  <2>2. s # {} /\ s \subseteq S
    BY <1>2, <2>1
  <2>3. QED BY <2>2, FS_Subset
<1>4. Pick(s) \in s
  BY <1>3, PickInSet
<1>5. SumFunctionOnSet(f, s \ {Pick(s)}) \in Nat
  BY <1>2, <1>4
<1>6. SumFunctionOnSet(f, s) = f[Pick(s)] + SumFunctionOnSet(f, s \ {Pick(s)})
  BY <1>3, SumPicks
<1>7. f[Pick(s)] \in Nat
  BY <1>3, <1>4
<1>8. QED BY <1>2, <1>5, <1>6, <1>7

\* Any element may be taken out of a sum first.
LEMMA SumOfRest ==
  ASSUME NEW D, NEW f \in [D -> Nat], NEW S \in SUBSET D, IsFiniteSet(S), NEW x \in S
  PROVE  SumFunctionOnSet(f, S) = f[x] + SumFunctionOnSet(f, S \ {x})
<1> DEFINE Total(s) == SumFunctionOnSet(f, s)
           Bad == {s \in SUBSET S : \E y \in s : Total(s) # f[y] + Total(s \ {y})}
<1>1. SUFFICES ASSUME Bad # {} PROVE FALSE
  OBVIOUS
<1>2. PICK s \in Bad : \A t \in Bad : t \subseteq s => t = s
  <2>1. Bad \subseteq SUBSET S
    OBVIOUS
  <2>. HIDE DEF Bad
  <2>2. QED BY <1>1, <2>1, LeastSubset
<1>3. s \subseteq S /\ IsFiniteSet(s)
  BY <1>2, FS_Subset
<1>4. PICK y \in s : Total(s) # f[y] + Total(s \ {y})
  BY <1>2
<1>5. PICK z \in s : Total(s) = f[z] + Total(s \ {z})
  BY <1>3, SumPicks, PickInSet
<1>6. y # z
  BY <1>4, <1>5
<1>7. Total(s \ {z}) = f[y] + Total((s \ {z}) \ {y})
  <2>. HIDE DEF Total
  <2>1. s \ {z} \notin Bad /\ s \ {z} \in SUBSET S
    BY <1>2
  <2>2. QED BY <2>1, <1>6
<1>8. Total(s \ {y}) = f[z] + Total((s \ {y}) \ {z})
  <2>. HIDE DEF Total
  <2>1. s \ {y} \notin Bad /\ s \ {y} \in SUBSET S
    BY <1>2
  <2>2. QED BY <2>1, <1>6
<1>9. (s \ {z}) \ {y} = (s \ {y}) \ {z}
  OBVIOUS
<1>10. Total((s \ {y}) \ {z}) \in Nat
  BY <1>3, FS_Subset, SumType
<1>11. f[y] \in Nat /\ f[z] \in Nat
  BY <1>3
<1> HIDE DEF Total
<1>12. QED BY <1>4, <1>5, <1>7, <1>8, <1>9, <1>10, <1>11

\* A sum over fewer elements is no larger.
LEMMA SumMonotone ==
  ASSUME NEW D, NEW f \in [D -> Nat], NEW S \in SUBSET D, IsFiniteSet(S), NEW R \in SUBSET S
  PROVE  SumFunctionOnSet(f, R) <= SumFunctionOnSet(f, S)
<1> DEFINE Total(s) == SumFunctionOnSet(f, s)
           Bad == {s \in SUBSET S : R \subseteq s /\ ~ (Total(R) <= Total(s))}
<1>1. SUFFICES ASSUME Bad # {} PROVE FALSE
  OBVIOUS
<1>2. PICK s \in Bad : \A t \in Bad : t \subseteq s => t = s
  <2>1. Bad \subseteq SUBSET S
    OBVIOUS
  <2>. HIDE DEF Bad
  <2>2. QED BY <1>1, <2>1, LeastSubset
<1>3. s \subseteq S /\ IsFiniteSet(s) /\ IsFiniteSet(R) /\ R \subseteq s
  BY <1>2, FS_Subset
<1>4. Total(R) \in Nat
  BY <1>3, SumType
<1>5. PICK x \in s : x \notin R
  BY <1>2, <1>3, <1>4
<1>6. Total(R) <= Total(s \ {x})
  BY <1>2, <1>3, <1>5
<1>7. Total(s) = f[x] + Total(s \ {x})
  BY <1>3, SumOfRest
<1>8. Total(s \ {x}) \in Nat /\ f[x] \in Nat
  BY <1>3, FS_Subset, SumType
<1> HIDE DEF Total
<1>9. QED BY <1>2, <1>4, <1>6, <1>7, <1>8

\* A sum is no larger than another that has, of every element, at least as much.
LEMMA SumBounded ==
  ASSUME NEW D, IsFiniteSet(D), NEW f \in [D -> Nat], NEW g \in [D -> Nat],
         NEW S \in SUBSET D, NEW T \in SUBSET D,
         \A x \in S : f[x] <= IF x \in T THEN g[x] ELSE 0
  PROVE  SumFunctionOnSet(f, S) <= SumFunctionOnSet(g, T)
<1> DEFINE F(s) == SumFunctionOnSet(f, s)
           G(s) == SumFunctionOnSet(g, s)
           Bad == {s \in SUBSET S : ~ (F(s) <= G(s \cap T))}
<1>0. IsFiniteSet(S) /\ \A s \in SUBSET D : IsFiniteSet(s) /\ F(s) \in Nat /\ G(s) \in Nat
  BY FS_Subset, SumType
<1> SUFFICES ASSUME Bad # {} PROVE FALSE
  <2>1. Bad = {} => F(S) <= G(S \cap T)
    OBVIOUS
  <2>2. G(S \cap T) <= G(T)
    BY <1>0, SumMonotone
  <2>. HIDE DEF F, G, Bad
  <2>3. Bad = {} => F(S) <= G(T)
    BY <1>0, <2>1, <2>2
  <2>4. QED BY <2>3 DEF F, G
<1>1. PICK s \in Bad : \A t \in Bad : t \subseteq s => t = s
  <2>1. Bad \subseteq SUBSET S
    OBVIOUS
  <2>. HIDE DEF Bad
  <2>2. QED BY <1>0, <2>1, LeastSubset
<1>2. s \subseteq S /\ s # {}
  <2>1. F({}) = 0 /\ G({}) = 0
    BY SumEmpty
  <2>. HIDE DEF F, G
  <2>2. s = {} => s \cap T = {}
    OBVIOUS
  <2>3. QED BY <2>1, <2>2
<1>3. PICK x : x \in s
  BY <1>2
<1>4. F(s \ {x}) <= G((s \ {x}) \cap T)
  BY <1>1, <1>2, <1>3
<1>5. F(s) = f[x] + F(s \ {x})
  BY <1>0, <1>2, <1>3, SumOfRest
<1>6. x \in T => G(s \cap T) = g[x] + G((s \cap T) \ {x})
  <2>1. s \cap T \in SUBSET D
    OBVIOUS
  <2>2. QED BY <1>0, <1>3, <2>1, SumOfRest
<1>7. (s \ {x}) \cap T = IF x \in T THEN (s \cap T) \ {x} ELSE s \cap T
  BY <1>3
<1>8. f[x] \in Nat /\ g[x] \in Nat /\ x \in S
  BY <1>2, <1>3
<1>9. F(s \ {x}) \in Nat /\ G((s \cap T) \ {x}) \in Nat /\ G(s \cap T) \in Nat /\ F(s) \in Nat
  BY <1>0, <1>2
<1>10. ~ (F(s) <= G(s \cap T))
  OBVIOUS
<1> HIDE DEF F, G, Bad
<1>11. QED BY <1>4, <1>5, <1>6, <1>7, <1>8, <1>9, <1>10

-----------------------------------------------------------------------------
(* Types.                                                                  *)

Pcs == {"idle", "lookup", "policy", "count", "quota", "store", "insert", "cleanup",
        "recount", "requota", "abort", "delete"}
Row == [clip : {"none", "counted", "failed", "deleted"}, session : {"none", "active"},
        key : Key \cup {NoKey}, size : 0 .. MaxUpload, part : Nat, multi : BOOLEAN]
Req == [pc : Pcs, id : Id \cup {NoId}, key : Key \cup {NoKey}, size : 0 .. MaxUpload]

\* The type invariant, in terms of the types of a row and of a request.
LEMMA TypeParts ==
  TypeOK <=> /\ setup \in Setups /\ rows \in [Id -> Row] /\ reqs \in [Proc -> Req]
             /\ multiparts \subseteq Id /\ stranded \subseteq Id /\ unchecked \subseteq Id
             /\ \A p \in Proc : reqs[p] # Idle => reqs[p].pc # "idle" /\ reqs[p].id \in Id
             /\ begun \in 0 .. MaxRequests
BY DEF TypeOK, Row, Req, Pcs

\* The record of no request and of no row are of their types.
LEMMA IdleType == Idle \in Req /\ NoRow \in Row
BY AdmissionAssumption DEF Idle, NoRow, Req, Row, Pcs

\* A request moves on, or ends.
LEMMA GotoShape ==
  ASSUME TypeOK, NEW p \in Proc, NEW pc \in Pcs, Goto(p, pc)
  PROVE  /\ reqs' \in [Proc -> Req] /\ \A q \in Proc : q # p => reqs'[q] = reqs[q]
         /\ reqs'[p].pc = pc /\ reqs'[p].id = reqs[p].id
         /\ reqs'[p].key = reqs[p].key /\ reqs'[p].size = reqs[p].size
<1>1. reqs \in [Proc -> Req]
  BY TypeParts
<1>2. reqs' = [reqs EXCEPT ![p] = [reqs[p] EXCEPT !.pc = pc]]
  BY DEF Goto
<1>3. [reqs[p] EXCEPT !.pc = pc] \in Req
  BY <1>1 DEF Req
<1>4. /\ [reqs[p] EXCEPT !.pc = pc].pc = pc /\ [reqs[p] EXCEPT !.pc = pc].id = reqs[p].id
      /\ [reqs[p] EXCEPT !.pc = pc].key = reqs[p].key
      /\ [reqs[p] EXCEPT !.pc = pc].size = reqs[p].size
  BY <1>1 DEF Req
<1>5. reqs'[p] = [reqs[p] EXCEPT !.pc = pc]
  BY <1>1, <1>2
<1>6. QED BY <1>1, <1>2, <1>3, <1>4, <1>5

\* A request that ends leaves nothing.
LEMMA EndShape ==
  ASSUME TypeOK, NEW p \in Proc, End(p)
  PROVE  /\ reqs' \in [Proc -> Req] /\ \A q \in Proc : q # p => reqs'[q] = reqs[q]
         /\ reqs'[p] = Idle
BY TypeParts, IdleType DEF End

\* What each kind of step leaves a request.
Moves(p, pcs) ==
  /\ reqs' \in [Proc -> Req] /\ \A q \in Proc : q # p => reqs'[q] = reqs[q]
  /\ \/ reqs'[p] = Idle
     \/ /\ reqs'[p].pc \in pcs /\ reqs'[p].id = reqs[p].id
        /\ reqs'[p].key = reqs[p].key /\ reqs'[p].size = reqs[p].size

\* Either way, nothing happens to the other requests.
LEMMA MovesShape ==
  ASSUME TypeOK, NEW p \in Proc, NEW pcs \in SUBSET Pcs,
         End(p) \/ \E pc \in pcs : Goto(p, pc)
  PROVE  Moves(p, pcs)
<1>1. CASE End(p)
  BY <1>1, EndShape DEF Moves
<1>2. ASSUME NEW pc \in pcs, Goto(p, pc) PROVE Moves(p, pcs)
  BY <1>2, GotoShape DEF Moves
<1>3. QED BY <1>1, <1>2

\* Steps that only read.
Reads(p, from, to) ==
  /\ reqs[p].pc = from /\ Moves(p, to)
  /\ UNCHANGED <<setup, rows, multiparts, begun, stranded, unchecked>>

\* Which actions only read, from where to where.
LEMMA ReadingSteps ==
  ASSUME TypeOK, NEW p \in Proc
  PROVE  /\ Lookup(p) => Reads(p, "lookup", {"policy"})
         /\ Policy(p) => Reads(p, "policy", {"count"})
         /\ Count(p) => Reads(p, "count", {"quota"})
         /\ Quota(p) => Reads(p, "quota", {"store"})
         /\ StoreFails(p) => Reads(p, "store", {})
         /\ InsertFails(p) => Reads(p, "insert", {"cleanup"}) /\ reqs'[p].pc = "cleanup"
         /\ Recount(p) => /\ Reads(p, "recount", {"abort", "requota"})
                          /\ reqs'[p].pc \in {"abort", "requota"}
         /\ Requota(p) => Reads(p, "requota", {"abort"})
<1> USE DEF Reads, At, Unchanged, history, Pcs
<1>1. Lookup(p) => Reads(p, "lookup", {"policy"})
  BY MovesShape DEF Lookup
<1>2. Policy(p) => Reads(p, "policy", {"count"})
  BY MovesShape DEF Policy
<1>3. Count(p) => Reads(p, "count", {"quota"})
  BY MovesShape DEF Count
<1>4. Quota(p) => Reads(p, "quota", {"store"})
  BY MovesShape DEF Quota
<1>5. StoreFails(p) => Reads(p, "store", {})
  BY MovesShape DEF StoreFails
<1>6. InsertFails(p) => Reads(p, "insert", {"cleanup"}) /\ reqs'[p].pc = "cleanup"
  <2>1. InsertFails(p) => Goto(p, "cleanup")
    BY DEF InsertFails, AfterFailure, Goto
  <2>2. InsertFails(p) => Moves(p, {"cleanup"}) /\ reqs'[p].pc = "cleanup"
    BY <2>1, MovesShape, GotoShape
  <2>3. QED BY <2>2 DEF InsertFails
<1>7. Recount(p) => /\ Reads(p, "recount", {"abort", "requota"})
                    /\ reqs'[p].pc \in {"abort", "requota"}
  BY MovesShape, GotoShape DEF Recount
<1>8. Requota(p) => Reads(p, "requota", {"abort"})
  BY MovesShape DEF Requota
<1>9. QED BY <1>1, <1>2, <1>3, <1>4, <1>5, <1>6, <1>7, <1>8

\* The part size is a natural.
LEMMA PartSizeType ==
  ASSUME NEW size \in Nat, setup \in Setups
  PROVE  ChoosePartSize(size) \in Nat
<1>1. DivCeil(size, MaxParts) \in Nat
  BY AdmissionAssumption DEF DivCeil
<1>2. Larger(PartFloor, Larger(DivCeil(size, MaxParts), IF setup.store = "s3" THEN S3Min ELSE 0)) \in Nat
  BY <1>1, AdmissionAssumption DEF Larger
<1>3. ASSUME NEW n \in Nat PROVE RoundUpToMib(n) \in Nat
  <2>1. (n + Mib - 1) \div Mib \in Nat
    BY AdmissionAssumption
  <2>2. QED BY <2>1, AdmissionAssumption DEF RoundUpToMib
<1>4. QED BY <1>2, <1>3 DEF ChoosePartSize

\* What a request inserts is a row.
LEMMA BundleType ==
  ASSUME TypeOK, NEW p \in Proc
  PROVE  Bundle(reqs[p]) \in Row
<1>1. reqs[p].key \in Key \cup {NoKey} /\ reqs[p].size \in 0 .. MaxUpload
  BY TypeParts DEF Req
<1>2. ChoosePartSize(reqs[p].size) \in Nat
  BY <1>1, PartSizeType, TypeParts, AdmissionAssumption
<1>3. QED BY <1>1, <1>2 DEF Bundle, Row, Chunked

\* The end of a session changes its own row only.
LEMMA EndsShape ==
  ASSUME TypeOK, NEW i \in Id, NEW row \in Row, Ends(i, row)
  PROVE  rows' \in [Id -> Row] /\ rows'[i] = row /\ \A j \in Id : j # i => rows'[j] = rows[j]
BY TypeParts DEF Ends

\* A read, with what the reads that decide have found.
ReadStep(p) ==
  \/ Reads(p, "lookup", {"policy"}) \/ Reads(p, "policy", {"count"}) \/ Reads(p, "count", {"quota"})
  \/ Reads(p, "quota", {"store"}) \/ Reads(p, "store", {})
  \/ Reads(p, "insert", {"cleanup"}) /\ reqs'[p].pc = "cleanup"
  \/ Recount(p) /\ Reads(p, "recount", {"abort", "requota"}) /\ reqs'[p].pc \in {"abort", "requota"}
  \/ Requota(p) /\ Reads(p, "requota", {"abort"})

\* A session that has ended: its row takes no more of any limit than before.
Ended(i) == {row \in Row : /\ row.session = "none" /\ row.multi = FALSE
                           /\ row.clip # "none"
                           /\ row.clip = "counted" => row.size = rows[i].size}
EndStep(i) == \E row \in Ended(i) : Ends(i, row)

\* Every action of a request is one of eight kinds.
LEMMA RequestSteps ==
  ASSUME TypeOK, NEW p \in Proc, Request(p)
  PROVE  \/ \E key \in Key \cup {NoKey}, size \in Sizes : Create(p, key, size)
         \/ ReadStep(p) \/ Store(p) \/ Insert(p) \/ Cleanup(p) \/ Abort(p) \/ DeleteBundle(p) \/ Stop(p)
<1> HIDE DEF Reads
<1>1. QED BY ReadingSteps DEF Request, ReadStep

\* However a session ends, its row takes no more of a limit than before.
LEMMA EndSteps ==
  ASSUME TypeOK, NEW i \in Id, Completes(i) \/ Fails(i) \/ Aborts(i)
  PROVE  EndStep(i)
<1>1. rows[i] \in Row /\ NoRow \in Row
  BY TypeParts, IdleType
<1>2. [NoRow EXCEPT !.clip = "counted", !.key = rows[i].key, !.size = rows[i].size] \in Ended(i)
  BY <1>1 DEF NoRow, Row, Ended
<1>3. [NoRow EXCEPT !.clip = "failed", !.key = rows[i].key] \in Ended(i)
  BY <1>1 DEF NoRow, Row, Ended
<1>4. [NoRow EXCEPT !.clip = "deleted"] \in Ended(i)
  BY <1>1 DEF NoRow, Row, Ended
<1>5. QED BY <1>2, <1>3, <1>4 DEF Completes, Fails, Aborts, EndStep

\* The end of a session, spelled out.
LEMMA EndStepShape ==
  ASSUME TypeOK, NEW i \in Id, EndStep(i)
  PROVE  /\ rows[i] # NoRow /\ rows[i].session = "active" /\ rows' \in [Id -> Row] /\ rows'[i] \in Ended(i)
         /\ rows'[i].session = "none" /\ \A j \in Id : j # i => rows'[j] = rows[j]
         /\ multiparts' = multiparts \ {i} /\ UNCHANGED <<setup, reqs, begun, stranded, unchecked>>
<1>1. PICK row \in Ended(i) : Ends(i, row)
  BY DEF EndStep
<1>2. row \in Row /\ row.session = "none"
  BY DEF Ended
<1>3. rows[i] # NoRow /\ rows[i].session = "active"
  BY <1>1 DEF Ends, NoRow
<1>4. rows' \in [Id -> Row] /\ rows'[i] = row /\ \A j \in Id : j # i => rows'[j] = rows[j]
  BY <1>1, <1>2, EndsShape
<1>5. QED BY <1>1, <1>2, <1>3, <1>4 DEF Ends, history

\* The type invariant holds at first.
LEMMA TypeOKInit == Init => TypeOK
BY AdmissionAssumption, IdleType, TypeParts DEF Init, Id, Idle

\* Every step keeps the types.
LEMMA TypeOKStep == TypeOK /\ [Next]_vars => TypeOK'
<1> SUFFICES ASSUME TypeOK, [Next]_vars PROVE TypeOK'
  OBVIOUS
<1>0. /\ setup \in Setups /\ rows \in [Id -> Row] /\ reqs \in [Proc -> Req]
      /\ multiparts \subseteq Id /\ stranded \subseteq Id /\ unchecked \subseteq Id
      /\ \A p \in Proc : reqs[p] # Idle => reqs[p].pc # "idle" /\ reqs[p].id \in Id
      /\ begun \in 0 .. MaxRequests
  BY TypeParts
<1> DEFINE T == /\ setup' \in Setups /\ rows' \in [Id -> Row] /\ reqs' \in [Proc -> Req]
                /\ multiparts' \subseteq Id /\ stranded' \subseteq Id /\ unchecked' \subseteq Id
                /\ \A p \in Proc : reqs'[p] # Idle => reqs'[p].pc # "idle" /\ reqs'[p].id \in Id
                /\ begun' \in 0 .. MaxRequests
<1>t. T => TypeOK'
  BY DEF TypeOK, Row, Req, Pcs
<1> SUFFICES T
  BY <1>t
<1>p. \A p \in Proc : reqs[p].pc # "idle" => reqs[p].id \in Id
  BY <1>0 DEF Idle
<1>1. ASSUME NEW p \in Proc, NEW key \in Key \cup {NoKey}, NEW size \in Sizes, Create(p, key, size) PROVE T
  <2>1. [pc |-> "lookup", id |-> begun + 1, key |-> key, size |-> size] \in Req /\ begun + 1 \in Id
    BY <1>0, <1>1, AdmissionAssumption DEF Create, Valid, Req, Pcs, Id
  <2>2. QED BY <1>0, <1>1, <2>1, AdmissionAssumption DEF Create, history
<1>2. ASSUME NEW p \in Proc, NEW from \in Pcs \ {"idle"}, NEW to \in SUBSET (Pcs \ {"idle"}), Reads(p, from, to) PROVE T
  BY <1>0, <1>p, <1>2 DEF Reads, Moves
<1>3. ASSUME NEW p \in Proc, Store(p) PROVE T
  <2>1. reqs[p].id \in Id
    BY <1>p, <1>3 DEF Store, At
  <2>2. QED BY <1>0, <1>3, <2>1, GotoShape DEF Store, history, Pcs
<1>4. ASSUME NEW p \in Proc, Insert(p) PROVE T
  <2>1. reqs[p].id \in Id
    BY <1>p, <1>4 DEF Insert, At
  <2>2. QED BY <1>0, <1>4, <2>1, GotoShape, BundleType DEF Insert, history, Pcs
<1>5. ASSUME NEW p \in Proc, Cleanup(p) PROVE T
  BY <1>0, <1>5, EndShape DEF Cleanup, AbortMultipart
<1>6. ASSUME NEW p \in Proc, Abort(p) PROVE T
  <2>1. reqs[p].id \in Id
    BY <1>p, <1>6 DEF Abort, At
  <2>2. QED BY <1>0, <1>6, <2>1, GotoShape DEF Abort, AbortMultipart, Pcs
<1>7. ASSUME NEW p \in Proc, DeleteBundle(p) PROVE T
  <2>1. reqs[p].id \in Id
    BY <1>p, <1>7 DEF DeleteBundle, At
  <2>2. QED BY <1>0, <1>7, <2>1, EndShape, IdleType DEF DeleteBundle
<1>8. ASSUME NEW p \in Proc, Stop(p) PROVE T
  BY <1>0, <1>8, EndShape DEF Stop
<1>9. ASSUME NEW i \in Id, EndStep(i) PROVE T
  BY <1>0, <1>9, EndsShape DEF EndStep, Ended, Ends, history
<1>10. ASSUME NEW p \in Proc, ReadStep(p) PROVE T
  <2>1. \E from \in Pcs \ {"idle"}, to \in SUBSET (Pcs \ {"idle"}) : Reads(p, from, to)
    BY <1>10 DEF ReadStep, Pcs
  <2>2. QED BY <2>1, <1>2
<1>11. CASE UNCHANGED vars
  BY <1>0, <1>11 DEF vars
<1>12. QED BY <1>1, <1>3, <1>4, <1>5, <1>6, <1>7, <1>8, <1>9, <1>10, <1>11,
              RequestSteps, EndSteps DEF Next

\* Everything a step does, one case each: what the proofs below split on.
StepOf ==
  \/ \E p \in Proc, key \in Key \cup {NoKey}, size \in Sizes : Create(p, key, size)
  \/ \E p \in Proc : \/ ReadStep(p) \/ Store(p) \/ Insert(p) \/ Cleanup(p)
                     \/ Abort(p) \/ DeleteBundle(p) \/ Stop(p)
  \/ \E i \in Id : EndStep(i)
  \/ UNCHANGED vars

\* A step of the specification is one of these.
LEMMA Steps == TypeOK /\ [Next]_vars => StepOf
BY RequestSteps, EndSteps DEF Next, StepOf

-----------------------------------------------------------------------------
(* Requests.                                                               *)

\* Numbers are given once.
LEMMA RequestsAreSoundStep ==
  ASSUME TypeOK, RequestsAreSound, [Next]_vars
  PROVE  RequestsAreSound'
<1>0. /\ reqs \in [Proc -> Req] /\ begun \in 0 .. MaxRequests /\ \A p \in Proc : Idle.pc = "idle"
  BY TypeParts DEF Idle
<1>1. ASSUME NEW p \in Proc, NEW key \in Key \cup {NoKey}, NEW size \in Sizes, Create(p, key, size)
      PROVE  RequestsAreSound'
  BY <1>0, <1>1, AdmissionAssumption DEF Create, RequestsAreSound, Valid
<1>2. ASSUME NEW p \in Proc, NEW to, Moves(p, to), reqs[p].pc # "idle", begun' = begun
      PROVE  RequestsAreSound'
  BY <1>0, <1>2 DEF Moves, RequestsAreSound, Valid
<1>3. ASSUME NEW p \in Proc, ReadStep(p) PROVE RequestsAreSound'
  BY <1>2, <1>3 DEF ReadStep, Reads
<1>4. ASSUME NEW p \in Proc, Store(p) \/ Insert(p) \/ Abort(p) PROVE RequestsAreSound'
  <2>1. Moves(p, {"insert", "recount", "delete"}) /\ reqs[p].pc # "idle" /\ begun' = begun
    BY <1>4, MovesShape DEF Store, Insert, Abort, At, Pcs
  <2>2. QED BY <1>2, <2>1
<1>5. ASSUME NEW p \in Proc, Cleanup(p) \/ DeleteBundle(p) \/ Stop(p) PROVE RequestsAreSound'
  <2>1. Moves(p, {}) /\ reqs[p].pc # "idle" /\ begun' = begun
    BY <1>5, MovesShape, TypeParts DEF Cleanup, DeleteBundle, Stop, At
  <2>2. QED BY <1>2, <2>1
<1>6. CASE UNCHANGED <<reqs, begun>>
  BY <1>6 DEF RequestsAreSound, Valid
<1>7. QED BY <1>1, <1>3, <1>4, <1>5, <1>6, Steps DEF StepOf, EndStep, Ends, vars

\* A request's row and multipart upload come and go with its own steps only.
LEMMA StepsAreInOrderStep ==
  ASSUME TypeOK, RequestsAreSound, StepsAreInOrder, RowsAreSound, [Next]_vars
  PROVE  StepsAreInOrder'
<1>0. /\ reqs \in [Proc -> Req] /\ begun \in 0 .. MaxRequests /\ Idle.pc = "idle"
      /\ rows \in [Id -> Row] /\ \A p \in Proc : reqs[p].pc # "idle" => reqs[p].id \in Id
  BY TypeParts DEF Idle
<1> DEFINE Ordered(p) ==
      /\ reqs[p].pc \in Early \cup {"insert", "cleanup"} => rows[reqs[p].id] = NoRow
      /\ reqs[p].pc \in Early => reqs[p].id \notin multiparts
      /\ reqs[p].pc \in {"insert", "cleanup"} /\ reqs[p].id \in multiparts => Chunked(reqs[p].size)
      /\ reqs[p].pc = "delete" => reqs[p].id \notin multiparts \ stranded
<1>o. \A p \in Proc : Ordered(p)
  BY DEF StepsAreInOrder
<1> SUFFICES \A p \in Proc : Ordered(p)'
  BY DEF StepsAreInOrder
<1>d. \A p, q \in Proc : p # q /\ reqs[p].pc # "idle" /\ reqs[q].pc # "idle" => reqs[p].id # reqs[q].id
  BY DEF RequestsAreSound
<1>1. ASSUME NEW p \in Proc, NEW key \in Key \cup {NoKey}, NEW size \in Sizes, Create(p, key, size),
             NEW q \in Proc
      PROVE  Ordered(q)'
  <2>1. CASE q # p
    BY <1>0, <1>o, <1>1, <2>1 DEF Create, history, Chunked
  <2>2. CASE q = p
    <3>1. begun + 1 \in Id /\ begun + 1 > begun
      BY <1>0, <1>1, AdmissionAssumption DEF Create, Id
    <3>2. QED BY <1>0, <1>1, <2>2, <3>1 DEF Create, history, RowsAreSound, Early
  <2>3. QED BY <2>1, <2>2
<1>2. ASSUME NEW p \in Proc, ReadStep(p), NEW q \in Proc PROVE Ordered(q)'
  <2>1. CASE q # p
    BY <1>o, <1>2, <2>1 DEF ReadStep, Reads, Moves, Chunked
  <2>2. CASE q = p
    BY <1>0, <1>o, <1>2, <2>2 DEF ReadStep, Reads, Moves, Early, Chunked
  <2>3. QED BY <2>1, <2>2
<1>3. ASSUME NEW p \in Proc, Store(p), NEW q \in Proc PROVE Ordered(q)'
  <2>0. Moves(p, {"insert"}) /\ reqs'[p].pc = "insert"
    BY <1>3, MovesShape, GotoShape DEF Store, Pcs
  <2>1. CASE q # p
    BY <1>0, <1>o, <1>d, <1>3, <2>0, <2>1 DEF Store, At, Moves, Chunked, history, Early
  <2>2. CASE q = p
    BY <1>0, <1>o, <1>3, <2>0, <2>2 DEF Store, At, Moves, Early, Chunked, history
  <2>3. QED BY <2>1, <2>2
<1>4. ASSUME NEW p \in Proc, Insert(p), NEW q \in Proc PROVE Ordered(q)'
  <2>0. Moves(p, {"recount"}) /\ reqs'[p].pc = "recount"
    BY <1>4, MovesShape, GotoShape DEF Insert, Pcs
  <2>1. CASE q # p
    BY <1>0, <1>o, <1>d, <1>4, <2>0, <2>1 DEF Insert, At, Moves, Chunked, history, Early
  <2>2. CASE q = p
    BY <2>0, <2>2 DEF Early
  <2>3. QED BY <2>1, <2>2
<1>5. ASSUME NEW p \in Proc, Cleanup(p) \/ Abort(p), NEW q \in Proc PROVE Ordered(q)'
  <2>0. Moves(p, {"delete"}) /\ reqs[p].pc # "idle"
    BY <1>5, MovesShape DEF Cleanup, Abort, At, Pcs
  <2>1. CASE q # p
    BY <1>0, <1>o, <1>d, <1>5, <2>0, <2>1 DEF Cleanup, Abort, AbortMultipart, Moves, Chunked, Early
  <2>2. CASE q = p
    BY <1>0, <1>5, <2>0, <2>2 DEF Cleanup, Abort, AbortMultipart, Moves, Early
  <2>3. QED BY <2>1, <2>2
<1>6. ASSUME NEW p \in Proc, DeleteBundle(p) \/ Stop(p), NEW q \in Proc PROVE Ordered(q)'
  <2>0. Moves(p, {}) /\ reqs[p].pc # "idle"
    BY <1>6, MovesShape, TypeParts DEF DeleteBundle, Stop, At
  <2>1. CASE q # p
    BY <1>0, <1>o, <1>d, <1>6, <2>0, <2>1 DEF DeleteBundle, Stop, Moves, Chunked, Early
  <2>2. CASE q = p
    BY <1>0, <1>6, <2>0, <2>2 DEF Moves, Early
  <2>3. QED BY <2>1, <2>2
<1>7. ASSUME NEW i \in Id, EndStep(i), NEW q \in Proc PROVE Ordered(q)'
  <2>1. rows[i] # NoRow /\ \A j \in Id : j # i => rows'[j] = rows[j]
    BY <1>7, EndStepShape
  <2>2. multiparts' \subseteq multiparts /\ UNCHANGED <<reqs, stranded>>
    BY <1>7 DEF EndStep, Ends, history
  <2>3. QED BY <1>0, <1>o, <2>1, <2>2 DEF Chunked, Early
<1>8. ASSUME UNCHANGED vars, NEW q \in Proc PROVE Ordered(q)'
  BY <1>o, <1>8 DEF vars, Chunked
<1> HIDE DEF Ordered
<1>9. QED BY <1>1, <1>2, <1>3, <1>4, <1>5, <1>6, <1>7, <1>8, Steps DEF StepOf

\* An active session keeps the plan of parts it was inserted with.
LEMMA RowsAreSoundStep ==
  ASSUME TypeOK, RequestsAreSound, RowsAreSound, [Next]_vars
  PROVE  RowsAreSound'
<1>0. /\ reqs \in [Proc -> Req] /\ begun \in 0 .. MaxRequests
      /\ rows \in [Id -> Row] /\ multiparts \subseteq Id
      /\ \A p \in Proc : reqs[p].pc # "idle" => reqs[p].id \in Id /\ reqs[p].id <= begun /\ Valid(reqs[p].size)
  BY TypeParts DEF Idle, RequestsAreSound
<1> DEFINE Sound(i) ==
      /\ i > begun => rows[i] = NoRow /\ i \notin multiparts
      /\ rows[i].session = "active" => /\ rows[i].clip = "counted" /\ Valid(rows[i].size)
                                       /\ rows[i].part = ChoosePartSize(rows[i].size)
<1>o. \A i \in Id : Sound(i)
  BY DEF RowsAreSound, Active
<1> SUFFICES ASSUME NEW i \in Id PROVE Sound(i)'
  BY DEF RowsAreSound, Active
<1>n. NoRow.session = "none"
  BY DEF NoRow
<1>u. setup' = setup => \A size : ChoosePartSize(size)' = ChoosePartSize(size)
  BY DEF ChoosePartSize
<1> DEFINE Keeps == /\ setup' = setup /\ rows' = rows /\ begun' \in 0 .. MaxRequests /\ begun' >= begun
                    /\ multiparts' \subseteq multiparts
<1>k. ASSUME Keeps PROVE Sound(i)'
  BY <1>0, <1>o, <1>u, <1>k DEF Valid, Id
<1>1. ASSUME NEW p \in Proc, NEW key \in Key \cup {NoKey}, NEW size \in Sizes, Create(p, key, size)
      PROVE  Sound(i)'
  BY <1>0, <1>1, <1>k, AdmissionAssumption DEF Create
<1>2. ASSUME NEW p \in Proc, ReadStep(p) \/ Cleanup(p) \/ Abort(p) \/ Stop(p) PROVE Sound(i)'
  <2>1. Keeps
    BY <1>0, <1>2 DEF ReadStep, Reads, Cleanup, Abort, AbortMultipart, Stop
  <2>2. QED BY <2>1, <1>k
<1>3. ASSUME NEW p \in Proc, Store(p) PROVE Sound(i)'
  <2>1. reqs[p].pc # "idle"
    BY <1>3 DEF Store, At
  <2>2. QED BY <1>0, <1>o, <1>u, <1>3, <2>1 DEF Store, history, Valid, Id
<1>4. ASSUME NEW p \in Proc, Insert(p) PROVE Sound(i)'
  <2>1. reqs[p].pc # "idle"
    BY <1>4 DEF Insert, At
  <2>2. CASE i = reqs[p].id
    BY <1>0, <1>u, <1>4, <2>1, <2>2 DEF Insert, history, Bundle, Valid, Id
  <2>3. CASE i # reqs[p].id
    BY <1>0, <1>o, <1>u, <1>4, <2>3 DEF Insert, history, Valid
  <2>4. QED BY <2>2, <2>3
<1>5. ASSUME NEW p \in Proc, DeleteBundle(p) PROVE Sound(i)'
  BY <1>0, <1>o, <1>u, <1>n, <1>5 DEF DeleteBundle, Valid
<1>6. ASSUME NEW j \in Id, EndStep(j) PROVE Sound(i)'
  <2>1. rows[j] # NoRow /\ rows'[j].session = "none" /\ \A k \in Id : k # j => rows'[k] = rows[k]
    BY <1>6, EndStepShape
  <2>2. multiparts' \subseteq multiparts /\ UNCHANGED <<setup, begun>>
    BY <1>6 DEF EndStep, Ends
  <2>3. QED BY <1>o, <1>u, <2>1, <2>2 DEF Valid
<1>7. CASE UNCHANGED vars
  BY <1>0, <1>k, <1>7 DEF vars
<1> HIDE DEF Sound
<1>8. QED BY <1>1, <1>2, <1>3, <1>4, <1>5, <1>6, <1>7, Steps DEF StepOf

-----------------------------------------------------------------------------
(* Multipart uploads.                                                      *)

\* A multipart upload passes from its request to its row, or is given up
\* with a note of it in stranded.
LEMMA MultipartsStep ==
  ASSUME TypeOK, RequestsAreSound, StepsAreInOrder, MultipartsAreReachable, [Next]_vars
  PROVE  MultipartsAreReachable'
<1>0. /\ reqs \in [Proc -> Req] /\ rows \in [Id -> Row] /\ multiparts \subseteq Id
      /\ Idle.pc = "idle" /\ \A p \in Proc : reqs[p].pc # "idle" => reqs[p].id \in Id
  BY TypeParts DEF Idle
<1>d. \A p, q \in Proc : p # q /\ reqs[p].pc # "idle" /\ reqs[q].pc # "idle" => reqs[p].id # reqs[q].id
  BY DEF RequestsAreSound
<1> DEFINE Led(i) == rows[i].multi \/ \E p \in Proc : reqs[p].id = i /\ reqs[p].pc \in {"insert", "cleanup", "delete"}
<1>o. \A i \in multiparts \ stranded : Led(i)
  BY DEF MultipartsAreReachable
<1>e. \A p \in Proc : reqs[p].pc \in {"delete"} \cup Early => reqs[p].id \notin multiparts \ stranded
  BY DEF StepsAreInOrder
<1> SUFFICES ASSUME NEW i \in (multiparts \ stranded)' PROVE Led(i)'
  BY DEF MultipartsAreReachable
<1>1. ASSUME NEW p \in Proc, NEW key \in Key \cup {NoKey}, NEW size \in Sizes, Create(p, key, size)
      PROVE  Led(i)'
  BY <1>0, <1>o, <1>1 DEF Create, history, Idle
<1>2. ASSUME NEW p \in Proc, ReadStep(p) PROVE Led(i)'
  <2>1. i \in multiparts \ stranded /\ Led(i)
    BY <1>o, <1>2 DEF ReadStep, Reads
  <2>2. CASE rows[i].multi
    BY <1>2, <2>2 DEF ReadStep, Reads
  <2>3. CASE \E q \in Proc : reqs[q].id = i /\ reqs[q].pc \in {"insert", "cleanup", "delete"}
    <3>1. PICK q \in Proc : reqs[q].id = i /\ reqs[q].pc \in {"insert", "cleanup", "delete"}
      BY <2>3
    <3>2. CASE q # p
      BY <1>2, <3>1, <3>2 DEF ReadStep, Reads, Moves
    <3>3. CASE q = p
      <4>1. reqs'[p].pc = "cleanup" /\ reqs'[p].id = i
        BY <1>0, <1>2, <3>1, <3>3 DEF ReadStep, Reads, Moves
      <4>2. QED BY <4>1
    <3>4. QED BY <3>2, <3>3
  <2>4. QED BY <2>1, <2>2, <2>3
<1>3. ASSUME NEW p \in Proc, Store(p) PROVE Led(i)'
  <2>0. Moves(p, {"insert"}) /\ reqs'[p].pc = "insert" /\ reqs'[p].id = reqs[p].id /\ reqs[p].pc = "store"
    BY <1>3, MovesShape, GotoShape DEF Store, At, Pcs
  <2>1. CASE i = reqs[p].id
    BY <2>0, <2>1
  <2>2. CASE i # reqs[p].id
    BY <1>o, <1>3, <2>0, <2>2 DEF Store, Moves, history
  <2>3. QED BY <2>1, <2>2
<1>4. ASSUME NEW p \in Proc, Insert(p) PROVE Led(i)'
  <2>0. Moves(p, {"recount"}) /\ reqs[p].pc = "insert" /\ i \in multiparts \ stranded
    BY <1>4, MovesShape DEF Insert, At, Pcs, history
  <2>1. CASE i = reqs[p].id
    <3>1. Chunked(reqs[p].size)
      BY <2>0, <2>1 DEF StepsAreInOrder
    <3>2. rows'[i].multi
      BY <1>0, <1>4, <2>0, <2>1, <3>1 DEF Insert, Bundle
    <3>3. QED BY <3>2
  <2>2. CASE i # reqs[p].id
    BY <1>0, <1>o, <1>4, <2>0, <2>2 DEF Insert, Moves
  <2>3. QED BY <2>1, <2>2
<1>5. ASSUME NEW p \in Proc, Cleanup(p) \/ Abort(p) PROVE Led(i)'
  <2>0. Moves(p, {"delete"}) /\ reqs[p].pc \in {"cleanup", "abort"} /\ i \in multiparts \ stranded
    BY <1>5, MovesShape DEF Cleanup, Abort, AbortMultipart, At, Pcs
  <2>1. i # reqs[p].id
    BY <1>5, <2>0 DEF Cleanup, Abort, AbortMultipart
  <2>2. QED BY <1>o, <1>5, <2>0, <2>1 DEF Cleanup, Abort, Moves
<1>6. ASSUME NEW p \in Proc, DeleteBundle(p) PROVE Led(i)'
  <2>0. Moves(p, {}) /\ reqs[p].pc = "delete" /\ i \in multiparts \ stranded
    BY <1>6, MovesShape DEF DeleteBundle, At
  <2>1. i # reqs[p].id
    BY <1>e, <2>0
  <2>2. QED BY <1>0, <1>o, <1>6, <2>0, <2>1 DEF DeleteBundle, Moves
<1>7. ASSUME NEW p \in Proc, Stop(p) PROVE Led(i)'
  <2>0. Moves(p, {}) /\ i \in multiparts \ stranded /\ rows' = rows
    BY <1>7, MovesShape DEF Stop
  <2>1. CASE i = reqs[p].id /\ reqs[p].pc \in {"insert", "cleanup"}
    BY <1>7, <2>0, <2>1 DEF Stop, At
  <2>2. CASE i = reqs[p].id /\ reqs[p].pc = "delete"
    BY <1>e, <2>0, <2>2
  <2>3. CASE ~ (i = reqs[p].id /\ reqs[p].pc \in {"insert", "cleanup", "delete"})
    BY <1>o, <2>0, <2>3 DEF Moves
  <2>4. QED BY <2>1, <2>2, <2>3
<1>8. ASSUME NEW j \in Id, EndStep(j) PROVE Led(i)'
  BY <1>0, <1>o, <1>8, EndStepShape
<1>9. CASE UNCHANGED vars
  BY <1>o, <1>9 DEF vars
<1> HIDE DEF Led
<1>10. QED BY <1>1, <1>2, <1>3, <1>4, <1>5, <1>6, <1>7, <1>8, <1>9, Steps DEF StepOf

-----------------------------------------------------------------------------
(* The limits.                                                             *)

\* There are finitely many numbers of requests.
LEMMA FiniteId == IsFiniteSet(Id) /\ \A s \in SUBSET Id : IsFiniteSet(s) /\ Cardinality(s) \in Nat
<1>1. IsFiniteSet(Id)
  BY AdmissionAssumption, FS_Interval DEF Id
<1>2. QED BY <1>1, FS_Subset, FS_CardinalityType

\* The bytes of a row are a natural.
LEMMA CountedType == TypeOK => Counted \in [Id -> Nat]
BY TypeParts, AdmissionAssumption DEF Counted, Row

\* The quota in force is a number of bytes or not set.
LEMMA QuotaType == setup \in Setups => EffectiveQuota \in Level
BY AdmissionAssumption DEF EffectiveQuota, InstanceQuota, NotSet, Level

\* The two halves of CheckedIsWithinLimits.
SessionLimit == Cardinality(CheckedSessions) <= MaxActive
ByteLimit == EffectiveQuota # NotSet => Bytes(CheckedRows) <= EffectiveQuota

\* A session is among the checked only once its request has counted all of
\* the sessions there are, its own among them.
LEMMA SessionLimitStep ==
  ASSUME TypeOK, TypeOK', RequestsAreSound, RowsAreSound, SessionLimit, [Next]_vars
  PROVE  SessionLimit'
<1>0. /\ reqs \in [Proc -> Req] /\ rows \in [Id -> Row] /\ Idle.pc = "idle" /\ NoRow.session = "none"
      /\ \A p \in Proc : reqs[p].pc # "idle" => reqs[p].id \in Id
      /\ \A i \in Active : rows[i].clip = "counted"
  BY TypeParts DEF Idle, NoRow, RowsAreSound
<1>d. \A p, q \in Proc : p # q /\ reqs[p].pc # "idle" /\ reqs[q].pc # "idle" => reqs[p].id # reqs[q].id
  BY DEF RequestsAreSound
<1> DEFINE Undec(i) == \E p \in Proc : reqs[p].id = i /\ reqs[p].pc \in {"recount", "abort", "delete"}
           Checked(i) == rows[i].session = "active" /\ i \notin unchecked /\ ~ Undec(i)
           Fewer == \A i \in Id : Checked(i)' => Checked(i)
<1>f. Fewer => SessionLimit'
  <2>1. Fewer => CheckedSessions' \subseteq CheckedSessions
    BY DEF CheckedSessions, Active, Undecided
  <2>2. CheckedSessions \in SUBSET Id /\ CheckedSessions' \in SUBSET Id
    BY DEF CheckedSessions, Active
  <2>. HIDE DEF Fewer
  <2>3. Fewer => Cardinality(CheckedSessions') <= Cardinality(CheckedSessions)
    BY <2>1, <2>2, FiniteId, FS_Subset
  <2>4. QED BY <2>2, <2>3, FiniteId, AdmissionAssumption DEF SessionLimit
<1>1. ASSUME NEW p \in Proc, NEW key \in Key \cup {NoKey}, NEW size \in Sizes, Create(p, key, size)
      PROVE  Fewer
  BY <1>0, <1>1 DEF Create, history
<1>2. ASSUME NEW p \in Proc, ReadStep(p) PROVE Fewer \/ (Cardinality(Active) <= MaxActive /\ Active' = Active)
  <2>1. rows' = rows /\ unchecked' = unchecked /\ Moves(p, Pcs) /\ Active' = Active
    BY <1>2 DEF ReadStep, Reads, Moves, Pcs, Active
  <2>2. CASE reqs[p].pc = "recount" /\ reqs'[p].pc = "requota"
    <3>1. Recount(p) /\ reqs'[p].pc = "requota"
      BY <1>2, <2>2 DEF ReadStep, Reads
    <3>2. reqs'[p].pc = IF TooMany THEN "abort" ELSE "requota"
      BY <3>1, GotoShape DEF Recount, Pcs
    <3>3. Cardinality(Active) \in Nat
      BY FiniteId DEF Active
    <3>4. QED BY <2>1, <3>1, <3>2, <3>3, AdmissionAssumption DEF TooMany
  <2>3. CASE reqs[p].pc = "recount" /\ reqs'[p].pc # "requota"
    BY <1>0, <1>2, <2>1, <2>3 DEF ReadStep, Reads, Moves
  <2>4. CASE reqs[p].pc # "recount"
    <3>1. reqs[p].pc \notin {"recount", "abort", "delete"}
      BY <1>2, <2>4 DEF ReadStep, Reads
    <3>2. QED BY <2>1, <3>1 DEF Moves
  <2>5. QED BY <2>2, <2>3, <2>4
<1>3. ASSUME NEW p \in Proc, Store(p) PROVE Fewer
  BY <1>0, <1>3, GotoShape DEF Store, At, Pcs, history
<1>4. ASSUME NEW p \in Proc, Insert(p) PROVE Fewer
  <2>1. /\ reqs[p].pc = "insert" /\ reqs'[p].pc = "recount" /\ reqs'[p].id = reqs[p].id
        /\ \A q \in Proc : q # p => reqs'[q] = reqs[q]
    BY <1>4, GotoShape DEF Insert, At, Pcs
  <2>2. QED BY <1>0, <1>4, <2>1 DEF Insert, history
<1>5. ASSUME NEW p \in Proc, Cleanup(p) PROVE Fewer
  BY <1>0, <1>5, EndShape DEF Cleanup, At
<1>6. ASSUME NEW p \in Proc, Abort(p) PROVE Fewer
  BY <1>0, <1>6, GotoShape DEF Abort, At, Pcs
<1>7. ASSUME NEW p \in Proc, DeleteBundle(p) PROVE Fewer
  <2>1. /\ reqs[p].pc = "delete" /\ \A q \in Proc : q # p => reqs'[q] = reqs[q]
        /\ \/ rows' = [rows EXCEPT ![reqs[p].id] = NoRow] /\ unchecked' = unchecked
           \/ rows' = rows /\ unchecked' = unchecked \cup {reqs[p].id}
    BY <1>7, EndShape DEF DeleteBundle, At
  <2>2. QED BY <1>0, <2>1
<1>8. ASSUME NEW p \in Proc, Stop(p) PROVE Fewer
  <2>1. /\ rows' = rows /\ \A q \in Proc : q # p => reqs'[q] = reqs[q]
        /\ unchecked' = IF rows[reqs[p].id].clip # "none" THEN unchecked \cup {reqs[p].id} ELSE unchecked
    BY <1>8, EndShape DEF Stop
  <2>2. QED BY <1>0, <2>1 DEF Active
<1>9. ASSUME NEW j \in Id, EndStep(j) PROVE Fewer
  BY <1>0, <1>9, EndStepShape
<1>10. ASSUME UNCHANGED vars PROVE Fewer
  BY <1>10 DEF vars
<1>11. Cardinality(Active) <= MaxActive /\ Active' = Active => SessionLimit'
  <2>1. CheckedSessions' \subseteq Active' /\ Active' \in SUBSET Id
    BY DEF CheckedSessions, Active
  <2>2. CheckedSessions' \in SUBSET Id /\ Cardinality(CheckedSessions') <= Cardinality(Active')
    BY <2>1, FiniteId, FS_Subset
  <2>3. QED BY <2>1, <2>2, FiniteId, AdmissionAssumption DEF SessionLimit
<1> HIDE DEF Fewer
<1>12. QED BY <1>f, <1>1, <1>2, <1>3, <1>4, <1>5, <1>6, <1>7, <1>8, <1>9, <1>10, <1>11, Steps DEF StepOf

\* So for the bytes; nothing makes a checked row larger, or counted again.
LEMMA ByteLimitStep ==
  ASSUME TypeOK, TypeOK', RequestsAreSound, RowsAreSound, ByteLimit, [Next]_vars
  PROVE  ByteLimit'
<1>0. /\ reqs \in [Proc -> Req] /\ rows \in [Id -> Row] /\ Idle.pc = "idle" /\ NoRow.clip = "none"
      /\ \A p \in Proc : reqs[p].pc # "idle" => reqs[p].id \in Id
      /\ \A i \in Active : rows[i].clip = "counted"
  BY TypeParts DEF Idle, NoRow, RowsAreSound
<1> DEFINE Undec(i) == \E p \in Proc : reqs[p].id = i /\ reqs[p].pc \in {"recount", "requota", "abort", "delete"}
           Checked(i) == i \notin unchecked /\ ~ Undec(i)
           Less == \A i \in Id : Checked(i)' /\ rows'[i].clip = "counted" =>
                     Checked(i) /\ rows[i].clip = "counted" /\ rows'[i].size = rows[i].size
<1>q. EffectiveQuota' = EffectiveQuota
  BY Steps DEF StepOf, ReadStep, Reads, Create, Store, Insert, Cleanup, Abort, DeleteBundle, Stop,
               EndStep, Ends, vars, EffectiveQuota, InstanceQuota
<1>t. /\ Counted \in [Id -> Nat] /\ Counted' \in [Id -> Nat]
      /\ CheckedRows \in SUBSET Id /\ CheckedRows' \in SUBSET Id
      /\ EffectiveQuota # NotSet => EffectiveQuota \in Nat
  <2>1. Counted' \in [Id -> Nat]
    BY AdmissionAssumption DEF TypeOK, Counted
  <2>2. QED BY <2>1, CountedType, QuotaType, TypeParts DEF CheckedRows, Level, NotSet
<1>f. Less => ByteLimit'
  <2>1. Less => \A i \in CheckedRows' : Counted'[i] <= IF i \in CheckedRows THEN Counted[i] ELSE 0
    <3>1. ASSUME Less, NEW i \in CheckedRows'
          PROVE  Counted'[i] <= IF i \in CheckedRows THEN Counted[i] ELSE 0
      <4>1. i \in Id /\ Checked(i)'
        BY DEF CheckedRows, Undecided
      <4>2. CASE rows'[i].clip = "counted"
        <5>1. Checked(i) /\ rows[i].clip = "counted" /\ rows'[i].size = rows[i].size
          BY <3>1, <4>1, <4>2
        <5>2. i \in CheckedRows
          BY <4>1, <5>1 DEF CheckedRows, Undecided
        <5>3. Counted'[i] = Counted[i] /\ Counted[i] \in Nat
          BY <4>1, <4>2, <5>1, <1>t DEF Counted
        <5>4. QED BY <5>2, <5>3
      <4>3. CASE rows'[i].clip # "counted"
        <5>1. Counted'[i] = 0 /\ Counted[i] \in Nat
          BY <4>1, <4>3, <1>t DEF Counted
        <5>2. QED BY <5>1
      <4>4. QED BY <4>2, <4>3
    <3>2. QED BY <3>1
  <2>. HIDE DEF Less
  <2>2. Less => SumFunctionOnSet(Counted', CheckedRows') <= SumFunctionOnSet(Counted, CheckedRows)
    BY <1>t, <2>1, FiniteId, SumBounded
  <2>3. SumFunctionOnSet(Counted', CheckedRows') \in Nat /\ SumFunctionOnSet(Counted, CheckedRows) \in Nat
    BY <1>t, FiniteId, SumType
  <2>4. QED BY <1>q, <1>t, <2>2, <2>3 DEF ByteLimit, Bytes
<1>1. ASSUME NEW p \in Proc, NEW key \in Key \cup {NoKey}, NEW size \in Sizes, Create(p, key, size)
      PROVE  Less
  BY <1>0, <1>1 DEF Create, history
<1>2. ASSUME NEW p \in Proc, ReadStep(p) PROVE Less \/ (WithinQuota(0) /\ rows' = rows)
  <2>1. rows' = rows /\ unchecked' = unchecked /\ Moves(p, Pcs)
    BY <1>2 DEF ReadStep, Reads, Moves, Pcs
  <2>2. CASE reqs[p].pc = "requota" /\ reqs'[p].pc = "idle"
    <3>1. Requota(p)
      BY <1>2, <2>2 DEF ReadStep, Reads
    <3>2. ~ Goto(p, "abort")
      BY <2>2, GotoShape DEF Pcs
    <3>3. QED BY <2>1, <3>1, <3>2 DEF Requota
  <2>3. CASE reqs[p].pc = "requota" /\ reqs'[p].pc # "idle"
    BY <1>0, <1>2, <2>1, <2>3 DEF ReadStep, Reads, Moves
  <2>4. CASE reqs[p].pc = "recount"
    BY <1>0, <1>2, <2>1, <2>4 DEF ReadStep, Reads, Moves
  <2>5. CASE reqs[p].pc \notin {"recount", "requota"}
    <3>1. reqs[p].pc \notin {"recount", "requota", "abort", "delete"}
      BY <1>2, <2>5 DEF ReadStep, Reads
    <3>2. QED BY <2>1, <3>1 DEF Moves
  <2>6. QED BY <2>2, <2>3, <2>4, <2>5
<1>3. ASSUME NEW p \in Proc, Store(p) PROVE Less
  BY <1>0, <1>3, GotoShape DEF Store, At, Pcs, history
<1>4. ASSUME NEW p \in Proc, Insert(p) PROVE Less
  <2>1. /\ reqs[p].pc = "insert" /\ reqs'[p].pc = "recount" /\ reqs'[p].id = reqs[p].id
        /\ \A q \in Proc : q # p => reqs'[q] = reqs[q]
    BY <1>4, GotoShape DEF Insert, At, Pcs
  <2>2. QED BY <1>0, <1>4, <2>1 DEF Insert, history
<1>5. ASSUME NEW p \in Proc, Cleanup(p) PROVE Less
  BY <1>0, <1>5, EndShape DEF Cleanup, At
<1>6. ASSUME NEW p \in Proc, Abort(p) PROVE Less
  BY <1>0, <1>6, GotoShape DEF Abort, At, Pcs
<1>7. ASSUME NEW p \in Proc, DeleteBundle(p) PROVE Less
  <2>1. /\ reqs[p].pc = "delete" /\ \A q \in Proc : q # p => reqs'[q] = reqs[q]
        /\ \/ rows' = [rows EXCEPT ![reqs[p].id] = NoRow] /\ unchecked' = unchecked
           \/ rows' = rows /\ unchecked' = unchecked \cup {reqs[p].id}
    BY <1>7, EndShape DEF DeleteBundle, At
  <2>2. QED BY <1>0, <2>1
<1>8. ASSUME NEW p \in Proc, Stop(p) PROVE Less
  <2>1. /\ rows' = rows /\ \A q \in Proc : q # p => reqs'[q] = reqs[q]
        /\ unchecked' = IF rows[reqs[p].id].clip # "none" THEN unchecked \cup {reqs[p].id} ELSE unchecked
    BY <1>8, EndShape DEF Stop
  <2>2. QED BY <1>0, <2>1
<1>9. ASSUME NEW j \in Id, EndStep(j) PROVE Less
  <2>1. rows[j].clip = "counted"
    BY <1>0, <1>9, EndStepShape DEF Active
  <2>2. rows'[j].clip = "counted" => rows'[j].size = rows[j].size
    BY <1>9, EndStepShape DEF Ended
  <2>3. QED BY <1>9, <2>1, <2>2, EndStepShape
<1>10. ASSUME UNCHANGED vars PROVE Less
  BY <1>10 DEF vars
<1>11. WithinQuota(0) /\ rows' = rows => ByteLimit'
  <2>1. rows' = rows => Counted' = Counted
    BY DEF Counted
  <2>2. SumFunctionOnSet(Counted, CheckedRows') <= SumFunctionOnSet(Counted, Id)
    BY <1>t, FiniteId, SumMonotone
  <2>3. SumFunctionOnSet(Counted, CheckedRows') \in Nat /\ SumFunctionOnSet(Counted, Id) \in Nat
    BY <1>t, FiniteId, SumType
  <2>4. QED BY <1>q, <1>t, <2>1, <2>2, <2>3 DEF ByteLimit, Bytes, WithinQuota
<1> HIDE DEF Less
<1>12. QED BY <1>f, <1>1, <1>2, <1>3, <1>4, <1>5, <1>6, <1>7, <1>8, <1>9, <1>10, <1>11, Steps DEF StepOf

-----------------------------------------------------------------------------
(* Parts.                                                                  *)

\* What a quotient is.
LEMMA DivFacts ==
  ASSUME NEW a \in Nat, NEW b \in Nat \ {0}
  PROVE  (a \div b) \in Nat /\ (a \div b) * b <= a /\ a < (a \div b) * b + b
OBVIOUS

\* The number of pieces of b that cover a, and no piece too many.
LEMMA DivCeilFacts ==
  ASSUME NEW a \in Nat \ {0}, NEW b \in Nat \ {0}
  PROVE  /\ DivCeil(a, b) \in Nat \ {0} /\ (DivCeil(a, b) - 1) * b < a /\ a <= DivCeil(a, b) * b
<1> DEFINE q == DivCeil(a, b)
<1>1. q \in Nat /\ q * b <= a + b - 1 /\ a + b - 1 < q * b + b
  BY DivFacts DEF DivCeil
<1>2. q # 0
  BY <1>1
<1> HIDE DEF q
<1>3. (q - 1) * b = q * b - b
  BY <1>1
<1>4. q * b \in Nat
  BY <1>1
<1>5. (q - 1) * b < a /\ a <= q * b
  BY <1>1, <1>3, <1>4
<1>6. QED BY <1>1, <1>2, <1>5 DEF q

\* A common factor may be dropped from an inequality.
LEMMA ProductLess ==
  ASSUME NEW a \in Nat, NEW c \in Nat, NEW b \in Nat \ {0}, a * b < c * b
  PROVE  a < c
OBVIOUS

\* And be put in.
LEMMA ProductMonotone ==
  ASSUME NEW a \in Nat, NEW c \in Nat, NEW b \in Nat, a <= c
  PROVE  a * b <= c * b
<1>1. PICK d \in Nat : c = a + d
  <2>1. c - a \in Nat /\ c = a + (c - a)
    OBVIOUS
  <2>2. QED BY <2>1
<1>2. c * b = a * b + d * b
  BY <1>1
<1>3. d * b \in Nat /\ a * b \in Nat
  BY <1>1
<1>4. QED BY <1>2, <1>3

\* Rounding up gives no less, and never 0.
LEMMA RoundUpFacts ==
  ASSUME NEW n \in Nat
  PROVE  RoundUpToMib(n) \in Nat \ {0} /\ n <= RoundUpToMib(n)
<1>1. CASE n = 0
  BY <1>1, AdmissionAssumption DEF RoundUpToMib
<1>2. CASE n # 0
  <2>1. RoundUpToMib(n) = DivCeil(n, Mib) * Mib
    BY <1>2 DEF RoundUpToMib, DivCeil
  <2>2. DivCeil(n, Mib) \in Nat \ {0} /\ n <= DivCeil(n, Mib) * Mib
    BY <1>2, DivCeilFacts, AdmissionAssumption
  <2>3. DivCeil(n, Mib) * Mib \in Nat
    BY <2>2, AdmissionAssumption
  <2>4. QED BY <1>2, <2>1, <2>2, <2>3
<1>3. QED BY <1>1, <1>2

\* A part is large enough for S3, and for the file to fit in MaxParts of them.
LEMMA PartSizeFacts ==
  ASSUME NEW size \in Nat \ {0}
  PROVE  /\ ChoosePartSize(size) \in Nat \ {0}
         /\ size <= ChoosePartSize(size) * MaxParts
         /\ setup.store = "s3" => ChoosePartSize(size) >= S3Min
<1> DEFINE share == DivCeil(size, MaxParts)
           floor == IF setup.store = "s3" THEN S3Min ELSE 0
           least == Larger(PartFloor, Larger(share, floor))
           part == RoundUpToMib(least)
<1>1. share \in Nat /\ size <= share * MaxParts
  BY DivCeilFacts, AdmissionAssumption
<1>2. floor \in Nat
  BY AdmissionAssumption
<1> HIDE DEF share, floor
<1>3. least \in Nat /\ share <= least /\ floor <= least
  BY <1>1, <1>2, AdmissionAssumption DEF Larger
<1> HIDE DEF least
<1>4. part \in Nat \ {0} /\ least <= part
  BY <1>3, RoundUpFacts
<1> HIDE DEF part
<1>5. share * MaxParts <= part * MaxParts
  BY <1>1, <1>3, <1>4, ProductMonotone, AdmissionAssumption
<1>6. size <= part * MaxParts
  <2>1. share * MaxParts \in Nat /\ part * MaxParts \in Nat
    BY <1>1, <1>4, AdmissionAssumption
  <2>2. QED BY <1>1, <1>5, <2>1
<1>7. floor <= part
  BY <1>2, <1>3, <1>4
<1>8. ChoosePartSize(size) = part
  BY DEF ChoosePartSize, part, least, share, floor
<1>9. setup.store = "s3" => S3Min <= part
  BY <1>7 DEF floor
<1>10. QED BY <1>4, <1>6, <1>8, <1>9, AdmissionAssumption

\* A set of naturals has a least one.
LEMMA LeastNumber ==
  ASSUME NEW T \in SUBSET Nat, T # {}
  PROVE  \E n \in T : \A m \in T : n <= m
<1>1. PICK n \in T : \A m \in T : ~ (<<m, n>> \in OpToRel(<, Nat))
  BY NatLessThanWellFounded, WFMin
<1>2. ASSUME NEW m \in T, m < n PROVE FALSE
  <2>1. <<m, n>> \in OpToRel(<, Nat)
    BY <1>2, Zenon DEF OpToRel
  <2>2. QED BY <1>1, <2>1
<1>3. QED BY <1>2

\* All parts but the last alike: the sum is a product and the last one.
LEMMA SumOfEqualParts ==
  ASSUME NEW n \in Nat \ {0}, NEW f \in [1 .. n -> Nat], NEW part \in Nat,
         \A k \in 1 .. n - 1 : f[k] = part
  PROVE  SumFunction(f) = (n - 1) * part + f[n]
<1> DEFINE Total(m) == SumFunctionOnSet(f, 1 .. m)
           Bad == {m \in 0 .. n - 1 : Total(m) # m * part}
<1>0. \A m \in 0 .. n : IsFiniteSet(1 .. m) /\ 1 .. m \in SUBSET (1 .. n) /\ Total(m) \in Nat
  <2>1. ASSUME NEW m \in 0 .. n PROVE IsFiniteSet(1 .. m) /\ 1 .. m \in SUBSET (1 .. n)
    <3>1. m \in Int /\ m <= n
      OBVIOUS
    <3>2. IsFiniteSet(1 .. m)
      BY <3>1, FS_Interval
    <3>3. 1 .. m \in SUBSET (1 .. n)
      BY <3>1
    <3>4. QED BY <3>2, <3>3
  <2>2. QED BY <2>1, SumType
<1>s. \A m \in 1 .. n : Total(m) = f[m] + Total(m - 1)
  <2>1. ASSUME NEW m \in 1 .. n PROVE Total(m) = f[m] + Total(m - 1)
    <3>1. 1 .. m - 1 = (1 .. m) \ {m} /\ m \in 1 .. m
      <4>1. m \in Nat /\ m >= 1
        OBVIOUS
      <4>2. \A k : k \in 1 .. m - 1 <=> k \in (1 .. m) \ {m}
        BY <4>1
      <4>3. QED BY <4>1, <4>2
    <3>2. m \in 0 .. n
      OBVIOUS
    <3>3. IsFiniteSet(1 .. m) /\ 1 .. m \in SUBSET (1 .. n)
      BY <1>0, <3>2
    <3>4. SumFunctionOnSet(f, 1 .. m) = f[m] + SumFunctionOnSet(f, (1 .. m) \ {m})
      BY <3>1, <3>3, SumOfRest
    <3>5. QED BY <3>1, <3>4
  <2>2. QED BY <2>1
<1>1. Bad = {}
  <2>1. SUFFICES ASSUME Bad # {} PROVE FALSE
    OBVIOUS
  <2>2. PICK m \in Bad : \A k \in Bad : m <= k
    <3>1. Bad \in SUBSET Nat
      OBVIOUS
    <3>. HIDE DEF Bad
    <3>2. QED BY <2>1, <3>1, LeastNumber
  <2>3. Total(0) = 0
    BY SumEmpty
  <2>4. m # 0
    BY <2>3
  <2>5. m \in 1 .. n - 1 /\ m - 1 \in 0 .. n - 1
    BY <2>2, <2>4
  <2>6. Total(m - 1) = (m - 1) * part
    BY <2>2, <2>5
  <2>7. Total(m) = f[m] + Total(m - 1) /\ f[m] = part
    BY <1>s, <2>5
  <2>8. Total(m) # m * part
    BY <2>2
  <2>9. (m - 1) * part = m * part - part
    BY <2>5
  <2>10. m * part \in Nat
    BY <2>5
  <2>. HIDE DEF Total, Bad
  <2>11. QED BY <2>6, <2>7, <2>8, <2>9, <2>10
<1>2. Total(n - 1) = (n - 1) * part
  BY <1>1
<1>3. Total(n) = f[n] + Total(n - 1)
  BY <1>s
<1>4. SumFunction(f) = Total(n)
  BY DEF SumFunction
<1>5. f[n] \in Nat /\ (n - 1) * part \in Nat
  OBVIOUS
<1> HIDE DEF Total
<1>6. QED BY <1>2, <1>3, <1>4, <1>5

\* The plan of parts, for a file of any size.
LEMMA PartsOfRow ==
  ASSUME setup \in Setups, NEW row, row.size \in Nat \ {0}, row.part = ChoosePartSize(row.size)
  PROVE  LET n == PartCount(row) IN
         /\ n \in 1 .. MaxParts
         /\ \A k \in 1 .. n : ExpectedSize(row, k) > 0
         /\ \A k \in 1 .. n - 1 : ExpectedSize(row, k) = row.part
         /\ setup.store = "s3" => \A k \in 1 .. n - 1 : ExpectedSize(row, k) >= S3Min
         /\ SumFunction([k \in 1 .. n |-> ExpectedSize(row, k)]) = row.size
<1> DEFINE n == PartCount(row)
           part == row.part
           size == row.size
           f == [k \in 1 .. n |-> ExpectedSize(row, k)]
<1>1. /\ part \in Nat \ {0} /\ size <= part * MaxParts
      /\ setup.store = "s3" => part >= S3Min
  BY PartSizeFacts
<1>2. n \in Nat \ {0} /\ (n - 1) * part < size /\ size <= n * part
  BY <1>1, DivCeilFacts DEF PartCount
<1>3. n \in 1 .. MaxParts
  <2>1. (n - 1) * part < MaxParts * part
    BY <1>1, <1>2, AdmissionAssumption
  <2>2. n - 1 < MaxParts
    BY <1>1, <1>2, <2>1, ProductLess, AdmissionAssumption
  <2>3. QED BY <1>2, <2>2, AdmissionAssumption
<1> HIDE DEF n
<1>4. ASSUME NEW k \in 1 .. n - 1 PROVE ExpectedSize(row, k) = part
  <2>1. k * part <= (n - 1) * part
    <3>1. k \in Nat /\ n - 1 \in Nat /\ k <= n - 1
      BY <1>2
    <3>2. QED BY <1>1, <3>1, ProductMonotone
  <2>2. (k - 1) * part = k * part - part /\ k * part \in Nat /\ (n - 1) * part \in Nat
    BY <1>1, <1>2
  <2>3. size - (k - 1) * part >= part
    BY <1>1, <1>2, <2>1, <2>2
  <2>4. size - (k - 1) * part \in Int
    BY <1>1, <2>2
  <2>5. \A a, b \in Int : a >= b => Smaller(a, b) = b
    BY DEF Smaller
  <2>6. Smaller(size - (k - 1) * part, part) = part
    <3>1. part \in Int
      BY <1>1
    <3>. HIDE DEF part, size
    <3>2. QED BY <2>3, <2>4, <2>5, <3>1
  <2>7. QED BY <2>6 DEF ExpectedSize
<1>5. ExpectedSize(row, n) = size - (n - 1) * part /\ ExpectedSize(row, n) \in Nat \ {0}
  <2>1. (n - 1) * part = n * part - part /\ (n - 1) * part \in Nat /\ n * part \in Nat
    BY <1>1, <1>2
  <2>2. QED BY <1>1, <1>2, <2>1 DEF ExpectedSize, Smaller
<1>6. \A k \in 1 .. n : ExpectedSize(row, k) \in Nat \ {0}
  <2>1. \A k \in 1 .. n : k = n \/ k \in 1 .. n - 1
    BY <1>2
  <2>2. QED BY <1>1, <1>4, <1>5, <2>1
<1>7. SumFunction(f) = (n - 1) * part + f[n]
  <2>1. f \in [1 .. n -> Nat] /\ \A k \in 1 .. n - 1 : f[k] = part
    BY <1>2, <1>4, <1>6
  <2>. HIDE DEF f
  <2>2. QED BY <1>1, <1>2, <2>1, SumOfEqualParts
<1>8. SumFunction(f) = size
  <2>1. f[n] = size - (n - 1) * part /\ (n - 1) * part \in Nat
    BY <1>1, <1>2, <1>5
  <2>2. QED BY <1>7, <2>1
<1>9. QED BY <1>1, <1>3, <1>4, <1>6, <1>8 DEF n

\* What the rows hold is the plan.
LEMMA PartsFollow == TypeOK /\ RowsAreSound => PartsCoverTheFile
<1> SUFFICES ASSUME TypeOK, RowsAreSound, NEW i \in Active
             PROVE  LET n == PartCount(rows[i]) IN
                    /\ n \in 1 .. MaxParts
                    /\ \A k \in 1 .. n : ExpectedSize(rows[i], k) > 0
                    /\ \A k \in 1 .. n - 1 : ExpectedSize(rows[i], k) = rows[i].part
                    /\ setup.store = "s3" => \A k \in 1 .. n - 1 : ExpectedSize(rows[i], k) >= S3Min
                    /\ SumFunction([k \in 1 .. n |-> ExpectedSize(rows[i], k)]) = rows[i].size
  BY DEF PartsCoverTheFile
<1>1. rows[i].size \in Nat \ {0} /\ rows[i].part = ChoosePartSize(rows[i].size)
  BY TypeParts, AdmissionAssumption DEF RowsAreSound, Active, Valid, Row
<1>2. QED BY <1>1, PartsOfRow, TypeParts

-----------------------------------------------------------------------------
(* The theorems.                                                           *)

\* With no request on its way to a check, all that is not unchecked is checked.
LEMMA LimitsFollow == TypeOK /\ CheckedIsWithinLimits => LimitsHold
<1> SUFFICES ASSUME TypeOK, CheckedIsWithinLimits, Settled
             PROVE  /\ Cardinality(Active \ unchecked) <= MaxActive
                    /\ EffectiveQuota # NotSet => Bytes(Id \ unchecked) <= EffectiveQuota
  BY DEF LimitsHold
<1>1. \A pcs \in SUBSET {"recount", "requota", "abort", "delete"} : Undecided(pcs) = {}
  BY DEF Settled, Undecided
<1>2. CheckedSessions = Active \ unchecked /\ CheckedRows = Id \ unchecked
  BY <1>1 DEF CheckedSessions, CheckedRows
<1>3. QED BY <1>2 DEF CheckedIsWithinLimits

\* The inductive invariant holds at first.
LEMMA AdmissionInvInit == Init => AdmissionInv
<1> SUFFICES ASSUME Init PROVE AdmissionInv
  OBVIOUS
<1>1. TypeOK
  BY TypeOKInit
<1>2. RequestsAreSound /\ StepsAreInOrder
  BY DEF Init, RequestsAreSound, StepsAreInOrder, Idle, Early
<1>3. RowsAreSound /\ Active = {}
  BY DEF Init, RowsAreSound, Active, NoRow
<1>4. MultipartsAreReachable
  BY DEF Init, MultipartsAreReachable
<1>5. SessionLimit
  <2>1. CheckedSessions = {}
    BY <1>3 DEF CheckedSessions
  <2>2. QED BY <2>1, FS_EmptySet, AdmissionAssumption DEF SessionLimit
<1>6. ByteLimit
  <2>1. Counted \in [Id -> Nat] /\ \A i \in CheckedRows : Counted[i] = 0
    BY <1>1, CountedType DEF Init, Counted, CheckedRows, NoRow
  <2>2. CheckedRows \in SUBSET Id /\ {} \in SUBSET Id
    BY DEF CheckedRows
  <2>3. SumFunctionOnSet(Counted, CheckedRows) <= SumFunctionOnSet(Counted, {})
    BY <2>1, <2>2, FiniteId, SumBounded
  <2>4. SumFunctionOnSet(Counted, CheckedRows) \in Nat
    BY <2>1, <2>2, FiniteId, SumType
  <2>5. EffectiveQuota # NotSet => EffectiveQuota \in Nat
    BY QuotaType DEF Init, Level, NotSet
  <2>6. QED BY <2>3, <2>4, <2>5, SumEmpty DEF ByteLimit, Bytes
<1>7. QED BY <1>1, <1>2, <1>3, <1>4, <1>5, <1>6
          DEF AdmissionInv, CheckedIsWithinLimits, SessionLimit, ByteLimit

\* Every step keeps it.
LEMMA AdmissionInvStep == AdmissionInv /\ [Next]_vars => AdmissionInv'
<1> SUFFICES ASSUME AdmissionInv, [Next]_vars PROVE AdmissionInv'
  OBVIOUS
<1>1. /\ TypeOK /\ RequestsAreSound /\ StepsAreInOrder /\ RowsAreSound
      /\ MultipartsAreReachable /\ SessionLimit /\ ByteLimit
  BY DEF AdmissionInv, CheckedIsWithinLimits, SessionLimit, ByteLimit
<1>2. TypeOK'
  BY <1>1, TypeOKStep
<1>3. RequestsAreSound'
  BY <1>1, RequestsAreSoundStep
<1>4. StepsAreInOrder'
  BY <1>1, StepsAreInOrderStep
<1>5. RowsAreSound'
  BY <1>1, RowsAreSoundStep
<1>6. MultipartsAreReachable'
  BY <1>1, MultipartsStep
<1>7. SessionLimit'
  BY <1>1, <1>2, SessionLimitStep
<1>8. ByteLimit'
  BY <1>1, <1>2, ByteLimitStep
<1>9. QED BY <1>2, <1>3, <1>4, <1>5, <1>6, <1>7, <1>8
          DEF AdmissionInv, CheckedIsWithinLimits, SessionLimit, ByteLimit

\* The inductive invariant: requests and rows are sound, a multipart upload
\* is followed from request to row, and what has been checked is within the
\* limits (enforce_upload_limits_after_create).
THEOREM AdmissionInvariant == Spec => []AdmissionInv
BY AdmissionInvInit, AdmissionInvStep, PTL DEF Spec

\* Every variable stays in its type, and a request in flight has a number.
THEOREM TypeCorrect == Spec => []TypeOK
<1>1. AdmissionInv => TypeOK
  BY DEF AdmissionInv
<1>2. QED BY <1>1, AdmissionInvariant, PTL

\* Once those that have inserted have ended, the user is within both limits,
\* but for rows whose request stopped before it had checked again: checking
\* after the transaction makes good what racing checks before it let through.
THEOREM LimitsAlwaysHold == Spec => []LimitsHold
<1>1. AdmissionInv => LimitsHold
  BY LimitsFollow DEF AdmissionInv
<1>2. QED BY <1>1, AdmissionInvariant, PTL

\* Every multipart upload in the object store is one that a session or a
\* request leads to, unless its request stopped or an abort failed.
THEOREM MultipartsAlwaysReachable == Spec => []MultipartsAreReachable
<1>1. AdmissionInv => MultipartsAreReachable
  BY DEF AdmissionInv
<1>2. QED BY <1>1, AdmissionInvariant, PTL

\* The parts of every active session add up to its file, each full but the
\* last, none empty, no more than the store takes and, on S3, none but the
\* last below its least size (choose_part_size, expected_size_for_part).
THEOREM PartsAlwaysCoverTheFile == Spec => []PartsCoverTheFile
<1>1. AdmissionInv => PartsCoverTheFile
  BY PartsFollow DEF AdmissionInv
<1>2. QED BY <1>1, AdmissionInvariant, PTL
====
