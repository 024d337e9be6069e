------------------------ MODULE GameCategoriesProofs ------------------------
(***************************************************************************)
(* Proofs about GameCategories, for every number of names, categories and  *)
(* requests, on both databases.                                            *)
(*                                                                         *)
(* A step either writes the categories, and then commits, or leaves them   *)
(* alone (QuietStep).  What a commit does to the rows, and to the          *)
(* transactions of the others, is said once for each of the six writers.   *)
(***************************************************************************)
EXTENDS GameCategories, Integers, FiniteSetTheorems, WellFoundedInduction, TLAPS

CatRow == [rev : Nat, by : {"default", "automatic", "admin"}, used : BOOLEAN]

ReqRow == [op : Ops \cup {"none", "enrich"},
           pc : {"idle", "begin", "insert", "lock", "count", "move",
                 "delete", "write", "invalidate", "limits"},
           name : Name \cup {0}, cat : Cat \cup {NoCat}, dest : Cat \cup {NoCat},
           held : SUBSET Name, fresh : BOOLEAN, raced : BOOLEAN]

(* The tables: a number not yet given to a category has an empty row.       *)
TableTypes ==
  /\ database \in {"sqlite", "postgres"} /\ serving \in BOOLEAN
  /\ cats \in [Cat -> CatRow]
  /\ names \in [Name -> Cat \cup {NoCat}] /\ clips \in [Name -> Int]
  /\ \A c \in Cat : ~cats[c].used => cats[c].rev = 0 /\ cats[c].by = "default"

(* A request holds what its operation has read.                             *)
RequestOK(r) ==
  /\ r.op = "upload" => r.name \in Name
  /\ r.op = "separate" => r.name \in Name /\ r.cat \in Cat
  /\ r.op = "edit" => r.cat \in Cat
  /\ r.op = "merge" => r.cat \in Cat /\ r.dest \in Cat /\ r.cat # r.dest
  /\ r.pc = "delete" => r.op = "merge"

RequestTypes == reqs \in [Proc -> ReqRow] /\ \A p \in Proc : RequestOK(reqs[p])

(* Until requests are served there are none, and no map.                    *)
NothingYet ==
  ~serving => /\ ~mapped /\ ~missed /\ loader = NoProc /\ due = {}
              /\ \A p \in Proc : reqs[p].pc = "idle"

TypeInv == TableTypes /\ RequestTypes /\ NothingYet

-----------------------------------------------------------------------------
(* Categories                                                              *)

(* The next category has a number that no category had.                     *)
LEMMA NextCatIsNew ==
  ASSUME TableTypes, Free # {}
  PROVE  NextCat \in Cat /\ ~cats[NextCat].used
<1>1. Free \subseteq Nat /\ Free \subseteq Cat
  BY CategoriesAssumption DEF Free, Cat
<1>2. \E x \in Free : \A y \in Free : ~(<<y, x>> \in OpToRel(<, Nat))
  BY <1>1, NatLessThanWellFounded, WFMin
<1>3. ASSUME NEW a \in Nat, NEW b \in Nat, a < b PROVE <<a, b>> \in OpToRel(<, Nat)
  <2>1. <<a, b>> \in Nat \X Nat /\ <<a, b>>[1] = a /\ <<a, b>>[2] = b
    OBVIOUS
  <2> QED BY <1>3, <2>1 DEF OpToRel
<1>4. \E x \in Free : \A y \in Free : ~(y < x)
  BY <1>1, <1>2, <1>3
<1>5. ASSUME NEW x \in Free, NEW y \in Free, ~(y < x) PROVE x <= y
  BY <1>1, <1>5
<1>6. \E x \in Free : \A y \in Free : x <= y
  BY <1>4, <1>5
<1>7. NextCat \in Free
  BY <1>6 DEF NextCat
<1> QED BY <1>1, <1>7 DEF Free

(* A category of its own: the row given to the next number, and the others. *)
LEMMA DefaultRows ==
  ASSUME NEW f \in [Cat -> CatRow], NEW k \in Cat, k = NextCat
  PROVE  /\ WithDefault(f) \in [Cat -> CatRow]
         /\ WithDefault(f)[k].rev = 1 /\ WithDefault(f)[k].by = "default" /\ WithDefault(f)[k].used
         /\ \A d \in Cat \ {k} : WithDefault(f)[d] = f[d]
<1>1. WithDefault(f) = [f EXCEPT ![k] = [rev |-> 1, by |-> "default", used |-> TRUE]]
  BY DEF WithDefault
<1>2. [rev |-> 1, by |-> "default", used |-> TRUE] \in CatRow
  BY DEF CatRow
<1> QED BY <1>1, <1>2

(* An update of updated_at changes nothing else, and no row that is gone.   *)
LEMMA BumpedRows ==
  ASSUME NEW f \in [Cat -> CatRow], NEW c
  PROVE  /\ Bumped(f, c) \in [Cat -> CatRow]
         /\ \A d \in Cat : /\ Bumped(f, c)[d].by = f[d].by /\ Bumped(f, c)[d].used = f[d].used
                           /\ Bumped(f, c)[d].rev > 0 <=> f[d].rev > 0
                           /\ f[d].rev = 0 => Bumped(f, c)[d].rev = 0
<1>1. ASSUME NEW row \in CatRow
      PROVE  /\ [row EXCEPT !.rev = @ + 1] \in CatRow
             /\ [row EXCEPT !.rev = @ + 1].by = row.by /\ [row EXCEPT !.rev = @ + 1].used = row.used
             /\ [row EXCEPT !.rev = @ + 1].rev > 0
  BY DEF CatRow
<1>2. \A d \in Cat : f[d] \in CatRow /\ f[d].rev \in Nat
  BY DEF CatRow
<1> QED BY <1>1, <1>2 DEF Bumped

(* A row whose presentation is replaced stays live, and is its author's.    *)
LEMMA RedoneRow ==
  ASSUME NEW row \in CatRow, NEW b \in {"automatic", "admin"}
  PROVE  /\ Redone(row, b) \in CatRow
         /\ Redone(row, b).by = b
         /\ Redone(row, b).used = row.used
         /\ Redone(row, b).rev > 0
<1> DEFINE e == row.rev + 1
<1>1. e \in Nat /\ e > 0 /\ b \in {"default", "automatic", "admin"}
  BY DEF CatRow
<1>2. Redone(row, b) = [row EXCEPT !.by = b, !.rev = e]
  BY DEF Redone
<1> HIDE DEF e
<1>3. /\ [row EXCEPT !.by = b, !.rev = e] \in CatRow
      /\ [row EXCEPT !.by = b, !.rev = e].by = b
      /\ [row EXCEPT !.by = b, !.rev = e].used = row.used
      /\ [row EXCEPT !.by = b, !.rev = e].rev = e
  BY <1>1 DEF CatRow
<1> QED BY <1>1, <1>2, <1>3

(* The table with one row replaced so.                                      *)
LEMMA RedoneRows ==
  ASSUME cats \in [Cat -> CatRow], NEW c \in Cat, NEW b \in {"automatic", "admin"},
         NEW f, f = [cats EXCEPT ![c] = Redone(@, b)]
  PROVE  /\ f \in [Cat -> CatRow]
         /\ f[c].by = b /\ f[c].used = cats[c].used /\ f[c].rev > 0
         /\ \A d \in Cat \ {c} : f[d] = cats[d]
<1>1. Redone(cats[c], b) \in CatRow /\ Redone(cats[c], b).by = b
      /\ Redone(cats[c], b).used = cats[c].used /\ Redone(cats[c], b).rev > 0
  BY RedoneRow
<1> QED BY <1>1

-----------------------------------------------------------------------------
(* Requests                                                                *)

Steps == {"idle", "begin", "insert", "lock", "count", "move",
          "delete", "write", "invalidate", "limits"}

(* What r has of an operation is what s has of it.                          *)
SameWork(r, s) == /\ r.op = s.op /\ r.name = s.name /\ r.cat = s.cat /\ r.dest = s.dest

(* A request of another step ...                                            *)
LEMMA AtStep ==
  ASSUME NEW r \in ReqRow, NEW pc \in Steps
  PROVE  /\ [r EXCEPT !.pc = pc] \in ReqRow
         /\ [r EXCEPT !.pc = pc].pc = pc /\ SameWork([r EXCEPT !.pc = pc], r)
         /\ [r EXCEPT !.pc = pc].held = r.held /\ [r EXCEPT !.pc = pc].fresh = r.fresh
BY DEF ReqRow, Steps, SameWork

(* ... of another step and with other rows locked ...                       *)
LEMMA AtStepHolding ==
  ASSUME NEW r \in ReqRow, NEW pc \in Steps, NEW h \in SUBSET Name
  PROVE  /\ [r EXCEPT !.pc = pc, !.held = h] \in ReqRow
         /\ [r EXCEPT !.pc = pc, !.held = h].pc = pc /\ SameWork([r EXCEPT !.pc = pc, !.held = h], r)
         /\ [r EXCEPT !.pc = pc, !.held = h].held = h /\ [r EXCEPT !.pc = pc, !.held = h].fresh = r.fresh
BY DEF ReqRow, Steps, SameWork

(* ... out of its transaction ...                                           *)
LEMMA AtLimits ==
  ASSUME NEW r \in ReqRow
  PROVE  /\ [r EXCEPT !.pc = "limits", !.fresh = TRUE] \in ReqRow
         /\ [r EXCEPT !.pc = "limits", !.fresh = TRUE].pc = "limits"
         /\ SameWork([r EXCEPT !.pc = "limits", !.fresh = TRUE], r)
BY DEF ReqRow, SameWork

(* ... and that has the map to drop.                                        *)
LEMMA AtInvalidate ==
  ASSUME reqs \in [Proc -> ReqRow], NEW p \in Proc
  PROVE  /\ Invalidating(p) \in ReqRow
         /\ Invalidating(p).pc = "invalidate" /\ SameWork(Invalidating(p), reqs[p])
         /\ \A k \in Cat : /\ [Invalidating(p) EXCEPT !.cat = k] \in ReqRow
                           /\ [Invalidating(p) EXCEPT !.cat = k].pc = "invalidate"
                           /\ [Invalidating(p) EXCEPT !.cat = k].op = reqs[p].op
                           /\ [Invalidating(p) EXCEPT !.cat = k].name = reqs[p].name
         /\ "enrich" = [Invalidating(p) EXCEPT !.op = "enrich"].op
         /\ [Invalidating(p) EXCEPT !.op = "enrich"].pc = "invalidate"
         /\ [Invalidating(p) EXCEPT !.op = "enrich"] \in ReqRow
<1>1. reqs[p] \in ReqRow
  OBVIOUS
<1>2. /\ Invalidating(p) \in ReqRow
      /\ Invalidating(p).pc = "invalidate" /\ SameWork(Invalidating(p), reqs[p])
  BY <1>1 DEF Invalidating, ReqRow, SameWork
<1>3. \A k \in Cat : /\ [Invalidating(p) EXCEPT !.cat = k] \in ReqRow
                     /\ [Invalidating(p) EXCEPT !.cat = k].pc = "invalidate"
                     /\ [Invalidating(p) EXCEPT !.cat = k].op = reqs[p].op
                     /\ [Invalidating(p) EXCEPT !.cat = k].name = reqs[p].name
  BY <1>2 DEF ReqRow, SameWork
<1>4. /\ "enrich" = [Invalidating(p) EXCEPT !.op = "enrich"].op
      /\ [Invalidating(p) EXCEPT !.op = "enrich"].pc = "invalidate"
      /\ [Invalidating(p) EXCEPT !.op = "enrich"] \in ReqRow
  BY <1>2 DEF ReqRow
<1> QED BY <1>2, <1>3, <1>4

(* No request.                                                              *)
LEMMA NoRequest == Idle \in ReqRow /\ Idle.pc = "idle" /\ Idle.op = "none" /\ RequestOK(Idle)
BY DEF Idle, ReqRow, RequestOK, NoCat

(* What a step leaves of another's request.                                 *)
Kept(q) ==
  /\ reqs'[q].op = reqs[q].op /\ reqs'[q].pc = reqs[q].pc /\ reqs'[q].name = reqs[q].name
  /\ reqs'[q].cat = reqs[q].cat /\ reqs'[q].dest = reqs[q].dest /\ reqs'[q].held = reqs[q].held
  /\ reqs'[q].fresh => reqs[q].fresh

(* A transaction that a commit has overtaken is no longer fresh.            *)
Overtaken(q) == Kept(q) /\ (reqs'[q].fresh => ~InTransaction(q))

(* One request goes on.                                                     *)
LEMMA OneMoves ==
  ASSUME RequestTypes, NEW p \in Proc, NEW r \in ReqRow, RequestOK(r), reqs' = [reqs EXCEPT ![p] = r]
  PROVE  RequestTypes' /\ reqs'[p] = r /\ \A q \in Others(p) : Kept(q)
BY DEF RequestTypes, Others, Kept

(* One commits and goes on.                                                 *)
LEMMA OneCommits ==
  ASSUME RequestTypes, NEW p \in Proc, NEW r \in ReqRow, RequestOK(r), Commit(p, r) \/ CommitUpload(p, r)
  PROVE  RequestTypes' /\ reqs'[p] = r /\ \A q \in Others(p) : Overtaken(q)
<1>1. ASSUME NEW row \in ReqRow, NEW b \in BOOLEAN
      PROVE  /\ [row EXCEPT !.fresh = b] \in ReqRow /\ [row EXCEPT !.fresh = b].fresh = b
             /\ [row EXCEPT !.fresh = b].pc = row.pc /\ [row EXCEPT !.fresh = b].held = row.held
             /\ SameWork([row EXCEPT !.fresh = b], row)
  BY DEF ReqRow, SameWork
<1>2. ASSUME NEW q \in Others(p)
      PROVE  reqs'[q] \in ReqRow /\ Overtaken(q) /\ RequestOK(reqs'[q])
  <2> DEFINE b == reqs[q].fresh /\ ~InTransaction(q)
             c == reqs[q].raced \/ reqs[q].op = "upload"
  <2>1. reqs[q] \in ReqRow /\ q \in Proc /\ q # p /\ RequestOK(reqs[q])
    BY DEF RequestTypes, Others
  <2>2. b \in BOOLEAN /\ c \in BOOLEAN
    OBVIOUS
  <2>3. reqs'[q] = [reqs[q] EXCEPT !.fresh = b] \/ reqs'[q] = [reqs[q] EXCEPT !.fresh = b, !.raced = c]
    <3>1. CASE Commit(p, r)
      <4>1. reqs'[q] = [reqs[q] EXCEPT !.fresh = @ /\ ~InTransaction(q)]
        BY <2>1, <3>1 DEF Commit
      <4> QED BY <4>1
    <3>2. CASE CommitUpload(p, r)
      <4>1. reqs'[q] = [reqs[q] EXCEPT !.fresh = @ /\ ~InTransaction(q),
                                       !.raced = @ \/ reqs[q].op = "upload"]
        BY <2>1, <3>2 DEF CommitUpload
      <4> QED BY <4>1
    <3> QED BY <3>1, <3>2
  <2>4. b => reqs[q].fresh /\ ~InTransaction(q)
    OBVIOUS
  <2> HIDE DEF b, c
  <2>5. /\ reqs'[q] \in ReqRow /\ reqs'[q].fresh = b /\ reqs'[q].pc = reqs[q].pc
        /\ reqs'[q].held = reqs[q].held /\ SameWork(reqs'[q], reqs[q])
    <3> DEFINE row == reqs[q]
               next == reqs'[q]
    <3>1. row \in ReqRow /\ (next = [row EXCEPT !.fresh = b] \/ next = [row EXCEPT !.fresh = b, !.raced = c])
      BY <2>1, <2>3
    <3> HIDE DEF row, next
    <3>2. /\ next \in ReqRow /\ next.fresh = b /\ next.pc = row.pc
          /\ next.held = row.held /\ SameWork(next, row)
      <4>1. CASE next = [row EXCEPT !.fresh = b]
        BY <1>1, <2>2, <3>1, <4>1
      <4>2. CASE next = [row EXCEPT !.fresh = b, !.raced = c]
        BY <2>2, <3>1, <4>2 DEF ReqRow, SameWork
      <4> QED BY <3>1, <4>1, <4>2
    <3> QED BY <3>2 DEF row, next
  <2> QED BY <2>1, <2>4, <2>5 DEF Overtaken, Kept, SameWork, RequestOK
<1>3. reqs'[p] = r /\ reqs' = [q \in Proc |-> reqs'[q]]
  BY DEF Commit, CommitUpload
<1>4. \A q \in Proc : reqs'[q] \in ReqRow /\ RequestOK(reqs'[q])
  BY <1>2, <1>3 DEF Others
<1> QED BY <1>2, <1>3, <1>4 DEF RequestTypes

-----------------------------------------------------------------------------
(* What a step does.                                                        *)

(* The categories and their names are as they were, and a request that goes *)
(* on has seen what its next step relies on.                                *)
QuietRow(q) ==
  LET r == reqs'[q] IN
  \/ Kept(q)
  \/ r.pc \in {"idle", "begin", "lock", "write", "limits", "move"}
  \/ r.pc = "insert" /\ r.op = "upload"
  \/ r.pc = "count" /\ names[r.name] = r.cat
  \/ /\ r.pc = "insert" /\ reqs[q].pc = "count" /\ SameWork(r, reqs[q])
     /\ r.fresh => reqs[q].fresh
     /\ SharedWith(r.cat)
  \/ /\ r.pc = "delete" /\ r.held = NamesOf(r.cat)
     /\ r.held # {} => Live(r.dest)
     /\ database = "sqlite" => \A o \in Others(q) : reqs'[o].pc # "delete"

QuietStep == UNCHANGED <<database, cats, names>> /\ \A q \in Proc : QuietRow(q)

(* A row that keeps its author, its number and its being there.             *)
SameRow(c) == /\ cats'[c].by = cats[c].by /\ cats'[c].used = cats[c].used
              /\ cats'[c].rev > 0 <=> cats[c].rev > 0

(* A name is given a category that nobody had.                              *)
NewCategory(n, k) ==
  /\ n \in Name /\ k \in Cat /\ ~cats[k].used
  /\ cats'[k].rev > 0 /\ cats'[k].by = "default"
  /\ \A c \in Cat \ {k} : SameRow(c)
  /\ names' = [names EXCEPT ![n] = k]

(* A commit of one of P: it has the map to drop, and the others have been   *)
(* overtaken.                                                               *)
Committed(P) ==
  /\ UNCHANGED database
  /\ P \subseteq Proc /\ \A q \in P : reqs'[q].pc = "invalidate"
  /\ \A q \in Proc \ P : Overtaken(q)

(* On SQLite it has waited for the merge that was writing.                  *)
Waited(P) == database = "sqlite" => \A q \in Proc \ P : reqs[q].pc # "delete"

Creates(P) ==
  /\ Committed(P) /\ Waited(P)
  /\ \E n \in Name, k \in Cat : NewCategory(n, k) /\ names[n] = NoCat

Separates(p) ==
  /\ Committed({p}) /\ Waited({p})
  /\ At(p, "separate", "insert") /\ (database = "sqlite" => reqs[p].fresh)
  /\ \E k \in Cat : NewCategory(reqs[p].name, k)

Presents(p, c) ==
  /\ Committed({p}) /\ Waited({p})
  /\ Live(c) /\ Live(c)' /\ (cats[c].by = "admin" => cats'[c].by = "admin")
  /\ UNCHANGED names /\ \A d \in Cat \ {c} : SameRow(d)

Merges(p) ==
  LET c == reqs[p].cat IN
  /\ Committed({p}) /\ At(p, "merge", "delete") /\ Unshared(p, c) /\ NoNameLeft(p)
  /\ names' = [n \in Name |-> IF n \in reqs[p].held THEN reqs[p].dest ELSE names[n]]
  /\ cats'[c].rev = 0
  /\ \A d \in Cat \ {c} : SameRow(d)

WriteStep ==
  \/ \E P \in SUBSET Proc : Creates(P)
  \/ \E p \in Proc : Separates(p) \/ Merges(p) \/ \E c \in Cat : Presents(p, c)

(* No name of a clip loses its category.                                    *)
ClipStep == \A n \in Name : (serving /\ clips[n] > 0)' /\ names'[n] = NoCat
                               => serving /\ clips[n] > 0 /\ names[n] = NoCat

(* The map, and who has still to drop it.                                   *)
Pending == \E q \in Proc : reqs[q].pc = "invalidate"

MapStep ==
  \/ /\ UNCHANGED <<map, mapped, loader, listed>> /\ (missed => missed') /\ (Pending => Pending')
     /\ UNCHANGED <<cats, names>> \/ Pending' \/ (~mapped /\ loader = NoProc)
  \/ UNCHANGED <<map, mapped, loader, listed, cats, names>> /\ missed'
  \/ ~mapped' /\ (loader' = NoProc \/ (loader' = loader /\ mapped))
  \/ \E p \in Proc : LoadCategories(p)
  \/ LoadNames \/ LoadStops

(* One request goes on, with or without a commit, and no category changes.  *)
LEMMA Going ==
  ASSUME TypeInv, serving, serving' = serving, clips' \in [Name -> Int],
         UNCHANGED <<database, cats, names>>,
         NEW p \in Proc, NEW r \in ReqRow, RequestOK(r),
         reqs' = [reqs EXCEPT ![p] = r] \/ Commit(p, r) \/ CommitUpload(p, r)
  PROVE  /\ TypeInv' /\ reqs'[p] = r
         /\ QuietRow(p) => QuietStep
         /\ reqs[p].pc # "invalidate" /\ UNCHANGED <<cache, missed>> => MapStep
<1>1. RequestTypes' /\ reqs'[p] = r /\ \A q \in Others(p) : Kept(q)
  BY OneMoves, OneCommits DEF TypeInv, Overtaken
<1>2. TableTypes' /\ NothingYet'
  BY DEF TypeInv, TableTypes, NothingYet
<1>3. QuietRow(p) => \A q \in Proc : QuietRow(q)
  BY <1>1 DEF Others, QuietRow
<1>4. reqs[p].pc # "invalidate" => (Pending => Pending')
  BY <1>1 DEF Pending, Others, Kept
<1>5. reqs[p].pc # "invalidate" /\ UNCHANGED <<cache, missed>> => MapStep
  BY <1>4 DEF MapStep, cache
<1> QED BY <1>1, <1>2, <1>3, <1>5 DEF TypeInv, QuietStep

(* One commits a change of the categories and goes on to drop the map.      *)
LEMMA Committing ==
  ASSUME TypeInv, serving, serving' = serving, TableTypes', UNCHANGED <<database, cache, missed>>,
         NEW p \in Proc, NEW r \in ReqRow, RequestOK(r), r.pc = "invalidate",
         Commit(p, r) \/ CommitUpload(p, r)
  PROVE  TypeInv' /\ Committed({p}) /\ MapStep
<1>1. RequestTypes' /\ reqs'[p] = r /\ \A q \in Others(p) : Overtaken(q)
  BY OneCommits DEF TypeInv
<1>2. Pending'
  BY <1>1 DEF Pending
<1> QED BY <1>1, <1>2 DEF TypeInv, NothingYet, Others, Committed, MapStep, cache

(* A request that is under way is one of a process that serves.             *)
LEMMA Serving ==
  ASSUME TypeInv, NEW p \in Proc, reqs[p].pc # "idle"
  PROVE  serving
BY DEF TypeInv, NothingYet

-----------------------------------------------------------------------------
(* The steps of uploads.                                                    *)

LEMMA UploadBegins ==
  ASSUME TypeInv, NEW p \in Proc, NEW n \in Name, Upload(p, n)
  PROVE  TypeInv' /\ QuietStep /\ ClipStep /\ MapStep
<1> DEFINE r == [Idle EXCEPT !.op = "upload", !.pc = "begin", !.name = n]
<1>1. r \in ReqRow /\ RequestOK(r) /\ r.pc = "begin"
  BY DEF Upload, Begin, Idle, ReqRow, RequestOK, NoCat
<1>2. /\ serving /\ serving' = serving /\ reqs' = [reqs EXCEPT ![p] = r] /\ reqs[p].pc = "idle"
      /\ UNCHANGED <<database, cats, names, clips, cache, missed>>
  BY NoRequest DEF Upload, Begin, tables
<1> HIDE DEF r
<1>3. TypeInv' /\ reqs'[p] = r /\ (QuietRow(p) => QuietStep) /\ MapStep
  BY <1>1, <1>2, Going DEF TypeInv, TableTypes
<1> QED BY <1>1, <1>2, <1>3 DEF QuietRow, ClipStep

LEMMA UploadsGoOn ==
  ASSUME TypeInv, NEW p \in Proc, UploadNewName(p) \/ UploadAccepted(p)
  PROVE  TypeInv' /\ QuietStep /\ ClipStep /\ MapStep
<1>1. PICK r \in ReqRow : /\ reqs' = [reqs EXCEPT ![p] = r] /\ RequestOK(r)
                          /\ r.pc = "idle" \/ (r.pc = "insert" /\ r.op = "upload")
  <2>1. CASE UploadNewName(p)
    <3> DEFINE r == [reqs[p] EXCEPT !.pc = "insert"]
    <3>1. reqs[p] \in ReqRow /\ RequestOK(reqs[p]) /\ reqs[p].op = "upload"
      BY <2>1 DEF TypeInv, RequestTypes, UploadNewName, At
    <3>2. r \in ReqRow /\ r.pc = "insert" /\ SameWork(r, reqs[p])
      BY <3>1, AtStep DEF Steps
    <3>3. reqs' = [reqs EXCEPT ![p] = r]
      BY <2>1 DEF UploadNewName, Continue
    <3> HIDE DEF r
    <3> QED BY <3>1, <3>2, <3>3 DEF RequestOK, SameWork
  <2>2. CASE UploadAccepted(p)
    BY <2>2, NoRequest DEF UploadAccepted, End
  <2> QED BY <2>1, <2>2
<1>2. /\ serving /\ serving' = serving /\ reqs[p].pc # "invalidate"
      /\ UNCHANGED <<database, cats, names, clips, cache, missed>>
  BY Serving DEF UploadNewName, UploadAccepted, At, tables
<1>3. TypeInv' /\ reqs'[p] = r /\ (QuietRow(p) => QuietStep) /\ MapStep
  BY <1>1, <1>2, Going DEF TypeInv, TableTypes
<1> QED BY <1>1, <1>2, <1>3 DEF QuietRow, ClipStep

LEMMA UploadCommits ==
  ASSUME TypeInv, NEW p \in Proc, UploadKnownName(p) \/ UploadConflict(p) \/ UploadRefused(p)
  PROVE  TypeInv' /\ QuietStep /\ ClipStep /\ MapStep
<1> DEFINE n == reqs[p].name
<1>1. reqs[p] \in ReqRow /\ RequestOK(reqs[p]) /\ reqs[p].op = "upload" /\ n \in Name
      /\ reqs[p].pc # "invalidate" /\ reqs[p].pc # "idle"
  BY DEF TypeInv, RequestTypes, RequestOK, UploadKnownName, UploadConflict, UploadRefused, At
<1>2. /\ serving /\ serving' = serving
      /\ UNCHANGED <<database, cats, names, cache, missed>>
  BY <1>1, Serving DEF UploadKnownName, UploadConflict, UploadRefused
<1>3. PICK r \in ReqRow : /\ RequestOK(r) /\ r.pc \in {"limits", "idle"}
                          /\ Commit(p, r) \/ CommitUpload(p, r)
  <2>1. CASE UploadRefused(p)
    BY <2>1, NoRequest DEF UploadRefused
  <2>2. CASE UploadKnownName(p) \/ UploadConflict(p)
    <3> DEFINE r == [reqs[p] EXCEPT !.pc = "limits", !.fresh = TRUE]
    <3>1. r \in ReqRow /\ r.pc = "limits" /\ SameWork(r, reqs[p])
      BY <1>1, AtLimits
    <3>2. CommitUpload(p, r)
      BY <2>2 DEF UploadKnownName, UploadConflict
    <3> HIDE DEF r
    <3>3. RequestOK(r)
      BY <1>1, <3>1 DEF RequestOK, SameWork
    <3> QED BY <3>1, <3>2, <3>3
  <2> QED BY <2>1, <2>2
<1>4. clips' \in [Name -> Int] /\ ClipStep
  <2>1. clips \in [Name -> Int]
    BY DEF TypeInv, TableTypes
  <2>2. CASE UploadRefused(p)
    <3>1. clips' = [clips EXCEPT ![n] = clips[n] - 1]
      BY <2>2 DEF UploadRefused
    <3>2. clips' \in [Name -> Int] /\ \A m \in Name : clips'[m] > 0 => clips[m] > 0
      BY <1>1, <2>1, <3>1
    <3> QED BY <1>2, <3>2 DEF ClipStep
  <2>3. CASE UploadKnownName(p) \/ UploadConflict(p)
    <3>1. clips' = [clips EXCEPT ![n] = clips[n] + 1] /\ names[n] # NoCat
      BY <2>3 DEF UploadKnownName, UploadConflict, Reported
    <3>2. clips' \in [Name -> Int] /\ \A m \in Name \ {n} : clips'[m] = clips[m]
      BY <1>1, <2>1, <3>1
    <3> QED BY <1>2, <3>1, <3>2 DEF ClipStep
  <2> QED BY <2>2, <2>3
<1>5. TypeInv' /\ reqs'[p] = r /\ (QuietRow(p) => QuietStep) /\ MapStep
  BY <1>1, <1>2, <1>3, <1>4, Going
<1> QED BY <1>3, <1>4, <1>5 DEF QuietRow

(* The tables with a category of its own for a name.                        *)
LEMMA NewTables ==
  ASSUME TypeInv, Free # {}, NEW f \in [Cat -> CatRow], NEW n \in Name,
         \A c \in Cat : /\ f[c].by = cats[c].by /\ f[c].used = cats[c].used
                        /\ f[c].rev > 0 <=> cats[c].rev > 0
                        /\ cats[c].rev = 0 => f[c].rev = 0,
         cats' = WithDefault(f), names' = [names EXCEPT ![n] = NextCat],
         clips' \in [Name -> Int], UNCHANGED <<database, serving>>
  PROVE  TableTypes' /\ NewCategory(n, NextCat)
<1> DEFINE k == NextCat
<1>1. k \in Cat /\ ~cats[k].used
  BY NextCatIsNew DEF TypeInv
<1>2. names' = [names EXCEPT ![n] = k]
  OBVIOUS
<1>3. k = NextCat
  OBVIOUS
<1> HIDE DEF k
<1>4. /\ cats' \in [Cat -> CatRow]
      /\ cats'[k].rev = 1 /\ cats'[k].by = "default" /\ cats'[k].used
      /\ \A d \in Cat \ {k} : cats'[d] = f[d]
  BY <1>1, <1>3, DefaultRows
<1>5. \A d \in Cat \ {k} : SameRow(d)
  BY <1>4 DEF SameRow
<1>6. NewCategory(n, k)
  <2>1. cats'[k].rev > 0
    BY <1>4
  <2> QED BY ONLY <1>1, <1>2, <1>4, <1>5, <2>1, n \in Name DEF NewCategory
<1>7. \A c \in Cat : ~cats'[c].used => cats'[c].rev = 0 /\ cats'[c].by = "default"
  BY <1>4 DEF TypeInv, TableTypes
<1>8. names' \in [Name -> Cat \cup {NoCat}]
  BY <1>1, <1>2 DEF TypeInv, TableTypes
<1>9. TableTypes'
  BY <1>4, <1>7, <1>8 DEF TypeInv, TableTypes
<1> QED BY <1>6, <1>9 DEF k

LEMMA UploadInserts ==
  ASSUME TypeInv, NEW p \in Proc, UploadInsert(p)
  PROVE  TypeInv' /\ WriteStep /\ ClipStep /\ MapStep
<1> DEFINE n == reqs[p].name
           k == NextCat
           r == [Invalidating(p) EXCEPT !.cat = k]
<1>1. /\ reqs \in [Proc -> ReqRow] /\ reqs[p].op = "upload" /\ n \in Name
      /\ reqs[p].pc # "idle" /\ Free # {} /\ names[n] = NoCat /\ MayWrite(p)
      /\ cats' = WithDefault(cats) /\ names' = [names EXCEPT ![n] = k]
      /\ clips' = [clips EXCEPT ![n] = clips[n] + 1]
      /\ CommitUpload(p, r)
      /\ UNCHANGED <<database, serving, cache, missed>>
  BY DEF TypeInv, RequestTypes, RequestOK, UploadInsert, At, Reported
<1>2. clips' \in [Name -> Int] /\ (\A m \in Name \ {n} : clips'[m] = clips[m]) /\ cats \in [Cat -> CatRow]
      /\ names \in [Name -> Cat \cup {NoCat}]
  BY <1>1 DEF TypeInv, TableTypes
<1>3. k \in Cat /\ k # NoCat
  BY <1>1, NextCatIsNew DEF TypeInv, Cat, NoCat
<1>4. TableTypes' /\ NewCategory(n, k)
  BY <1>1, <1>2, NewTables
<1>5. r \in ReqRow /\ r.pc = "invalidate" /\ r.op = "upload" /\ r.name = n
  <2> HIDE DEF k, n
  <2> QED BY <1>1, <1>3, AtInvalidate DEF n
<1>6. serving
  BY <1>1, Serving
<1> HIDE DEF r, k
<1>7. RequestOK(r)
  BY <1>1, <1>5 DEF RequestOK
<1>8. TypeInv' /\ Committed({p}) /\ MapStep
  BY <1>1, <1>4, <1>5, <1>6, <1>7, Committing
<1>9. Waited({p})
  BY <1>1 DEF Waited, MayWrite, Others
<1>10. Creates({p})
  BY <1>1, <1>3, <1>4, <1>8, <1>9 DEF Creates
<1>11. ClipStep
  BY <1>1, <1>2, <1>3 DEF ClipStep
<1> QED BY <1>8, <1>10, <1>11 DEF WriteStep

(* The start: a name gets its category before anything is served.           *)
LEMMA Reconciles ==
  ASSUME TypeInv, NEW n \in Name, Reconcile(n)
  PROVE  TypeInv' /\ WriteStep /\ ClipStep /\ MapStep
<1>1. /\ ~serving /\ Free # {} /\ names[n] = NoCat
      /\ cats' = WithDefault(cats) /\ names' = [names EXCEPT ![n] = NextCat]
      /\ UNCHANGED <<database, serving, clips, reqs, due, missed, map, mapped, loader, listed>>
  BY DEF Reconcile, cache
<1>2. cats \in [Cat -> CatRow] /\ names \in [Name -> Cat \cup {NoCat}] /\ clips \in [Name -> Int]
  BY DEF TypeInv, TableTypes
<1>3. NextCat \in Cat
  BY <1>1, NextCatIsNew DEF TypeInv
<1>4. TableTypes' /\ NewCategory(n, NextCat)
  BY <1>1, <1>2, NewTables
<1>5. RequestTypes' /\ NothingYet' /\ ~mapped /\ loader = NoProc /\ \A q \in Proc : reqs[q].pc = "idle"
  BY <1>1 DEF TypeInv, RequestTypes, NothingYet
<1>6. Committed({}) /\ Waited({})
  BY <1>1, <1>5 DEF Committed, Waited, Overtaken, Kept, InTransaction
<1>7. Creates({})
  BY <1>1, <1>3, <1>4, <1>6 DEF Creates
<1>8. MapStep
  BY <1>1, <1>5 DEF MapStep, Pending
<1>9. ClipStep
  BY <1>1 DEF ClipStep
<1> QED BY <1>4, <1>5, <1>7, <1>8, <1>9 DEF TypeInv, WriteStep

-----------------------------------------------------------------------------
(* The steps of enrichment and of edits.                                    *)

LEMMA Presenting ==
  ASSUME TypeInv, NEW p \in Proc, NEW c \in Cat,
         Enrich(p, c) \/ (EditWrite(p) /\ c = reqs[p].cat)
  PROVE  TypeInv' /\ WriteStep /\ ClipStep /\ MapStep
<1>1. cats \in [Cat -> CatRow] /\ reqs \in [Proc -> ReqRow] /\ RequestOK(reqs[p])
  BY DEF TypeInv, TableTypes, RequestTypes
<1>2. PICK b \in {"automatic", "admin"} :
         /\ cats' = [cats EXCEPT ![c] = Redone(@, b)]
         /\ cats[c].by = "admin" => b = "admin"
  <2>1. CASE Enrich(p, c)
    BY <2>1 DEF Enrich, Decorated, AsCreated
  <2>2. CASE EditWrite(p) /\ c = reqs[p].cat
    BY <2>2 DEF EditWrite, Presented
  <2> QED BY <2>1, <2>2
<1>3. /\ cats' \in [Cat -> CatRow]
      /\ cats'[c].by = b /\ cats'[c].used = cats[c].used /\ cats'[c].rev > 0
      /\ \A d \in Cat \ {c} : cats'[d] = cats[d]
  BY <1>1, <1>2, RedoneRows
<1>4. /\ Live(c) /\ c # NoCat /\ MayWriteLate(p) /\ serving
      /\ UNCHANGED <<database, names, clips, serving, cache, missed>>
  <2>1. CASE Enrich(p, c)
    <3>1. due # {} /\ cats[c].rev = 1
      BY <2>1 DEF Enrich, AsCreated
    <3>2. serving
      BY <3>1 DEF TypeInv, NothingYet
    <3> QED BY <2>1, <3>1, <3>2 DEF Enrich, Live, Cat, NoCat
  <2>2. CASE EditWrite(p) /\ c = reqs[p].cat
    <3>1. serving
      BY <2>2, Serving DEF EditWrite, At
    <3> QED BY <2>2, <3>1 DEF EditWrite, Cat, NoCat
  <2> QED BY <2>1, <2>2
<1>5. PICK r \in ReqRow : Commit(p, r) /\ r.pc = "invalidate" /\ RequestOK(r)
  <2>1. CASE Enrich(p, c)
    <3> DEFINE r == [Invalidating(p) EXCEPT !.op = "enrich"]
    <3>1. r \in ReqRow /\ r.op = "enrich" /\ r.pc = "invalidate"
      BY <1>1, AtInvalidate
    <3>2. Commit(p, r)
      BY <2>1 DEF Enrich
    <3> HIDE DEF r
    <3> QED BY <3>1, <3>2 DEF RequestOK
  <2>2. CASE EditWrite(p) /\ c = reqs[p].cat
    <3> DEFINE r == Invalidating(p)
    <3>1. r \in ReqRow /\ SameWork(r, reqs[p]) /\ r.pc = "invalidate"
      BY <1>1, AtInvalidate
    <3>2. Commit(p, r)
      BY <2>2 DEF EditWrite
    <3> HIDE DEF r
    <3> QED BY <1>1, <3>1, <3>2 DEF RequestOK, SameWork
  <2> QED BY <2>1, <2>2
<1>6. TableTypes'
  <2>1. \A d \in Cat : ~cats'[d].used => cats'[d].rev = 0 /\ cats'[d].by = "default"
    BY <1>3, <1>4 DEF TypeInv, TableTypes, Live
  <2> QED BY <1>3, <1>4, <2>1 DEF TypeInv, TableTypes
<1>7. TypeInv' /\ Committed({p}) /\ MapStep
  BY <1>4, <1>5, <1>6, Committing
<1>8. Waited({p})
  BY <1>4 DEF Waited, MayWriteLate, Others
<1>9. Presents(p, c)
  <2>1. Live(c)'
    BY <1>3, <1>4 DEF Live
  <2>2. \A d \in Cat \ {c} : SameRow(d)
    BY <1>3 DEF SameRow
  <2> QED BY <1>2, <1>3, <1>4, <1>7, <1>8, <2>1, <2>2 DEF Presents
<1>10. ClipStep
  BY <1>4 DEF ClipStep
<1> QED BY <1>7, <1>9, <1>10 DEF WriteStep

LEMMA EditsGoOn ==
  ASSUME TypeInv, NEW p \in Proc, (\E c \in Cat : Edit(p, c)) \/ EditNotFound(p)
  PROVE  TypeInv' /\ QuietStep /\ ClipStep /\ MapStep
<1>1. /\ serving /\ serving' = serving /\ reqs[p].pc # "invalidate"
      /\ UNCHANGED <<database, cats, names, clips, cache, missed>>
  <2>1. CASE EditNotFound(p)
    BY <2>1, Serving DEF EditNotFound, At, tables
  <2>2. CASE \E c \in Cat : Edit(p, c)
    BY <2>2, NoRequest DEF Edit, Begin, tables
  <2> QED BY <2>1, <2>2
<1>2. PICK r \in ReqRow : reqs' = [reqs EXCEPT ![p] = r] /\ RequestOK(r) /\ r.pc \in {"idle", "write"}
  <2>1. CASE EditNotFound(p)
    BY <2>1, NoRequest DEF EditNotFound, End
  <2>2. CASE \E c \in Cat : Edit(p, c)
    <3>1. PICK c \in Cat : Edit(p, c)
      BY <2>2
    <3> DEFINE r == [Idle EXCEPT !.op = "edit", !.pc = "write", !.cat = c]
    <3>2. r \in ReqRow /\ RequestOK(r) /\ r.pc = "write" /\ reqs' = [reqs EXCEPT ![p] = r]
      BY <3>1 DEF Edit, Begin, Idle, ReqRow, RequestOK, NoCat
    <3> QED BY <3>2
  <2> QED BY <2>1, <2>2
<1>3. TypeInv' /\ reqs'[p] = r /\ (QuietRow(p) => QuietStep) /\ MapStep
  BY <1>1, <1>2, Going DEF TypeInv, TableTypes
<1> QED BY <1>1, <1>2, <1>3 DEF QuietRow, ClipStep

-----------------------------------------------------------------------------
(* The steps of merges.                                                     *)

LEMMA MergesGoOn ==
  ASSUME TypeInv, NEW p \in Proc, (\E c, d \in Cat : Merge(p, c, d)) \/ MergeChecks(p)
  PROVE  TypeInv' /\ QuietStep /\ ClipStep /\ MapStep
<1>1. /\ serving /\ serving' = serving /\ reqs[p].pc # "invalidate"
      /\ UNCHANGED <<database, cats, names, clips, cache, missed>>
  <2>1. CASE MergeChecks(p)
    BY <2>1, Serving DEF MergeChecks, At, tables
  <2>2. CASE \E c, d \in Cat : Merge(p, c, d)
    BY <2>2, NoRequest DEF Merge, Begin, tables
  <2> QED BY <2>1, <2>2
<1>2. PICK r \in ReqRow : reqs' = [reqs EXCEPT ![p] = r] /\ RequestOK(r) /\ r.pc \in {"idle", "begin", "move"}
  <2>1. CASE MergeChecks(p) /\ reqs' = [reqs EXCEPT ![p] = Idle]
    BY <2>1, NoRequest
  <2>2. CASE MergeChecks(p) /\ Continue(p, "move")
    <3> DEFINE r == [reqs[p] EXCEPT !.pc = "move"]
    <3>1. reqs[p] \in ReqRow /\ RequestOK(reqs[p])
      BY DEF TypeInv, RequestTypes
    <3>2. r \in ReqRow /\ r.pc = "move" /\ SameWork(r, reqs[p])
      BY <3>1, AtStep DEF Steps
    <3>3. reqs' = [reqs EXCEPT ![p] = r]
      BY <2>2 DEF Continue
    <3> HIDE DEF r
    <3> QED BY <3>1, <3>2, <3>3 DEF RequestOK, SameWork
  <2>3. CASE \E c, d \in Cat : Merge(p, c, d)
    <3>1. PICK c \in Cat, d \in Cat : Merge(p, c, d)
      BY <2>3
    <3> DEFINE r == [Idle EXCEPT !.op = "merge", !.pc = "begin", !.cat = c, !.dest = d]
    <3>2. r \in ReqRow /\ RequestOK(r) /\ r.pc = "begin" /\ reqs' = [reqs EXCEPT ![p] = r]
      BY <3>1 DEF Merge, Begin, Idle, ReqRow, RequestOK, NoCat
    <3> QED BY <3>2
  <2> QED BY <2>1, <2>2, <2>3 DEF MergeChecks, End
<1>3. TypeInv' /\ reqs'[p] = r /\ (QuietRow(p) => QuietStep) /\ MapStep
  BY <1>1, <1>2, Going DEF TypeInv, TableTypes
<1> QED BY <1>1, <1>2, <1>3 DEF QuietRow, ClipStep

LEMMA MergesMove ==
  ASSUME TypeInv, NEW p \in Proc, MergeMoves(p)
  PROVE  TypeInv' /\ QuietStep /\ ClipStep /\ MapStep
<1> DEFINE ns == NamesOf(reqs[p].cat)
           r == [reqs[p] EXCEPT !.pc = "delete", !.held = ns]
<1>1. reqs[p] \in ReqRow /\ RequestOK(reqs[p]) /\ reqs[p].op = "merge"
      /\ reqs[p].pc # "invalidate" /\ reqs[p].pc # "idle"
  BY DEF TypeInv, RequestTypes, MergeMoves, At
<1>2. ns \in SUBSET Name
  BY DEF NamesOf
<1>3. /\ MayWrite(p) /\ (ns # {} => Live(reqs[p].dest))
      /\ UNCHANGED <<database, cats, names, clips, serving, cache, missed>>
  BY DEF MergeMoves, Referenced, tables
<1>4. reqs' = [reqs EXCEPT ![p] = r]
  BY DEF MergeMoves
<1> HIDE DEF ns
<1>5. r \in ReqRow /\ r.pc = "delete" /\ SameWork(r, reqs[p]) /\ r.held = ns
  BY <1>1, <1>2, AtStepHolding DEF Steps
<1> HIDE DEF r
<1>6. RequestOK(r) /\ serving
  BY <1>1, <1>5, Serving DEF RequestOK, SameWork
<1>7. /\ TypeInv' /\ reqs'[p] = r /\ (QuietRow(p) => QuietStep) /\ MapStep
      /\ \A o \in Others(p) : Kept(o)
  <2>1. TypeInv' /\ reqs'[p] = r /\ (QuietRow(p) => QuietStep) /\ MapStep
    BY <1>1, <1>3, <1>4, <1>5, <1>6, Going DEF TypeInv, TableTypes
  <2>2. \A o \in Others(p) : Kept(o)
    BY <1>4, <1>5, <1>6, OneMoves DEF TypeInv
  <2> QED BY <2>1, <2>2
<1>8. database = "sqlite" => \A o \in Others(p) : reqs'[o].pc # "delete"
  BY <1>3, <1>7 DEF MayWrite, Kept
<1>9. QuietRow(p)
  <2>1. r.held = NamesOf(r.cat) /\ (r.held # {} => Live(r.dest))
    BY <1>3, <1>5 DEF SameWork, ns
  <2> QED BY <1>5, <1>7, <1>8, <2>1 DEF QuietRow
<1> QED BY <1>3, <1>7, <1>9 DEF ClipStep

LEMMA MergesDelete ==
  ASSUME TypeInv, NEW p \in Proc, MergeDeletes(p)
  PROVE  TypeInv' /\ WriteStep /\ ClipStep /\ MapStep
<1> DEFINE c == reqs[p].cat
           d == reqs[p].dest
           f == Bumped(cats, d)
           r == Invalidating(p)
<1>1. /\ reqs \in [Proc -> ReqRow] /\ RequestOK(reqs[p]) /\ cats \in [Cat -> CatRow]
      /\ c \in Cat /\ d \in Cat /\ names \in [Name -> Cat \cup {NoCat}]
      /\ reqs[p].pc # "idle"
  BY DEF TypeInv, TableTypes, RequestTypes, RequestOK, MergeDeletes, At
<1>2. /\ names' = [n \in Name |-> IF n \in reqs[p].held THEN d ELSE names[n]]
      /\ cats' = [f EXCEPT ![c].rev = 0]
      /\ Commit(p, r)
      /\ UNCHANGED <<database, clips, serving, cache, missed>>
  BY DEF MergeDeletes
<1>3. /\ f \in [Cat -> CatRow]
      /\ \A e \in Cat : /\ f[e].by = cats[e].by /\ f[e].used = cats[e].used
                        /\ f[e].rev > 0 <=> cats[e].rev > 0
                        /\ cats[e].rev = 0 => f[e].rev = 0
  BY <1>1, BumpedRows
<1>4. r \in ReqRow /\ r.pc = "invalidate" /\ SameWork(r, reqs[p])
  BY <1>1, AtInvalidate
<1>5. serving
  BY <1>1, Serving
<1> HIDE DEF f, r
<1>6. ASSUME NEW row \in CatRow
      PROVE  /\ [row EXCEPT !.rev = 0] \in CatRow /\ [row EXCEPT !.rev = 0].rev = 0
             /\ [row EXCEPT !.rev = 0].by = row.by /\ [row EXCEPT !.rev = 0].used = row.used
  BY DEF CatRow
<1>7. /\ cats' \in [Cat -> CatRow] /\ cats'[c].rev = 0
      /\ cats'[c].by = f[c].by /\ cats'[c].used = f[c].used
      /\ \A e \in Cat \ {c} : cats'[e] = f[e]
  <2>1. f[c] \in CatRow
    BY <1>1, <1>3
  <2>2. cats' = [f EXCEPT ![c] = [f[c] EXCEPT !.rev = 0]]
    BY <1>2
  <2> DEFINE row == [f[c] EXCEPT !.rev = 0]
  <2>3. row \in CatRow /\ row.rev = 0 /\ row.by = f[c].by /\ row.used = f[c].used
    BY <1>6, <2>1
  <2> HIDE DEF row
  <2> QED BY <1>1, <1>3, <2>2, <2>3 DEF row
<1>8. TableTypes'
  <2>1. \A e \in Cat : ~cats'[e].used => cats'[e].rev = 0 /\ cats'[e].by = "default"
    BY <1>1, <1>3, <1>7 DEF TypeInv, TableTypes
  <2>2. names' \in [Name -> Cat \cup {NoCat}]
    BY <1>1, <1>2
  <2> QED BY <1>2, <1>7, <2>1, <2>2 DEF TypeInv, TableTypes
<1>9. RequestOK(r)
  BY <1>1, <1>4 DEF RequestOK, SameWork
<1>10. TypeInv' /\ Committed({p}) /\ MapStep
  BY <1>2, <1>4, <1>5, <1>8, <1>9, Committing
<1>11. Merges(p)
  <2>1. At(p, "merge", "delete") /\ Unshared(p, c) /\ NoNameLeft(p)
    BY DEF MergeDeletes
  <2>2. \A e \in Cat \ {c} : SameRow(e)
    BY <1>3, <1>7 DEF SameRow
  <2> QED BY <1>2, <1>7, <1>10, <2>1, <2>2 DEF Merges
<1>12. ClipStep
  BY <1>1, <1>2 DEF ClipStep, Cat, NoCat
<1> QED BY <1>10, <1>11, <1>12 DEF WriteStep

-----------------------------------------------------------------------------
(* The steps of separations.                                                *)

LEMMA SeparatesGoOn ==
  ASSUME TypeInv, NEW p \in Proc,
         \/ \E c \in Cat, n \in Name : Separate(p, c, n)
         \/ SeparateReads(p) \/ SeparateCounts(p)
  PROVE  TypeInv' /\ QuietStep /\ ClipStep /\ MapStep
<1>1. /\ serving /\ serving' = serving /\ reqs[p].pc # "invalidate"
      /\ UNCHANGED <<database, cats, names, clips, cache, missed>>
  <2>1. CASE SeparateReads(p) \/ SeparateCounts(p)
    BY <2>1, Serving DEF SeparateReads, SeparateCounts, At, tables
  <2>2. CASE \E c \in Cat, n \in Name : Separate(p, c, n)
    BY <2>2, NoRequest DEF Separate, Begin, tables
  <2> QED BY <2>1, <2>2
<1>2. reqs[p] \in ReqRow /\ RequestOK(reqs[p])
  BY DEF TypeInv, RequestTypes
<1>3. PICK r \in ReqRow :
         /\ reqs' = [reqs EXCEPT ![p] = r] /\ RequestOK(r)
         /\ \/ r.pc \in {"idle", "lock"}
            \/ r.pc = "count" /\ names[r.name] = r.cat
            \/ /\ r.pc = "insert" /\ reqs[p].pc = "count" /\ SameWork(r, reqs[p])
               /\ r.fresh => reqs[p].fresh
               /\ SharedWith(r.cat)
  <2>1. CASE \E c \in Cat, n \in Name : Separate(p, c, n)
    <3>1. PICK c \in Cat, n \in Name : Separate(p, c, n)
      BY <2>1
    <3> DEFINE r == [Idle EXCEPT !.op = "separate", !.pc = "lock", !.cat = c, !.name = n]
    <3>2. r \in ReqRow /\ RequestOK(r) /\ r.pc = "lock" /\ reqs' = [reqs EXCEPT ![p] = r]
      BY <3>1 DEF Separate, Begin, Idle, ReqRow, RequestOK, NoCat
    <3> QED BY <3>2
  <2>2. CASE reqs' = [reqs EXCEPT ![p] = Idle]
    BY <2>2, NoRequest
  <2>3. CASE SeparateReads(p) /\ reqs' # [reqs EXCEPT ![p] = Idle]
    <3> DEFINE h == {reqs[p].name}
               r == [reqs[p] EXCEPT !.pc = "count", !.held = h]
    <3>1. /\ reqs' = [reqs EXCEPT ![p] = r] /\ reqs[p].op = "separate"
          /\ names[reqs[p].name] = reqs[p].cat
      BY <2>3 DEF SeparateReads, End, At
    <3>2. h \in SUBSET Name
      BY <1>2, <3>1 DEF RequestOK
    <3> HIDE DEF h
    <3>3. r \in ReqRow /\ r.pc = "count" /\ SameWork(r, reqs[p])
      BY <1>2, <3>2, AtStepHolding DEF Steps
    <3> HIDE DEF r
    <3> QED BY <1>2, <3>1, <3>3 DEF RequestOK, SameWork
  <2>4. CASE SeparateCounts(p) /\ reqs' # [reqs EXCEPT ![p] = Idle]
    <3> DEFINE r == [reqs[p] EXCEPT !.pc = "insert"]
    <3>1. /\ reqs' = [reqs EXCEPT ![p] = r] /\ reqs[p].pc = "count"
          /\ SharedWith(reqs[p].cat)
      BY <2>4 DEF SeparateCounts, Continue, End, At
    <3>2. r \in ReqRow /\ r.pc = "insert" /\ SameWork(r, reqs[p]) /\ r.fresh = reqs[p].fresh
      BY <1>2, AtStep DEF Steps
    <3> HIDE DEF r
    <3>3. SharedWith(r.cat) /\ RequestOK(r)
      BY <1>2, <3>1, <3>2 DEF RequestOK, SameWork
    <3> QED BY <3>1, <3>2, <3>3
  <2> QED BY <2>1, <2>2, <2>3, <2>4
<1>4. TypeInv' /\ reqs'[p] = r /\ (QuietRow(p) => QuietStep) /\ MapStep
  BY <1>1, <1>3, Going DEF TypeInv, TableTypes
<1> QED BY <1>1, <1>3, <1>4 DEF QuietRow, ClipStep

LEMMA SeparatesMove ==
  ASSUME TypeInv, NEW p \in Proc, SeparateMoves(p)
  PROVE  TypeInv' /\ WriteStep /\ ClipStep /\ MapStep
<1> DEFINE n == reqs[p].name
           f == Bumped(cats, reqs[p].cat)
           r == Invalidating(p)
<1>1. /\ reqs \in [Proc -> ReqRow] /\ RequestOK(reqs[p]) /\ n \in Name
      /\ cats \in [Cat -> CatRow] /\ names \in [Name -> Cat \cup {NoCat}] /\ clips \in [Name -> Int]
  BY DEF TypeInv, TableTypes, RequestTypes, RequestOK, SeparateMoves, At
<1>2. /\ cats' = WithDefault(f) /\ names' = [names EXCEPT ![n] = NextCat]
      /\ At(p, "separate", "insert") /\ MayWrite(p) /\ Free # {}
      /\ Commit(p, r)
      /\ UNCHANGED <<database, clips, serving, cache, missed>>
  BY DEF SeparateMoves
<1>3. NextCat \in Cat /\ NextCat # NoCat
  BY <1>2, NextCatIsNew DEF TypeInv, Cat, NoCat
<1>4. /\ f \in [Cat -> CatRow]
      /\ \A e \in Cat : /\ f[e].by = cats[e].by /\ f[e].used = cats[e].used
                        /\ f[e].rev > 0 <=> cats[e].rev > 0
                        /\ cats[e].rev = 0 => f[e].rev = 0
  BY <1>1, BumpedRows
<1>5. r \in ReqRow /\ r.pc = "invalidate" /\ SameWork(r, reqs[p])
  BY <1>1, AtInvalidate
<1>6. serving
  BY <1>2, Serving DEF At
<1> HIDE DEF f, r
<1>7. TableTypes' /\ NewCategory(n, NextCat)
  BY <1>1, <1>2, <1>4, NewTables
<1>8. RequestOK(r)
  BY <1>1, <1>5 DEF RequestOK, SameWork
<1>9. TypeInv' /\ Committed({p}) /\ MapStep
  BY <1>2, <1>5, <1>6, <1>7, <1>8, Committing
<1>10. Separates(p)
  BY <1>2, <1>3, <1>7, <1>9 DEF Separates, Waited, MayWrite, Others
<1>11. ClipStep
  BY <1>1, <1>2, <1>3 DEF ClipStep
<1> QED BY <1>9, <1>10, <1>11 DEF WriteStep

-----------------------------------------------------------------------------
(* The steps of the map, of the process and of requests that stop.          *)

LEMMA MapDrops ==
  ASSUME TypeInv, NEW p \in Proc, Invalidate(p)
  PROVE  TypeInv' /\ QuietStep /\ ClipStep /\ MapStep
<1>1. reqs[p] \in ReqRow /\ RequestOK(reqs[p]) /\ reqs[p].pc # "idle"
  BY DEF TypeInv, RequestTypes, Invalidate
<1>2. /\ serving /\ serving' = serving
      /\ UNCHANGED <<database, cats, names, clips>>
      /\ ~mapped' /\ loader' = NoProc
  BY <1>1, Serving DEF Invalidate, MayInvalidate, tables
<1>3. PICK r \in ReqRow : reqs' = [reqs EXCEPT ![p] = r] /\ RequestOK(r) /\ r.pc \in {"idle", "limits"}
  <2>1. CASE reqs[p].op = "upload"
    <3> DEFINE r == [reqs[p] EXCEPT !.pc = "limits"]
    <3>1. r \in ReqRow /\ r.pc = "limits" /\ SameWork(r, reqs[p])
      BY <1>1, AtStep DEF Steps
    <3>2. reqs' = [reqs EXCEPT ![p] = r]
      BY <2>1 DEF Invalidate
    <3> HIDE DEF r
    <3> QED BY <1>1, <3>1, <3>2 DEF RequestOK, SameWork
  <2>2. CASE reqs[p].op # "upload"
    BY <2>2, NoRequest DEF Invalidate
  <2> QED BY <2>1, <2>2
<1>4. TypeInv' /\ reqs'[p] = r /\ (QuietRow(p) => QuietStep)
  BY <1>2, <1>3, Going DEF TypeInv, TableTypes
<1> QED BY <1>2, <1>3, <1>4 DEF QuietRow, ClipStep, MapStep

LEMMA RequestsStop ==
  ASSUME TypeInv, NEW p \in Proc, Stop(p)
  PROVE  TypeInv' /\ QuietStep /\ ClipStep /\ MapStep
<1>1. /\ reqs' = [reqs EXCEPT ![p] = Idle] /\ serving' = serving
      /\ missed' = (missed \/ reqs[p].pc = "invalidate")
      /\ UNCHANGED <<database, cats, names, clips, cache, due>>
  BY DEF Stop, End, tables
<1>2. RequestTypes' /\ reqs'[p] = Idle /\ \A q \in Others(p) : Kept(q)
  BY <1>1, NoRequest, OneMoves DEF TypeInv
<1>3. \A q \in Proc : QuietRow(q)
  BY <1>2, NoRequest DEF QuietRow, Others
<1>4. TableTypes' /\ NothingYet'
  <2>1. ~serving => reqs[p].pc # "invalidate"
    BY Serving
  <2>2. \A q \in Proc : reqs[q].pc = "idle" => reqs'[q].pc = "idle"
    BY <1>2, NoRequest DEF Others, Kept
  <2> QED BY <1>1, <2>1, <2>2 DEF TypeInv, TableTypes, NothingYet, cache
<1>5. MapStep
  <2>1. CASE reqs[p].pc = "invalidate"
    BY <1>1, <2>1 DEF MapStep, cache
  <2>2. CASE reqs[p].pc # "invalidate"
    <3>1. missed => missed'
      BY <1>1
    <3>2. Pending => Pending'
      BY <1>2, <2>2 DEF Pending, Others, Kept
    <3> QED BY <1>1, <3>1, <3>2 DEF MapStep, cache
  <2> QED BY <2>1, <2>2
<1> QED BY <1>1, <1>2, <1>3, <1>4, <1>5 DEF TypeInv, QuietStep, ClipStep

LEMMA OtherSteps ==
  ASSUME TypeInv,
         \/ \E p \in Proc : LoadCategories(p)
         \/ \E c \in Cat : EnrichSkipped(c)
         \/ Serve \/ LoadNames \/ LoadStops \/ MapExpires \/ Crash \/ UNCHANGED vars
  PROVE  TypeInv' /\ QuietStep /\ ClipStep /\ MapStep
<1>1. UNCHANGED <<database, cats, names, clips>>
  BY DEF LoadCategories, EnrichSkipped, Serve, LoadNames, LoadStops, MapExpires, Crash, vars, tables
<1>2. TableTypes' /\ ClipStep
  <2>1. serving' \in BOOLEAN
    BY DEF TypeInv, TableTypes, LoadCategories, EnrichSkipped, Serve, LoadNames, LoadStops, MapExpires,
           Crash, vars
  <2>2. ClipStep
    <3>1. CASE Serve
      BY <1>1, <3>1 DEF ClipStep, Serve
    <3>2. CASE Crash
      BY <1>1, <3>2 DEF ClipStep, Crash
    <3>3. CASE serving' = serving
      BY <1>1, <3>3 DEF ClipStep
    <3> QED BY <3>1, <3>2, <3>3 DEF LoadCategories, EnrichSkipped, LoadNames, LoadStops, MapExpires, vars
  <2> QED BY <1>1, <2>1, <2>2 DEF TypeInv, TableTypes
<1>3. CASE Crash
  <2>1. reqs' = [p \in Proc |-> Idle] /\ ~mapped' /\ loader' = NoProc /\ ~missed' /\ due' = {}
    BY <1>3 DEF Crash
  <2>2. RequestTypes' /\ NothingYet' /\ \A q \in Proc : QuietRow(q)
    BY <2>1, NoRequest DEF RequestTypes, NothingYet, QuietRow
  <2> QED BY <1>1, <1>2, <2>1, <2>2 DEF TypeInv, QuietStep, MapStep
<1>4. CASE ~Crash
  <2>1. UNCHANGED reqs
    BY <1>4 DEF LoadCategories, EnrichSkipped, Serve, LoadNames, LoadStops, MapExpires, vars
  <2>2. RequestTypes' /\ (\A q \in Proc : QuietRow(q)) /\ (Pending => Pending')
    BY <2>1 DEF TypeInv, RequestTypes, QuietRow, Kept, Pending
  <2>3. NothingYet'
    BY <1>4, <2>1 DEF TypeInv, NothingYet, LoadCategories, EnrichSkipped, Serve, LoadNames, LoadStops,
                      MapExpires, vars
  <2>4. MapStep
    <3>1. CASE \/ \E c \in Cat : EnrichSkipped(c)
               \/ Serve \/ UNCHANGED vars
      <4>1. UNCHANGED <<map, mapped, loader, listed, missed>>
        BY <3>1 DEF EnrichSkipped, Serve, vars, cache
      <4> QED BY <1>1, <2>2, <4>1 DEF MapStep
    <3>2. CASE MapExpires
      BY <3>2 DEF MapExpires, MapStep
    <3> QED BY <1>4, <3>1, <3>2 DEF MapStep
  <2> QED BY <1>1, <1>2, <2>2, <2>3, <2>4 DEF TypeInv, QuietStep
<1> QED BY <1>3, <1>4

(* Every step is quiet or a write.                                          *)
LEMMA StepKinds ==
  ASSUME TypeInv, [Next]_vars
  PROVE  TypeInv' /\ (QuietStep \/ WriteStep) /\ ClipStep /\ MapStep
<1>1. ASSUME NEW p \in Proc, Step(p)
      PROVE  TypeInv' /\ (QuietStep \/ WriteStep) /\ ClipStep /\ MapStep
  <2>1. CASE \E n \in Name : Upload(p, n)
    BY <2>1, UploadBegins
  <2>2. CASE UploadKnownName(p) \/ UploadConflict(p) \/ UploadRefused(p)
    BY <2>2, UploadCommits
  <2>3. CASE UploadNewName(p) \/ UploadAccepted(p)
    BY <2>3, UploadsGoOn
  <2>4. CASE UploadInsert(p)
    BY <2>4, UploadInserts
  <2>5. CASE (\E c \in Cat : Enrich(p, c)) \/ EditWrite(p)
    <3>1. EditWrite(p) => reqs[p].cat \in Cat
      BY DEF TypeInv, RequestTypes, RequestOK, EditWrite, At
    <3> QED BY <2>5, <3>1, Presenting
  <2>6. CASE (\E c \in Cat : Edit(p, c)) \/ EditNotFound(p)
    BY <2>6, EditsGoOn
  <2>7. CASE (\E c, d \in Cat : Merge(p, c, d)) \/ MergeChecks(p)
    BY <2>7, MergesGoOn
  <2>8. CASE MergeMoves(p)
    BY <2>8, MergesMove
  <2>9. CASE MergeDeletes(p)
    BY <2>9, MergesDelete
  <2>10. CASE (\E c \in Cat, n \in Name : Separate(p, c, n)) \/ SeparateReads(p) \/ SeparateCounts(p)
    BY <2>10, SeparatesGoOn
  <2>11. CASE SeparateMoves(p)
    BY <2>11, SeparatesMove
  <2>12. CASE Invalidate(p)
    BY <2>12, MapDrops
  <2>13. CASE LoadCategories(p)
    BY <2>13, OtherSteps
  <2>14. CASE Stop(p)
    BY <2>14, RequestsStop
  <2> QED BY <1>1, <2>1, <2>2, <2>3, <2>4, <2>5, <2>6, <2>7, <2>8, <2>9, <2>10, <2>11, <2>12, <2>13,
             <2>14 DEF Step
<1>2. CASE \E n \in Name : Reconcile(n)
  BY <1>2, Reconciles
<1>3. CASE \/ \E c \in Cat : EnrichSkipped(c)
           \/ Serve \/ LoadNames \/ LoadStops \/ MapExpires \/ Crash \/ UNCHANGED vars
  BY <1>3, OtherSteps
<1> QED BY <1>1, <1>2, <1>3 DEF Next

-----------------------------------------------------------------------------
(* Merges: the names a merge has locked move to a category that stays, and  *)
(* on SQLite they are all the names of the one that goes.                   *)
Merging ==
  \A p \in Proc : reqs[p].pc = "delete" =>
    /\ reqs[p].held # {} => Live(reqs[p].dest)
    /\ database = "sqlite" => /\ reqs[p].held = NamesOf(reqs[p].cat)
                              /\ \A q \in Others(p) : reqs[q].pc # "delete"

(* A row that stays keeps its category live.                                *)
LEMMA StaysLive ==
  ASSUME NEW c \in Cat, SameRow(c)
  PROVE  Live(c) <=> Live(c)'
BY DEF SameRow, Live

(* A number that nobody had is nobody's category.                           *)
LEMMA NobodysCategory ==
  ASSUME TypeInv, NEW k \in Cat, ~cats[k].used
  PROVE  ~Live(k)
BY DEF TypeInv, TableTypes, Live

(* A merge's categories are two.                                            *)
LEMMA MergeCategories ==
  ASSUME TypeInv, NEW p \in Proc, reqs[p].pc = "delete"
  PROVE  reqs[p].cat \in Cat /\ reqs[p].dest \in Cat /\ reqs[p].cat # reqs[p].dest
BY DEF TypeInv, RequestTypes, RequestOK

(* What the writers leave live.                                             *)
LEMMA WritesKeepLive ==
  ASSUME TypeInv, NEW d \in Cat, Live(d), WriteStep,
         \A p \in Proc : Merges(p) => d # reqs[p].cat
  PROVE  Live(d)'
<1>1. CASE \/ \E P \in SUBSET Proc : Creates(P)
           \/ \E p \in Proc : Separates(p)
  <2>1. PICK n \in Name, k \in Cat : NewCategory(n, k)
    BY <1>1 DEF Creates, Separates, NewCategory
  <2>2. d # k
    BY <2>1, NobodysCategory DEF NewCategory
  <2> QED BY <2>1, <2>2, StaysLive DEF NewCategory
<1>2. CASE \E p \in Proc, c \in Cat : Presents(p, c)
  BY <1>2, StaysLive DEF Presents
<1>3. CASE \E p \in Proc : Merges(p)
  BY <1>3, StaysLive DEF Merges
<1> QED BY <1>1, <1>2, <1>3 DEF WriteStep

LEMMA NamesKeepTheirCategory ==
  ASSUME TypeInv, NamesHaveACategory, Merging, [Next]_vars
  PROVE  NamesHaveACategory'
<1>1. (QuietStep \/ WriteStep) /\ ClipStep
  BY StepKinds
<1>2. names \in [Name -> Cat \cup {NoCat}]
  BY DEF TypeInv, TableTypes
<1>3. ASSUME NEW n \in Name, names'[n] # NoCat
      PROVE  Live(names[n])'
  <2>1. CASE QuietStep
    BY <1>3, <2>1 DEF QuietStep, NamesHaveACategory, Live
  <2>2. ASSUME NEW k \in Cat, NEW m, NewCategory(m, k), WriteStep,
               \A p \in Proc : ~Merges(p)
        PROVE  Live(names[n])'
    <3>1. CASE n = m
      BY <1>2, <2>2, <3>1 DEF NewCategory, Live, Cat, NoCat
    <3>2. CASE n # m
      <4>1. names'[n] = names[n] /\ Live(names[n]) /\ names[n] \in Cat
        BY <1>2, <1>3, <2>2, <3>2 DEF NewCategory, NamesHaveACategory
      <4>2. ASSUME NEW d \in Cat, Live(d) PROVE Live(d)'
        BY <2>2, <4>2, WritesKeepLive
      <4> QED BY <4>1, <4>2 DEF Live
    <3> QED BY <3>1, <3>2
  <2>3. CASE WriteStep /\ ~\E p \in Proc : Merges(p)
    <3>1. CASE \E p \in Proc, c \in Cat : Presents(p, c)
      <4>1. names' = names
        BY <3>1 DEF Presents
      <4>2. Live(names[n]) /\ names[n] \in Cat
        BY <1>2, <1>3, <4>1 DEF NamesHaveACategory
      <4>3. ASSUME NEW d \in Cat, Live(d) PROVE Live(d)'
        BY <2>3, <4>3, WritesKeepLive
      <4> QED BY <4>1, <4>2, <4>3 DEF Live
    <3>2. CASE \E m \in Name, k \in Cat : NewCategory(m, k)
      BY <2>2, <2>3, <3>2
    <3> QED BY <2>3, <3>1, <3>2 DEF WriteStep, Creates, Separates, NewCategory
  <2>4. ASSUME NEW p \in Proc, Merges(p)
        PROVE  Live(names[n])'
    <3> DEFINE c == reqs[p].cat
    <3>1. /\ reqs[p].pc = "delete" /\ NamesOf(c) \subseteq reqs[p].held
          /\ names'[n] = (IF n \in reqs[p].held THEN reqs[p].dest ELSE names[n])
          /\ \A d \in Cat \ {c} : SameRow(d)
      BY <2>4 DEF Merges, At, NoNameLeft
    <3>2. names'[n] \in Cat /\ names'[n] # c /\ Live(names'[n])
      <4>1. CASE n \in reqs[p].held
        BY <3>1, <4>1, MergeCategories DEF Merging
      <4>2. CASE n \notin reqs[p].held
        BY <1>2, <1>3, <3>1, <4>2 DEF NamesOf, NamesHaveACategory
      <4> QED BY <4>1, <4>2
    <3>3. SameRow(names'[n])
      BY <3>1, <3>2
    <3> QED BY <3>2, <3>3 DEF SameRow, Live
  <2> QED BY <1>1, <2>1, <2>3, <2>4
<1>4. ASSUME NEW n \in Name, (serving /\ clips[n] > 0)'
      PROVE  names'[n] # NoCat
  BY <1>1, <1>4 DEF ClipStep, NamesHaveACategory
<1> QED BY <1>3, <1>4 DEF NamesHaveACategory

LEMMA MergesStayMerges ==
  ASSUME TypeInv, Merging, [Next]_vars
  PROVE  Merging'
<1>1. QuietStep \/ WriteStep
  BY StepKinds
<1>2. CASE QuietStep
  <2>1. ASSUME NEW p \in Proc, reqs'[p].pc = "delete"
        PROVE  /\ reqs'[p].held # {} => Live(reqs'[p].dest)
               /\ database = "sqlite" => /\ reqs'[p].held = NamesOf(reqs'[p].cat)
                                         /\ \A q \in Others(p) : reqs'[q].pc # "delete"
    <3>1. \A q \in Proc : QuietRow(q)
      BY <1>2 DEF QuietStep
    <3>2. CASE Kept(p)
      <4>1. /\ reqs'[p].held # {} => Live(reqs'[p].dest)
            /\ database = "sqlite" => reqs'[p].held = NamesOf(reqs'[p].cat)
        BY <2>1, <3>2 DEF Kept, Merging
      <4>2. ASSUME database = "sqlite", NEW q \in Others(p), reqs'[q].pc = "delete"
            PROVE  FALSE
        <5>1. reqs[q].pc # "delete" /\ q \in Proc /\ p \in Others(q)
          BY <2>1, <3>2, <4>2 DEF Kept, Merging, Others
        <5>2. QuietRow(q) /\ ~Kept(q)
          BY <3>1, <4>2, <5>1 DEF Kept
        <5> QED BY <2>1, <4>2, <5>1, <5>2 DEF QuietRow
      <4> QED BY <4>1, <4>2
    <3>3. CASE ~Kept(p)
      BY <2>1, <3>1, <3>3 DEF QuietRow
    <3> QED BY <3>2, <3>3
  <2> QED BY <1>2, <2>1 DEF Merging, QuietStep, Live, NamesOf, Others
<1>3. CASE WriteStep
  <2>1. PICK P \in SUBSET Proc : /\ Committed(P)
                                 /\ Waited(P) \/ \E p \in Proc : P = {p} /\ Merges(p)
    BY <1>3 DEF WriteStep, Creates, Separates, Presents, Merges
  <2>2. ASSUME NEW q \in Proc, reqs'[q].pc = "delete"
        PROVE  /\ Kept(q) /\ reqs[q].pc = "delete" /\ database # "sqlite" /\ database' = database
               /\ q \notin P
    <3>1. Kept(q) /\ reqs[q].pc = "delete" /\ q \notin P /\ database' = database
      BY <2>1, <2>2 DEF Committed, Overtaken, Kept
    <3>2. database # "sqlite"
      <4>1. CASE Waited(P)
        BY <3>1, <4>1 DEF Waited
      <4>2. CASE \E p \in Proc : P = {p} /\ Merges(p)
        BY <3>1, <4>2 DEF Merges, At, Merging, Others
      <4> QED BY <2>1, <4>1, <4>2
    <3> QED BY <3>1, <3>2
  <2>3. ASSUME NEW q \in Proc, reqs'[q].pc = "delete", reqs'[q].held # {}
        PROVE  Live(reqs[q].dest)' /\ reqs'[q].dest = reqs[q].dest
    <3>1. /\ Kept(q) /\ reqs[q].pc = "delete" /\ database = "postgres" /\ q \notin P
          /\ reqs[q].held # {} /\ reqs[q].dest \in Cat /\ Live(reqs[q].dest)
      BY <2>2, <2>3, MergeCategories DEF Kept, Merging, TypeInv, TableTypes
    <3>2. ASSUME NEW p \in Proc, Merges(p) PROVE reqs[q].dest # reqs[p].cat
      <4>1. q \in Others(p)
        <5>1. reqs'[p].pc = "invalidate"
          BY <3>2 DEF Merges, Committed
        <5> QED BY <2>3, <5>1 DEF Others
      <4> QED BY <3>1, <3>2, <4>1 DEF Merges, Unshared, Shares
    <3>3. ASSUME NEW d \in Cat, Live(d), d = reqs[q].dest PROVE Live(d)'
      BY <1>3, <3>2, <3>3, WritesKeepLive
    <3> QED BY <3>1, <3>3 DEF Kept, Live
  <2> QED BY <2>2, <2>3 DEF Merging, Live
<1> QED BY <1>1, <1>2, <1>3

-----------------------------------------------------------------------------
(* Separations: on SQLite a transaction whose snapshot is up to date leaves *)
(* another name to the category it takes one from.                          *)
Separating ==
  database = "sqlite" =>
    \A p \in Proc : reqs[p].op = "separate" /\ reqs[p].fresh =>
      /\ reqs[p].pc \in {"count", "insert"} => names[reqs[p].name] = reqs[p].cat
      /\ reqs[p].pc = "insert" =>
           \E m \in Name : m # reqs[p].name /\ names[m] = reqs[p].cat

(* Of two names, one is not the given one.                                  *)
LEMMA AnotherName ==
  ASSUME NEW c, NEW n, SharedWith(c)
  PROVE  \E m \in Name : m # n /\ names[m] = c
<1>1. NamesOf(c) \subseteq Name /\ IsFiniteSet(Name) /\ Cardinality(NamesOf(c)) >= 2
  BY CategoriesAssumption DEF NamesOf, SharedWith
<1>2. IsFiniteSet({n}) /\ Cardinality({n}) = 1
  BY FS_Singleton
<1>3. SUFFICES ASSUME NamesOf(c) \subseteq {n} PROVE FALSE
  BY DEF NamesOf
<1>4. Cardinality(NamesOf(c)) <= 1 /\ Cardinality(NamesOf(c)) \in Nat
  BY <1>2, <1>3, FS_Subset, FS_CardinalityType
<1> QED BY <1>1, <1>4

LEMMA SeparationsStaySound ==
  ASSUME TypeInv, Separating, [Next]_vars
  PROVE  Separating'
<1>1. QuietStep \/ WriteStep
  BY StepKinds
<1> SUFFICES ASSUME (database = "sqlite")', NEW p \in Proc, (reqs[p].op = "separate" /\ reqs[p].fresh)'
             PROVE  /\ reqs'[p].pc \in {"count", "insert"} => names'[reqs'[p].name] = reqs'[p].cat
                    /\ reqs'[p].pc = "insert" =>
                         \E m \in Name : m # reqs'[p].name /\ names'[m] = reqs'[p].cat
  BY DEF Separating
<1>2. CASE QuietStep
  <2>1. names' = names /\ database = "sqlite" /\ QuietRow(p)
    BY <1>2 DEF QuietStep
  <2>2. CASE Kept(p)
    BY <2>1, <2>2 DEF Kept, Separating
  <2>3. CASE /\ reqs'[p].pc = "insert" /\ reqs[p].pc = "count" /\ SameWork(reqs'[p], reqs[p])
             /\ reqs'[p].fresh => reqs[p].fresh
             /\ SharedWith(reqs'[p].cat)
    <3>1. names[reqs'[p].name] = reqs'[p].cat
      BY <2>1, <2>3 DEF SameWork, Separating
    <3>2. ASSUME NEW c, NEW n, SharedWith(c) PROVE \E m \in Name : m # n /\ names[m] = c
      BY <3>2, AnotherName
    <3>3. \E m \in Name : m # reqs'[p].name /\ names[m] = reqs'[p].cat
      BY <2>3, <3>2
    <3> QED BY <2>1, <3>1, <3>3
  <2> QED BY <2>1, <2>2, <2>3 DEF QuietRow
<1>3. CASE WriteStep
  <2>1. PICK P \in SUBSET Proc : Committed(P)
    BY <1>3 DEF WriteStep, Creates, Separates, Presents, Merges
  <2>2. CASE p \in P
    BY <2>1, <2>2 DEF Committed
  <2>3. CASE p \notin P
    BY <2>1, <2>3 DEF Committed, Overtaken, Kept, InTransaction
  <2> QED BY <2>2, <2>3
<1> QED BY <1>1, <1>2, <1>3

LEMMA CategoriesKeepNames ==
  ASSUME TypeInv, Merging, Separating, SeparationLeavesAName, [Next]_vars
  PROVE  SeparationLeavesAName'
<1>1. QuietStep \/ WriteStep
  BY StepKinds
<1>2. database' = database
  BY <1>1 DEF QuietStep, WriteStep, Creates, Separates, Presents, Merges, Committed
<1> SUFFICES ASSUME database = "sqlite", NEW d \in Cat, Live(d)'
             PROVE  \E n \in Name : names'[n] = d
  BY <1>2 DEF SeparationLeavesAName, NamesOf
<1>3. names \in [Name -> Cat \cup {NoCat}]
  BY DEF TypeInv, TableTypes
<1>4. Live(d) => \E n \in Name : names[n] = d
  BY DEF SeparationLeavesAName, NamesOf
<1>5. CASE QuietStep
  BY <1>4, <1>5 DEF QuietStep, Live
<1>6. ASSUME NEW P \in SUBSET Proc, Creates(P)
      PROVE  \E n \in Name : names'[n] = d
  <2>1. PICK n \in Name, k \in Cat : NewCategory(n, k) /\ names[n] = NoCat
    BY <1>6 DEF Creates
  <2>2. CASE d = k
    BY <1>3, <2>1, <2>2 DEF NewCategory
  <2>3. CASE d # k
    <3>1. Live(d)
      BY <2>1, <2>3, StaysLive DEF NewCategory
    <3>2. PICK m \in Name : names[m] = d
      BY <1>4, <3>1
    <3>3. m # n
      BY <2>1, <3>1, <3>2 DEF Live
    <3> QED BY <1>3, <2>1, <3>2, <3>3 DEF NewCategory
  <2> QED BY <2>2, <2>3
<1>7. ASSUME NEW p \in Proc, Separates(p)
      PROVE  \E n \in Name : names'[n] = d
  <2> DEFINE n == reqs[p].name
  <2>1. PICK k \in Cat : NewCategory(n, k)
    BY <1>7 DEF Separates
  <2>2. CASE d = k
    BY <1>3, <2>1, <2>2 DEF NewCategory
  <2>3. CASE d # k
    <3>1. Live(d)
      BY <2>1, <2>3, StaysLive DEF NewCategory
    <3>2. PICK m \in Name : names[m] = d /\ m # n
      <4>1. PICK m \in Name : m # n /\ names[m] = reqs[p].cat
        BY <1>7 DEF Separates, At, Separating
      <4>2. names[n] = reqs[p].cat
        BY <1>7 DEF Separates, At, Separating
      <4> QED BY <1>4, <3>1, <4>1, <4>2
    <3> QED BY <1>3, <2>1, <3>2 DEF NewCategory
  <2> QED BY <2>2, <2>3
<1>8. ASSUME NEW p \in Proc, NEW c \in Cat, Presents(p, c)
      PROVE  \E n \in Name : names'[n] = d
  <2>1. Live(d)
    BY <1>8, StaysLive DEF Presents
  <2> QED BY <1>4, <1>8, <2>1 DEF Presents
<1>9. ASSUME NEW p \in Proc, Merges(p)
      PROVE  \E n \in Name : names'[n] = d
  <2> DEFINE c == reqs[p].cat
  <2>1. reqs[p].held = NamesOf(c) /\ d # c
    BY <1>9 DEF Merges, At, Merging, Live
  <2>2. Live(d)
    BY <1>9, <2>1, StaysLive DEF Merges
  <2>3. PICK n \in Name : names[n] = d
    BY <1>4, <2>2
  <2>4. n \notin reqs[p].held
    BY <2>1, <2>3 DEF NamesOf
  <2> QED BY <1>9, <2>3, <2>4 DEF Merges
<1> QED BY <1>1, <1>5, <1>6, <1>7, <1>8, <1>9 DEF WriteStep

-----------------------------------------------------------------------------
(* The map: what a reader has listed is still so when it lists the names,   *)
(* or somebody has still to drop what it loads.                             *)
Loading ==
  loader # NoProc =>
    /\ ~mapped
    /\ ~missed /\ ~Pending => \A c \in Cat : listed[c] = cats[c].rev

LEMMA LoadsStayCurrent ==
  ASSUME TypeInv, Loading, [Next]_vars
  PROVE  Loading'
<1>1. MapStep
  BY StepKinds
<1>2. CASE /\ UNCHANGED <<map, mapped, loader, listed>> /\ (missed => missed') /\ (Pending => Pending')
           /\ UNCHANGED <<cats, names>> \/ Pending' \/ (~mapped /\ loader = NoProc)
  BY <1>2 DEF Loading
<1>3. CASE UNCHANGED <<map, mapped, loader, listed, cats, names>> /\ missed'
  BY <1>3 DEF Loading
<1>4. CASE ~mapped' /\ (loader' = NoProc \/ (loader' = loader /\ mapped))
  BY <1>4 DEF Loading
<1>5. ASSUME NEW p \in Proc, LoadCategories(p)
      PROVE  Loading'
  <2>1. ~mapped' /\ cats' = cats /\ listed' = [c \in Cat |-> cats[c].rev]
    BY <1>5 DEF LoadCategories, tables
  <2> QED BY <2>1 DEF Loading
<1>6. CASE LoadNames \/ LoadStops
  BY <1>6 DEF Loading, LoadNames, LoadStops
<1> QED BY <1>1, <1>2, <1>3, <1>4, <1>5, <1>6 DEF MapStep

LEMMA MapStaysCurrent ==
  ASSUME TypeInv, NamesHaveACategory, Loading, MapIsCurrent, [Next]_vars
  PROVE  MapIsCurrent'
<1>1. MapStep
  BY StepKinds
<1>2. MapIsCurrent <=> (mapped /\ ~missed /\ ~Pending => map = View)
  BY DEF MapIsCurrent, Pending
<1>3. MapIsCurrent' <=> (mapped' /\ ~missed' /\ ~Pending' => map' = View')
  BY DEF MapIsCurrent, Pending
<1>4. CASE /\ UNCHANGED <<map, mapped, loader, listed>> /\ (missed => missed') /\ (Pending => Pending')
           /\ UNCHANGED <<cats, names>> \/ Pending' \/ (~mapped /\ loader = NoProc)
  <2>1. UNCHANGED <<cats, names>> => View' = View
    BY DEF View
  <2> QED BY <1>2, <1>3, <1>4, <2>1
<1>5. CASE UNCHANGED <<map, mapped, loader, listed, cats, names>> /\ missed'
  BY <1>3, <1>5
<1>6. CASE ~mapped' /\ (loader' = NoProc \/ (loader' = loader /\ mapped))
  BY <1>3, <1>6
<1>7. ASSUME NEW p \in Proc, LoadCategories(p)
      PROVE  MapIsCurrent'
  BY <1>3, <1>7 DEF LoadCategories
<1>8. CASE LoadStops
  BY <1>3, <1>8 DEF LoadStops, Loading
<1>9. CASE LoadNames
  <2>1. /\ map' = [n \in Name |-> Resolved(names[n])] /\ loader # NoProc
        /\ UNCHANGED <<cats, names, reqs, missed>>
    BY <1>9 DEF LoadNames, tables
  <2>2. (Pending <=> Pending') /\ View' = View
    BY <2>1 DEF Pending, View
  <2>3. ASSUME ~missed, ~Pending
        PROVE  map' = View
    <3>1. ASSUME NEW n \in Name
          PROVE  Resolved(names[n]) = IF names[n] = NoCat THEN NoEntry ELSE <<names[n], cats[names[n]].rev>>
      <4>1. CASE names[n] = NoCat
        BY <4>1 DEF Resolved
      <4>2. CASE names[n] # NoCat
        <5>1. names[n] \in Cat /\ cats[names[n]].rev > 0
          BY <4>2 DEF TypeInv, TableTypes, NamesHaveACategory, Live
        <5>2. listed[names[n]] = cats[names[n]].rev
          BY <2>1, <2>3, <5>1 DEF Loading
        <5> QED BY <4>2, <5>1, <5>2 DEF Resolved
      <4> QED BY <4>1, <4>2
    <3> QED BY <2>1, <3>1 DEF View
  <2> QED BY <1>3, <2>1, <2>2, <2>3
<1> QED BY <1>1, <1>4, <1>5, <1>6, <1>7, <1>8, <1>9 DEF MapStep

-----------------------------------------------------------------------------
(* The theorems.                                                            *)

IInv == /\ TypeInv /\ NamesHaveACategory /\ Merging
        /\ Separating /\ SeparationLeavesAName
        /\ Loading /\ MapIsCurrent

LEMMA InitIInv == Init => IInv
<1> SUFFICES ASSUME Init PROVE IInv
  OBVIOUS
<1>1. TableTypes
  <2>1. clips \in [Name -> Int] /\ names \in [Name -> Cat \cup {NoCat}]
    BY DEF Init, NoCat
  <2>2. [rev |-> 0, by |-> "default", used |-> FALSE] \in CatRow
    BY DEF CatRow
  <2>3. cats = [c \in Cat |-> [rev |-> 0, by |-> "default", used |-> FALSE]]
    BY DEF Init
  <2>4. cats \in [Cat -> CatRow] /\ \A c \in Cat : cats[c].rev = 0 /\ cats[c].by = "default"
    BY <2>2, <2>3
  <2>5. database \in {"sqlite", "postgres"} /\ serving \in BOOLEAN
    BY CategoriesAssumption DEF Init
  <2> QED BY <2>1, <2>4, <2>5 DEF TableTypes
<1>2. RequestTypes /\ \A p \in Proc : reqs[p].pc = "idle" /\ reqs[p].op = "none"
  BY NoRequest DEF Init, RequestTypes
<1>3. NothingYet
  BY <1>2 DEF Init, NothingYet
<1>4. NamesHaveACategory
  BY DEF Init, NamesHaveACategory
<1>5. Merging /\ Separating
  BY <1>2 DEF Merging, Separating
<1>6. SeparationLeavesAName
  BY DEF Init, SeparationLeavesAName, Live
<1>7. Loading /\ MapIsCurrent
  BY DEF Init, Loading, MapIsCurrent
<1> QED BY <1>1, <1>2, <1>3, <1>4, <1>5, <1>6, <1>7 DEF IInv, TypeInv

LEMMA NextIInv == IInv /\ [Next]_vars => IInv'
<1> SUFFICES ASSUME IInv, [Next]_vars PROVE IInv'
  OBVIOUS
<1>1. TypeInv'
  BY StepKinds DEF IInv
<1>2. NamesHaveACategory'
  BY NamesKeepTheirCategory DEF IInv
<1>3. Merging'
  BY MergesStayMerges DEF IInv
<1>4. Separating'
  BY SeparationsStaySound DEF IInv
<1>5. SeparationLeavesAName'
  BY CategoriesKeepNames DEF IInv
<1>6. Loading'
  BY LoadsStayCurrent DEF IInv
<1>7. MapIsCurrent'
  BY MapStaysCurrent DEF IInv
<1> QED BY <1>1, <1>2, <1>3, <1>4, <1>5, <1>6, <1>7 DEF IInv

(* The inductive invariant of game categories, on both databases.           *)
THEOREM CategoriesInvariant == Spec => []IInv
BY InitIInv, NextIInv, PTL DEF Spec

(* A name refers to no category that is gone, and every clip's name has one *)
(* once requests are served, whatever uploads, merges and separations run   *)
(* at once (game_categories.rs).                                            *)
THEOREM NamesAlwaysHaveACategory == Spec => []NamesHaveACategory
<1>1. IInv => NamesHaveACategory
  BY DEF IInv
<1> QED BY <1>1, CategoriesInvariant, PTL

(* On SQLite no separation takes the last name of a category.               *)
THEOREM SeparationsAlwaysLeaveAName == Spec => []SeparationLeavesAName
<1>1. IInv => SeparationLeavesAName
  BY DEF IInv
<1> QED BY <1>1, CategoriesInvariant, PTL

(* A map is served only while it is what the tables hold, or while somebody *)
(* who has changed them has still to drop it.                               *)
THEOREM MapIsAlwaysCurrent == Spec => []MapIsCurrent
<1>1. IInv => MapIsCurrent
  BY DEF IInv
<1> QED BY <1>1, CategoriesInvariant, PTL

(* No step replaces what an administrator has made of a category.           *)
THEOREM EditsStay == Spec => EditsAreKept
<1>1. IInv /\ [Next]_vars =>
        [\A c \in Cat : cats[c].by = "admin" /\ cats'[c].rev > 0 => cats'[c].by = "admin"]_vars
  <2> SUFFICES ASSUME IInv, [Next]_vars, NEW c \in Cat, cats[c].by = "admin", cats'[c].rev > 0
               PROVE  cats'[c].by = "admin"
    OBVIOUS
  <2>1. QuietStep \/ WriteStep
    BY StepKinds DEF IInv
  <2>2. CASE QuietStep
    BY <2>2 DEF QuietStep
  <2>3. ASSUME NEW n \in Name, NEW k \in Cat, NewCategory(n, k)
        PROVE  cats'[c].by = "admin"
    <3>1. c # k
      BY <2>3 DEF NewCategory, IInv, TypeInv, TableTypes
    <3> QED BY <2>3, <3>1 DEF NewCategory, SameRow
  <2>4. ASSUME NEW p \in Proc, NEW d \in Cat, Presents(p, d)
        PROVE  cats'[c].by = "admin"
    BY <2>4 DEF Presents, SameRow
  <2>5. ASSUME NEW p \in Proc, Merges(p)
        PROVE  cats'[c].by = "admin"
    BY <2>5 DEF Merges, SameRow
  <2>6. CASE \/ \E P \in SUBSET Proc : Creates(P)
             \/ \E p \in Proc : Separates(p)
    BY <2>3, <2>6 DEF Creates, Separates, NewCategory
  <2> QED BY <2>1, <2>2, <2>4, <2>5, <2>6 DEF WriteStep
<1> QED BY <1>1, CategoriesInvariant, PTL DEF Spec, EditsAreKept
=============================================================================
