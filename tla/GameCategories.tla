--------------------------- MODULE GameCategories ---------------------------
(***************************************************************************)
(* Game categories: every name a clip reports belongs to one category,     *)
(* which administrators edit, merge and separate, and which a background   *)
(* task decorates once from SteamGridDB.                                   *)
(*                                                                         *)
(* A transaction is modelled by the points where another one can come      *)
(* between its statements.  On Postgres statements read what is committed  *)
(* and wait for row locks; on SQLite a transaction that has read may write *)
(* only if nobody has committed since.  Statements that end with their     *)
(* commit and only make others wait are one step with it.                  *)
(*                                                                         *)
(* The process keeps a map from names to categories for 60 s; a handler    *)
(* empties it after its commit.                                            *)
(***************************************************************************)
EXTENDS Naturals, FiniteSets

CONSTANTS
  Name,          \* reported names, up to case
  MaxCats,       \* bound: categories ever created
  Proc,          \* requests in flight
  MaxRequests,   \* bound: requests ever begun
  Databases,     \* the databases to run on
  Ops,           \* the operations clients ask for
  NoProc

ASSUME CategoriesAssumption ==
  /\ MaxCats \in Nat /\ MaxRequests \in Nat /\ IsFiniteSet(Name)
  /\ Databases \subseteq {"sqlite", "postgres"}
  /\ NoProc \notin Proc

Cat == 1 .. MaxCats
NoCat == 0
Rev == 0 .. 2 * MaxRequests + 1
NoEntry == <<NoCat, 0>>

VARIABLES
  database,  \* which database the instance runs on
  cats,      \* game_categories; "rev" is updated_at, 0 when there is no row
  names,     \* game_category_names: reported name -> category
  clips,     \* how many clips report each name
  serving,   \* reconcile_game_categories has ended and requests are served
  reqs,      \* requests and their transactions
  due,       \* categories whose automatic enrichment has been spawned
  map,       \* game_category_map_cache, as the entries it answers with
  mapped,    \* the cache holds a map
  loader,    \* who holds the write lock of the cache and loads it
  listed,    \* the categories the loader has listed
  missed,    \* history: a request stopped between its commit and its
             \* invalidation, and the map has not been dropped since
  begun      \* bound: requests begun

vars == <<database, cats, names, clips, serving, reqs, due, map, mapped, loader,
          listed, missed, begun>>
tables == <<cats, names, clips>>
cache == <<map, mapped, loader, listed>>

Idle == [op |-> "none", pc |-> "idle", name |-> 0, cat |-> NoCat, dest |-> NoCat,
         held |-> {}, fresh |-> TRUE, raced |-> FALSE]

TypeOK ==
  /\ database \in Databases /\ serving \in BOOLEAN /\ missed \in BOOLEAN
  /\ cats \in [Cat -> [rev : Rev, by : {"default", "automatic", "admin"}, used : BOOLEAN]]
  /\ names \in [Name -> Cat \cup {NoCat}]
  /\ clips \in [Name -> 0 .. MaxRequests + 1]
  /\ reqs \in [Proc -> [op : Ops \cup {"none", "enrich"},
                        pc : {"idle", "begin", "insert", "lock", "count", "move",
                              "delete", "write", "invalidate", "limits"},
                        name : Name \cup {0}, cat : Cat \cup {NoCat},
                        dest : Cat \cup {NoCat}, held : SUBSET Name, fresh : BOOLEAN, raced : BOOLEAN]]
  /\ due \subseteq Cat
  /\ map \in [Name -> {NoEntry} \cup (Cat \X (Rev \ {0}))] /\ mapped \in BOOLEAN
  /\ loader \in Proc \cup {NoProc} /\ listed \in [Cat -> Rev]
  /\ begun \in 0 .. MaxRequests

EmptyMap == [n \in Name |-> NoEntry]
NothingListed == [c \in Cat |-> 0]

\* An instance whose clips were reported before categories existed.
Init ==
  /\ database \in Databases
  /\ cats = [c \in Cat |-> [rev |-> 0, by |-> "default", used |-> FALSE]]
  /\ names = [n \in Name |-> NoCat]
  /\ \E old \in SUBSET Name : clips = [n \in Name |-> IF n \in old THEN 1 ELSE 0]
  /\ serving = FALSE /\ reqs = [p \in Proc |-> Idle] /\ due = {}
  /\ map = EmptyMap /\ mapped = FALSE /\ loader = NoProc /\ listed = NothingListed
  /\ missed = FALSE /\ begun = 0

-----------------------------------------------------------------------------
(* Rows, locks and commits.                                                *)

Live(c) == c # NoCat /\ cats[c].rev > 0
NamesOf(c) == {n \in Name : names[n] = c}
Free == {c \in Cat : ~cats[c].used}
NextCat == CHOOSE c \in Free : \A d \in Free : c <= d

\* INSERT INTO game_categories with NewGameCategory::new's defaults.
WithDefault(f) == [f EXCEPT ![NextCat] = [rev |-> 1, by |-> "default", used |-> TRUE]]
\* UPDATE game_categories SET updated_at = now WHERE id = c
Bumped(f, c) == [d \in Cat |-> IF d = c /\ f[d].rev > 0
                                 THEN [f[d] EXCEPT !.rev = @ + 1] ELSE f[d]]

At(p, op, pc) == reqs[p].op = op /\ reqs[p].pc = pc
Others(p) == Proc \ {p}
InTransaction(q) == reqs[q].pc \in {"insert", "count", "move", "delete"}

\* The names whose rows p's transaction has locked.
Locked(q) == IF database = "postgres" THEN reqs[q].held ELSE {}
Unlocked(p, ns) == \A q \in Others(p) : Locked(q) \cap ns = {}
\* Moving names to a category keeps a share lock on it until the commit.
Shares(q, c) == database = "postgres" /\ reqs[q].pc = "delete" /\ reqs[q].dest = c
                /\ reqs[q].held # {}
Unshared(p, c) == \A q \in Others(p) : ~Shares(q, c)

\* SQLite: one writer, and only on top of what its transaction has read.
MayWrite(p) ==
  database = "sqlite" => /\ reqs[p].fresh
                         /\ \A q \in Others(p) : reqs[q].pc # "delete"
MayWriteLate(p) == database = "sqlite" => \A q \in Others(p) : reqs[q].pc # "delete"

\* p's transaction commits and p goes on as r; the snapshots of the others
\* are out of date.
Commit(p, r) ==
  reqs' = [q \in Proc |-> IF q = p THEN r
                          ELSE [reqs[q] EXCEPT !.fresh = @ /\ ~InTransaction(q)]]
\* ... and uploads that are under way have been raced by this one.
CommitUpload(p, r) ==
  reqs' = [q \in Proc |-> IF q = p THEN r
                          ELSE [reqs[q] EXCEPT !.fresh = @ /\ ~InTransaction(q),
                                               !.raced = @ \/ reqs[q].op = "upload"]]
Continue(p, pc) == reqs' = [reqs EXCEPT ![p].pc = pc]
End(p) == reqs' = [reqs EXCEPT ![p] = Idle]
Invalidating(p) == [reqs[p] EXCEPT !.pc = "invalidate", !.held = {}, !.fresh = TRUE]

Begin(p, r) ==
  /\ serving /\ reqs[p] = Idle /\ begun < MaxRequests /\ r.op \in Ops
  /\ begun' = begun + 1 /\ reqs' = [reqs EXCEPT ![p] = r]
  /\ UNCHANGED <<database, tables, serving, due, cache, missed>>

-----------------------------------------------------------------------------
(* Start: every name a clip already reports is given a category, in its    *)
(* own transaction, before the first request is served.                    *)

Reconcile(n) ==
  /\ ~serving /\ clips[n] > 0 /\ names[n] = NoCat /\ Free # {}
  /\ cats' = WithDefault(cats) /\ names' = [names EXCEPT ![n] = NextCat]
  /\ UNCHANGED <<database, clips, serving, reqs, due, cache, missed, begun>>

Serve ==
  /\ ~serving /\ serving' = TRUE
  /\ \A n \in Name : clips[n] > 0 => names[n] # NoCat
  /\ UNCHANGED <<database, tables, reqs, due, cache, missed, begun>>

-----------------------------------------------------------------------------
(* Upload: create_upload_bundle ensures the category of the reported name  *)
(* and inserts the clip in one transaction.                                *)

Upload(p, n) == Begin(p, [Idle EXCEPT !.op = "upload", !.pc = "begin", !.name = n])

Reported(n) == [clips EXCEPT ![n] = @ + 1]

\* The name is known: only the clip is inserted.
UploadKnownName(p) ==
  LET n == reqs[p].name IN
  /\ At(p, "upload", "begin") /\ names[n] # NoCat /\ MayWrite(p)
  /\ clips' = Reported(n) /\ CommitUpload(p, [reqs[p] EXCEPT !.pc = "limits", !.fresh = TRUE])
  /\ UNCHANGED <<database, cats, names, serving, due, cache, missed, begun>>

\* SELECT found no category for the name: one will be inserted.
UploadNewName(p) ==
  /\ At(p, "upload", "begin") /\ names[reqs[p].name] = NoCat
  /\ Continue(p, "insert")
  /\ UNCHANGED <<database, tables, serving, due, cache, missed, begun>>

\* INSERT category, INSERT name ON CONFLICT DO NOTHING, the clip, COMMIT.
UploadInsert(p) ==
  LET n == reqs[p].name IN
  /\ At(p, "upload", "insert") /\ names[n] = NoCat /\ MayWrite(p) /\ Free # {}
  /\ cats' = WithDefault(cats) /\ names' = [names EXCEPT ![n] = NextCat]
  /\ clips' = Reported(n)
  /\ CommitUpload(p, [Invalidating(p) EXCEPT !.cat = NextCat])
  /\ UNCHANGED <<database, serving, due, cache, missed, begun>>

\* Another upload has inserted the name: the category inserted is deleted
\* again and the other one is used.
UploadConflict(p) ==
  LET n == reqs[p].name IN
  /\ At(p, "upload", "insert") /\ names[n] # NoCat /\ MayWrite(p)
  /\ clips' = Reported(n) /\ CommitUpload(p, [reqs[p] EXCEPT !.pc = "limits", !.fresh = TRUE])
  /\ UNCHANGED <<database, cats, names, serving, due, cache, missed, begun>>

\* The limits hold and the upload is answered, or another upload has come
\* between the two checks of them and the bundle is deleted: the clip goes,
\* its category and name stay.
UploadAccepted(p) ==
  /\ At(p, "upload", "limits") /\ End(p)
  /\ UNCHANGED <<database, tables, serving, due, cache, missed, begun>>

UploadRefused(p) ==
  /\ At(p, "upload", "limits") /\ reqs[p].raced /\ MayWriteLate(p)
  /\ clips' = [clips EXCEPT ![reqs[p].name] = @ - 1] /\ Commit(p, Idle)
  /\ UNCHANGED <<database, cats, names, serving, due, cache, missed, begun>>

-----------------------------------------------------------------------------
(* Automatic enrichment of a category as it was created.                   *)

\* Weaker: any row that still is there.
StillThere(c) == cats[c].rev > 0
\* WHERE updated_at = as created AND no artwork is chosen
AsCreated(c) == cats[c].rev = 1 /\ cats[c].by = "default"

\* A row whose presentation is replaced, and updated_at with it.
Redone(row, by) == [row EXCEPT !.by = by, !.rev = @ + 1]

\* The game that matches best, and the artwork found for it.
Decorated(c) == [cats EXCEPT ![c] = Redone(@, "automatic")]

Enrich(p, c) ==
  /\ reqs[p] = Idle /\ c \in due /\ AsCreated(c) /\ MayWriteLate(p)
  /\ cats' = Decorated(c)
  /\ due' = due \ {c}
  /\ Commit(p, [Invalidating(p) EXCEPT !.op = "enrich"])
  /\ UNCHANGED <<database, names, clips, serving, cache, missed, begun>>

\* The search fails or finds nothing, or the category has changed.
EnrichSkipped(c) ==
  /\ c \in due /\ due' = due \ {c}
  /\ UNCHANGED <<database, tables, serving, reqs, cache, missed, begun>>

-----------------------------------------------------------------------------
(* Edit: the handler reads the category, asks SteamGridDB, and replaces    *)
(* its presentation.                                                       *)

\* Every presentation field, as the administrator asks for it.
Presented(c) == [cats EXCEPT ![c] = Redone(@, "admin")]

Edit(p, c) == Live(c) /\ Begin(p, [Idle EXCEPT !.op = "edit", !.pc = "write", !.cat = c])

EditWrite(p) ==
  LET c == reqs[p].cat IN
  /\ At(p, "edit", "write") /\ Live(c) /\ MayWriteLate(p)
  /\ cats' = Presented(c)
  /\ Commit(p, Invalidating(p))
  /\ UNCHANGED <<database, names, clips, serving, due, cache, missed, begun>>

EditNotFound(p) ==
  /\ At(p, "edit", "write") /\ ~Live(reqs[p].cat) /\ End(p)
  /\ UNCHANGED <<database, tables, serving, due, cache, missed, begun>>

-----------------------------------------------------------------------------
(* Merge: the names of a category move to another and it is deleted.       *)

Merge(p, c, d) ==
  /\ c # d /\ Live(c) /\ Live(d)
  /\ Begin(p, [Idle EXCEPT !.op = "merge", !.pc = "begin", !.cat = c, !.dest = d])

\* The transaction begins: both categories must be there.
MergeChecks(p) ==
  /\ At(p, "merge", "begin")
  /\ IF Live(reqs[p].cat) /\ Live(reqs[p].dest) THEN Continue(p, "move") ELSE End(p)
  /\ UNCHANGED <<database, tables, serving, due, cache, missed, begun>>

\* Weaker: a schema without the reference.
Unreferenced(p, ns) == TRUE
\* REFERENCES game_categories(id): the category must exist if any row moves.
Referenced(p, ns) == ns # {} => Live(reqs[p].dest)

\* UPDATE game_category_names: waits for locked rows.
MergeMoves(p) ==
  LET ns == NamesOf(reqs[p].cat) IN
  /\ At(p, "merge", "move") /\ MayWrite(p) /\ Unlocked(p, ns)
  /\ Referenced(p, ns)
  /\ reqs' = [reqs EXCEPT ![p].pc = "delete", ![p].held = ns]
  /\ UNCHANGED <<database, tables, serving, due, cache, missed, begun>>

\* ON DELETE RESTRICT: no name may still refer to the category.
NoNameLeft(p) == NamesOf(reqs[p].cat) \subseteq reqs[p].held

MergeDeletes(p) ==
  LET c == reqs[p].cat IN
  /\ At(p, "merge", "delete") /\ Unshared(p, c) /\ NoNameLeft(p)
  /\ names' = [n \in Name |-> IF n \in reqs[p].held THEN reqs[p].dest ELSE names[n]]
  /\ cats' = [Bumped(cats, reqs[p].dest) EXCEPT ![c].rev = 0]
  /\ Commit(p, Invalidating(p))
  /\ UNCHANGED <<database, clips, serving, due, cache, missed, begun>>

-----------------------------------------------------------------------------
(* Separate: a name that shares its category gets one of its own.          *)

Separate(p, c, n) ==
  Begin(p, [Idle EXCEPT !.op = "separate", !.pc = "lock", !.cat = c, !.name = n])

\* SELECT ... FOR UPDATE (Postgres) of the name, which must be in the category.
SeparateReads(p) ==
  LET n == reqs[p].name IN
  /\ At(p, "separate", "lock") /\ Unlocked(p, {n})
  /\ IF Live(reqs[p].cat) /\ names[n] = reqs[p].cat
       THEN reqs' = [reqs EXCEPT ![p].pc = "count", ![p].held = {n}]
       ELSE End(p)
  /\ UNCHANGED <<database, tables, serving, due, cache, missed, begun>>

\* COUNT(*) of the names of the category, after which there are at least two.
AnyName(c) == Cardinality(NamesOf(c)) >= 1
SharedWith(c) == Cardinality(NamesOf(c)) >= 2

SeparateCounts(p) ==
  /\ At(p, "separate", "count")
  /\ IF SharedWith(reqs[p].cat) THEN Continue(p, "insert") ELSE End(p)
  /\ UNCHANGED <<database, tables, serving, due, cache, missed, begun>>

SeparateMoves(p) ==
  /\ At(p, "separate", "insert") /\ MayWrite(p) /\ Free # {}
  /\ cats' = WithDefault(Bumped(cats, reqs[p].cat))
  /\ names' = [names EXCEPT ![reqs[p].name] = NextCat]
  /\ Commit(p, Invalidating(p))
  /\ UNCHANGED <<database, clips, serving, due, cache, missed, begun>>

-----------------------------------------------------------------------------
(* The map of names to categories.                                         *)

\* Weaker: the lock is not held while the map is loaded.
MayInvalidateAtOnce(p) == TRUE
\* invalidate_game_category_map waits for the lock a loader holds.
MayInvalidate(p) == loader = NoProc

Invalidate(p) ==
  /\ reqs[p].pc = "invalidate" /\ MayInvalidate(p)
  /\ map' = EmptyMap /\ mapped' = FALSE /\ missed' = FALSE
  /\ due' = due \cup (IF reqs[p].op = "upload" THEN {reqs[p].cat} ELSE {})
  /\ reqs' = [reqs EXCEPT ![p] = IF reqs[p].op = "upload"
                                   THEN [reqs[p] EXCEPT !.pc = "limits"] ELSE Idle]
  /\ UNCHANGED <<database, tables, serving, loader, listed, begun>>

\* A reader finds no map: it takes the lock and lists the categories ...
LoadCategories(p) ==
  /\ serving /\ reqs[p] = Idle /\ ~mapped /\ loader = NoProc
  /\ loader' = p /\ listed' = [c \in Cat |-> cats[c].rev]
  /\ UNCHANGED <<database, tables, serving, reqs, due, map, mapped, missed, begun>>

\* ... and then the names, leaving out those whose category it has not listed.
Resolved(c) == IF c # NoCat /\ listed[c] > 0 THEN <<c, listed[c]>> ELSE NoEntry

LoadNames ==
  /\ loader # NoProc
  /\ map' = [n \in Name |-> Resolved(names[n])] /\ mapped' = TRUE
  /\ loader' = NoProc /\ listed' = NothingListed
  /\ UNCHANGED <<database, tables, serving, reqs, due, missed, begun>>

\* The reader stops, and the lock is free with no map behind it.
LoadStops ==
  /\ loader # NoProc /\ loader' = NoProc /\ listed' = NothingListed
  /\ UNCHANGED <<database, tables, serving, reqs, due, map, mapped, missed, begun>>

\* The map is 60 s old: the next reader loads another.
MapExpires ==
  /\ mapped /\ mapped' = FALSE /\ map' = EmptyMap /\ missed' = FALSE
  /\ UNCHANGED <<database, tables, serving, reqs, due, loader, listed, begun>>

\* A request stops where it is: its client has gone, or the database has
\* failed it (a stale snapshot, a deadlock, a foreign key).  Its transaction
\* is rolled back.
Stop(p) ==
  /\ reqs[p] # Idle /\ End(p)
  /\ missed' = (missed \/ reqs[p].pc = "invalidate")
  /\ UNCHANGED <<database, tables, serving, due, cache, begun>>

\* The process stops: its requests, its tasks and its map are gone.
Crash ==
  /\ serving /\ serving' = FALSE /\ reqs' = [p \in Proc |-> Idle] /\ due' = {}
  /\ map' = EmptyMap /\ mapped' = FALSE /\ loader' = NoProc /\ listed' = NothingListed
  /\ missed' = FALSE
  /\ UNCHANGED <<database, tables, begun>>

Step(p) ==
  \/ \E n \in Name : Upload(p, n)
  \/ UploadKnownName(p) \/ UploadNewName(p) \/ UploadInsert(p) \/ UploadConflict(p)
  \/ UploadAccepted(p) \/ UploadRefused(p)
  \/ \E c \in Cat : Enrich(p, c) \/ Edit(p, c) \/ \E d \in Cat : Merge(p, c, d)
  \/ EditWrite(p) \/ EditNotFound(p)
  \/ MergeChecks(p) \/ MergeMoves(p) \/ MergeDeletes(p)
  \/ \E c \in Cat, n \in Name : Separate(p, c, n)
  \/ SeparateReads(p) \/ SeparateCounts(p) \/ SeparateMoves(p)
  \/ Invalidate(p) \/ LoadCategories(p) \/ Stop(p)

Next ==
  \/ \E p \in Proc : Step(p)
  \/ \E n \in Name : Reconcile(n)
  \/ \E c \in Cat : EnrichSkipped(c)
  \/ Serve \/ LoadNames \/ LoadStops \/ MapExpires \/ Crash

Spec == Init /\ [][Next]_vars

-----------------------------------------------------------------------------
(* Properties.                                                             *)

\* Every name a clip reports has a category once requests are served, and no
\* name ever refers to a category that is gone, whatever merges, separations
\* and uploads run at once (docs/00-overview-and-architecture.md:94).
NamesHaveACategory ==
  \A n \in Name : /\ names[n] # NoCat => Live(names[n])
                  /\ serving /\ clips[n] > 0 => names[n] # NoCat

\* Separating names never empties a category: the check that two names are
\* left holds until the commit.  On SQLite only; on Postgres two separations
\* at once both count two names and both take one.
SeparationLeavesAName ==
  database = "sqlite" => \A c \in Cat : Live(c) => NamesOf(c) # {}

View == [n \in Name |-> IF names[n] = NoCat THEN NoEntry
                        ELSE <<names[n], cats[names[n]].rev>>]

\* Once a handler has answered, no reader is served a map from before its
\* change: not even one a reader was loading while the change was committed.
MapIsCurrent ==
  mapped /\ ~missed /\ (\A p \in Proc : reqs[p].pc # "invalidate") => map = View

\* What an administrator has made of a category is never replaced by the
\* automatic artwork that was being looked up in the meantime.
EditsAreKept ==
  [][\A c \in Cat : cats[c].by = "admin" /\ cats'[c].rev > 0 => cats'[c].by = "admin"]_vars

\* docs/05-upload-protocol.md:294: an upload that fails leaves no category
\* without clips behind.  The code does not keep it: a create the limits take
\* back leaves the category of its game (GameCategoriesRefused.cfg).
FailedUploadsLeaveNoCategory ==
  (\A p \in Proc : reqs[p] = Idle) =>
    \A c \in Cat : Live(c) => \E n \in NamesOf(c) : clips[n] > 0
=============================================================================
