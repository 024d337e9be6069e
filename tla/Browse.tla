------------------------------- MODULE Browse -------------------------------
(***************************************************************************)
(* Reading the library: an owner's list of clips, the public list, a       *)
(* public profile and the list of games, with their filters, search, sort  *)
(* and pages.  Each page is a request of its own and each of its queries a *)
(* statement of its own, so uploads, edits, visibility changes, deletions  *)
(* and game categories move clips about between the pages of a walk, and   *)
(* between a page and the numbers printed above it.                        *)
(*                                                                         *)
(* clips.id is a ULID: a later clip has a greater id.                      *)
(***************************************************************************)
EXTENDS Clips, Integers, Sequences, SequencesExt

CONSTANTS
  Game, Category, \* reported names and categories
  Character,      \* what texts are made of
  NameOf,         \* the text of a game's name and of a category's display name
  Null,
  AsciiLower, UnicodeLower,   \* capital letters and what they are lowered to
  MaxPage, MaxInt,            \* MAX_PAGE; the largest i64
  ProfileLimit,               \* PUBLIC_PROFILE_CLIP_LIMIT
  Libraries,      \* bound: the libraries to start from
  Asks,           \* bound: what the reader may ask for, and how many changes
                  \* happen during that walk
  Titles          \* bound: the titles an edit gives

\* The query parameters of an own list; a public one takes three of them.
FilterName == {"status", "visibility", "game", "game_category_id", "from", "to",
               "min_duration_ms", "max_duration_ms", "query"}
PublicFilterName == {"game", "game_category_id", "query"}
SortColumn == {"recorded", "uploaded", "duration", "updated"}

\* What LIKE reads as any characters, as any one, and as no wildcard.
AnyText == "%"
AnyOne == "_"
Backslash == "\\"
Wildcard == {AnyText, AnyOne}

Moments == Nat \cup {Null}
Text == Seq(Character)
ClipRow ==
  [status : {"created", "processing", "ready", "deleted"},
   visibility : {"private", "unlisted", "public"}, shared : BOOLEAN,
   recorded : Moments, uploaded : Moments, duration : Moments, created : Nat, updated : Nat,
   title : Text, game : Game \cup {Null}]

LibraryOK(l) ==
  /\ l \in [clips : {l.clips}, category : [Game -> Category]]
  /\ DOMAIN l.clips \subseteq Clip /\ l.clips \in [DOMAIN l.clips -> ClipRow]

AskOK(ask) ==
  /\ ask.list \in {"own", "public", "profile", "games"}
  /\ DOMAIN ask.filter \subseteq
       CASE ask.list = "own" -> FilterName [] ask.list = "public" -> PublicFilterName [] OTHER -> {}
  /\ "query" \in DOMAIN ask.filter => ask.filter["query"] \in Text
  /\ ask.sort \in [column : SortColumn, dir : {"asc", "desc"}]
  /\ ask.page \in Int /\ ask.size \in Nat \ {0} /\ ask.changes \in Nat

\* Lowering as ASCII is part of lowering as Unicode; a table has fewer rows
\* than its 64-bit ids can number.
ASSUME BrowseAssumption ==
  /\ Clip \subseteq Nat /\ Null \notin Int \cup Game \cup Asks
  /\ NameOf \in [Game \cup Category -> Text] /\ Titles \subseteq Text
  /\ Wildcard \cup {Backslash} \subseteq Character
  /\ AsciiLower \in [DOMAIN AsciiLower -> Character]
  /\ UnicodeLower \in [DOMAIN UnicodeLower -> Character]
  /\ \A ch \in DOMAIN AsciiLower : ch \in DOMAIN UnicodeLower /\ AsciiLower[ch] = UnicodeLower[ch]
  /\ MaxPage \in Nat \ {0} /\ MaxInt \in Nat \ {0} /\ ProfileLimit \in Nat \ {0}
  /\ Cardinality(Clip) <= MaxInt
  /\ (\A l \in Libraries : LibraryOK(l)) /\ \A ask \in Asks : AskOK(ask)

VARIABLES
  lib,       \* tables clips (the rows that exist) and game_category_names
  walk,      \* the reader: one list, page after page
  changes    \* bound, and the clock: changes made

browseVars == <<database, lib, walk, changes>>

NoWalk == [pc |-> "idle", ask |-> Null, page |-> 1, rows |-> <<>>, got |-> <<>>,
           more |-> FALSE, total |-> 0, still |-> TRUE,
           through |-> {}, came |-> FALSE, went |-> FALSE]

BrowseTypeOK ==
  /\ database \in Databases /\ LibraryOK(lib) /\ changes \in Nat
  /\ walk \in [pc : {"idle", "query", "count", "answered", "done", "refused"},
              ask : Asks \cup {Null}, page : Nat \ {0}, rows : Seq(Clip), got : Seq(Clip),
              more : BOOLEAN, total : {walk.total}, still : BOOLEAN,
              through : SUBSET Clip, came : BOOLEAN, went : BOOLEAN]
  /\ walk.pc \notin {"idle", "refused"} => walk.ask \in Asks

BrowseInit ==
  /\ database \in Databases /\ lib \in Libraries
  /\ walk = NoWalk /\ changes = 0

-----------------------------------------------------------------------------
(* What a text search finds.                                               *)

Lowered(by, text) == [i \in DOMAIN text |-> IF text[i] \in DOMAIN by THEN by[text[i]] ELSE text[i]]

\* LOWER(...) of the database: SQLite's knows ASCII only.
Lower(text) == Lowered(IF database = "sqlite" THEN AsciiLower ELSE UnicodeLower, text)

EscapedLikePattern(q) ==
  LET Escaped(ch) == IF ch \in Wildcard \cup {Backslash} THEN <<Backslash, ch>> ELSE <<ch>>
      low == Lowered(AsciiLower, q)
  IN <<AnyText>> \o FlattenSeq([i \in DOMAIN low |-> Escaped(low[i])]) \o <<AnyText>>

\* text LIKE pattern ESCAPE '\': where in the text what is left of the pattern
\* may start.
Like(text, pattern) ==
  LET starts[p \in 1 .. Len(pattern) + 1] ==
        IF p > Len(pattern) THEN {Len(text) + 1}
        ELSE IF pattern[p] = AnyText THEN {t \in 1 .. Len(text) + 1 : \E u \in starts[p + 1] : t <= u}
        ELSE IF pattern[p] = Backslash
             THEN {t \in 1 .. Len(text) : pattern[p + 1] = text[t] /\ t + 1 \in starts[p + 2]}
        ELSE {t \in 1 .. Len(text) : pattern[p] \in {AnyOne, text[t]} /\ t + 1 \in starts[p + 1]}
  IN 1 \in starts[1]

\* The texts a search looks at: title, game and the game's category.
Searched(l, c) ==
  {l.clips[c].title} \cup
  (IF l.clips[c].game = Null THEN {}
   ELSE {NameOf[l.clips[c].game], NameOf[l.category[l.clips[c].game]]})

Finds(l, c, q) == \E text \in Searched(l, c) : Like(Lower(text), EscapedLikePattern(q))

-----------------------------------------------------------------------------
(* Which clips a list has, and in which order.  A filter is a function     *)
(* from the parameters that are given.  The columns left out (source type, *)
(* size, created_at, title as a sort key) are treated as one of these is.  *)

\* COALESCE(recorded_at, uploaded_at, created_at)
Moment(row) ==
  IF row.recorded # Null THEN row.recorded ELSE IF row.uploaded # Null THEN row.uploaded ELSE row.created

SatisfiesPublic(l, c, name, value) ==
  LET row == l.clips[c] IN
  CASE name = "game"             -> row.game = value
    [] name = "game_category_id" -> row.game # Null /\ l.category[row.game] = value
    [] name = "query"            -> Finds(l, c, value)

\* A comparison with NULL selects nothing.
Satisfies(l, c, name, value) ==
  LET row == l.clips[c] IN
  CASE name = "visibility"       -> row.visibility = value
    [] name = "from"             -> Moment(row) >= value
    [] name = "to"               -> Moment(row) <= value
    [] name = "min_duration_ms"  -> row.duration # Null /\ row.duration >= value
    [] name = "max_duration_ms"  -> row.duration # Null /\ row.duration <= value
    [] name \in PublicFilterName -> SatisfiesPublic(l, c, name, value)

HasStatus(l, c, filter) ==
  IF "status" \in DOMAIN filter THEN l.clips[c].status = filter["status"]
  ELSE l.clips[c].status # "deleted"

InOwnList(l, c, who) == OwnerOf[c] = who /\ l.clips[c].status # "deleted"

InPublicList(l, c) ==
  /\ l.clips[c].visibility = "public" /\ l.clips[c].status = "ready" /\ l.clips[c].shared

PassesOwn(l, c, filter) ==
  /\ HasStatus(l, c, filter)
  /\ \A name \in DOMAIN filter \ {"status"} : Satisfies(l, c, name, filter[name])

PassesPublic(l, c, filter) ==
  \A name \in DOMAIN filter : SatisfiesPublic(l, c, name, filter[name])

Passes(l, c, list, filter) ==
  IF list = "own" THEN PassesOwn(l, c, filter) ELSE PassesPublic(l, c, filter)

InList(l, c, list, who) ==
  CASE list = "own"     -> InOwnList(l, c, who)
    [] list = "public"  -> InPublicList(l, c)
    [] list = "profile" -> InPublicList(l, c) /\ OwnerOf[c] = who

Selected(l, ask) ==
  {c \in DOMAIN l.clips : InList(l, c, ask.list, ask.who) /\ Passes(l, c, ask.list, ask.filter)}

\* ORDER BY column IS NULL, column, id
Less(sort, x, y) == IF sort.dir = "asc" THEN x < y ELSE x > y
BeforeByColumn(l, sort, c, d) ==   \* mutant: ties are left to the database
  LET x == l.clips[c][sort.column]
      y == l.clips[d][sort.column]
  IN \/ x # Null /\ y = Null
     \/ x # Null /\ y # Null /\ Less(sort, x, y)
Before(l, sort, c, d) ==
  LET x == l.clips[c][sort.column]
      y == l.clips[d][sort.column]
  IN \/ x # Null /\ y = Null
     \/ x # Null /\ y # Null /\ Less(sort, x, y)
     \/ x = y /\ Less(sort, c, d)

\* The orders that the database may return the rows in.
Orders(l, ask) ==
  {s \in SetToSeqs(Selected(l, ask)) :
     \A i, j \in DOMAIN s : i < j => ~Before(l, ask.sort, s[j], s[i])}

-----------------------------------------------------------------------------
(* The requests.                                                           *)

\* Values that contradict each other are refused.
Crossed(filter, low, high) ==
  {low, high} \subseteq DOMAIN filter /\ filter[low] > filter[high]
Contradictory(filter) ==
  \/ {"game", "game_category_id"} \subseteq DOMAIN filter
  \/ Crossed(filter, "min_duration_ms", "max_duration_ms") \/ Crossed(filter, "from", "to")

\* The page asked for: clamped in an own list, bounded from below in public.
PageOf(ask, page) ==
  CASE page < 1 -> 1
    [] page > MaxPage /\ ask.list = "own" -> MaxPage
    [] OTHER -> page

\* Mutant: the offset counts the row beyond each page.
OffsetByLimit(ask, page) == (page - 1) * (ask.size + 1)
\* Rows before the page: saturating in an own list, checked in public.
OffsetOf(ask, page) ==
  LET offset == (page - 1) * ask.size
  IN IF ask.list = "own" /\ offset > MaxInt THEN MaxInt ELSE offset
TooLarge(ask, page) == ask.list = "public" /\ (page - 1) * ask.size > MaxInt

\* One row more than a page has shows whether there are more.
LimitOf(ask) == IF ask.list = "profile" THEN ProfileLimit ELSE ask.size + 1

Refused(ask, page) == Contradictory(ask.filter) \/ TooLarge(ask, PageOf(ask, page))

BeginList(ask) ==
  /\ walk.pc = "idle" /\ ask.list # "games"
  /\ walk' = IF Refused(ask, ask.page) THEN [walk EXCEPT !.pc = "refused"]
             ELSE [NoWalk EXCEPT !.pc = "query", !.ask = ask, !.page = PageOf(ask, ask.page),
                               !.through = Selected(lib, ask)]
  /\ UNCHANGED <<database, lib, changes>>

\* LIMIT and OFFSET
Window(order, ask, page) ==
  LET offset == OffsetOf(ask, page)
  IN SubSeq(order, offset + 1, Min({offset + LimitOf(ask), Len(order)}))

\* list_for_owner, list_public.  The authors and the categories' names are read later; no row depends on them.
Query ==
  /\ walk.pc = "query"
  /\ \E order \in Orders(lib, walk.ask) :
       LET ask == walk.ask
           rows == Window(order, ask, walk.page)
           page == IF ask.list = "profile" \/ Len(rows) <= ask.size THEN rows
                   ELSE SubSeq(rows, 1, ask.size)
       IN walk' = [walk EXCEPT
            !.pc = IF ask.list = "public" THEN "answered" ELSE "count",
            !.rows = page, !.got = @ \o page,
            !.more = ask.list # "profile" /\ Len(rows) > ask.size, !.still = TRUE]
  /\ UNCHANGED <<database, lib, changes>>

\* stats_for_owner
StatsForOwner(ask) == Cardinality(Selected(lib, ask))

\* Mutant: the status is not looked at.
CountPublicForOwnerWithDeleted(user) ==
  Cardinality({c \in DOMAIN lib.clips :
    lib.clips[c].visibility = "public" /\ lib.clips[c].shared /\ OwnerOf[c] = user})
CountPublicForOwner(user) ==
  Cardinality({c \in DOMAIN lib.clips :
    /\ lib.clips[c].visibility = "public" /\ lib.clips[c].status = "ready"
    /\ lib.clips[c].shared /\ OwnerOf[c] = user})

Count ==
  /\ walk.pc = "count" /\ walk.ask.list # "games"
  /\ walk' = [walk EXCEPT !.pc = "answered",
                !.total = IF walk.ask.list = "own" THEN StatsForOwner(walk.ask)
                          ELSE CountPublicForOwner(walk.ask.who)]
  /\ UNCHANGED <<database, lib, changes>>

\* list_public_games: clips joined to names joined to categories, by category.
PublicGames ==
  LET shown == {c \in DOMAIN lib.clips : /\ lib.clips[c].visibility = "public"
                                         /\ lib.clips[c].status = "ready"
                                         /\ lib.clips[c].shared /\ lib.clips[c].game # Null}
      counted(cat) == {c \in shown : lib.category[lib.clips[c].game] = cat}
  IN [cat \in {lib.category[lib.clips[c].game] : c \in shown} |-> Cardinality(counted(cat))]

\* Its handler reads the categories, for their pictures, then the counts.
BeginGames(ask) ==
  /\ walk.pc = "idle" /\ ask.list = "games"
  /\ walk' = [NoWalk EXCEPT !.pc = "count", !.ask = ask]
  /\ UNCHANGED <<database, lib, changes>>

ListGames ==
  /\ walk.pc = "count" /\ walk.ask.list = "games"
  /\ walk' = [walk EXCEPT !.pc = "done", !.total = PublicGames, !.still = TRUE]
  /\ UNCHANGED <<database, lib, changes>>

NextPage ==
  /\ walk.pc = "answered" /\ walk.more
  /\ walk' = [walk EXCEPT
       !.pc = IF Refused(walk.ask, walk.page + 1) THEN "refused" ELSE "query",
       !.page = PageOf(walk.ask, @ + 1)]
  /\ UNCHANGED <<database, lib, changes>>

Finish ==
  /\ walk.pc = "answered" /\ ~walk.more
  /\ walk' = [walk EXCEPT !.pc = "done"]
  /\ UNCHANGED <<database, lib, changes>>

-----------------------------------------------------------------------------
(* What happens to the library meanwhile, one committed statement at a     *)
(* time.                                                                   *)

\* History of a walk: which clips it had all along, and whether any came
\* into its list, went out of it, or changed places (which is both).
Disturbed(w, l) ==
  IF w.ask = Null \/ w.ask.list = "games" THEN [w EXCEPT !.still = FALSE]
  ELSE LET was == Selected(lib, w.ask)
           is == Selected(l, w.ask)
           moved == \E c, d \in was \cap is :
                      Before(lib, w.ask.sort, c, d) # Before(l, w.ask.sort, c, d)
       IN [w EXCEPT !.still = FALSE, !.through = @ \cap is,
                    !.came = @ \/ moved \/ ~(is \subseteq was),
                    !.went = @ \/ moved \/ ~(was \subseteq is)]

Change(l) ==
  /\ walk.pc \in {"query", "count", "answered"} /\ changes < walk.ask.changes
  /\ lib' = l /\ changes' = changes + 1
  /\ walk' = Disturbed(walk, l)
  /\ UNCHANGED database

Epoch == 10
Now == Epoch + changes
Live(c) == c \in DOMAIN lib.clips /\ lib.clips[c].status # "deleted"
Set(c, row) == [lib EXCEPT !.clips[c] = [row EXCEPT !.updated = Now]]

\* A new upload, with the next id.
Create(c, recorded, game) ==
  /\ c \in Clip \ DOMAIN lib.clips /\ \A d \in DOMAIN lib.clips : d < c
  /\ Change([lib EXCEPT !.clips = [d \in DOMAIN lib.clips \cup {c} |->
       IF d # c THEN lib.clips[d]
       ELSE [status |-> "created", visibility |-> "private", shared |-> FALSE,
             recorded |-> recorded, uploaded |-> Null, duration |-> Null, created |-> Now,
             updated |-> Now, title |-> <<>>, game |-> game]]])

Finalize(c) ==
  /\ Live(c) /\ lib.clips[c].status = "created"
  /\ Change(Set(c, [lib.clips[c] EXCEPT !.status = "processing", !.uploaded = Now]))

MarkClipReady(c) ==
  /\ Live(c) /\ lib.clips[c].status = "processing"
  /\ Change(Set(c, [lib.clips[c] EXCEPT !.status = "ready"]))

SetVisibility(c, visibility) ==
  /\ Live(c) /\ lib.clips[c].status = "ready"
  /\ Change(Set(c, [lib.clips[c] EXCEPT !.visibility = visibility,
                                        !.shared = visibility # "private"]))

UpdateMetadata(c, title, recorded) ==
  /\ Live(c)
  /\ Change(Set(c, [lib.clips[c] EXCEPT !.title = title, !.recorded = recorded]))

UpdateProbeMetadata(c, duration) ==
  /\ Live(c)
  /\ Change(Set(c, [lib.clips[c] EXCEPT !.duration = duration]))

\* The row keeps its visibility and its share id.
SoftDelete(c) ==
  /\ Live(c)
  /\ Change(Set(c, [lib.clips[c] EXCEPT !.status = "deleted"]))

\* A merge or a separation.
Regroup(game, category) ==
  /\ lib.category[game] # category
  /\ Change([lib EXCEPT !.category[game] = category])

BrowseNext ==
  \/ \E ask \in Asks : BeginList(ask) \/ BeginGames(ask)
  \/ Query \/ Count \/ ListGames \/ NextPage \/ Finish
  \/ \E c \in Clip :
       \/ \E game \in Game \cup {Null} : Create(c, Null, game)
       \/ Finalize(c) \/ MarkClipReady(c) \/ SoftDelete(c) \/ UpdateProbeMetadata(c, 2)
       \/ \E visibility \in {"private", "unlisted", "public"} : SetVisibility(c, visibility)
       \/ \E title \in Titles, recorded \in {Null, Now} : UpdateMetadata(c, title, recorded)
  \/ \E game \in Game, category \in Category : Regroup(game, category)

BrowseSpec == BrowseInit /\ [][BrowseNext]_browseVars

-----------------------------------------------------------------------------
(* Properties.                                                             *)

\* A search is for the words as they are typed, whatever their case, and a
\* wildcard is a character like any other.  Letters outside ASCII are left
\* out: a pattern is lowered as ASCII, and PostgreSQL's LOWER knows more.
Plain(q) == \A i \in DOMAIN q : \A ch \in DOMAIN UnicodeLower \ DOMAIN AsciiLower :
              Lowered(AsciiLower, q)[i] \notin {ch, UnicodeLower[ch]}
Names(l, c, q) ==
  \E text \in Searched(l, c) : \E i \in 0 .. Len(text) - Len(q) :
    Lowered(AsciiLower, SubSeq(text, i + 1, i + Len(q))) = Lowered(AsciiLower, q)

Wanted(ask) ==
  {c \in DOMAIN lib.clips :
     /\ InList(lib, c, ask.list, ask.who)
     /\ Passes(lib, c, ask.list, Restrict(ask.filter, DOMAIN ask.filter \ {"query"}))
     /\ "query" \in DOMAIN ask.filter => Names(lib, c, ask.filter["query"])}

Walked == /\ walk.pc = "done" /\ walk.ask.list \in {"own", "public"}
          /\ PageOf(walk.ask, walk.ask.page) = 1

\* From MAX_PAGE on an own list answers that page again.
BelowLastPage(w) == w.ask.list = "own" => w.page < MaxPage

RepeatsIn(seq) == \E i, j \in DOMAIN seq : i < j /\ seq[i] = seq[j]

\* A walk through a list that nothing disturbed has shown every clip that was
\* asked for, none twice, in order and those without a value last
\* (push_clip_optional_filters, escaped_like_pattern, clip_order_by and the
\* page arithmetic of list_clips and list_public_clips).
WalkIsComplete ==
  (Walked /\ ~walk.came /\ ~walk.went) =>
    /\ ("query" \in DOMAIN walk.ask.filter => Plain(walk.ask.filter["query"])) =>
         ToSet(walk.got) = Wanted(walk.ask)
    /\ BelowLastPage(walk) => ~RepeatsIn(walk.got)
    /\ BelowLastPage(walk) => \A i, j \in DOMAIN walk.got :
         LET x == lib.clips[walk.got[i]][walk.ask.sort.column]
             y == lib.clips[walk.got[j]][walk.ask.sort.column]
         IN i < j /\ y # Null => x # Null /\ ~Less(walk.ask.sort, y, x)

\* What a changing library does to a walk: a clip that was there all along is
\* missed only if others left the list or changed places, and one is shown
\* twice only if others came into it or changed places (offset paging over
\* clip_order_by's total order).
OnlyShiftsDisturb ==
  /\ (Walked /\ ~walk.went) => walk.through \subseteq ToSet(walk.got)
  /\ (walk.pc = "done" /\ ~walk.came /\ BelowLastPage(walk)) => ~RepeatsIn(walk.got)

\* The numbers beside a list are those of the list, when nothing changed
\* between their queries: the total and has_more of an own list, the count
\* of a profile, and the count of each game against the list it opens
\* (stats_for_owner, count_public_for_owner, list_public_games).
CountsMatchLists ==
  walk.pc \in {"answered", "done"} /\ walk.still =>
    CASE walk.ask.list = "own" ->
           /\ walk.more <=> walk.total > walk.page * walk.ask.size
           /\ walk.total >= Len(walk.rows)
      [] walk.ask.list = "profile" ->
           walk.total = Cardinality(Selected(lib, walk.ask)) /\ walk.total >= Len(walk.rows)
      [] walk.ask.list = "public" -> TRUE
      [] walk.ask.list = "games" ->
           \A cat \in Category :
             Cardinality(Selected(lib, [list |-> "public", who |-> Null, filter |-> [game_category_id |-> cat]]))
             = IF cat \in DOMAIN walk.total THEN walk.total[cat] ELSE 0
=============================================================================
