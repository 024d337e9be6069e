------------------------------ MODULE MCBrowse ------------------------------
(* Small values for the constants of Browse.                               *)
EXTENDS Browse, TLC

CONSTANTS alice, bob, quake, doom, shooters, others

MCOwnerOf == [c \in Clip |-> IF c = 2 THEN bob ELSE alice]
MCCharacter == {"e", "E", "e'", "E'", "%", "_", "\\"}
MCNameOf == (quake :> <<"e", "%">> @@ doom :> <<"_">>
             @@ shooters :> <<"E", "e">> @@ others :> <<"\\">>)
MCAsciiLower == ("E" :> "e")
MCUnicodeLower == ("E" :> "e" @@ "E'" :> "e'")

Row(status, visibility, recorded, uploaded, duration, title, game) ==
  [status |-> status, visibility |-> visibility, shared |-> visibility # "private",
   recorded |-> recorded, uploaded |-> uploaded, duration |-> duration, created |-> 1,
   updated |-> 1, title |-> title, game |-> game]

\* One library with ties, missing values and a deleted public clip; one of
\* public clips, with titles to search.
MCLibraries ==
  {[clips |-> (1 :> Row("ready", "public", 3, 4, 2, <<"E", "%">>, quake)
            @@ 2 :> Row("ready", "public", 3, 5, Null, <<"e", "_">>, doom)
            @@ 3 :> Row("processing", "private", Null, 4, Null, <<"E'">>, Null)
            @@ 4 :> Row("ready", "public", 3, 4, 2, <<"\\">>, doom)),
    category |-> (quake :> shooters @@ doom :> shooters)],
   [clips |-> (1 :> Row("ready", "public", Null, 3, 1, <<"e", "E'">>, quake)
            @@ 2 :> Row("deleted", "public", 2, 3, 1, <<"%">>, quake)
            @@ 3 :> Row("ready", "public", 2, 3, Null, <<"_", "e">>, Null)
            @@ 4 :> Row("ready", "unlisted", Null, 3, 1, <<"e">>, doom)),
    category |-> (quake :> shooters @@ doom :> others)]}

NoFilter == [x \in {} |-> 0]
Sort(column, dir) == [column |-> column, dir |-> dir]
Newest == Sort("uploaded", "desc")
Sorts == {Sort(column, dir) : column \in {"recorded", "uploaded", "duration", "updated"},
                              dir \in {"asc", "desc"}}
Ask(list, filter, sort, page, size, changed) ==
  [list |-> list, who |-> alice, filter |-> filter, sort |-> sort, page |-> page,
   size |-> size, changes |-> changed]

\* Every filter alone, and pairs that belong together or contradict.
Filters ==
  {[status |-> "ready"], [status |-> "processing"], [visibility |-> "private"],
   [min_duration_ms |-> 1, max_duration_ms |-> 1], [min_duration_ms |-> 2, max_duration_ms |-> 1],
   [from |-> 3], [from |-> 2, to |-> 3], [from |-> 3, to |-> 2]}
PublicFilters ==
  {[game |-> quake], [game_category_id |-> shooters], [game |-> doom, game_category_id |-> others],
   [game_category_id |-> shooters, query |-> <<"e">>]}
Queries == {[query |-> q] : q \in {<<"%">>, <<"_">>, <<"\\">>, <<"E">>, <<"e", "_">>, <<"E'">>}}
MCAsks ==
  {Ask("own", NoFilter, s, 0, 2, 1) : s \in Sorts}
  \cup {Ask("own", NoFilter, s, 1, 1, 2) : s \in {Newest, Sort("updated", "asc")}}
  \cup {Ask("public", NoFilter, s, 1, 1, 1) : s \in Sorts}
  \cup {Ask("own", f, Newest, 1, 1, 1) : f \in Filters}
  \cup {Ask("public", f, Newest, -1, 1, 1) : f \in PublicFilters}
  \cup {Ask(list, q, Newest, 1, 1, 0) : list \in {"own", "public"}, q \in Queries}
  \cup {Ask("own", NoFilter, Newest, p, 2, 0) : p \in {6, 7}}
  \cup {Ask("public", NoFilter, Newest, p, 2, 0) : p \in {2, 7}}
  \cup {Ask("profile", NoFilter, Newest, 1, 2, 2), Ask("games", NoFilter, Newest, 1, 2, 2)}
MCTitles == {<<"e">>}
=============================================================================
