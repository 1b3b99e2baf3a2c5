------------------------------ MODULE Metadata ------------------------------
(***************************************************************************)
(* The fields of the tracks (plmeta.c), the cache in which their keys and  *)
(* values are kept once each (metacache.c), and the search in a playlist,  *)
(* which remembers in the cache what it has compared (playlist.c).         *)
(*                                                                         *)
(* A string of the cache is a sequence of parts, the texts that zeros      *)
(* separate in a multiple value; a key is a string of one part.  What text *)
(* a part contains is a relation, for a URI that of its last component.    *)
(* Everything here holds the playlist mutex, so a call is a step.          *)
(***************************************************************************)
EXTENDS Integers, Sequences, FiniteSets, FiniteSetsExt, SequencesExt, SequenceParts

CONSTANTS Tracks,       \* tracks in memory, allocated or not
          Lists,        \* the playlists
          Rows,         \* the tracks that may be in each list, in order
          Loaded,       \* the tracks that are there at the start
          Fields,       \* keys of tags
          Unsearched,   \* those that are not searched: cuesheet, log
          Properties,   \* keys that begin with ':', '_' or '!'
          Gains,        \* the properties of replay gain
          Parts,        \* the texts of values that are set
          Values,       \* the values that are set
          Uri,          \* the URI of each track
          Texts,        \* texts to search for
          InText,       \* which part contains which text
          INDICES,      \* searches are numbered 1 .. INDICES (127)
          BUDGET        \* how many calls are made

Empty == ""
URI == ":URI"
DECODER == ":DECODER"
Decoder == <<"stdmpg">>

Keys == Fields \cup Properties
SettableKeys == Keys \ {URI}

ASSUME MetadataAssumption ==
    /\ {INDICES, BUDGET} \subseteq Nat \ {0}
    /\ Fields \cap Properties = {}
    /\ {URI, DECODER} \subseteq Properties
    /\ Unsearched \subseteq Fields /\ Gains \subseteq Properties \ {URI}
    /\ IsFiniteSet(Tracks) /\ IsFiniteSet(Keys) /\ IsFiniteSet(Lists)
    /\ Loaded \subseteq Tracks /\ Rows \in [Lists -> Seq(Tracks)]
    /\ Empty \in Parts /\ Empty \in Texts
    /\ Values \subseteq Seq(Parts) \ {<<>>}
    \* No tag is the URI of a track.
    /\ \A t \in Tracks : Uri[t] \notin Parts
    /\ \A p, q \in Lists : p # q => ToSet(Rows[p]) \cap ToSet(Rows[q]) = {}

VARIABLES
    there,      \* the tracks that are allocated, each in its list
    meta,       \* the fields of each track: a list of keys and values
    cache,      \* the strings, with reference count and memo of a search
    cmpidx,     \* search_cmpidx of each list
    found,      \* its PL_SEARCH list
    query,      \* auxiliary: the text it was last searched for
    searches,   \* auxiliary: how often it was searched
    leaked,     \* auxiliary: references to each key of tracks that were freed
    budget

tracks == <<there, meta>>
search == <<cmpidx, found, query, searches>>
vars   == <<tracks, cache, search, leaked, budget>>

---------------------------------------------------------------------------
(* The cache.                                                              *)

Refs(c, s) == IF s \in DOMAIN c THEN c[s].refs ELSE 0

\* metacache_add_value
AddValue(c, s) ==
    [x \in DOMAIN c \cup {s} |->
        IF x # s THEN c[x]
        ELSE [refs |-> Refs(c, s) + 1,
              memo |-> IF s \in DOMAIN c THEN c[s].memo ELSE 0]]

\* metacache_remove_value
RemoveValue(c, s) ==
    [x \in {x \in DOMAIN c : x # s \/ c[x].refs > 1} |->
        IF x # s THEN c[x] ELSE [c[x] EXCEPT !.refs = @ - 1]]

\* The same for each of these strings, one of which may be there repeatedly.
RemoveValues(c, strings) ==
    LET gone(x) == Cardinality({n \in DOMAIN strings : strings[n] = x})
    IN  [x \in {x \in DOMAIN c : c[x].refs > gone(x)} |->
            [c[x] EXCEPT !.refs = @ - gone(x)]]

---------------------------------------------------------------------------
(* The fields of one track.                                                *)

Field(k, v) == [key |-> k, value |-> v]

KeysOf(fields) == {fields[n].key : n \in DOMAIN fields}
At(fields, k) == CHOOSE n \in DOMAIN fields : fields[n].key = k

\* Seeded fault: a tag goes to the end, whatever is there.
PlaceLast(fields, k) == Len(fields) + 1

\* A property goes to the end, a tag before the first property, or before
\* the last tag when there are no properties.
Place(fields, k) ==
    IF k \in Properties THEN Len(fields) + 1
    ELSE Min({Len(fields) + 1} \cup
             {n \in DOMAIN fields : n = Len(fields) \/ fields[n].key \in Properties})

\* pl_add_empty_meta_for_key, and the value its caller gives the new field:
\* nothing happens when it meets the key on the way to the place of the new
\* field, which for a tag ends at the first property.  m is fields and a cache.
WithField(m, k, v) ==
    IF \E n \in DOMAIN m.fields : n <= Place(m.fields, k) /\ m.fields[n].key = k
    THEN m
    ELSE [fields |-> InsertAt(m.fields, Place(m.fields, k), Field(k, v)),
          cache  |-> AddValue(AddValue(m.cache, <<k>>), v)]

\* _meta_set_value: empty parts are stripped from a multiple value.
Stored(v) == IF Len(v) = 1 THEN v ELSE PartAt(v, {n \in DOMAIN v : v[n] # Empty})

\* Seeded fault: the old value keeps its reference.
SetValueKeepsOld(m, k, v) ==
    [fields |-> [m.fields EXCEPT ![At(m.fields, k)].value = v],
     cache  |-> AddValue(m.cache, v)]

SetValue(m, k, v) ==
    LET n == At(m.fields, k)
    IN  [fields |-> [m.fields EXCEPT ![n].value = v],
         cache  |-> AddValue(RemoveValue(m.cache, m.fields[n].value), v)]

\* _combine_into_unique_multivalue: the parts that the value does not have.
Missing(value, v) == PartAt(v, {n \in DOMAIN v : v[n] \notin ToSet(value)})

\* The fields of a deletion: both strings go, for each field that goes.
Without(m, gone) ==
    LET away == {n \in DOMAIN m.fields : m.fields[n].key \in gone}
    IN  [fields |-> PartAt(m.fields, DOMAIN m.fields \ away),
         cache  |-> RemoveValues(RemoveValues(m.cache, [n \in away |-> <<m.fields[n].key>>]),
                                 [n \in away |-> m.fields[n].value])]

\* pl_add_meta_copy of every field in turn.
Copied(m, fields) ==
    LET upto[n \in 0 .. Len(fields)] ==
            IF n = 0 THEN m
            ELSE WithField(upto[n - 1], fields[n].key, fields[n].value)
    IN  upto[Len(fields)]

Now(t) == [fields |-> meta[t], cache |-> cache]

\* pl_item_alloc_init, with or without the name of a decoder.
Fresh(t, c, decoded) ==
    LET m == WithField([fields |-> <<>>, cache |-> c], URI, <<Uri[t]>>)
    IN  IF decoded THEN WithField(m, DECODER, Decoder) ELSE m

---------------------------------------------------------------------------
(* Changes of the fields.                                                  *)

Call == budget > 0 /\ budget' = budget - 1

Becomes(t, m) ==
    /\ meta' = [meta EXCEPT ![t] = m.fields]
    /\ cache' = m.cache

Changes(t, m) ==
    /\ Call /\ t \in there
    /\ Becomes(t, m)
    /\ UNCHANGED <<there, search, leaked>>

\* pl_add_meta_full: a value that begins with nothing is ignored.  It takes no
\* lock itself: a step is a call whose caller holds the playlist mutex.
AddMeta(t, k, v) ==
    /\ v[1] # Empty
    /\ Changes(t, WithField(Now(t), k, Stored(v)))

\* pl_append_meta_full
AppendMeta(t, k, v) ==
    /\ v[1] # Empty
    /\ LET old == meta[t][At(meta[t], k)].value
       IN  IF k \notin KeysOf(meta[t]) THEN Changes(t, WithField(Now(t), k, Stored(v)))
           ELSE /\ Missing(old, v) # <<>>
                /\ Changes(t, SetValue(Now(t), k, old \o Missing(old, v)))

\* pl_replace_meta: a field that exists may become empty.
ReplaceMeta(t, k, p) ==
    IF k \in KeysOf(meta[t]) THEN Changes(t, SetValue(Now(t), k, <<p>>))
    ELSE p # Empty /\ Changes(t, WithField(Now(t), k, <<p>>))

\* pl_delete_meta, and pl_delete_metadata of the field with this key.
DeleteMeta(t, k) ==
    /\ k \in KeysOf(meta[t])
    /\ Changes(t, Without(Now(t), {k}))

\* pl_delete_all_meta keeps the properties but those of replay gain.
DeleteAllMeta(t) == Changes(t, Without(Now(t), Fields \cup Gains))

\* pl_items_copy_junk to one track.
CopyJunk(t, u) ==
    /\ t \in there /\ t # u
    /\ Changes(u, Copied(Now(u), meta[t]))

\* A file is added to a list.
AddFile(t, decoded) ==
    /\ Call /\ t \notin there
    /\ Becomes(t, Fresh(t, cache, decoded))
    /\ there' = there \cup {t}
    /\ UNCHANGED <<search, leaked>>

\* plt_copy_items, of one track; pl_item_copy.
CopyItem(t, u) ==
    /\ Call /\ t \in there /\ u \notin there
    /\ Becomes(u, Copied([fields |-> <<>>, cache |-> cache], meta[t]))
    /\ there' = there \cup {u}
    /\ UNCHANGED <<search, leaked>>

\* A track is removed from its lists and loses its last reference:
\* pl_item_free, which gives back the values and not the keys.
FreeItem(t) ==
    /\ Call /\ t \in there
    /\ there' = there \ {t}
    /\ Becomes(t, [fields |-> <<>>,
                   cache  |-> RemoveValues(cache, [n \in DOMAIN meta[t] |-> meta[t][n].value])])
    /\ leaked' = [k \in Keys |-> leaked[k] + (IF k \in KeysOf(meta[t]) THEN 1 ELSE 0)]
    /\ found' = [p \in Lists |-> PartAt(found[p], {n \in DOMAIN found[p] : found[p][n] # t})]
    /\ UNCHANGED <<cmpidx, query, searches>>

---------------------------------------------------------------------------
(* The search.                                                             *)

\* Where the fields are that are searched: they end with the first property
\* but the URI.
Searched(fields) ==
    {n \in DOMAIN fields :
        /\ fields[n].key \notin Unsearched
        /\ \A i \in 1 .. n : fields[i].key \notin Properties \ {URI}}

Matches(s, text) == \E p \in ToSet(s) : <<p, text>> \in InText

\* Seeded fault: a string that was compared is taken for a match.
LookAtUnsigned(acc, s, text, n) ==
    IF acc.hit THEN acc
    ELSE IF acc.cache[s].memo \in {n, -n} THEN [acc EXCEPT !.hit = TRUE]
    ELSE [hit   |-> Matches(s, text),
          cache |-> [acc.cache EXCEPT ![s].memo = IF Matches(s, text) THEN n ELSE -n]]

\* A string that has the number of this search was compared already: its
\* sign says whether it matches.
LookAt(acc, s, text, n) ==
    IF acc.hit THEN acc
    ELSE IF acc.cache[s].memo \in {n, -n} THEN [acc EXCEPT !.hit = acc.cache[s].memo = n]
    ELSE [hit   |-> Matches(s, text),
          cache |-> [acc.cache EXCEPT ![s].memo = IF Matches(s, text) THEN n ELSE -n]]

\* One track: acc has the cache and the tracks found so far.
SearchTrack(acc, t, text, n) ==
    LET seen[i \in 0 .. Len(meta[t])] ==
            IF i = 0 THEN [hit |-> FALSE, cache |-> acc.cache]
            ELSE IF i \in Searched(meta[t]) THEN LookAt(seen[i - 1], meta[t][i].value, text, n)
            ELSE seen[i - 1]
        r == seen[Len(meta[t])]
    IN  [cache |-> r.cache,
         found |-> IF r.hit THEN Append(acc.found, t) ELSE acc.found]

\* The rows of a list from the first on; an empty text finds nothing.
SearchRows(p, text, n) ==
    LET upto[i \in 0 .. Len(Rows[p])] ==
            IF i = 0 THEN [cache |-> cache, found |-> <<>>]
            ELSE IF Rows[p][i] \in there /\ text # Empty
            THEN SearchTrack(upto[i - 1], Rows[p][i], text, n)
            ELSE upto[i - 1]
    IN  upto[Len(Rows[p])]

\* Seeded fault: the number does not start over.
NextIndexUnbounded(p) == cmpidx[p] + 1

NextIndex(p) == IF cmpidx[p] + 1 > INDICES THEN 1 ELSE cmpidx[p] + 1

\* plt_search_process2
Search(p, text) ==
    LET n == NextIndex(p)
        r == SearchRows(p, text, n)
    IN  /\ Call
        /\ cmpidx' = [cmpidx EXCEPT ![p] = n]
        /\ cache' = r.cache
        /\ found' = [found EXCEPT ![p] = r.found]
        /\ query' = [query EXCEPT ![p] = text]
        /\ searches' = [searches EXCEPT ![p] = @ + 1]
        /\ UNCHANGED <<tracks, leaked>>

---------------------------------------------------------------------------
\* What the tracks hold: each field holds its key and its value.
Positions == UNION {{t} \X DOMAIN meta[t] : t \in Tracks}
Holders(s) ==
    Cardinality({x \in Positions : <<meta[x[1]][x[2]].key>> = s})
    + Cardinality({x \in Positions : meta[x[1]][x[2]].value = s})

Held == UNION {{<<meta[x[1]][x[2]].key>>, meta[x[1]][x[2]].value} : x \in Positions}

Init ==
    /\ there = Loaded
    /\ meta = [t \in Tracks |-> IF t \in Loaded THEN Fresh(t, <<>>, TRUE).fields ELSE <<>>]
    /\ cache = [s \in Held |-> [refs |-> Holders(s), memo |-> 0]]
    /\ cmpidx = [p \in Lists |-> 0]
    /\ found = [p \in Lists |-> <<>>]
    /\ query = [p \in Lists |-> Empty]
    /\ searches = [p \in Lists |-> 0]
    /\ leaked = [k \in Keys |-> 0]
    /\ budget = BUDGET

Next ==
    \/ \E t \in Tracks, k \in SettableKeys, v \in Values : AddMeta(t, k, v) \/ AppendMeta(t, k, v)
    \/ \E t \in Tracks, k \in SettableKeys, p \in Parts : ReplaceMeta(t, k, p)
    \/ \E t \in Tracks, k \in SettableKeys : DeleteMeta(t, k)
    \/ \E t \in Tracks : DeleteAllMeta(t) \/ FreeItem(t)
    \/ \E t \in Tracks, decoded \in BOOLEAN : AddFile(t, decoded)
    \/ \E t, u \in Tracks : CopyJunk(t, u) \/ CopyItem(t, u)
    \/ \E p \in Lists, text \in Texts : Search(p, text)

Spec == Init /\ [][Next]_vars

---------------------------------------------------------------------------
(* Properties.                                                             *)

Part == Parts \cup {Uri[t] : t \in Tracks} \cup {Decoder[1]}

TypeOK ==
    /\ there \subseteq Tracks
    /\ meta \in [Tracks -> Seq([key : Keys, value : Seq(Part) \ {<<>>}])]
    /\ \A t \in Tracks \ there : meta[t] = <<>>
    /\ \A s \in DOMAIN cache :
          cache[s] \in [refs : Nat \ {0}, memo : -INDICES .. INDICES]
    /\ cmpidx \in [Lists -> 0 .. INDICES]
    /\ found \in [Lists -> Seq(Tracks)]
    /\ \A p \in Lists : ToSet(found[p]) \subseteq ToSet(Rows[p]) \cap there
    /\ query \in [Lists -> Texts]
    /\ searches \in [Lists -> Nat]
    /\ leaked \in [Keys -> Nat]
    /\ budget \in 0 .. BUDGET

\* A string of the cache has one reference for each field that has it as key
\* or value, and one for each key that a freed track has left behind: one too
\* few and a track's text is freed under it (metacache_remove_value).
StringsReferenced ==
    \A s \in Held \cup DOMAIN cache :
        Refs(cache, s) = Holders(s) + (IF \E k \in Keys : s = <<k>> THEN leaked[s[1]] ELSE 0)

\* A track has a key once, and its tags come before its properties, in
\* whatever order they were added, deleted and copied: the search and
\* pl_meta_for_cached_key stop at the first property.
TagsFirst ==
    \A t \in Tracks : \A m, n \in DOMAIN meta[t] :
        m < n => /\ meta[t][m].key # meta[t][n].key
                 /\ meta[t][n].key \in Fields => meta[t][m].key \in Fields

\* What a search is for: the tracks one of whose tags, or whose file name,
\* contains the text.
Asked(p) ==
    LET hit(t) == \E f \in ToSet(meta[t]) :
                      /\ f.key \in (Fields \ Unsearched) \cup {URI}
                      /\ Matches(f.value, query'[p])
    IN  IF query'[p] = Empty THEN <<>>
        ELSE PartAt(Rows[p], {n \in DOMAIN Rows[p] : Rows[p][n] \in there /\ hit(Rows[p][n])})

\* A search finds what it is for, each track once and in order, although most
\* strings are compared once for all tracks that have them, as long as its
\* number is not taken twice: no other list was searched as often, nor this
\* one more often than there are numbers.
SearchFinds ==
    [][\A p \in Lists :
          /\ searches'[p] # searches[p]
          /\ searches'[p] <= INDICES
          /\ \A q \in Lists \ {p} : searches[q] < searches'[p]
          => found'[p] = Asked(p)]_vars

=============================================================================
