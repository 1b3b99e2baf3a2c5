----------------------------- MODULE Selection -----------------------------
(***************************************************************************)
(* Which track is heard next: the streamer's choice of the next, previous  *)
(* or random track or album (streamer.c), the shuffle order kept in the    *)
(* tracks (playlist.c), the play queue (playqueue.c), and what becomes of  *)
(* a choice already made when the user deletes tracks, queues tracks or    *)
(* changes the modes.                                                      *)
(*                                                                         *)
(* A step is the handling of one request, one mode change, one end of a    *)
(* stream, or one track change met by the output thread.  The buffers are  *)
(* reduced to `ahead', the tracks that were streamed but not yet heard;    *)
(* module Streamer has their contents, failing tracks, pauses and seeks.   *)
(* There is one playlist, which is also the current one.                   *)
(***************************************************************************)
EXTENDS Integers, Sequences, FiniteSets, FiniteSetsExt, SequencesExt

CONSTANTS TRACKS,       \* the tracks are 1 .. TRACKS, in playlist order
          Album,        \* the album of each track; NoAlbum if it has no such tags
          ShuffleModes, \* shuffle settings the user may choose
          RepeatModes,  \* repeat settings the user may choose
          AHEAD,        \* how many tracks the buffers hold unheard
          PLAYQUEUE_SIZE, \* tracks the play queue holds (100)
          UserActs,     \* what the user may do, see User
          RESET,        \* playlist.stop_after_*_reset
          BUDGET        \* how many actions the user takes

NoTrack == 0
NoAlbum == 0
Track == 1 .. TRACKS

ASSUME SelectionAssumption ==
    /\ {TRACKS, AHEAD, PLAYQUEUE_SIZE} \subseteq Nat \ {0}
    /\ Album \in [Track -> Nat]
    /\ ShuffleModes \subseteq {"off", "tracks", "albums", "random"}
    /\ RepeatModes \subseteq {"off", "all", "single"}
    /\ ShuffleModes # {} /\ RepeatModes # {}
    /\ RESET \in BOOLEAN
    /\ BUDGET \in Nat

VARIABLES
    list,               \* the tracks that are in the playlist
    order,              \* shufflerating and played of the tracks in it
    queue,              \* the play queue
    modes,              \* shuffle and repeat, as the streamer thread knows them
    conf,               \* shuffle and repeat, as the user has set them
    stop_after,         \* stop after the queue, after the album
    streaming_track,    \* what the streamer is decoding
    playing_track,      \* what the player says is playing
    last_played,        \* origin of the next/previous commands
    buffering_track,    \* a track played by request, until it is buffered
    next_track_to_play, \* the fallback when streaming_track was deleted
    prev_track_to_play, \* likewise, for the previous command
    ahead,              \* tracks streamed and not heard yet, in order
    output,             \* state of the output plugin
    removing,           \* the track being deleted, still linked
    deleted,            \* the streamer is going to be told of a deletion
    handled,            \* requests were handled since the modes were looked at
    fate,               \* the streamer thread runs, spins for ever or died
    budget              \* user actions left

choice == <<next_track_to_play, prev_track_to_play>>
origin == <<last_played, buffering_track>>
stream == <<streaming_track, playing_track, ahead, output>>
edits  == <<list, removing, deleted>>
user   == <<conf, stop_after, budget>>
vars   == <<choice, origin, stream, edits, user, order, queue, modes, handled, fate>>

-----------------------------------------------------------------------------
(* The playlist, in order, and the shuffle order.                          *)

First(S)  == IF S = {} THEN NoTrack ELSE Min(S)
Last1(S)  == IF S = {} THEN NoTrack ELSE Max(S)
After(t)  == First({u \in list : u > t})
Before(t) == Last1({u \in list : u < t})

(* pl_items_from_same_album compares the cached tags: two tracks without   *)
(* tags are of one album.                                                  *)
Same(t, u) == Album[t] = Album[u]

(* From t on, as long as the album is the same; and the first of the run   *)
(* of tracks of one album that t is in.                                    *)
RunFrom(t)  == {u \in list : u >= t /\ \A v \in list : v \in t .. u => Same(v, t)}
RunStart(t) == First({u \in list : u <= t /\ t \in RunFrom(u)})

(* The lowest or highest rating; among equals the first in the playlist.   *)
Minimal(o, S) == CHOOSE t \in S : \A u \in S :
    o.rating[t] < o.rating[u] \/ (o.rating[t] = o.rating[u] /\ t <= u)
Maximal(o, S) == CHOOSE t \in S : \A u \in S :
    o.rating[t] > o.rating[u] \/ (o.rating[t] = o.rating[u] /\ t <= u)

MinimalOrNone(o, S) == IF S = {} THEN NoTrack ELSE Minimal(o, S)
MaximalOrNone(o, S) == IF S = {} THEN NoTrack ELSE Maximal(o, S)

NotPlayed(o) == list \ o.played

(* Ratings are even ranks: the code draws them with rand() and two draws   *)
(* are taken to differ.  Odd ranks are left for tracks inserted later.     *)
(* Outside shuffle nobody reads them before pl_reshuffle_all draws new     *)
(* ones, so there they are not drawn.  Gone is for tracks not in the list. *)
Gone == 0
Manual == -1

Rankings == [groups \in SUBSET Track |->
                {f \in [groups -> {2 * i : i \in 1 .. Cardinality(groups)}] :
                    IsInjective(f)}]

Draw(groups) ==
    IF {modes.shuffle, conf.shuffle} \cap {"tracks", "albums"} = {}
    THEN {[g \in groups |-> 2 * Cardinality({h \in groups : h <= g})]}
    ELSE Rankings[groups]

(* plt_reshuffle: new ratings, the same for a run of tracks of one album   *)
(* when the user's setting is to shuffle albums; nothing is played.        *)
Reshuffled ==
    LET group(t) == IF conf.shuffle = "albums" THEN RunStart(t) ELSE t
    IN {[rating |-> [t \in Track |-> IF t \in list THEN f[group(t)] ELSE Gone],
         played |-> {}] : f \in Draw({group(t) : t \in list})}

Mark(o, S)   == [o EXCEPT !.played = @ \cup (S \cap list)]
Unmark(o, S) == [o EXCEPT !.played = @ \ S]

(* streamer_configchanged, which follows each change of a setting, counts   *)
(* the playing track as played.                                            *)
MarkPlaying(o) == Mark(o, {playing_track})

(* _streamer_mark_album_played_up_to, which takes tracks without an album  *)
(* or artist tag for tracks of different albums.                           *)
MarkAlbumUpTo(o, t) ==
    Mark(o, {t} \cup {u \in list : Album[t] # NoAlbum /\ u <= t /\ t \in RunFrom(u)})

(* _rebuild_shuffle_albums_after_manual_trigger                            *)
Rebuilt(t) ==
    {IF conf.shuffle = "albums" THEN MarkAlbumUpTo(o, t)
                                ELSE [o EXCEPT !.rating[t] = Manual] : o \in Reshuffled}

-----------------------------------------------------------------------------
(* The choice of a track.  A choice also changes the shuffle order, so the *)
(* operators return the set of possible pairs of a track and an order.     *)
(* `m' has the modes, the fallback tracks and streaming_track to use.      *)

Pick(t, o) == [track |-> t, order |-> o]

Spinning == -1
Crash    == -2

Context == [shuffle |-> modes.shuffle, repeat |-> modes.repeat,
            next |-> next_track_to_play, prev |-> prev_track_to_play,
            streaming |-> streaming_track]

Shuffled(m) == m.shuffle \in {"tracks", "albums"}
InList(t)   == IF t \in list THEN t ELSE NoTrack

(* get_random_track: any but the streaming one, if there is another; or    *)
(* none, when rand() gives RAND_MAX and with it an index beyond the list.  *)
RandomTracks(m) ==
    LET others == list \ {m.streaming}
    IN {NoTrack} \cup IF others = {} THEN list ELSE others

NotAgain(t, curr) ==
    CASE t # curr             -> t
      [] t = curr /\ After(t) # NoTrack -> After(t)
      [] OTHER                -> First(list)

(* Seeded fault: the rating of the current track is passed by.             *)
NextShuffledAbove(curr, o, m) ==
    LET left == {t \in NotPlayed(o) : curr = NoTrack \/ o.rating[t] > o.rating[curr]}
    IN {Pick(MinimalOrNone(o, left), o)}

(* Seeded fault: the playlist starts over without being shuffled again.    *)
NextShuffledAgain(curr, o, m) ==
    LET left == NotPlayed(o)
    IN CASE left # {} -> {Pick(NotAgain(Minimal(o, left), curr), o)}
         [] left = {} /\ m.repeat = "all" -> {Pick(NotAgain(Minimal(o, list), curr), o)}
         [] OTHER -> {Pick(NoTrack, o)}

(* The unplayed track with the lowest rating; with albums shuffled, of     *)
(* those rated no lower than the current track.  When there is none the    *)
(* playlist is shuffled again.                                             *)
NextShuffled(curr, o, m) ==
    LET whole == curr = NoTrack \/ m.shuffle = "tracks"
        left  == {t \in NotPlayed(o) : whole \/ o.rating[t] >= o.rating[curr]}
    IN CASE left # {} -> {Pick(NotAgain(Minimal(o, left), curr), o)}
         [] left = {} /\ m.repeat = "all" ->
              {Pick(NotAgain(Minimal(r, list), curr), r) : r \in Reshuffled}
         [] left = {} /\ m.repeat # "all" /\ whole -> {Pick(NoTrack, o)}
         [] OTHER -> {Pick(NoTrack, r) : r \in Reshuffled}

(* Seeded fault: the end of the playlist leads to its start in any mode.   *)
NextLinearWraps(curr, o, m) ==
    {Pick(IF curr = NoTrack \/ After(curr) = NoTrack THEN First(list)
                                                     ELSE After(curr), o)}

NextLinear(curr, o, m) ==
    LET succ == IF curr = NoTrack THEN First(list) ELSE After(curr)
    IN {Pick(IF succ = NoTrack /\ m.repeat = "all" THEN First(list) ELSE succ, o)}

(* get_next_track: the fallback, then the play queue, then the playlist.   *)
NextTrack(curr, o, m) ==
    CASE m.next # NoTrack -> {Pick(m.next, o)}
      [] m.next = NoTrack /\ queue # << >> -> {Pick(Head(queue), o)}
      [] m.next = NoTrack /\ queue = << >> /\ list = {} -> {Pick(NoTrack, o)}
      [] OTHER -> CASE Shuffled(m)           -> NextShuffled(InList(curr), o, m)
                    [] m.shuffle = "off"     -> NextLinear(InList(curr), o, m)
                    [] m.shuffle = "random"  -> {Pick(t, o) : t \in RandomTracks(m)}

(* The last of the played tracks that follow t with the same rating.       *)
LastPlayedOfRun(o, t) ==
    Max({u \in list : u >= t /\ \A v \in list : v \in t + 1 .. u =>
                        v \in o.played /\ o.rating[v] = o.rating[t]})

PrevShuffled(curr, before, m) ==
    LET o     == Unmark(before, {curr})
        heard == (list \cap o.played) \ {curr}
        below == {t \in heard : o.rating[t] <= o.rating[curr]}
    IN CASE below # {} ->
              {Pick(IF m.shuffle = "albums" THEN LastPlayedOfRun(o, Maximal(o, below))
                                            ELSE Maximal(o, below), o)}
         [] below = {} /\ m.repeat # "all" -> {Pick(NoTrack, o)}
         [] below = {} /\ m.repeat = "all" /\ heard # {} -> {Pick(Maximal(o, heard), o)}
         [] OTHER -> {Pick(Maximal(r, list), r) : r \in Reshuffled}

(* get_prev_track                                                          *)
PrevTrack(origin1, o, m) ==
    LET curr == InList(origin1) IN
    CASE m.prev # NoTrack -> {Pick(m.prev, o)}
      [] m.prev = NoTrack /\ list = {} -> {Pick(NoTrack, o)}
      [] OTHER ->
           CASE Shuffled(m) /\ curr = NoTrack -> {Pick(First(list), o)}
             [] Shuffled(m) /\ curr # NoTrack -> PrevShuffled(curr, o, m)
             [] m.shuffle = "off" ->
                  {Pick(IF curr = NoTrack THEN Last1(list) ELSE Before(curr), o)}
             [] m.shuffle = "random" -> {Pick(t, o) : t \in RandomTracks(m)}

Origin == IF buffering_track # NoTrack THEN buffering_track ELSE last_played

(* Nothing found: without repeat a shuffled playlist starts over, at its   *)
(* first track, or at its last one with all the others counted as played.  *)
StartOver(p, dir) ==
    IF p.track = NoTrack /\ list # {} /\ Shuffled(modes) /\ modes.repeat = "off"
    THEN IF dir = "next"
         THEN {Pick(Minimal(r, list), r) : r \in Reshuffled}
         ELSE {Pick(Maximal(r, list), Mark(r, list \ {Maximal(r, list)})) :
                 r \in Reshuffled}
    ELSE {p}

(* streamer_get_next_track_with_direction                                  *)
TrackWithDirection(dir) ==
    CASE dir = "next"   -> UNION {StartOver(p, dir) : p \in NextTrack(Origin, order, Context)}
      [] dir = "prev"   -> UNION {StartOver(p, dir) : p \in PrevTrack(Origin, order, Context)}
      [] dir = "random" -> {Pick(t, order) : t \in RandomTracks(Context)}

(* get_next_album.  The loop over the play queue does not take anything    *)
(* off it, so a queued track of the current album keeps it going for ever, *)
(* with the playlist mutex held.                                           *)
NextAlbum(from) ==
    LET curr    == InList(from)
        run     == IF curr = NoTrack THEN {} ELSE RunFrom(curr)
        o       == Mark(order, run)
        beyond  == First({t \in list : \A u \in run : t > u})
        left    == {t \in NotPlayed(o) : curr = NoTrack \/ o.rating[t] > o.rating[curr]}
    IN CASE modes.shuffle \in {"tracks", "random"} -> NextTrack(from, order, Context)
         [] OTHER ->
    CASE next_track_to_play # NoTrack /\ ~ Same(next_track_to_play, from) ->
           {Pick(next_track_to_play, order)}
      [] OTHER ->
    CASE queue # << >> -> {Pick(IF Same(Head(queue), from) THEN Spinning
                                                           ELSE Head(queue), order)}
      [] queue = << >> /\ list = {} -> {Pick(NoTrack, order)}
      [] OTHER ->
    CASE modes.shuffle = "off" ->
           {Pick(IF beyond = NoTrack /\ modes.repeat = "all" THEN First(list)
                                                             ELSE beyond, o)}
      [] modes.shuffle = "albums" /\ left = {} /\ modes.repeat = "all" ->
           {Pick(Minimal(r, list), r) : r \in Reshuffled}
      [] OTHER -> {Pick(MinimalOrNone(o, left), o)}

(* get_prev_album.  With shuffle off it looks for the track before one     *)
(* that may have been deleted.                                             *)
PrevAlbum(from) ==
    LET curr  == InList(from)
        heard == list \cap order.played
        lower == {t \in heard : order.rating[t] < order.rating[curr]}
        back  == IF Before(curr) = NoTrack THEN Last1(list) ELSE Before(curr)
        found == CASE modes.shuffle = "off" -> RunStart(back)
                   [] modes.shuffle = "albums" /\ curr = NoTrack -> MaximalOrNone(order, heard)
                   [] modes.shuffle = "albums" /\ curr # NoTrack /\ RunStart(curr) # curr ->
                        RunStart(curr)
                   [] OTHER -> MaximalOrNone(order, lower)
    IN CASE modes.shuffle \in {"tracks", "random"} -> PrevTrack(from, order, Context)
         [] modes.shuffle \in {"off", "albums"} /\ list = {} -> {Pick(NoTrack, order)}
         [] modes.shuffle = "off" /\ list # {} /\ curr = NoTrack -> {Pick(Crash, order)}
         [] OTHER -> {Pick(found, Unmark(order, UNION {RunFrom(t) : t \in {curr, found} \cap list}))}

(* streamer_get_next_album_with_direction.  get_random_album has the same  *)
(* edge as get_random_track: it then takes a reference to what an          *)
(* uninitialised place of its buffer points to, which is taken to crash.   *)
AlbumWithDirection(dir) ==
    CASE dir = "random" /\ list = {} -> {Pick(NoTrack, order)}
      [] dir = "random" /\ list # {} ->
           {Pick(a, order) : a \in {RunStart(t) : t \in list} \cup {Crash}}
      [] dir # "random" /\ Origin = NoTrack -> TrackWithDirection(dir)
      [] dir = "next" /\ Origin # NoTrack -> NextAlbum(Origin)
      [] dir = "prev" /\ Origin # NoTrack -> PrevAlbum(Origin)

-----------------------------------------------------------------------------
Init ==
    /\ list = Track
    /\ conf \in [shuffle : ShuffleModes, repeat : RepeatModes]
    /\ modes = conf
    /\ order \in Reshuffled
    /\ queue = << >>
    /\ stop_after = {}
    /\ streaming_track = NoTrack
    /\ playing_track = NoTrack
    /\ last_played = NoTrack
    /\ buffering_track = NoTrack
    /\ next_track_to_play = NoTrack
    /\ prev_track_to_play = NoTrack
    /\ ahead = << >>
    /\ output = "stopped"
    /\ removing = NoTrack
    /\ deleted = FALSE
    /\ handled = FALSE
    /\ fate = "running"
    /\ budget = BUDGET

(* The streamer thread works; a spinning one also holds the playlist mutex *)
(* that every edit of the playlist and of the queue takes.                 *)
Running == fate = "running"

Acts(act) == /\ Running
             /\ act \in UserActs
             /\ budget > 0
             /\ budget' = budget - 1

(* A request to the streamer thread, which takes all that are waiting      *)
(* before it looks at the modes and goes on streaming.                     *)
Requests(act) == Acts(act) /\ handled' = TRUE

Streaming == Running /\ ~ handled /\ UNCHANGED handled

(* Seeded fault: the last queued track stays in the queue.                 *)
PoppedAllButLast(q, t) == IF Len(q) > 1 /\ Head(q) = t THEN Tail(q) ELSE q

(* playqueue_pop when the head of the queue starts to play.                *)
Popped(q, t) == IF q # << >> /\ Head(q) = t THEN Tail(q) ELSE q

(* _play_track: everything streamed so far is dropped and the track starts *)
(* at once.                                                                *)
PlayTrack(t, o, q) ==
    /\ output' = "playing"
    /\ ahead' = << >>
    /\ streaming_track' = t
    /\ playing_track' = t
    /\ last_played' = t
    /\ buffering_track' = t
    /\ next_track_to_play' = NoTrack
    /\ prev_track_to_play' = NoTrack
    /\ order' = Mark(o, {t})
    /\ queue' = Popped(q, t)

(* The output stops, streamer_reset, _handle_playback_stopped.             *)
StopPlayback ==
    /\ output' = "stopped"
    /\ ahead' = << >>
    /\ playing_track' = NoTrack
    /\ buffering_track' = IF playing_track = NoTrack THEN buffering_track ELSE NoTrack

(* play_index                                                              *)
PlayIndex(t) ==
    /\ Requests("play")
    /\ t \in list
    /\ \E o \in Rebuilt(t) : PlayTrack(t, o, << >>)
    /\ UNCHANGED <<edits, conf, modes, stop_after, fate>>

(* play_index with a negative index, or with one that the playlist does    *)
(* not have (any more).                                                    *)
Stop ==
    /\ Requests("stop")
    /\ \/ order' \in Reshuffled /\ last_played' = NoTrack
       \/ UNCHANGED <<order, last_played>>
    /\ queue' = << >>
    /\ streaming_track' = NoTrack
    /\ StopPlayback
    /\ UNCHANGED <<choice, edits, conf, modes, stop_after, fate>>

(* play_current, when nothing is paused: the track under the cursor.       *)
PlayCurrent(t) ==
    /\ Requests("current")
    /\ t \in list
    /\ PlayTrack(t, order, queue)
    /\ UNCHANGED <<edits, conf, modes, stop_after, fate>>

(* The common part of play_next and play_next_album: nothing was found, or *)
(* a track is played; a random one starts a new shuffle order.             *)
Go(p, dir) ==
    CASE p.track = NoTrack ->
           /\ StopPlayback
           /\ last_played' = NoTrack
           /\ order' = p.order
           /\ UNCHANGED <<choice, streaming_track, queue, fate>>
      [] p.track \in {Spinning, Crash} ->
           /\ fate' = IF p.track = Spinning THEN "spinning" ELSE "crashed"
           /\ UNCHANGED <<choice, origin, stream, order, queue>>
      [] p.track \in Track ->
           /\ \E o \in IF dir = "random" THEN Rebuilt(p.track) ELSE {p.order} :
                 PlayTrack(p.track, o, queue)
           /\ UNCHANGED fate

PlayNext(dir) ==
    /\ Requests(dir)
    /\ \E p \in TrackWithDirection(dir) : Go(p, dir)
    /\ UNCHANGED <<edits, conf, modes, stop_after>>

PlayNextAlbum(dir) ==
    /\ Requests(dir \o " album")
    /\ \E p \in AlbumWithDirection(dir) : Go(p, dir)
    /\ UNCHANGED <<edits, conf, modes, stop_after>>

-----------------------------------------------------------------------------
(* stream_track *)
Stream(t, o, before) ==
    /\ streaming_track' = t
    /\ order' = IF t = NoTrack THEN o ELSE Mark(o, {t})
    /\ ahead' = IF t = NoTrack THEN before ELSE Append(before, t)

(* streamer_next.  A track that get_next_track did not find is asked for   *)
(* once more.                                                              *)
StreamNext(p, m, before) ==
    LET t == IF playing_track # NoTrack /\ m.repeat = "single"
             THEN playing_track ELSE p.track
    IN IF t # NoTrack
       THEN Stream(t, p.order, before)
       ELSE \E q \in NextTrack(m.streaming, p.order, m) : Stream(q.track, q.order, before)

(* The stop options reset themselves when they have stopped the stream.    *)
OptionsReset(options) == stop_after' = IF RESET THEN stop_after \ options ELSE stop_after

StopStreaming(o, options) ==
    /\ Stream(NoTrack, IF RESET THEN MarkPlaying(o) ELSE o, ahead)
    /\ OptionsReset(options)

(* Seeded fault: the option waits for a queue of one track.                *)
StopAfterQueueOffByOne == "queue" \in stop_after /\ Len(queue) = 1

StopAfterQueue == "queue" \in stop_after /\ queue = << >>

StopAfterAlbum(next) == /\ "album" \in stop_after
                        /\ next = NoTrack \/ ~ Same(streaming_track, next)

(* The last block of the streaming track was read: streaming stops or goes *)
(* on with the next track.                                                 *)
EndOfStream ==
    /\ Streaming
    /\ output = "playing"
    /\ streaming_track # NoTrack
    /\ Len(ahead) < AHEAD
    /\ IF StopAfterQueue
       THEN StopStreaming(order, {"queue"})
       ELSE \E p \in NextTrack(streaming_track, order, Context) :
              IF StopAfterAlbum(p.track)
              THEN StopStreaming(p.order, {"album"})
              ELSE StreamNext(p, Context, ahead) /\ UNCHANGED stop_after
    /\ UNCHANGED <<choice, origin, playing_track, output, edits, conf, budget,
                   queue, modes, fate>>

(* The output thread reaches the first block of the next track             *)
(* (handle_track_change, streamer_start_playback).                         *)
Announce ==
    /\ Running
    /\ output = "playing"
    /\ ahead # << >>
    /\ playing_track' = Head(ahead)
    /\ last_played' = Head(ahead)
    /\ queue' = Popped(queue, Head(ahead))
    /\ ahead' = Tail(ahead)
    /\ UNCHANGED <<choice, buffering_track, streaming_track, output, edits,
                   user, order, modes, fate, handled>>

(* Enough of a track played by request was streamed.                       *)
Buffered ==
    /\ Streaming
    /\ output = "playing"
    /\ buffering_track # NoTrack
    /\ buffering_track' = NoTrack
    /\ UNCHANGED <<choice, last_played, stream, edits, user, order, queue, modes, fate>>

(* All that was streamed has been heard, the output has starved.           *)
PlaybackEnd ==
    /\ Streaming
    /\ output = "playing"
    /\ streaming_track = NoTrack
    /\ ahead = << >>
    /\ StopPlayback
    /\ UNCHANGED <<choice, last_played, streaming_track, edits, user, order,
                   queue, modes, fate>>

-----------------------------------------------------------------------------
(* streamreader_flush_after: the playing track's own blocks at the front.  *)
Kept ==
    LET k == CHOOSE k \in 0 .. Len(ahead) :
               /\ \A i \in 1 .. k : ahead[i] = playing_track
               /\ k < Len(ahead) => ahead[k + 1] # playing_track
    IN SubSeq(ahead, 1, k)

(* Seeded fault: a track that is streamed ahead stays, deleted or not.      *)
RequeueNothing(o, m) == order' = o /\ UNCHANGED <<streaming_track, ahead>>

(* _streamer_requeue_after_current: forget what was streamed after the     *)
(* playing track and choose again.  When the streamer is decoding the same *)
(* track once more the rest of it is all that is left.                     *)
Requeue(o, m) ==
    CASE playing_track = NoTrack ->
           order' = o /\ UNCHANGED <<streaming_track, ahead>>
      [] playing_track # NoTrack /\ playing_track = streaming_track ->
           /\ order' = o
           /\ ahead' = IF Kept = ahead THEN ahead ELSE Append(Kept, streaming_track)
           /\ UNCHANGED streaming_track
      [] OTHER ->
           LET now == [m EXCEPT !.streaming = playing_track]
           IN  StreamNext(Pick(NoTrack, o), now, Kept)

(* The streamer's loop, once it has taken all requests: the user may have  *)
(* changed the modes.  The new order may be made before or after           *)
(* streamer_configchanged.                                                 *)
ApplyModes ==
    /\ Running
    /\ modes # conf \/ handled
    /\ handled' = FALSE
    /\ modes' = conf
    /\ LET m == [Context EXCEPT !.shuffle = conf.shuffle, !.repeat = conf.repeat]
           albums == conf.shuffle = "albums" /\ playing_track # NoTrack
       IN CASE modes = conf -> UNCHANGED <<order, streaming_track, ahead>>
            [] modes # conf /\ modes.shuffle = conf.shuffle -> Requeue(order, m)
            [] OTHER -> \E r \in Reshuffled : \E o \in {r, MarkPlaying(r)} :
                 Requeue(IF albums THEN MarkAlbumUpTo(o, playing_track) ELSE o, m)
    /\ UNCHANGED <<choice, origin, playing_track, output, edits, user, queue, fate>>

(* STR_EV_TRACK_DELETED, which main.c sends for every change of content.   *)
TrackDeleted ==
    /\ Running
    /\ deleted
    /\ deleted' = FALSE
    /\ handled' = TRUE
    /\ IF streaming_track \in {NoTrack, playing_track} \cup list
       THEN UNCHANGED <<streaming_track, order, ahead>>
       ELSE Requeue(order, Context)
    /\ UNCHANGED <<choice, origin, playing_track, output, list, removing, user,
                   queue, modes, fate>>

-----------------------------------------------------------------------------
(* The user interface changes the settings, the queue and the playlist.    *)

SetModes ==
    /\ \/ Acts("shuffle") /\ \E s \in ShuffleModes : conf' = [conf EXCEPT !.shuffle = s]
       \/ Acts("repeat")  /\ \E r \in RepeatModes  : conf' = [conf EXCEPT !.repeat = r]
    /\ conf' # conf
    /\ order' = MarkPlaying(order)
    /\ UNCHANGED <<choice, origin, stream, edits, stop_after, queue, modes, fate, handled>>

SetStopAfter(option) ==
    /\ Acts("stop after")
    /\ stop_after' = stop_after \cup {option}
    /\ order' = MarkPlaying(order)
    /\ UNCHANGED <<choice, origin, stream, edits, conf, queue, modes, fate, handled>>

(* Seeded fault: a full queue is filled further.                           *)
QueueHasRoomOffByOne == Len(queue) <= PLAYQUEUE_SIZE

QueueHasRoom == Len(queue) < PLAYQUEUE_SIZE

(* playqueue_push and playqueue_insert_at, which add nothing to a full     *)
(* queue; playqueue_remove_nth; playqueue_clear.                           *)
SetQueue ==
    /\ Acts("queue")
    /\ removing = NoTrack
    /\ \/ /\ QueueHasRoom
          /\ \E t \in list, n \in 0 .. Len(queue) : queue' = InsertAt(queue, n + 1, t)
       \/ \E n \in DOMAIN queue : queue' = RemoveAt(queue, n)
       \/ queue' = << >>
    /\ UNCHANGED <<choice, origin, stream, edits, conf, stop_after, order, modes, fate, handled>>

(* playqueue_remove: the others move up.  (SelectSeq, written so that it   *)
(* can be reasoned about.)                                                 *)
Without(q, t) ==
    LET kept   == {n \in DOMAIN q : q[n] # t}
        nth(i) == CHOOSE n \in kept : Cardinality(kept \cap 1 .. n) = i
    IN [i \in 1 .. Cardinality(kept) |-> q[nth(i)]]

(* Seeded fault: the fallback is computed only for the streaming track.    *)
RemoveKeepsFallback(t) ==
    /\ Acts("delete")
    /\ removing = NoTrack
    /\ t \in list
    /\ removing' = t
    /\ queue' = Without(queue, t)
    /\ LET m == [shuffle |-> conf.shuffle, repeat |-> conf.repeat, next |-> NoTrack,
                 prev |-> prev_track_to_play, streaming |-> streaming_track]
           other(u) == IF u = t THEN NoTrack ELSE u
       IN IF t = streaming_track
          THEN \E n \in NextTrack(t, order, m) : \E p \in PrevTrack(t, n.order, m) :
                 /\ next_track_to_play' = other(n.track)
                 /\ prev_track_to_play' = other(p.track)
                 /\ order' = p.order
          ELSE UNCHANGED <<choice, order>>
    /\ UNCHANGED <<origin, stream, list, deleted, conf, stop_after, modes, fate, handled>>

(* plt_remove_item, before the playlist mutex is taken:                    *)
(* streamer_song_removed_notify chooses the fallback tracks, under the     *)
(* user's settings, and playqueue_remove takes the track off the queue.    *)
(* plt_clear, which empties the list before it does the same for every     *)
(* track of it, is not modelled.                                           *)
RemoveItem(t) ==
    /\ Acts("delete")
    /\ removing = NoTrack
    /\ t \in list
    /\ removing' = t
    /\ queue' = Without(queue, t)
    /\ LET m == [shuffle |-> conf.shuffle, repeat |-> conf.repeat, next |-> NoTrack,
                 prev |-> prev_track_to_play, streaming |-> streaming_track]
           other(u) == IF u = t THEN NoTrack ELSE u
       IN IF t \in {streaming_track, next_track_to_play}
          THEN \E n \in NextTrack(t, order, m) : \E p \in PrevTrack(t, n.order, m) :
                 /\ next_track_to_play' = other(n.track)
                 /\ prev_track_to_play' = other(p.track)
                 /\ order' = p.order
          ELSE UNCHANGED <<choice, order>>
    /\ UNCHANGED <<origin, stream, list, deleted, conf, stop_after, modes, fate, handled>>

(* plt_remove_item, with the mutex: the track is unlinked; the user        *)
(* interface then sends the change of content.                             *)
Unlink ==
    /\ Running
    /\ removing # NoTrack
    /\ list' = list \ {removing}
    /\ order' = [Unmark(order, {removing}) EXCEPT !.rating[removing] = Gone]
    /\ removing' = NoTrack
    /\ deleted' = TRUE
    /\ UNCHANGED <<choice, origin, stream, user, queue, modes, fate, handled>>

(* A deleted track is put back (plt_insert_item from an undo).             *)
Insert(t) ==
    /\ Acts("insert")
    /\ removing = NoTrack
    /\ t \notin list
    /\ list' = list \cup {t}
    /\ LET p == Before(t)
           drawn == {2 * i - 1 : i \in 1 .. TRACKS + 1} \ {order.rating[u] : u \in list}
       IN \E r \in IF conf.shuffle = "albums" /\ p # NoTrack /\ Same(p, t)
                   THEN {order.rating[p]} ELSE drawn :
            order' = [Unmark(order, {t}) EXCEPT !.rating[t] = r]
    /\ deleted' = TRUE
    /\ UNCHANGED <<choice, origin, stream, removing, conf, stop_after, queue, modes, fate, handled>>

User ==
    \/ \E t \in Track : PlayIndex(t) \/ PlayCurrent(t) \/ RemoveItem(t) \/ Insert(t)
    \/ Stop
    \/ \E dir \in {"next", "prev", "random"} : PlayNext(dir) \/ PlayNextAlbum(dir)
    \/ SetModes
    \/ \E option \in {"queue", "album"} : SetStopAfter(option)
    \/ SetQueue

(* What is decoded is heard, and the next track is decoded.                *)
Playback == EndOfStream \/ Announce \/ PlaybackEnd

(* What the streamer's loop does before it decodes the next block.         *)
Loop == ApplyModes \/ TrackDeleted \/ Buffered

System == Playback \/ Loop \/ Unlink

Next == User \/ System

Spec == Init /\ [][Next]_vars

(* The threads go on working; nobody has to use the player.  The streamer  *)
(* gets to the head of its loop after every block, so Playback does not    *)
(* keep Loop from being done.                                              *)
Fairness == WF_vars(Playback) /\ WF_vars(Loop) /\ WF_vars(Unlink)

LiveSpec == Spec /\ Fairness

-----------------------------------------------------------------------------
TypeOK ==
    /\ list \subseteq Track
    /\ order.rating \in [Track -> {Gone, Manual} \cup 1 .. 2 * TRACKS + 1]
    /\ order.played \subseteq list
    /\ queue \in Seq(list) /\ Len(queue) <= PLAYQUEUE_SIZE
    /\ {modes, conf} \subseteq [shuffle : ShuffleModes, repeat : RepeatModes]
    /\ stop_after \subseteq {"queue", "album"}
    /\ {streaming_track, playing_track, last_played, buffering_track,
        next_track_to_play, prev_track_to_play, removing} \subseteq Track \cup {NoTrack}
    /\ ahead \in Seq(Track) /\ Len(ahead) <= AHEAD + 1
    /\ output \in {"playing", "stopped"}
    /\ {deleted, handled} \subseteq BOOLEAN
    /\ fate \in {"running", "spinning", "crashed"}

(* The fallback for the next track is itself in the playlist, whatever is  *)
(* deleted after it was chosen (streamer_song_removed_notify looks at      *)
(* next_track_to_play as well as at streaming_track).                      *)
FallbackInPlaylist == next_track_to_play \in list \cup {NoTrack}

(* Once the streamer was told of a deletion, nothing but the track being   *)
(* heard goes on being decoded although it has left the playlist, not even *)
(* one that was chosen after the streamer was asked for its fallback and   *)
(* before the track was unlinked (_streamer_track_deleted, "cancel         *)
(* buffering of next track, if it's not in playlist anymore").  There is   *)
(* one way out: when that track was being decoded once more for later on,  *)
(* with another one buffered before it, that other one is announced.       *)
Cancelled ==
    \/ streaming_track \in list \cup {NoTrack, playing_track}
    \/ deleted
    \/ output = "stopped"

DeletedNotStreamed ==
    [][ \/ Cancelled'
        \/ /\ streaming_track' = streaming_track
           /\ Cancelled => playing_track = streaming_track ]_vars

(* With albums shuffled the end of a track leads out of its album only     *)
(* when the rest of the album was played, whatever was deleted, queued or  *)
(* chosen by hand before (get_next_track looks for the lowest rating from  *)
(* the current one up).  The album's tracks must have been rated together: *)
(* they are not after a mode change that was taken back before the         *)
(* streamer looked, or when the album's first track was inserted later.    *)
RatedTogether(t) == \A u \in RunFrom(t) : order.rating[u] = order.rating[t]

AlbumsStayTogether ==
    [][ /\ EndOfStream
        /\ modes.shuffle = "albums" /\ modes.repeat # "single"
        /\ queue = << >> /\ next_track_to_play = NoTrack
        /\ streaming_track \in list /\ streaming_track' # NoTrack
        /\ RatedTogether(streaming_track)
        /\ ~ Same(streaming_track, streaming_track')
        => RunFrom(streaming_track) \ {streaming_track} \subseteq order.played ]_vars

(* Left alone, playback comes to its end when nothing is repeated, in      *)
(* playlist order and with tracks shuffled, after the play queue too.      *)
PlaybackEnds ==
    <>[]( /\ modes.repeat = "off" /\ modes.shuffle \in {"off", "tracks"}
          /\ next_track_to_play = NoTrack /\ Running)
    => <>[](output = "stopped")

(* Left alone with everything repeated, every track is heard again and     *)
(* again, with tracks shuffled as well: nothing that was counted as played *)
(* without being heard is lost for good.                                   *)
EveryTrackHeard ==
    \A t \in Track :
      <>[]( /\ output = "playing" /\ Running /\ t \in list
            /\ next_track_to_play = NoTrack
            /\ modes.repeat = "all" /\ modes.shuffle \in {"off", "tracks"})
      => []<>(playing_track = t)

(* As long as playback goes on the play queue is used up, whatever the     *)
(* modes; only repeating one track holds it back.                          *)
QueueServed ==
    <>[]( /\ output = "playing" /\ Running
          /\ next_track_to_play = NoTrack /\ modes.repeat # "single")
    => <>[](queue = << >>)

(* Playback stops after the queue, or after an album, even when everything *)
(* is repeated (stop_after_queue, stop_after_album_check).                 *)
StopAfterObeyed ==
    \A option \in {"queue", "album"} :
      <>[]( /\ option \in stop_after /\ Running
            /\ next_track_to_play = NoTrack
            /\ modes.repeat # "single" /\ modes.shuffle \in {"off", "tracks"}
            /\ option = "album" => \E t, u \in list : ~ Same(t, u))
      => <>[](output = "stopped")

(* The streamer thread answers every request: no choice of a track loops   *)
(* for ever or uses a track that is not there.                             *)
EveryRequestAnswered == fate = "running"

=============================================================================
