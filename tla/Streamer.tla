------------------------------ MODULE Streamer ------------------------------
(***************************************************************************)
(* Playback: the streamer thread, which takes requests and decodes tracks  *)
(* ahead of time, and the output thread, which calls streamer_read and     *)
(* announces the track changes it meets in the data (streamer.c).          *)
(*                                                                         *)
(* One step is one stretch of code under the streamer mutex, or one        *)
(* stretch without it that another thread cannot tell apart.  What the     *)
(* streamer does with the mutex released is split where the other thread   *)
(* can see the difference: reading a block, opening a track, seeking,      *)
(* choosing what follows a requeue, ending the buffering of a track.       *)
(*                                                                         *)
(* The ring of stream blocks is the queue that module StreamReader         *)
(* implements; blocks carry the track and the flags of streamblock_t, and  *)
(* `data' says whether the block has any bytes.  A decoded block lasts     *)
(* READS calls of streamer_read.  Blocks of different formats never share  *)
(* the output buffer.                                                      *)
(***************************************************************************)
EXTENDS Integers, Sequences, FiniteSets, FiniteSetsExt, Functions

CONSTANTS TRACKS,      \* the playlist is 1, 2, ..., TRACKS, in this order
          Format,      \* the format of each track's data
          MayFail,     \* tracks that may fail to open
          MayOpen,     \* tracks that may open
          STREAM_MIN,  \* fewest blocks a track decodes to
          STREAM_MAX,  \* most blocks a track decodes to
          RING,        \* blocks of the ring (BLOCK_COUNT, 48)
          READY,       \* blocks that end buffering (4)
          BUFFERED,    \* decoded blocks that fill the playback buffer
          READS,       \* streamer_read calls a decoded block lasts
          STALL_WAIT,  \* AUDIO_STALL_WAIT (20)
          RepeatModes, \* repeat settings the user may choose
          Requests,    \* requests the user may send
          UserOptions, \* other things the user may do: "pause", "stop after"
          BUDGET,      \* how many actions the user takes
          SeekMayFail, \* decoders may fail to seek
          AutoReset    \* playlist.stop_after_current_reset

NoTrack == 0
NoFmt == 0
Track == 1 .. TRACKS

Request == [kind : {"stop", "next", "prev", "seek"}, track : {NoTrack}]
             \cup [kind : {"play"}, track : Track]

ASSUME StreamerAssumption ==
    /\ TRACKS \in Nat \ {0}
    /\ Format \in [Track -> Nat \ {NoFmt}]
    /\ MayFail \cup MayOpen = Track
    /\ {STREAM_MIN, RING, BUFFERED, READS, STALL_WAIT} \subseteq Nat \ {0}
    /\ STREAM_MAX \in Nat /\ STREAM_MIN <= STREAM_MAX
    /\ READY \in 1 .. RING
    /\ RepeatModes \subseteq {"off", "all", "single"}
    /\ RepeatModes # {}
    /\ Requests \subseteq Request
    /\ UserOptions \subseteq {"pause", "stop after"}
    /\ BUDGET \in Nat
    /\ {SeekMayFail, AutoReset} \subseteq BOOLEAN

VARIABLES
    blocks,             \* the ring's list of blocks with data
    firstblock,         \* the next block starts a stream
    dangling,           \* block_data points to a block without data
    decoded,            \* the decoded blocks, behind them the output buffer
    last_fmt,           \* last_block_fmt: the format the output is set to
    playing_track,      \* what the player says is playing
    streaming_track,    \* what the streamer is decoding
    last_played,        \* origin of the next/previous commands
    first_failed_track, \* first of a series of tracks that failed to open
    buffering_track,    \* the track played by request, until it is buffered
    buffering,          \* streamer_is_buffering: the output may not read
    fileinfo,           \* the decoder handle, see below
    audio_stall_count,  \* reads that found nothing to decode
    stop_after_current, \* the user's option
    repeat,             \* the repeat mode, as the streamer thread knows it
    repeat_conf,        \* the repeat mode the user has chosen
    output,             \* state of the output plugin
    handler,            \* requests waiting for the streamer thread
    clearing,           \* senders that have cleared it and not yet pushed "stop"
    pc,                 \* where the streamer thread is
    opening,            \* the track stream_track is opening
    reader,             \* where the output thread is in streamer_read
    budget              \* user actions left

ring    == <<blocks, firstblock, dangling>>
buffers == <<ring, decoded, last_fmt>>
failing == <<first_failed_track, fileinfo, streaming_track>>
wait    == <<buffering, buffering_track>>
control == <<stop_after_current, repeat>>
user    == <<handler, clearing, repeat_conf, budget>>
thread  == <<pc, opening>>
vars    == <<buffers, playing_track, last_played, failing, wait,
             audio_stall_count, control, output, user, thread, reader>>

(* fileinfo_curr: none, the dummy handle of a track that failed to open    *)
(* (it has no plugin), or a decoder with that many blocks left.            *)
NoFile == -1
Dummy  == 0

StreamBlock  == [track : Track, first : BOOLEAN, last : BOOLEAN,
                 data : BOOLEAN, fmt : {NoFmt} \cup Range(Format)]
DecodedBlock == [track : Track, first : BOOLEAN, last : BOOLEAN, left : 0 .. READS]

-----------------------------------------------------------------------------
Init ==
    /\ blocks = << >>
    /\ firstblock = FALSE
    /\ dangling = FALSE
    /\ decoded = << >>
    /\ last_fmt = NoFmt
    /\ playing_track = NoTrack
    /\ streaming_track = NoTrack
    /\ last_played = NoTrack
    /\ first_failed_track = NoTrack
    /\ buffering_track = NoTrack
    /\ buffering = FALSE
    /\ fileinfo = NoFile
    /\ audio_stall_count = 0
    /\ stop_after_current = FALSE
    /\ repeat \in RepeatModes
    /\ repeat_conf = repeat
    /\ output = "stopped"
    /\ handler = << >>
    /\ clearing = 0
    /\ pc = "loop"
    /\ opening = NoTrack
    /\ reader = "idle"
    /\ budget = BUDGET

-----------------------------------------------------------------------------
(* The user, through the main loop and plugin threads.                     *)

Acts ==
    /\ budget > 0
    /\ budget' = budget - 1
    /\ UNCHANGED <<buffers, playing_track, last_played, failing, wait,
                   audio_stall_count, repeat, thread, reader>>

(* streamer_set_nextsong and the other senders: a request to stop clears   *)
(* the queue (handler_reset), the others are pushed.                       *)
Push(request) ==
    /\ Acts
    /\ IF request.kind = "stop"
       THEN handler' = << >> /\ clearing' = clearing + 1
       ELSE handler' = Append(handler, request) /\ UNCHANGED clearing
    /\ UNCHANGED <<repeat_conf, stop_after_current, output>>

(* Having cleared the queue the sender pushes "stop", behind what other    *)
(* senders have pushed in between.                                         *)
PushStop ==
    /\ clearing > 0
    /\ clearing' = clearing - 1
    /\ handler' = Append(handler, [kind |-> "stop", track |-> NoTrack])
    /\ UNCHANGED <<buffers, playing_track, last_played, failing, wait,
                   audio_stall_count, control, output, repeat_conf, budget,
                   thread, reader>>

SetRepeat(mode) ==
    /\ Acts
    /\ repeat_conf' = mode
    /\ UNCHANGED <<handler, clearing, stop_after_current, output>>

(* The main loop pauses and resumes the output plugin by itself.           *)
TogglePause ==
    /\ "pause" \in UserOptions
    /\ Acts
    /\ output # "stopped"
    /\ output' = IF output = "playing" THEN "paused" ELSE "playing"
    /\ UNCHANGED <<handler, clearing, repeat_conf, stop_after_current>>

(* streamer_configchanged picks the option up at once.                     *)
SetStopAfterCurrent ==
    /\ "stop after" \in UserOptions
    /\ Acts
    /\ stop_after_current' = TRUE
    /\ UNCHANGED <<handler, clearing, repeat_conf, output>>

-----------------------------------------------------------------------------
(* Pieces of handlers.                                                     *)

(* Seeded fault: decoded blocks survive a reset.                           *)
ResetKeepsDecoded ==
    /\ blocks' = << >>
    /\ firstblock' = FALSE
    /\ dangling' = FALSE
    /\ UNCHANGED <<decoded, last_fmt>>

(* streamer_reset.                                                         *)
Reset ==
    /\ blocks' = << >>
    /\ firstblock' = FALSE
    /\ dangling' = FALSE
    /\ decoded' = << >>
    /\ UNCHANGED last_fmt

(* output->stop: some output plugins reset the streamer, others do not.    *)
StopOutput ==
    /\ output' = "stopped"
    /\ \/ Reset
       \/ UNCHANGED buffers

(* _handle_playback_stopped, when `playing' was playing.                   *)
HandlePlaybackStopped(playing) ==
    /\ playing_track' = NoTrack
    /\ first_failed_track' = NoTrack
    /\ buffering' = (buffering /\ playing = NoTrack)
    /\ buffering_track' = IF playing = NoTrack THEN buffering_track ELSE NoTrack

(* Seeded fault: a streamer with nothing to stream counts as buffering.    *)
NeedsBufferingBlocksOnly(ready) == ready < READY

(* What _update_buffering_state makes of that many blocks ready.           *)
NeedsBuffering(ready) == ready < READY /\ streaming_track # NoTrack

(* streamreader_flush_after: what follows the leading blocks of `it' is    *)
(* dropped, and the next block starts a stream.  An empty list is left     *)
(* alone; a list that becomes empty leaves block_data where it was.        *)
FlushAfter(it) ==
    LET kept == {n \in 0 .. Len(blocks) : \A i \in 1 .. n : blocks[i].track = it}
        k    == Max(kept)
    IN  /\ blocks' = SubSeq(blocks, 1, k)
        /\ firstblock' = (firstblock \/ k < Len(blocks))
        /\ dangling' = (dangling \/ (blocks # << >> /\ k = 0))

(* Seeded fault: the origin of next and previous is left where it was.     *)
AnnounceKeepsLast(t) == playing_track' = t /\ UNCHANGED last_played

(* streamer_start_playback: t is playing, and next and previous count from *)
(* it.                                                                     *)
Announce(t) == playing_track' = t /\ last_played' = t

(* update_stop_after_current.                                              *)
StopAfterCurrentTriggered ==
    stop_after_current' = (stop_after_current /\ ~ AutoReset)

(* Seeded fault: the playlist is not played again.                         *)
NextTrackNoWrap(curr, mode) ==
    IF curr < TRACKS THEN curr + 1 ELSE NoTrack

(* get_next_track with shuffle off, an empty play queue and no fallback    *)
(* track: the next one, or the first one again with repeat "all".          *)
NextTrack(curr, mode) ==
    IF curr < TRACKS THEN curr + 1
    ELSE IF mode = "all" THEN 1 ELSE NoTrack

(* get_prev_track: the one before, the last one if there is no current one *)
(* (and none before the first: 1 - 1 is NoTrack).                          *)
PrevTrack(curr) == IF curr = NoTrack THEN TRACKS ELSE curr - 1

(* Seeded fault: what follows is counted from the track heard last.        *)
FollowingLastPlayed(curr, mode) ==
    IF playing_track # NoTrack /\ mode = "single"
    THEN playing_track ELSE NextTrack(last_played, mode)

(* What streamer_next plays after a track.                                 *)
Following(curr, mode) ==
    IF playing_track # NoTrack /\ mode = "single"
    THEN playing_track ELSE NextTrack(curr, mode)

(* The first half of stream_track: the decoder is freed; a series of       *)
(* failures that comes back to its first track stops playback; no track    *)
(* ends streaming; otherwise the track is about to be opened and           *)
(* streaming_track, which the first case leaves at `from', already cleared.*)
StreamTrack(t, from, then) ==
    /\ fileinfo' = NoFile
    /\ \/ /\ t # NoTrack
          /\ t = first_failed_track
          /\ HandlePlaybackStopped(playing_track)
          /\ streaming_track' = from
          /\ pc' = "loop"
          /\ UNCHANGED opening
       \/ /\ t = NoTrack
          /\ streaming_track' = NoTrack
          /\ first_failed_track' = NoTrack
          /\ pc' = "loop"
          /\ UNCHANGED <<playing_track, wait, opening>>
       \/ /\ t \notin {NoTrack, first_failed_track}
          /\ streaming_track' = NoTrack
          /\ opening' = t
          /\ pc' = then
          /\ UNCHANGED <<playing_track, wait, first_failed_track>>

(* Seeded fault: the decoder is in use, its track is not set.              *)
OpenedUntracked(t, last) ==
    /\ UNCHANGED <<streaming_track, first_failed_track>>
    /\ last_played' = last
    /\ fileinfo' \in {Dummy} \cup STREAM_MIN .. STREAM_MAX

(* The second half: the decoder is found and initialised, or the track has *)
(* failed and gets a dummy handle (streamer_play_failed).                  *)
Opened(t, last) ==
    /\ streaming_track' = t
    /\ \/ /\ t \in MayOpen
          /\ fileinfo' \in STREAM_MIN .. STREAM_MAX
          /\ first_failed_track' = NoTrack
          /\ last_played' = last
       \/ /\ t \in MayFail
          /\ fileinfo' = Dummy
          /\ first_failed_track' = IF first_failed_track = NoTrack
                                   THEN t ELSE first_failed_track
          /\ last_played' = t

-----------------------------------------------------------------------------
(* The streamer thread: requests.                                          *)

(* handler_pop at the top of the loop.                                     *)
Take(kind) ==
    /\ pc = "loop"
    /\ handler # << >>
    /\ Head(handler).kind = kind
    /\ handler' = Tail(handler)
    /\ UNCHANGED <<clearing, budget, repeat_conf, audio_stall_count, control, reader>>

(* _play_track: the output is stopped, the buffers are dropped, the track  *)
(* is announced, opened and the output started again, even if the track    *)
(* could not be opened.                                                    *)
PlayTrack(t) ==
    /\ Reset
    /\ output' = "playing"
    /\ IF t = first_failed_track
       THEN /\ HandlePlaybackStopped(t)
            /\ last_played' = t
            /\ fileinfo' = NoFile
            /\ UNCHANGED streaming_track
       ELSE /\ playing_track' = t
            /\ buffering' = TRUE
            /\ buffering_track' = t
            /\ Opened(t, t)
    /\ UNCHANGED thread

(* play_index with a track of the current playlist.                        *)
PlayIndex ==
    /\ Take("play")
    /\ PlayTrack(Head(handler).track)

(* Seeded fault: the output is not told to stop.                           *)
PlayIndexStopSoft ==
    /\ Take("stop")
    /\ Reset
    /\ HandlePlaybackStopped(playing_track)
    /\ last_played' = NoTrack
    /\ streaming_track' = NoTrack
    /\ fileinfo' = NoFile
    /\ UNCHANGED <<output, thread>>

(* play_index with -1: everything stops.                                   *)
PlayIndexStop ==
    /\ Take("stop")
    /\ Reset
    /\ HandlePlaybackStopped(playing_track)
    /\ output' = "stopped"
    /\ last_played' = NoTrack
    /\ streaming_track' = NoTrack
    /\ fileinfo' = NoFile
    /\ UNCHANGED thread

(* play_next: the track after or before the one being buffered or played   *)
(* last, or a stop that leaves the decoder as it is.                       *)
PlayNext ==
    /\ Take("next") \/ Take("prev")
    /\ LET origin == IF buffering_track # NoTrack THEN buffering_track
                                                  ELSE last_played
           next   == IF Head(handler).kind = "next" THEN NextTrack(origin, repeat)
                                                    ELSE PrevTrack(origin)
       IN  IF next # NoTrack
           THEN PlayTrack(next)
           ELSE /\ Reset
                /\ HandlePlaybackStopped(playing_track)
                /\ output' = "stopped"
                /\ last_played' = NoTrack
                /\ UNCHANGED <<streaming_track, fileinfo, thread>>

(* streamer_seek_real up to the decoder's seek.  When the streamer is      *)
(* already ahead of the playing track, that track is opened again.         *)
SeekBegin ==
    /\ Take("seek")
    /\ \/ /\ fileinfo \in {NoFile, Dummy}
          /\ UNCHANGED <<playing_track, failing, wait, thread>>
       \/ /\ fileinfo \notin {NoFile, Dummy}
          /\ playing_track \in {NoTrack, streaming_track}
          /\ pc' = "seek"
          /\ UNCHANGED <<playing_track, failing, wait, opening>>
       \/ /\ fileinfo \notin {NoFile, Dummy}
          /\ playing_track \notin {NoTrack, streaming_track}
          /\ StreamTrack(playing_track, streaming_track, "reopen")
    /\ UNCHANGED <<buffers, last_played, output>>

(* The playing track has been opened again for seeking.                    *)
SeekReopened ==
    /\ pc = "reopen"
    /\ Opened(opening, last_played)
    /\ pc' = "seek"
    /\ opening' = NoTrack
    /\ UNCHANGED <<buffers, playing_track, wait, audio_stall_count, control,
                   output, user, reader>>

(* The decoder seeks; what was decoded before is dropped, unless it failed *)
(* to.  The dummy handle has no decoder to call.                           *)
SeekDone ==
    /\ pc = "seek"
    /\ fileinfo # Dummy
    /\ \/ Reset
       \/ SeekMayFail /\ UNCHANGED buffers
    /\ fileinfo' \in 1 .. STREAM_MAX
    /\ pc' = "loop"
    /\ UNCHANGED <<playing_track, streaming_track, last_played,
                   first_failed_track, wait, audio_stall_count, control,
                   output, user, opening, reader>>

(* After the requests the thread looks at the repeat mode: when the user   *)
(* has changed it, what was decoded after the playing track is dropped,    *)
(* under the mutex (_streamer_requeue_after_current).                      *)
Requeue ==
    /\ pc = "loop"
    /\ handler = << >>
    /\ repeat # repeat_conf
    /\ repeat' = repeat_conf
    /\ IF playing_track = NoTrack
       THEN UNCHANGED <<ring, streaming_track, pc>>
       ELSE /\ FlushAfter(playing_track)
            /\ streaming_track' = playing_track
            /\ pc' = IF playing_track = streaming_track THEN "loop" ELSE "requeue"
    /\ UNCHANGED <<decoded, last_fmt, playing_track, last_played,
                   first_failed_track, fileinfo, wait, audio_stall_count,
                   stop_after_current, output, user, opening, reader>>

(* What comes next is chosen again, with the mutex released: by now the    *)
(* output may have announced another track, or stopped.                    *)
RequeueNext ==
    /\ pc = "requeue"
    /\ StreamTrack(Following(streaming_track, repeat), streaming_track, "open")
    /\ UNCHANGED <<buffers, last_played, audio_stall_count, control, output,
                   user, reader>>

-----------------------------------------------------------------------------
(* The streamer thread: decoding, when no request is waiting.              *)

(* _update_buffering_state before each attempt to read takes the mutex to  *)
(* count the blocks, and again to hold the output back or to let it go.    *)
(* When there are few nothing in between matters: there can only be fewer. *)
UpdateBufferingState ==
    /\ pc = "loop"
    /\ handler = << >>
    /\ repeat = repeat_conf
    /\ output # "stopped"
    /\ IF NeedsBuffering(Len(blocks))
       THEN buffering' = TRUE /\ pc' = "turn"
       ELSE UNCHANGED buffering /\ pc' = "counted"
    /\ UNCHANGED <<buffers, playing_track, last_played, failing,
                   buffering_track, audio_stall_count, control, output, user,
                   opening, reader>>

(* Enough blocks were counted, though the output may have read some and    *)
(* have found too few itself by now.  When buffering ends the mutex is     *)
(* released before the buffered track is forgotten.                        *)
LetOutputGo ==
    /\ pc = "counted"
    /\ buffering' = FALSE
    /\ pc' = IF buffering THEN "buffered" ELSE "turn"
    /\ UNCHANGED <<buffers, playing_track, last_played, failing,
                   buffering_track, audio_stall_count, control, output, user,
                   opening, reader>>

(* Seeded fault: the end of buffering leaves buffering_track behind.       *)
BufferedKeepsTrack ==
    /\ pc = "buffered"
    /\ pc' = "turn"
    /\ UNCHANGED <<buffers, playing_track, last_played, failing, wait,
                   audio_stall_count, control, output, user, opening, reader>>

(* The rest of _update_buffering_state, without the mutex: the output may  *)
(* have read, announced a track or stopped by now.                         *)
Buffered ==
    /\ pc = "buffered"
    /\ buffering_track' = NoTrack
    /\ pc' = "turn"
    /\ UNCHANGED <<buffers, playing_track, last_played, failing, buffering,
                   audio_stall_count, control, output, user, opening, reader>>

Streams ==
    /\ pc = "turn"
    /\ UNCHANGED <<decoded, last_fmt, last_played, control, user, opening, reader>>

(* streamreader_get_next_block; the read itself runs without the mutex.    *)
(* The dummy handle marks the start of a stream already here.              *)
BeginRead ==
    /\ Streams
    /\ fileinfo # NoFile
    /\ Len(blocks) < RING
    /\ firstblock' = (firstblock \/ fileinfo = Dummy)
    /\ pc' = "read"
    /\ UNCHANGED <<blocks, dangling, playing_track, failing, wait,
                   audio_stall_count, output>>

(* The end of streamreader_read_block and streamreader_enqueue_block.  The *)
(* last block of a stream may have come out empty.                         *)
FinishRead ==
    /\ pc = "read"
    /\ LET last == fileinfo \in {Dummy, 1} IN
       /\ \E data \in BOOLEAN :
            /\ fileinfo = Dummy => ~ data
            /\ ~ last => data
            /\ blocks' = Append(blocks,
                 [track |-> streaming_track, first |-> firstblock, last |-> last,
                  data |-> data,
                  fmt |-> IF fileinfo = Dummy THEN NoFmt ELSE Format[streaming_track]])
       /\ firstblock' = last
       /\ pc' = IF last THEN "eof" ELSE "loop"
       /\ fileinfo' = IF last THEN fileinfo ELSE fileinfo - 1
    /\ dangling' = FALSE
    /\ UNCHANGED <<decoded, last_fmt, playing_track, streaming_track,
                   last_played, first_failed_track, wait, audio_stall_count,
                   control, output, user, opening, reader>>

(* After the last block: stop after the current track, or streamer_next.   *)
EndOfStream ==
    /\ pc = "eof"
    /\ StreamTrack(IF stop_after_current THEN NoTrack
                   ELSE Following(streaming_track, repeat), streaming_track, "open")
    /\ UNCHANGED <<buffers, last_played, audio_stall_count, control, output,
                   user, reader>>

(* The next track has been opened, or has failed.                          *)
OpenDone ==
    /\ pc = "open"
    /\ Opened(opening, last_played)
    /\ pc' = "loop"
    /\ opening' = NoTrack
    /\ UNCHANGED <<buffers, playing_track, wait, audio_stall_count, control,
                   output, user, reader>>

(* A turn of the loop with nothing to read or no room for it.              *)
Idle ==
    /\ Streams
    /\ IF fileinfo = NoFile THEN audio_stall_count < STALL_WAIT
                            ELSE Len(blocks) = RING
    /\ pc' = "loop"
    /\ UNCHANGED <<ring, playing_track, failing, wait, audio_stall_count, output>>

(* Nothing is streaming and the output has starved long enough.            *)
StopStalled ==
    /\ pc = "turn"
    /\ fileinfo = NoFile
    /\ audio_stall_count >= STALL_WAIT
    /\ StopOutput
    /\ HandlePlaybackStopped(playing_track)
    /\ audio_stall_count' = 0
    /\ pc' = "loop"
    /\ UNCHANGED <<last_played, streaming_track, fileinfo, control, user,
                   opening, reader>>

-----------------------------------------------------------------------------
(* The output thread: streamer_read is two stretches under the mutex.      *)

HasData(d) == d.left > 0

WithData(s) == {i \in 1 .. Len(s) : HasData(s[i])}

(* Seeded fault: decoding does not stop at a full playback buffer.         *)
DecodedUnlimited ==
    Max({0} \cup {n \in 1 .. Len(blocks) :
                   /\ \A i \in 1 .. n     : blocks[i].fmt = last_fmt
                   /\ \A i \in 1 .. n - 1 : blocks[i].data})

(* How many blocks one call decodes: up to a full playback buffer, of the  *)
(* format the output is set to, and not past a block without data, which   *)
(* ends the loop.                                                          *)
DecodedNow ==
    LET room == BUFFERED - Cardinality(WithData(decoded))
        fits == {n \in 1 .. Len(blocks) :
                   /\ n <= room
                   /\ \A i \in 1 .. n     : blocks[i].fmt = last_fmt
                   /\ \A i \in 1 .. n - 1 : blocks[i].data}
    IN  Max({0} \cup fits)

(* Seeded fault: the start of a stream is not passed on.                   *)
DecodeUnmarked(b) == [track |-> b.track, first |-> FALSE, last |-> b.last,
                      left |-> IF b.data THEN READS ELSE 0]

(* What process_output_block makes of a block.                             *)
Decode(b) == [track |-> b.track, first |-> b.first, last |-> b.last,
              left |-> IF b.data THEN READS ELSE 0]

(* An output buffer without data and a block of another format at the head *)
(* of the ring: the output is set to that format.                          *)
FormatChanges ==
    /\ blocks # << >>
    /\ Head(blocks).fmt # last_fmt
    /\ \A i \in 1 .. Len(decoded) : ~ HasData(decoded[i])

(* One more read found nothing, and nothing is being streamed.             *)
Starved == audio_stall_count' = Min({audio_stall_count + 1, STALL_WAIT})

(* _streamer_fill_playback_buffer.  Without any block, playback is over if *)
(* nothing is being streamed.                                              *)
Fill ==
    /\ reader = "idle"
    /\ output = "playing"
    /\ ~ buffering
    /\ reader' = "get"
    /\ \/ /\ blocks = << >>
          /\ ~ dangling
          /\ IF streaming_track = NoTrack
             THEN /\ StopAfterCurrentTriggered
                  /\ HandlePlaybackStopped(playing_track)
                  /\ Starved
             ELSE UNCHANGED <<stop_after_current, playing_track, wait,
                              first_failed_track, audio_stall_count>>
          /\ UNCHANGED <<blocks, decoded, last_fmt>>
       \/ /\ blocks # << >> \/ dangling
          /\ audio_stall_count' = 0
          /\ decoded' = decoded \o [i \in 1 .. DecodedNow |-> Decode(blocks[i])]
          /\ blocks' = SubSeq(blocks, DecodedNow + 1, Len(blocks))
          /\ last_fmt' = IF FormatChanges THEN Head(blocks).fmt ELSE last_fmt
          /\ buffering' = (DecodedNow > 0 /\ NeedsBuffering(Len(blocks')))
          /\ UNCHANGED <<stop_after_current, playing_track, first_failed_track,
                         buffering_track>>
    /\ UNCHANGED <<firstblock, dangling, streaming_track, last_played, fileinfo,
                   repeat, output, user, thread>>

(* The decoded blocks one call looks at: those without data in front, and  *)
(* the first one with data, which satisfies the call.                      *)
Visited ==
    Max({n \in 0 .. Len(decoded) : \A i \in 1 .. n - 1 : ~ HasData(decoded[i])})

(* _streamer_get_bytes: announce the tracks whose first block is reached,  *)
(* take a portion of data, release the blocks that are used up.            *)
GetBytes ==
    /\ reader = "get"
    /\ reader' = "idle"
    /\ LET n      == Visited
           firsts == {i \in 1 .. n : decoded[i].first}
           used   == IF n > 0 /\ decoded[n].left > 1 THEN n - 1 ELSE n
           rest   == SubSeq(decoded, used + 1, Len(decoded))
       IN  /\ IF firsts = {}
              THEN UNCHANGED <<playing_track, last_played>>
              ELSE Announce(decoded[Max(firsts)].track)
           /\ decoded' = IF used = n THEN rest
                         ELSE [rest EXCEPT ![1].left = @ - 1]
           /\ IF \E i \in 1 .. used : decoded[i].last
              THEN StopAfterCurrentTriggered
              ELSE UNCHANGED stop_after_current
    /\ UNCHANGED <<ring, last_fmt, failing, wait, audio_stall_count, repeat,
                   output, user, thread>>

-----------------------------------------------------------------------------
StreamerNext ==
    \/ PlayIndex
    \/ PlayIndexStop
    \/ PlayNext
    \/ SeekBegin
    \/ SeekReopened
    \/ SeekDone
    \/ Requeue
    \/ RequeueNext
    \/ UpdateBufferingState
    \/ LetOutputGo
    \/ Buffered
    \/ BeginRead
    \/ FinishRead
    \/ EndOfStream
    \/ OpenDone
    \/ Idle
    \/ StopStalled

OutputNext == Fill \/ GetBytes

UserNext ==
    \/ \E request \in Requests : Push(request)
    \/ PushStop
    \/ \E mode \in RepeatModes : SetRepeat(mode)
    \/ TogglePause
    \/ SetStopAfterCurrent

Next == StreamerNext \/ OutputNext \/ UserNext

Spec == Init /\ [][Next]_vars

(* Both threads keep running, and a sender that has cleared the queue goes *)
(* on to push; the user does as he likes.                                  *)
Fairness == WF_vars(StreamerNext) /\ WF_vars(OutputNext) /\ WF_vars(PushStop)

LiveSpec == Spec /\ Fairness

-----------------------------------------------------------------------------
(* Properties.                                                             *)

(* The ring: no more blocks than it has room for.                          *)
RingTyped ==
    /\ blocks \in Seq(StreamBlock)
    /\ Len(blocks) <= RING
    /\ firstblock \in BOOLEAN
    /\ dangling \in BOOLEAN

(* The decoded blocks: no more data than the playback buffer takes.        *)
DecodedTyped ==
    /\ decoded \in Seq(DecodedBlock)
    /\ Cardinality(WithData(decoded)) <= BUFFERED
    /\ last_fmt \in {NoFmt} \cup Range(Format)

TracksTyped ==
    {playing_track, streaming_track, last_played, first_failed_track,
     buffering_track, opening} \subseteq {NoTrack} \cup Track

ControlTyped ==
    /\ buffering \in BOOLEAN
    /\ stop_after_current \in BOOLEAN
    /\ fileinfo \in {NoFile, Dummy} \cup 1 .. STREAM_MAX
    /\ audio_stall_count \in 0 .. STALL_WAIT
    /\ {repeat, repeat_conf} \subseteq RepeatModes
    /\ output \in {"stopped", "playing", "paused"}
    /\ handler \in Seq(Request)
    /\ clearing \in 0 .. BUDGET - budget
    /\ pc \in {"loop", "requeue", "counted", "buffered", "turn", "read",
               "eof", "open", "reopen", "seek"}
    /\ reader \in {"idle", "get"}
    /\ budget \in 0 .. BUDGET

(* Every variable keeps to its type: no more blocks than the ring has, no  *)
(* more decoded data than the playback buffer takes.                       *)
TypeOK == RingTyped /\ DecodedTyped /\ TracksTyped /\ ControlTyped

(* All that is decoded and not yet heard, in the order it will be heard.   *)
Ahead == decoded \o blocks

(* What is decoded ahead is the playlist in order, across both buffers: a  *)
(* stream's blocks follow each other, its last one is followed by the      *)
(* first block of the track that comes next (streamreader_read_block,      *)
(* streamer_next).                                                         *)
StreamInOrder ==
    \A i \in 1 .. Len(Ahead) - 1 :
        LET a == Ahead[i]
            b == Ahead[i + 1]
        IN  /\ b.first = a.last
            /\ b.track = IF a.last THEN NextTrack(a.track, repeat) ELSE a.track

(* What is heard is what the player says is playing: a decoded block that  *)
(* does not announce its own track belongs to the track announced last,    *)
(* unless playback was declared stopped (handle_track_change is only       *)
(* called for a block marked first).                                       *)
HeardAttributed ==
    decoded # << >> /\ ~ decoded[1].first
        => playing_track \in {decoded[1].track, NoTrack}

(* A decoder is only read on behalf of a track: the assertion of           *)
(* streamreader_enqueue_block.                                             *)
EnqueuedHasTrack == pc = "read" => streaming_track # NoTrack

(* With repeat off, and once the user leaves the player alone, it does not *)
(* play for ever: the output is stopped after the last track.              *)
EventuallyStops == <>[](repeat = "off") => <>[](output # "playing")

(* A request to stop is obeyed, whatever else is queued or being read:     *)
(* clearing the queue and pushing the request are two steps, and another   *)
(* sender may push, or clear the queue of the request itself, between them *)
(* (streamer_set_nextsong, handler_reset, handler_push).                   *)
StopObeyed ==
    (clearing > 0 \/ \E i \in 1 .. Len(handler) : handler[i].kind = "stop")
        ~> output = "stopped"

(* The output thread is about to announce track t.                         *)
Announces(t) ==
    /\ reader = "get"
    /\ \E i \in 1 .. Visited : decoded[i].first /\ decoded[i].track = t

(* Playing on with repeat "all", every track of the playlist is announced  *)
(* again and again, those that fail to open too.                           *)
KeepsPlaying ==
    [](repeat = "all") =>
        \A t \in Track : []((output = "playing") => <>Announces(t))

(* Next and previous count from the track that is playing, or from the one *)
(* that is still being buffered.                                           *)
LastPlayedIsPlaying == playing_track # NoTrack => last_played = playing_track

(* Next and previous count from buffering_track when it is set.  Except in *)
(* the moment in which the streamer thread has let the output go and not   *)
(* yet forgotten the track, in which no request is handled, that track is  *)
(* the one playing and the output is held back: it cannot have read on to  *)
(* another one (_play_track, _update_buffering_state, play_next).          *)
BufferingHoldsOutput ==
    buffering_track # NoTrack /\ pc # "buffered"
        => buffering /\ playing_track = buffering_track

(* The output is not held back for ever, whatever is sought or requeued.   *)
BufferingEnds == buffering ~> (~ buffering \/ output # "playing")

=============================================================================
