# DeaDBeeF in TLA+

DeaDBeeF is a music player: a core in C (`src/src`) and plugins that decode
files, drive sound devices and draw windows. This directory models the core: the
threads and buffers through which music is played, the choice of what is played
next, the playlists with their undo, the fields of the tracks with their search, and the
messages that tie these together. TLC checks the models on small
instances; TLAPS proves the main properties of each part for all instances.

## The system

| part | state | operations | talks to |
|---|---|---|---|
| **stream ring** `streamreader.c` | 48 blocks in a circular list, `block_data`, `block_next`, `numblocks_ready`, `_firstblock` | take the next block, fill it (data, silence, dummy of a failed track), enqueue, release, reset, flush after a track | filled by the streamer thread, drained by the output thread |
| **streamer** `streamer.c` | playing / streaming / buffering / last played / first failed track, decoder handle, buffering flag, stall count, options | requests (play, stop, next, prev, seek, ...), decoding ahead, end of stream, requeue on a changed mode; `streamer_read` | its request queue, the ring, the output plugin, the main loop (events) |
| **decoded blocks** `decodedblock.c` | 48 cells behind the output byte ring | append, current, next, reset, total time | output thread, `streamer_reset` |
| **request queue** `handler.c` | a pool of 100 cells, two lists | push, pop, reset, wait | any thread to the streamer thread |
| **message pump** `messagepump.c` | a pool of 100 cells, two lists, events with references to tracks | push, pop, wait, event alloc / free | any thread to the main loop |
| **main loop** `main.c` | `term` | pop, broadcast to the plugins, act, free the event; drain at exit | pump, streamer, output |
| **play modes** `playmodes.c` | shuffle, repeat | get, set | user interface, streamer thread |
| **track selection** `streamer.c` | fallback tracks, played marks and shuffle ratings (kept in the items) | next, previous or random track or album, reshuffle, requeue, reaction to a deletion | streamer thread, whichever thread deletes a track, play queue |
| **play queue** `playqueue.c` | array of at most 100 tracks | push, pop, remove, insert | track selection |
| **playlists** `playlist.c`, `sort.c`, `pltmeta.c` | doubly linked lists of reference-counted items, cursor, shuffle ratings | insert, remove, clear, move, copy, sort, search, load, save | everything |
| **undo** `undo/`, `shared/undo/`, `undostack.c` | a buffer of inverse operations shared by all threads, two stacks | record, batch, take, execute, undo, redo | playlists, interface thread |
| **fields** `plmeta.c` | a list of keys and values per item | add, append, replace, delete, copy | metadata cache, search |
| **metadata cache** `metacache.c` | reference-counted strings, each with the result of the last search | add, remove | fields, search |
| the rest | configuration, plugin loader, tag and title formatting, files, DSP, visualisation, logging | | |

### How a track is played

The user's messages go through the pump to the main loop, which turns them into
requests to the streamer thread. That thread takes one turn after another: all
waiting requests first, then the repeat and shuffle mode, then one block of
the current decoder. Reading and opening files happens without the streamer mutex. When
a block comes out short the stream is over: the block is marked `last`, the next
one `first`, and the streamer opens the next track at once, seconds before the end of the
present one is heard. A track that cannot be opened yields one empty block
that is both first and last, so that it passes through the player like any other.

The output plugin's thread calls `streamer_read`: it decodes blocks of the
ring into the playback buffer until that is full or the format changes, then takes
bytes out. Only here, when a block marked `first` is reached, does the player say that
another track is playing. There is no message "the end": when
there is no block and nothing is being streamed, the output thread declares
playback stopped and counts, and the streamer thread stops the output plugin when
it has starved 20 times.

### What is hard

* **Two threads and a window without the mutex.** The streamer thread holds a block, a
  decoder and a track while the output thread reads, announces and stops, and others
  reset the ring.
* **Ahead of time.** What is decoded, what is heard and what the user means by
  "next" are three different tracks, recorded in five variables.
* **Boundaries as flags.** One flag decides whether a change of track
  is announced; seeks, flushes, resets and failures all touch it.
* **Stopping.** The end is reached through a cascade (end of stream, no track, ring empty,
  buffer empty, starved, counted, stopped) that every failing, seeking or requeueing path has
  to enter.
* **Failure.** A series of tracks that fail must neither spin for ever nor be
  skipped unannounced; a seek may have to open a track that has gone.
* **A choice made early.** The next track is chosen when a stream ends, seconds before it
  is heard. In between the user may delete it, queue another one, or change the modes; the
  marks that shuffle relies on were already set.
* **Two halves of an edit.** Deleting a track asks the streamer for a fallback before the playlist mutex
  is taken, unlinks it under the mutex, and tells the streamer later by a message.
* **Inverses recorded on the way.** Undo consists of the opposite of each pointer operation,
  batched with the one before when that looks alike, in one buffer for all playlists and threads.
* **Shared strings.** The same text serves fields of many tracks, counts them, and remembers for them
  what a search found.
* **Limits and losses.** Full ring, full playback buffer, full pump, a wake-up
  that comes too early.

`PROJECT.json` lists these and others as hazards at their lines.

### What makes each part correct

* Ring: its data is one contiguous run; the block being filled is the one that will be
  published; tracks do not run into each other; references balance; it is a bounded queue.
* Streamer: what is decoded ahead is the playlist in order; what is heard is what the
  player says; next and previous count from what is heard; buffering ends; playback ends,
  or goes round for ever with repeat; stop stops.
* Pump and request queue: cells and events are conserved; first in, first out;
  what is in is handled.
* Play queue: at most 100, in order, each entry holds one reference.
* Playlists: both directions of the list and the count agree; an item is in one list; every
  reference belongs to a list, an operation or a call under way; undo and redo restore exactly what was there.
* Fields: tags before properties and each key once, as the search expects; a string of the cache has
  exactly its references; a search finds what it is for.
* Track selection: a deleted track is neither chosen nor decoded ahead; shuffled albums are
  played to their end; playback ends or visits every track again and again, as the repeat mode says; the
  play queue is used up; requests are answered.
* Locks: no thread waits for a lock in a cycle, the output's stop included.

## The modules

| module | models | extends / instantiates |
|---|---|---|
| `BlockQueue` | what the streamer expects of the ring: a bounded queue, cut after a track | |
| `StreamReader` | the ring, cell by cell, and the read without the mutex | `BlockQueue` by refinement |
| `Streamer` | streamer thread, output thread, user, for a playlist in order | |
| `Selection` | which track or album comes next, the shuffle order, the play queue, deletions | |
| `MessageFifo` | what the pump and the request queue promise | |
| `MessagePump` | cells, lists, wake-ups, the main loop | `MessageFifo` by refinement |
| `PlaylistHistory` | what undo and redo promise: the value of before the last action | |
| `Playlist` | linked lists, references, undo buffer and stacks, adding files | `PlaylistHistory` by refinement |
| `Metadata` | fields, cached strings, search | |
| `SequenceParts` | the part of a sequence at some positions, and the whole of several sequences | used by `Playlist`, `Metadata` |
| `SequenceLemmas` | induction and recursion up to a bound, positions of a subsequence, insertion and removal, counting in sequences, sequences of operations as paths | `SequenceParts`, `TLAPS` |
| `StreamReader_proofs`, `Streamer_proofs`, `MessagePump_proofs` | theorems | the module they are named after, `TLAPS` |
| `Selection_proofs`, `Playlist_proofs`, `Metadata_proofs` | theorems | the module they are named after, `SequenceLemmas` |
| `PlaylistHistory_proofs` | theorems: `Playlist` implements `PlaylistHistory` | `Playlist_proofs` |
| `MCStreamReader`, `MCStreamer`, `MCSelection`, `MCPlaylist`, `MCMetadata` | values for the constants | the module they are named after |

`Streamer` uses the ring as the queue that `StreamReader` is shown to
implement, with one thing added: `dangling`, the state in which
`block_data` still points to a released block after a flush that kept nothing.
`Streamer` has the buffers and a linear playlist; `Selection` has every way to choose and reduces the
buffers to the tracks that were streamed and not yet heard. `Playlist` has the lists that
`Selection` sees as a set of tracks in order.

A definition whose comment begins with *Seeded fault* is not the code: it is
a plausible mistake in the definition that follows it, and each property is checked to fail
when that definition is replaced by it.

### StreamReader

One action per function; `FinishRead` is the tail of the two fillers plus
`streamreader_enqueue_block`, which run in one critical section, and
`reading` is the handle the streamer thread keeps between `BeginRead` and
`FinishRead`. A block's bytes are its size; a size below the full one ends the stream.
`refs` counts the references the ring has taken, per track. `Restart`,
`NextStream` and the second half of `FlushAfter` are what the streamer does with the ring.
`OrderlySpec` leaves out `ResetDuringRead`, `Spec` has it: it happens when an output plugin
that resets the streamer is stopped by another thread, and when a network stream
times out inside the read.

### Streamer

Variables carry the names of the C variables. One step is one critical
section of the streamer mutex, or one stretch without it that no other thread can
tell apart. Where one can, there are two: `BeginRead` / `FinishRead`,
`EndOfStream` / `OpenDone`, `SeekBegin` / `SeekReopened` / `SeekDone`, `Requeue` / `RequeueNext` (`pc` is
the place in between), `Push` / `PushStop` for a stop, which clears the queue first (`clearing`), and `Fill` / `GetBytes` for
`streamer_read` (`reader`). `_update_buffering_state` has three: it counts the blocks (`UpdateBufferingState`), lets the output go (`LetOutputGo`) and forgets the
buffered track (`Buffered`), each after giving the mutex back. When few blocks are ready the first does all: in between there could only be
fewer.
Starting a track by hand is one step: the output is stopped for all of it.

| code | here |
|---|---|
| `streamer_set_nextsong`, `handler_reset`, `handler_push` | `Push`, `PushStop` |
| `player_mainloop` (pause) | `TogglePause` |
| `streamer_set_repeat`, `streamer_configchanged` | `SetRepeat`, `SetStopAfterCurrent` |
| `streamer_thread`, requests | `PlayIndex`, `PlayIndexStop`, `PlayNext`, `SeekBegin` and what follows it |
| `streamer_thread`, changed mode | `Requeue`, `RequeueNext` |
| `_update_buffering_state` | `UpdateBufferingState`, `LetOutputGo`, `Buffered` |
| `streamer_thread`, decoding | `BeginRead`, `FinishRead`, `EndOfStream`, `OpenDone`, `Idle`, `StopStalled` |
| `stream_track` | `StreamTrack`, then `Opened` |
| `_streamer_fill_playback_buffer` | `Fill` |
| `_streamer_get_bytes` | `GetBytes` |

`fileinfo` stands for the decoder handle: none, the dummy of a failed track, or the number
of blocks that are left, chosen when the track is opened (or sought). A block may turn
out empty only as the last one. Formats are numbers; no format is also a format, that of
the dummy. The playback buffer is measured in decoded blocks, a block in calls of
`streamer_read`. Output plugins are external: a state, and a stop that may or may
not reset the streamer. The playlist is fixed and in order, shuffle is off, the play queue
is empty, durations are known, nothing starts paused.

### Selection

| code | here |
|---|---|
| `get_next_track`, `get_prev_track`, `get_random_track` | `NextTrack`, `PrevTrack`, `RandomTracks` |
| `streamer_get_next_track_with_direction`, `..._album_with_direction` | `TrackWithDirection`, `AlbumWithDirection` |
| `get_next_album`, `get_prev_album` | `NextAlbum`, `PrevAlbum` |
| `plt_reshuffle`, `_rebuild_shuffle_albums_after_manual_trigger` | `Reshuffled`, `Rebuilt` |
| `streamer_thread`, requests; `_play_track` | `PlayIndex`, `PlayCurrent`, `PlayNext`, `PlayNextAlbum`, `Stop`; `PlayTrack` |
| end of a stream, `streamer_next` | `EndOfStream`, `StreamNext` |
| `handle_track_change`, `streamer_start_playback` | `Announce` |
| changed modes, `_streamer_requeue_after_current` | `ApplyModes`, `Requeue` |
| `plt_remove_item` before and under the mutex, `streamer_song_removed_notify` | `RemoveItem`, `Unlink` |
| `_streamer_track_deleted` | `TrackDeleted` |
| `playqueue_*` | `SetQueue`, `Popped`, `Without` |

`Stop` is also what playing an index that the list does not have comes to. `rand ()` may return `RAND_MAX`: then
`RandomTracks` has no track, and a random album is `Crash`, the use of a place that was never written. `NoAlbum` is the album of tracks without
tags, which are of one album for shuffling but not for marking what was played.

A choice also changes the shuffle order (it reshuffles, marks, unmarks), so the operators return sets of pairs of
a track and an order; a set has several members where the code draws random numbers. Ratings are
ranks: only their order matters. Tracks of one album in a row are a *run*; with albums
shuffled a run is rated as one. A step is a whole request: it is handled under the streamer mutex, the choice under the
playlist mutex. `handled` says that requests were handled since the thread last looked at the modes: it does that before
it decodes on. `fate` records a choice that never returns (`get_next_album` with a queued track of
the same album) or that follows a null pointer (`get_prev_album` from a deleted track).
There is one playlist, the one shown.

### Playlist

| code | here |
|---|---|
| `plt_insert_item`, `plt_remove_item` | `Inserted`, `Removed` |
| `undo_remove_items`, `undo_insert_items` | `RemovalRecorded`, `InsertionRecorded`, with the references they take |
| `plt_delete_selected`, `plt_crop_selected`, `plt_clear` | `DeleteSelected`, `CropSelected`, `Clear` with `DoForget` |
| `plt_move_items`, `plt_copy_items`, `plt_sort_v2` | `MoveItems` with `DoMove`, `CopyItem`, `Sort` |
| `plt_add_files_begin` / `_end`, `plt_move_all_items` | `AddFiles`, `FilesRead` |
| `deadbeef --queue` in the main thread | `CommandLine`, `CommandLineFile`, `CommandLineEnd` |
| `undo_process` | `Process` |
| `gtkui_undostack_perform_undo`, `ddb_undobuffer_execute` | `Undo`, `Redo`, `Execute`, `DoFinish` |

The links are those of the code, so that a wrong one would show. An operation of the interface thread is a *program*, the
calls it still has to make; one step makes one call, so that the command line's thread comes in between where
the mutex is free. An operation that keeps the mutex has an `unlock` at its end, and nobody else
moves before it. `refs` is the reference count of each item and 0 means that it is
not allocated. `Held` counts the references in a buffer of operations, position and items of each, and
`HeldByProgram` those that the calls to come will give back. `plt_insert_item` trusts its caller that the item it inserts after is in that list, and
`plt_remove_item` that the item is in the list it is taken from. `CallsFit` states that contract for all callers at once: for loops that go on from
an item kept from the call before, for the command line's thread, and for operations that were recorded long ago. `WAITS` says that the user does nothing while a change is being announced or files
are being added (see *Seen in the models*). The command line makes the list it adds to the current one, whatever the interface is doing, and
announces its files before adding ends: an `undo_process` may run in between.

### Metadata

A call holds the playlist mutex and is a step. A string is a sequence of parts, which is how multiple values are
stored (separated by zeros); which part contains which text to search for is a relation, `InText`, so that
case folding and UTF-8 stay out. What `plt_search_process2` does with the cache is all there: the number of the search,
wrapping at `INDICES` (127 in the code), the memo with its sign, and the end of the fields that are searched.
`pl_item_free` gives back the references to values and not those to keys: `leaked` counts these, so that
`StringsReferenced` can say that nothing else is wrong. `query` and `searches` are auxiliary too.
A track's URI is assumed to be no tag's text; otherwise a comparison with
its last component could stand for one with the whole of it.

### MessagePump

Cells and `next` fields are as in the code, so that a wrong link would show. A sender
allocates its event, pushes under the mutex and signals after it. The main loop pops,
handles (and sends messages itself while it does), finds the queue empty, and
waits, or drains the queue when it was told to terminate: `Wait` is the lock and the sleep of `cond_wait`, which does not look at the queue
again. A condition variable may also wake by itself; as nothing guarantees it,
the model leaves it out. `queue`, read off the cells, is the queue of
`MessageFifo`.

## The runs

| run | asks | instance |
|---|---|---|
| `sr_orderly` | type, references, contiguity, the handle, boundaries, refinement of `BlockQueue` | 3 blocks, sizes 0 to 2, 2 tracks |
| `st_playback` | type, order, attribution, termination, with repeat every track again and again | 3 tracks, 2 formats, 2 tracks may fail, repeat off and all |
| `st_transport` | order, origin of next / prev, termination | 2 tracks, 3 user actions of play, stop, next, prev, seek, pause, stop after current |
| `st_settings` | tracked decoding, buffering, stop | 2 tracks, 3 user actions of play, stop, seek (which may fail), repeat, pause |
| `pump` | conservation of cells and events, refinement of `MessageFifo` | 3 cells, 2 threads and the main loop, 5 messages |
| `sel_choice` | playback ends, every track is heard, the queue is used up, stop options are obeyed | 3 tracks in 2 albums, 1 track ahead, 3 user actions, shuffle off and tracks, repeat off and all |
| `sel_edits` | type, fallback, deleted tracks, albums | 3 tracks in 2 albums, 2 tracks ahead, 3 user actions of all there are, shuffle off, albums and random |
| `pl_undo` | type, lists, references, the contract of insertion and removal, refinement of `PlaylistHistory` | 2 playlists, 5 items, any 2 edits, undo and redo without limit |
| `meta` | type, references of strings, order of fields, search | 3 tracks in 2 lists, 2 tags and 3 properties, any 4 calls |
| `pump_terminate` | *violated:* a queued request to terminate ends the loop | 2 cells, 1 thread |
| `sel_next_album` | *violated:* every request is answered | 3 tracks, 3 actions of play, queue, delete, next and previous album |
| `pl_move` | *violated:* the items asked for are moved | 4 items in one list, one move |

A run that is expected to be violated shows a place where the code does not do what
its comments say; `findings` in `PROJECT.json` quotes them.

### Bounds

Every bound is a constant of the module it belongs to.

* `BLOCK_COUNT` = 3 is the smallest ring in which the data can wrap around with a block
  before, in and after it; the proofs cover every size. Sizes tell empty, short and
  full apart.
* `RING` = 3 (2 in `st_settings`) with `READY` = 2 has the ring full, ready, not ready and empty; a
  stream of one or two blocks (`STREAM_MIN`, `STREAM_MAX`) lets the streamer be one or two tracks
  ahead of what is heard. `BUFFERED` = 2 and `READS` up to 2 let a call find the buffer full, half
  used and empty.
* `STALL_WAIT` = 3 instead of 20: only "reached or not" matters.
* 3 tracks tell "the next" from "the one before" with repeat; 2 suffice where the user moves
  about himself.
* `BUDGET` bounds the user's actions, so that three of them may meet at any place of the two
  threads. It is also what makes "once the user leaves the player alone" come true.
* Three tracks in two albums, one of two tracks, have a next track inside and outside the album, at the end and
  in the middle. `AHEAD` = 1 is what the buffers hold of normal tracks; with 2, in `sel_edits`, a
  deleted track may be streaming, waiting and playing. `PLAYQUEUE_SIZE` = 2 instead of 100 has the queue empty, full and in
  between. Three actions are enough for "play, do something to what was chosen ahead, and something else before it is heard";
  `sel_choice` also passes with two tracks ahead.
* `pl_undo` has two edits because undo concerns what the second does to the record of the first: continued, grouped,
  taken together or not. Three items, one more that is read from a file and one free one give removals at both ends and in the
  middle, and items that come back. `CLI_FILES` = 1.
* `meta` makes four calls: two to make a string shared, one to search, one to change or search again. Two
  numbers for searches let them start over within that. Values have one part, several, an empty one inside and one in front, and one
  equals a key.
* `MAX_MESSAGES` = 3 with 5 messages has the pump run full, empty and reuse
  cells in another order; two senders and the main loop interleave between push and signal.

Only `sr_orderly` checks for deadlock. Everywhere else the system really may stop: playback ends, the user
stops acting, the main loop sleeps for good once nobody sends, as it should.
The ring never blocks as a whole, and there deadlock is checked.

### Fairness

The streamer thread loops for ever and sleeps 50 ms when it has nothing to do; the
output thread is called by its device as long as it plays. Hence weak fairness of each
thread as a whole, in `LiveSpec`. Nothing is assumed of the user, nor of which request
or which track comes.

In `Selection` there is weak fairness of three groups of steps: `Playback` (what is decoded is heard and the next track decoded),
`Loop` (what the streamer thread does at the head of its loop: modes, deletions, the end of buffering; the thread gets there after every
block, so playing on cannot keep it from it) and `Unlink` (who begins to delete a track goes on). Its liveness properties are
of the form "if from some time on nothing is requested and the modes stay, then": the premise is about the
end of the user's actions and not about the threads.

A sender that has begun to send finishes; the main
loop goes on unless it sleeps, and nothing wakes it but a signal.

### Seen in the models

Things the models contain, which are not run because a property that fails has nothing more to say once it is
understood. `hazards` in `PROJECT.json` has them at their lines.

* A playlist of tracks that all fail, with everything repeated: the output reads silence for ever, because `streaming_track`
  stays set without a decoder. `st_playback` therefore lets one track always open.
* A change of the repeat mode while the ring is empty and the next track is being read: the flush does not mark the next block as
  the first of a stream, and the track change is not announced. `st_settings` does not ask for attribution.
* A seek that opens its track again, when that track has gone, reaches a handle that has no decoder; when
  the seek fails the stream is no longer in order (`st_transport`, which asks for order, has seeks that succeed).
* A reset inside a read leaves blocks counted as ready that are not in the ring's list (`CurrBlockHasData` fails for `Spec`)
  until the next reset. References still balance; the theorem `RefsAccounted` has these resets, no run does.
* The fallback chosen for a deleted track is returned again and again until a track is played by hand.
* A deleted track that is decoded once more while another one waits before it is not cancelled, because it still is the playing
  track; `DeletedNotStreamed` states this exit.
* With albums shuffled and nothing repeated playback does not end: `streamer_next` asks again after the reshuffle, and
  a test expects it.
* Batching compares no playlists: a list cleared while another is shown leaves its operation in the
  buffer, and the next list to be cleared is added to it. Undo restores both into the first ("clear_another"). The theorems
  about undo exclude this act and `WAITS` = FALSE, and nothing else (`Announced`).
* With `WAITS` = FALSE callers break the contract of `plt_insert_item` (`CallsFit`, and then `ListsSound`, fail): an insertion can be asked for behind an item that is in no list any more: by the command line while the
  user deletes the item it remembers, by an undo of what a later change touched before it was recorded, or by copying into the list shown while
  files are added to another one, which gets the copy.
* Searches are numbered per playlist but remembered in strings that all playlists share. Without the condition in
  `SearchFinds` a first search in a second list answers for the text of the first list's first search; the same happens after 127
  searches of one list.

## The proofs

The provers work from the assumptions on the constants (`StreamReaderAssumption`,
`StreamerAssumption`, `SelectionAssumption`, `PumpAssumption`, `PlaylistAssumption`, `MetadataAssumption`), which say that sizes are positive, the sets are
of the right kind and, for the streamer, every track either may open or may fail. TLC evaluates them in the runs.
Each theorem ends with the usual temporal step from `Init => Inv`, `Inv /\ [Next]_vars => Inv'`.

**`StreamReader_proofs`** has two inductive invariants.

* `SafeInv` is preserved by every step, `ResetDuringRead` included, and gives
  `RefsAccounted` and `RingTyped`. Besides types and references it says that a block is queued exactly
  while it has data and names a track (`BlockShape`), that the handle of a read in
  progress is not queued (`ReadBlockFree`, or enqueueing would overwrite a reference
  without dropping it), that a decoder has a track (`OpenHasTrack`) and that the count is not ahead
  of the queued blocks (`CountBounded`). The reference count of a track is the cardinality of
  the set of blocks that name it, so each step needs to know how that set changes:
  `ReleaseKeeps` does this once for all steps that release.
* `RingInv` adds `HandleIsNext` and the window: a block is queued exactly if its distance from
  `block_data`, going round, is less than `numblocks_ready`. `DataIsContiguous` says the
  same with a set of successors; `WindowIsContiguous` shows that they agree, and the
  window is what arithmetic can work with. `RingInv` holds for `OrderlySpec` only and
  gives `RingContiguous`, `HandlePublished` and `DataVisible`.

The rest of the module names blocks by their position in the window (`At(i)`). `StreamBoundaries` alone says nothing of the block
to come, so `BoundaryInv` adds what the flag means: the next block starts a stream exactly when the newest one ended its
own; a decoder that has ended or failed has left a boundary behind; and without a boundary the newest block belongs to what
is being decoded. This gives `StreamsMarked`. For `RingIsQueue` each step is mapped: publishing to
`Append`, releasing to `Tail`, a reset to `Clear`, a flush to the prefix of the playing track's own blocks, all else to a
stutter. `ReadyIsSequence` relates the sequence that the abstract queue sees to positions.

**`Streamer_proofs`** has `IInv`: the type invariant, `DecoderTracked` and `Waits`. `Waits` gives `RequestHeldBack`: next and previous count
from `buffering_track` when it is set, and wherever a request can be handled the output is then still held back on that
track. It is not so in between: the code lets the output go before it forgets the track, and there the output may read, announce or stop (`pc` =
"buffered"). What matters is that no request is handled there.
`EnqueuedHasTrack` alone is not inductive: a read begins because there is a decoder, so the invariant
has to say that there is a track whenever there is one, and when the end of a stream has been
read. The bound on the ring is not inductive alone either: the room that was there when the read
began is still there when it ends, because only the streamer thread adds blocks. The type invariant
is divided into ring, decoded blocks, tracks and control, each with a step lemma of its own, because each
action disturbs few of them. The bound on decoded data needs the lemmas about `WithData` (of a
concatenation, of a suffix); `MaxOfBounded` replaces the choice in `Max`.

The second half of the module is about what is decoded ahead of the listener.

* `OriginIsPlaying` needs that no track fails to open (`MayFail = {}`): a track that fails while it is read ahead becomes the origin of
  next and previous although another one is playing.
* `PlaylistInOrder`: `OrderInv` is `StreamInOrder` with two parts that make it inductive. While a track ends or is opened the next block
  is due to begin a stream (`firstblock`), and what is about to be appended follows the last block (`NextJoined`). Filling the output
  buffer and playing from it move or drop blocks at one end without touching their marks (`FillMoves`, `Drops`), so both
  buffers can be treated as one sequence, `Ahead`. It assumes `Undisturbed`: nobody sets the repeat mode,
  which is not "repeat one", and seeks succeed. Without it a requeue or a seek that fails really breaks the order.
* `HeardIsPlaying`: `HeardInv` says that the block to be played next, or to be read next when nothing is buffered, belongs to the playing track (if there
  is one) unless it begins a stream. To carry this over
  several blocks that are played at once, the first block that differs is taken, which is the first of a stream by
  `StreamInOrder`, so that it was announced. It assumes that nobody seeks as well (`NeverSeeks`): while a seek opens the playing track again,
  the output may reach the next one.

**`Selection_proofs`** has `SelInv`. Most of it follows choices through their operators: for each of them a lemma says
that, given an order of the playlist's tracks, what it returns is a track of the playlist (or none) and again such an order.
Three parts are needed beside types:

* `AheadTyped`: the buffers' bound depends on whether something is still being streamed, and what was streamed last is what
  is being streamed. A requeue keeps the playing track's own part and goes on with the streaming one, which fits only
  because of this.
* `RemovedForgotten`: between the two halves of a deletion the track is still in the playlist, so that a choice could come across
  it; it is neither queued nor the fallback, which makes `FallbackInPlaylist` inductive over the second half.
* Orders carry "tracks rated alike are of one album". `AlbumsTogether` rests on it: as long as one track of the
  album is left, the lowest rating from the current one up is that of the album, and only its tracks have it.

`DeletionObeyed` is an action property: each step is shown to leave what is decoded in the playlist, or to be the exit
that the property names. `Without` is written out in the model because `SelectSeq` is recursive and opaque
to the provers; `NthOfSet` (`SequenceLemmas`) gives it a meaning.

**`Playlist_proofs`** begins with the links of playlists. `LinkedAs(lists, gone)` says that links, ends and counts spell out these
sequences, that they have no item in common, that what `plt_clear` has yet to forget is linked as the sequence `gone`, and that an
item in none of them has no neighbours; the lemma `LinkedIsSound` derives `ListsSound` from it, which is stated by walks along the links in both directions (`ChainRead`, `ReverseChained`). `InsertionKeepsLists` and
`RemovalKeepsLists` show that a call of `plt_insert_item` or `plt_remove_item` is `InsertAt` or `RemoveAt` on one
sequence and nothing else: first for the list itself (`ItemLinked`, `ItemUnlinked`), then for all of them.

The second half is about the whole specification: `ListsStaySound`, `RefsStayBalanced` and `PlaylistTypes` follow from one inductive
invariant, `PlaylistInv`: *there are* sequences with `State(lists, gone)`.

* `Balanced` is `RefsBalanced` with numbers that add up call by call: an item is in a list or to be forgotten (`Where`, 0 or 1), held by operations
  (`HeldByUndo`), by those that are being undone (`Running`), and by the calls to come (`Gives`). `RemovalHeld` and `InsertionHeld` say that
  recording a removal or an insertion takes exactly the references that its operation holds, batched or not.
* `ProgramFits` says what programs there can be. Without it the references would not be known to be counts: a call that keeps its reference (`hold` = 1)
  is followed by the one that releases it, or a negative number could turn up in between (`HoldsReleased`, `GivesEnough`); `forget`
  comes first, or second after a group begins, so that there is one chain of items to be forgotten; and there is one `finish` at most, so that
  its operations are the ones that `Executing` finds.
* Types are needed of everything that is recorded (`OpT`, `CallT`): an undo makes calls of what an operation contains.
* One lemma for each action shows that it keeps `State`. `SortStep` has most to do: it relinks a whole list in another order.

These three theorems assume `[]CallsFit`, the contract above: with it violated an insertion hits the assertion, or links two lists together, and nothing can be said.
They hold for every user. For the user who does not wait the code violates the contract (see *Seen in the models*); for the one who does, it
is a theorem too. The end of the module has what that theorem is about, operations and calls as relations on the value of the lists (`Effect`, `Done`).

**`PlaylistHistory_proofs`** shows that undo and redo bring back exactly what was there (`UndoAlwaysRestores`: `Playlist` implements `PlaylistHistory`), that
every call fits (`CallsAlwaysFit`), and so that lists, references and types are kept without that assumption (`UndoKeepsTheLists`): for any number of items, lists,
edits, files and repetitions. It assumes `Announced`: the user waits until a change was announced and until files have been added, and
does not clear a list that is not shown. That is the user of `pl_undo`; without the one half TLC finds `CallsFit` violated, without the other `UndoRestores`.

Both properties depend on each other. A call of an undo fits only if the lists are again what they were when its operation was recorded, and they are
only if all calls before it fitted. So there is one inductive invariant, `HistoryInv`: *there are* sequences `lists` and `gone`, a source and a destination list with `HistoryState`, which
has four parts.

* `State`, the invariant of `Playlist_proofs`, which ties the links, references and programs to the sequences.
* `Core`: the operations recorded since the last `undo_process`, executed from the newest, lead from the lists of now, with what `plt_clear` has yet to forget, back
  to the lists of then (`base`); and the entries of each stack lead back from there, one by one (`Steps`). "Lead" is `Path` over the relation `Effect` of an
  operation on values of the lists. `Effect` also demands that the items it inserts are in no list, *those being read into the hidden list included*: otherwise
  an undo could put back an item that is about to be moved from there.
  In a buffer all operations are for one source list, from which items are removed, and one destination list, into which they are inserted (`OpsAt`): `undo_remove_items`
  and `undo_insert_items` add to the last operation of the buffer when kind and group are the same, and never compare lists, which is harmless only then. "clear_another" breaks it.
* `Ahead`: the program that is under way can be done, call by call, each on the lists the one before it leaves (`Does`), and if it is an undo it ends with the lists
  that were to be brought back (`Answers`). `CallsFit` is what this says of the first call (`Fits`).
* `Quiet`: with nothing under way nothing is recorded, and the command line goes on behind an item of the list it adds to, or at its head.

The argument has three lemmas at its centre. `RemovalTrail` and `InsertionTrail` say that recording, batched or not, adds to the way back exactly one step, the
inverse of the call. `ExecutedPath` turns the way back of an entry, a path of operations, into the program that `ddb_undobuffer_execute` runs, a path of calls that
ends with the lists kept in the entry. `FinishCalled` finds what was recorded meanwhile to be an entry that leads back again, so that the other
stack gets one that fits. The actions of the user each begin a program (`Starts`); for moving, the only one
that makes its calls as it goes, `MoveTurn` shows that each turn leaves the item to go on with in the list.

**`MessagePump_proofs`**: `PoolDivided` is read off the cells by walking along their links, so it says nothing that a step could be
reasoned about with. The invariant `PumpInv` instead says that there *are* two sequences of cells, the free ones and the queued ones, that the links spell out
(`Divided`). Then pushing is `Tail` of the one and `Append` to the other (`PushDivides`), popping the reverse (`PopDivides`). `ListRead` shows that walking along the
links finds exactly those sequences: two functions that follow the same chain are equal by well-founded induction (`FollowedOnce`), and
the spelled sequence is such a function. `PoolKept`, `EventsKept` and `PumpIsFifo` follow. Events are counted as a set of
cells, to which one is added or from which one is removed; `EventsOfCells` turns this into the positions of the queue that `EventsAccounted`
counts.

**`SequenceLemmas`** replaces induction over data, which the provers cannot instantiate. `UpTo` is induction up to a
bound for a *set* of numbers (a predicate is passed as the set of the numbers that satisfy it), from the least counterexample.
`StepByStep` says that a function with `f[n] = step[<<f[n - 1], n>>]` exists for every step function, so that one written
in the model, `f[n \in 0 .. L] == IF n = 0 THEN ... ELSE ... f[n - 1] ...`, can be reasoned about: it is a `CHOOSE` of such
a function. `PositionsInOrder` says that a set of positions has a first, a second, ... one, which is what `PartAt` selects. `JoinedIn` is
induction over the parts of `Joined`, again for a set; `JoinedBoth`, `OverBoth` and `CountBoth` say that joining, making something of each element and counting
go through a concatenation. `Path` is what a sequence of operations, each a relation on states, can make of a state; paths are split, joined and
extended at either end (`PathBoth`, `PathFirst`, `PathMore`).

**`Metadata_proofs`** proves all four properties of `Metadata` from one inductive invariant, `MetaInv`.

* `FieldsInv`: every track that is there has a URI and its fields are `Ordered`: no key twice, and whatever precedes a tag or the URI is a
  tag. `TagsFirst` alone is not inductive: a tag is put before the first property, or before the last field when there is none, and
  the second is right only because a track always has its URI, which is never deleted. Nor does it say that the URI is the first
  property, without which the search, which stops at the next one, would miss the file name (`SearchedFields`).
* `CacheInv`: `Balanced` is `StringsReferenced` for every string there could be, those that are not in the cache included, or a string that
  comes back would not be known to start from nothing. The changes of one track are all of one kind, `Follows(m, r)`: the references
  move by exactly what the fields gain or lose. It is transitive (`FollowsOn`), so it goes through a copy of many fields
  (`FieldsCopied`) as through a single replacement (`ValueSet`), and `BalanceKept` needs to look at the other tracks only once. A value
  can be dropped by a call only if the fields do not have more of it than it has references (`Covered`), which is
  what the balance of all tracks gives for each one (`NowKnown`). Freeing a track is no such change, because of the keys it leaves (`LeakGrows`).
* `SearchInv`: `MemosNumbered` says that a memo is of a search some list has made, so that a number nobody has taken is new
  (`NumberIsNew`). A search then begins with nothing noted, and everything it notes is true (`Noted`): carried through the fields
  of a track (`TrackSearched`) and the rows of a list (`RowsSearched`), this gives `SearchesFind`. The premise that the number was not taken before
  is the one `SearchFinds` states; without it the code does answer wrongly (see *Seen in the models*).

Only model-checked: liveness and everything under fairness (`EventuallyStops`, `KeepsPlaying`, `BufferingEnds`,
`StopObeyed`, `PlaybackEnds`, `EveryTrackHeard`, `QueueServed`, `StopAfterObeyed`), which are out of the prover's reach. Every
invariant that a passing run checks is a theorem.

## The plan

In this order; what is done is marked.

1. *(done)* The ring, its queue, the streamer with both threads, the pump; first theorems.
2. *(done)* Track selection with shuffle, albums, the play queue and deletions, and theorems about it.
3. *(done)* Playlists with references and undo, as an implementation of a history of values.
4. *(done)* Fields, the metadata cache and the search.
5. *(done)* Proofs: the ring implements `BlockQueue`; the pump divides its cells and implements `MessageFifo`.
6. *(done)* `StreamInOrder`, `HeardAttributed` and `LastPlayedIsPlaying` as theorems; insertion and removal in playlists.
7. *(done)* Types, references, order of the fields and correctness of the search as theorems of `Metadata`.
8. *(done)* Lists, references and types of `Playlist` as theorems, call by call; that a buffer of operations, executed from the newest, leads
   from the lists of now back to those of before, which gives `CallsFit` and `UndoRestores` for the user who waits.
9. `Streamer` composed with `Selection`, for which the blocks of a track would have to be reduced to its boundaries first.
10. Decoded blocks as a ring of its own with its limit; the byte ring (`ringbuf.c`) as an algorithm; the cells of the request
   queue, whose reset takes no lock.
11. Lock order and output stop: playlist, streamer, output and pump mutexes, `play_next_album`,
   `streamer_set_output`, the joins at exit.

## Not modelled

By far the most lines of the repository are vendored decoders (emulators of game consoles, codecs, module players),
tables, and the GTK and Cocoa interfaces: sequential work on data, or clients of the core. The models
stand for some 3700 lines of the core, where threads, shared lists and references are; no model of
state and steps would cover a large share of the rest.

In the core: reading and writing files, tags, titles, configuration, plugins' start-up and shutdown, signal processing and
devices are sequential, or data without shared control. Of the modelled parts:

* `Streamer` leaves out remote streams, playlist links inside streams, `startpaused` and switching the output plugin while playing; the 100
  requests the request queue holds are out of reach of the few a run can send, and its cells, which `handler_reset` rebuilds without the
  mutex, are not there. `st_playback`, which asks for attribution, has neither seeks nor requeues. `streamer_ok_to_read` and the filling of the
  playback buffer are one step (`Fill`).
* `Selection` has one playlist; the streamer's own notion of a current playlist and moving between playlists are left out. So is
  `plt_clear`, which empties the list before it tells the streamer and the play queue of each track: tracks are removed one by one.
* `Playlist` leaves out `plt_autosort` at the end of adding files, off unless the user turns it on (it would be recorded
  as a removal and an insertion like `Sort`, which is a step of its own, and announced by a second event), the cursor, the selection that undo restores, durations, creating and deleting playlists, and the forms of the
  command line that replace the list.
* `StreamReader` has no reset inside a read after which nothing is streaming.
* `Metadata` takes `pl_add_meta_full`, which takes no lock, for a call under the playlist mutex. It leaves out look-ups, which change nothing, and the cache's functions for plugins (`metacache_get_value` and the
  deprecated `metacache_ref` / `metacache_unref`).

The list of components in `PROJECT.json` gives the reason for each part.
