----------------------------- MODULE MCStreamer -----------------------------
(* Small instances of Streamer for TLC.                                    *)
EXTENDS Streamer

Plays(tracks) == [kind : {"play"}, track : tracks]
Ask(kinds) == [kind : kinds, track : {NoTrack}]

PlayFirst  == Plays({1})
Transport  == Plays({1, 2}) \cup Ask({"stop", "next", "prev", "seek"})
PlayStopSeek == Plays({1}) \cup Ask({"stop", "seek"})

OneFormat  == [t \in Track |-> 1]
TwoFormats == [t \in Track |-> IF t = TRACKS THEN 2 ELSE 1]

=============================================================================
