---------------------------- MODULE MCSelection ----------------------------
(* Small instances of Selection for TLC.                                   *)
EXTENDS Selection

TwoAlbums == [t \in Track |-> IF t < TRACKS THEN 1 ELSE 2]

=============================================================================
