--------------------------- MODULE MCStreamReader ---------------------------
(* Small instances of StreamReader for TLC.                                *)
EXTENDS StreamReader, TLC

TrackSymmetry == Permutations(Track)

=============================================================================
