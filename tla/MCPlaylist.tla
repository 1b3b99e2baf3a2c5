----------------------------- MODULE MCPlaylist -----------------------------
(* Small instances of Playlist for TLC.                                    *)
EXTENDS Playlist

CONSTANTS t1, t2, t3, t4, t5, A, B, T

ThreeInOne == [p \in {A, B, T} |-> IF p = A THEN <<t1, t2, t3>>
                                   ELSE IF p = B THEN <<>> ELSE <<t4>>]

FourInOne == [p \in {A, T} |-> IF p = A THEN <<t1, t2, t3, t4>> ELSE <<>>]

=============================================================================
