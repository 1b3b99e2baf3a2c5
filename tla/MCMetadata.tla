----------------------------- MODULE MCMetadata -----------------------------
(* A small instance of Metadata for TLC.                                   *)
EXTENDS Metadata

TwoAndOne == [p \in {"A", "B"} |-> IF p = "A" THEN <<1, 2>> ELSE <<3>>]

FileNames == [t \in {1, 2, 3} |-> IF t = 1 THEN "ab.mp3" ELSE "b.mp3"]

SingleAndMultiple == {<<"a">>, <<"title">>, <<"ab", "", "a">>, <<"", "a">>}

Containing == {<<"a", "a">>, <<"ab", "a">>, <<"ab", "b">>,
               <<"ab.mp3", "a">>, <<"ab.mp3", "b">>, <<"b.mp3", "b">>}

=============================================================================
