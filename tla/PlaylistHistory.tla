-------------------------- MODULE PlaylistHistory --------------------------
(***************************************************************************)
(* What undo and redo promise, without lists, operations or buffers: the   *)
(* playlists are a value, a user action changes it, and undo brings back   *)
(* the value of before the last action.  Module Playlist implements this.  *)
(***************************************************************************)
EXTENDS Sequences, SequencesExt

CONSTANT Contents   \* what the playlists can contain

VARIABLES lists,    \* the contents of the playlists
          base,     \* the contents when the last action was complete
          past,     \* the contents before each action that can be undone
          future    \* the contents before each undo that can be redone

vars == <<lists, base, past, future>>

Init ==
    /\ lists \in Contents
    /\ base = lists
    /\ past = <<>>
    /\ future = <<>>

\* An action in progress changes the playlists.
Edit ==
    /\ lists' \in Contents
    /\ UNCHANGED <<base, past, future>>

\* The action is complete: it can be undone, and nothing can be redone.
Commit ==
    /\ past' = Append(past, base)
    /\ future' = <<>>
    /\ base' = lists
    /\ UNCHANGED lists

\* Undo is offered between actions, and restores all that the last one did.
Undo ==
    /\ past # <<>> /\ lists = base
    /\ lists' = Last(past)
    /\ base' = lists'
    /\ past' = Front(past)
    /\ future' = Append(future, lists)

Redo ==
    /\ future # <<>> /\ lists = base
    /\ lists' = Last(future)
    /\ base' = lists'
    /\ future' = Front(future)
    /\ past' = Append(past, lists)

Next == Edit \/ Commit \/ Undo \/ Redo

Spec == Init /\ [][Next]_vars
=============================================================================
