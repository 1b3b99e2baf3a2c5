------------------------------ MODULE Playlist ------------------------------
(***************************************************************************)
(* The playlists (playlist.c, sort.c) and the undo of what is done to them *)
(* (undo/undo_playlist.c, shared/undo, the GTK interface's undostack.c).   *)
(*                                                                         *)
(* A playlist is a doubly linked list through its items.  Each insertion   *)
(* and removal appends the opposite operation to a buffer that all threads *)
(* share.  When the interface hears of the change, undo_process takes the  *)
(* buffer and pushes it onto the undo stack.  Undoing executes the buffer, *)
(* newest operation first, which fills the next buffer with the redo.      *)
(*                                                                         *)
(* The interface thread has a `program', the calls that its operation in   *)
(* progress has yet to make; a step makes one.  Under the playlist mutex   *)
(* no one else makes a step, and an operation that holds it to its end has *)
(* an "unlock" in its program.  The thread that serves the command line    *)
(* (main.c) inserts files of its own meanwhile.                            *)
(*                                                                         *)
(* Left out: the search list, the cursor, the selection that undo restores *)
(* and the durations.  The streamer's part is in module Selection.         *)
(***************************************************************************)
EXTENDS Integers, Sequences, FiniteSets, SequencesExt, SequenceParts

CONSTANTS Items,        \* items in memory, allocated or not
          Lists,        \* the playlists, which record undo operations
          Incoming,     \* the list that files are read into, which does not
          Initial,      \* the items of each list at the start
          NULL,
          CLI_FILES,    \* how many files one command line adds
          WAITS,        \* the user waits until a change was announced and
                        \* until files have been added
          UserActs,     \* what the user does, see the actions
          BUDGET        \* how many changes the user makes

AllLists == Lists \cup {Incoming}
Pointer == Items \cup {NULL}

ASSUME PlaylistAssumption ==
    /\ IsFiniteSet(Items) /\ NULL \notin Items
    /\ Incoming \notin Lists /\ NULL \notin Lists
    /\ \A p \in AllLists : Initial[p] \in Seq(Items) /\ IsInjective(Initial[p])
    /\ \A p, q \in AllLists : p # q => ToSet(Initial[p]) \cap ToSet(Initial[q]) = {}
    /\ {CLI_FILES, BUDGET} \subseteq Nat
    /\ WAITS \in BOOLEAN

VARIABLES
    head, tail, count,  \* of each playlist
    next, prev,         \* links of each item
    refs,               \* reference count of each item, 0: not allocated
    current,            \* _current_playlist
    adding,             \* addfiles_playlist
    adder,              \* where the command line inserts, and how many more
    operations,         \* the shared undo buffer, newest operation first
    grouping,           \* its grouping flag
    undo_stack, redo_stack, \* undostack.c: buffers, the last one is newest
    pending,            \* DB_EV_PLAYLISTCHANGED is under way
    program,            \* what the interface thread has yet to do
    base,               \* auxiliary: the playlists at the last undo_process
    failed,             \* an assertion failed
    budget              \* changes the user may still make

links == <<head, tail, count, next, prev>>
stacks == <<undo_stack, redo_stack>>
vars == <<links, refs, current, adding, adder, operations, grouping, stacks,
          pending, program, base, failed, budget>>

NoAdder == [after |-> NULL, left |-> 0]

---------------------------------------------------------------------------
(* Lists.                                                                  *)

\* The items met from x on, following link.
Chain(link, x) ==
    LET met[n \in Nat] ==
            IF n = 0 THEN <<x>>
            ELSE LET s == met[n - 1]
                 IN  IF link[Last(s)] = NULL THEN s ELSE Append(s, link[Last(s)])
    IN  IF x = NULL THEN <<>> ELSE met[Cardinality(Items)]

Tracks(p) == Chain(next, head[p])

\* What undo is about.
Contents == [p \in Lists |-> Tracks(p)]

\* s as the links of list p.
Previous(s) == [i \in ToSet(s) |-> LET k == CHOOSE k \in DOMAIN s : s[k] = i
                                   IN  IF k = 1 THEN NULL ELSE s[k - 1]]
Following(s) == Previous(Reverse(s))
Relinked(link, new) ==
    [i \in Items |-> IF i \in DOMAIN new THEN new[i] ELSE link[i]]

---------------------------------------------------------------------------
(* The undo buffer.                                                        *)

Operation(perform, p, items, position) ==
    [perform |-> perform, plt |-> p, items |-> items, position |-> position]

\* A group continues the newest operation if that is of the same kind.
Batches(perform) ==
    grouping /\ operations # <<>> /\ Head(operations).perform = perform

Extended(items) == [operations EXCEPT ![1].items = @ \o items]

\* Seeded fault: a removal continues any removal, wherever that was.
BatchesAnyRemoval(items) == Batches("insert")

BatchesRemoval(items) ==
    Batches("insert") /\ Head(operations).position = prev[items[1]]

\* undo_remove_items: undoing it inserts the items after their predecessor.
RemovalRecorded(p, items) ==
    IF p \notin Lists THEN operations
    ELSE IF BatchesRemoval(items) THEN Extended(items)
    ELSE <<Operation("insert", p, items, prev[items[1]])>> \o operations

\* Seeded fault: an item that is added to an operation is not referenced.
RemovalRefsOfNewOnly(p, items, i) ==
    IF p \notin Lists \/ BatchesRemoval(items) THEN 0
    ELSE (IF i \in ToSet(items) THEN 1 ELSE 0)
         + (IF prev[items[1]] = i THEN 1 ELSE 0)

RemovalRefs(p, items, i) ==
    IF p \notin Lists THEN 0
    ELSE (IF i \in ToSet(items) THEN 1 ELSE 0)
         + (IF ~BatchesRemoval(items) /\ prev[items[1]] = i THEN 1 ELSE 0)

\* undo_insert_items: undoing it removes the items.
InsertionRecorded(p, items) ==
    IF p \notin Lists THEN operations
    ELSE IF Batches("remove") THEN Extended(items)
    ELSE <<Operation("remove", p, items, NULL)>> \o operations

\* Seeded fault: operations on inserted items do not reference them.
InsertionRefsNone(p, items, i) == 0

InsertionRefs(p, items, i) ==
    IF p \in Lists /\ i \in ToSet(items) THEN 1 ELSE 0

\* What operations hold references to: the items, and the place to put them.
Referenced(ops) == Joined([n \in DOMAIN ops |-> <<ops[n].position>> \o ops[n].items])

\* The references to i that freeing these operations gives back.
Held(ops, i) == Cardinality({k \in DOMAIN Referenced(ops) : Referenced(ops)[k] = i})

\* The operations of these entries of a stack.
OperationsOf(entries) == Joined([m \in DOMAIN entries |-> entries[m].operations])

---------------------------------------------------------------------------
(* The calls that a program is made of.                                    *)

Group(p)      == [do |-> "group", plt |-> p]
EndGroup      == [do |-> "end_group"]
RemoveCall(p, item, hold) ==
    [do |-> "remove", plt |-> p, item |-> item, hold |-> hold]
InsertCall(p, after, item, release) ==
    [do |-> "insert", plt |-> p, after |-> after, item |-> item,
     release |-> release]
ForgetCall(p, item) == [do |-> "forget", plt |-> p, item |-> item]
MoveCall(to, from, it, idx, indexes, drop_after) ==
    [do |-> "move", to |-> to, from |-> from, it |-> it, idx |-> idx,
     indexes |-> indexes, drop_after |-> drop_after]
UnlockCall(p, goal) == [do |-> "unlock", plt |-> p, goal |-> goal]
Changed       == [do |-> "changed"]
FilesEnd      == [do |-> "files_end"]
Finish(type, entry) ==
    [do |-> "finish", type |-> type, operations |-> entry.operations,
     before |-> entry.before]

Call(do) == program # <<>> /\ Head(program).do = do

\* The interface thread holds the playlist mutex.
Locked == \E n \in DOMAIN program : program[n].do = "unlock"

\* The interface thread is free for the user.
Idle == program = <<>> /\ (WAITS => ~pending /\ adding = NULL)

Edit(act) == act \in UserActs /\ Idle /\ budget > 0 /\ budget' = budget - 1

\* plt_remove_item for each item of s.
RemoveCalls(p, s, hold) == [n \in DOMAIN s |-> RemoveCall(p, s[n], hold)]

\* plt_insert_item for each item of s, the first one after `after'.
InsertCalls(p, after, s) ==
    [n \in DOMAIN s |-> InsertCall(p, IF n = 1 THEN after ELSE s[n - 1], s[n], 0)]

---------------------------------------------------------------------------
(* plt_insert_item and plt_remove_item.                                    *)

\* plt_insert_item asserts that the item is linked to no other.
MayInsert(item) == next[item] = NULL /\ prev[item] = NULL

Inserted(p, after, item, release) ==
    LET follower == IF after = NULL THEN head[p] ELSE next[after] IN
    /\ operations' = InsertionRecorded(p, <<item>>)
    /\ refs' = [i \in Items |-> refs[i] + InsertionRefs(p, <<item>>, i)
                                + (IF i = item THEN 1 - release ELSE 0)]
    /\ next' = [i \in Items |-> IF i = item THEN follower
                                ELSE IF i = after THEN item ELSE next[i]]
    /\ prev' = [i \in Items |-> IF i = item THEN after
                                ELSE IF i = follower THEN item ELSE prev[i]]
    /\ head' = IF after = NULL THEN [head EXCEPT ![p] = item] ELSE head
    /\ tail' = IF IF after = NULL THEN head[p] = NULL ELSE after = tail[p]
               THEN [tail EXCEPT ![p] = item] ELSE tail
    /\ count' = [count EXCEPT ![p] = @ + 1]

\* Seeded fault: removing the last item leaves the tail where it was.
RemovedKeepsTail(p, item, hold) ==
    LET n == next[item]
        b == prev[item] IN
    /\ operations' = RemovalRecorded(p, <<item>>)
    /\ refs' = [i \in Items |-> refs[i] + RemovalRefs(p, <<item>>, i)
                                + (IF i = item THEN hold - 1 ELSE 0)]
    /\ next' = [next EXCEPT ![item] = NULL, ![b] = n]
    /\ prev' = [prev EXCEPT ![item] = NULL, ![n] = b]
    /\ head' = IF b = NULL THEN [head EXCEPT ![p] = n] ELSE head
    /\ count' = [count EXCEPT ![p] = @ - 1]
    /\ UNCHANGED tail

Removed(p, item, hold) ==
    LET n == next[item]
        b == prev[item]
        linked == n # NULL \/ b # NULL \/ head[p] = item \/ tail[p] = item
    IN
    /\ operations' = RemovalRecorded(p, <<item>>)
    /\ refs' = [i \in Items |-> refs[i] + RemovalRefs(p, <<item>>, i)
                                + (IF i = item THEN hold - 1 ELSE 0)]
    /\ next' = [i \in Items |-> IF i = item THEN NULL
                                ELSE IF i = b THEN n ELSE next[i]]
    /\ prev' = [i \in Items |-> IF i = item THEN NULL
                                ELSE IF i = n THEN b ELSE prev[i]]
    /\ head' = IF b = NULL THEN [head EXCEPT ![p] = n] ELSE head
    /\ tail' = IF n = NULL THEN [tail EXCEPT ![p] = b] ELSE tail
    /\ count' = IF linked THEN [count EXCEPT ![p] = @ - 1] ELSE count

---------------------------------------------------------------------------
(* The interface thread makes the next call of its program.                *)

DoGroup ==
    /\ Call("group")
    /\ LET p == Head(program).plt IN
       current' = IF p = NULL THEN current ELSE p
    /\ grouping' = TRUE
    /\ program' = Tail(program)
    /\ UNCHANGED <<links, refs, adding, adder, operations, stacks, pending,
                   base, failed, budget>>

DoEndGroup ==
    /\ Call("end_group")
    /\ grouping' = FALSE
    /\ program' = Tail(program)
    /\ UNCHANGED <<links, refs, current, adding, adder, operations, stacks,
                   pending, base, failed, budget>>

DoRemove ==
    /\ Call("remove")
    /\ LET c == Head(program) IN Removed(c.plt, c.item, c.hold)
    /\ program' = Tail(program)
    /\ UNCHANGED <<current, adding, adder, grouping, stacks, pending, base,
                   failed, budget>>

DoInsert ==
    /\ Call("insert")
    /\ LET c == Head(program) IN
       IF MayInsert(c.item)
       THEN /\ Inserted(c.plt, c.after, c.item, c.release)
            /\ UNCHANGED failed
       ELSE /\ failed' = TRUE
            /\ UNCHANGED <<links, refs, operations>>
    /\ program' = Tail(program)
    /\ UNCHANGED <<current, adding, adder, grouping, stacks, pending, base,
                   budget>>

\* One item of a list that plt_clear has emptied.
DoForget ==
    /\ Call("forget")
    /\ LET p == Head(program).plt
           item == Head(program).item
           n == next[item]
       IN
       /\ operations' = RemovalRecorded(p, <<item>>)
       /\ refs' = [i \in Items |-> refs[i] + RemovalRefs(p, <<item>>, i)
                                   - (IF i = item THEN 1 ELSE 0)]
       /\ next' = [next EXCEPT ![item] = NULL]
       /\ prev' = IF n = NULL THEN prev ELSE [prev EXCEPT ![n] = NULL]
       /\ program' = (IF n = NULL THEN <<>> ELSE <<ForgetCall(p, n)>>)
                     \o Tail(program)
    /\ UNCHANGED <<head, tail, count, current, adding, adder, grouping,
                   stacks, pending, base, failed, budget>>

\* One turn of the loop of plt_move_items.  The mutex is held.
DoMove ==
    /\ Call("move")
    /\ LET c == Head(program) IN
       IF c.it = NULL \/ c.indexes = <<>>
       THEN program' = Tail(program)
       ELSE IF c.idx = Head(c.indexes)
       THEN program' =
                <<RemoveCall(c.from, c.it, 1),
                  InsertCall(c.to, IF c.drop_after = c.it THEN prev[c.it]
                                   ELSE c.drop_after, c.it, 1),
                  MoveCall(c.to, c.from, next[c.it], c.idx + 1,
                           Tail(c.indexes), c.it)>> \o Tail(program)
       ELSE program' =
                <<MoveCall(c.to, c.from, next[c.it], c.idx + 1, c.indexes,
                           c.drop_after)>> \o Tail(program)
    /\ UNCHANGED <<links, refs, current, adding, adder, operations, grouping,
                   stacks, pending, base, failed, budget>>

DoUnlock ==
    /\ Call("unlock")
    /\ program' = Tail(program)
    /\ UNCHANGED <<links, refs, current, adding, adder, operations, grouping,
                   stacks, pending, base, failed, budget>>

\* DB_EV_PLAYLISTCHANGED is sent.
DoChanged ==
    /\ Call("changed")
    /\ pending' = TRUE
    /\ program' = Tail(program)
    /\ UNCHANGED <<links, refs, current, adding, adder, operations, grouping,
                   stacks, base, failed, budget>>

\* plt_add_files_end, which sends the event itself.  It would also sort a list
\* that has an order to be kept in (plt_autosort, off unless set): left out.
DoFilesEnd ==
    /\ Call("files_end")
    /\ adding' = NULL
    /\ pending' = TRUE
    /\ program' = Tail(program)
    /\ UNCHANGED <<links, refs, current, adder, operations, grouping, stacks,
                   base, failed, budget>>

---------------------------------------------------------------------------
(* What the user does to the playlists.                                    *)

Begin(calls) ==
    /\ program' = calls
    /\ UNCHANGED <<current, adding, adder, operations, grouping, stacks,
                   pending, base, failed>>

\* References that the caller takes to the items before it removes them.
Taken(items) == [i \in Items |-> refs[i] + (IF i \in items THEN 1 ELSE 0)]

InOrder(p, items) == PartAt(Tracks(p), {n \in DOMAIN Tracks(p) : Tracks(p)[n] \in items})

\* plt_delete_selected: the mutex is not held from one item to the next.
DeleteSelected ==
    /\ Edit("delete")
    /\ \E selected \in (SUBSET ToSet(Tracks(current))) \ {{}} :
        /\ refs' = Taken(selected)
        /\ Begin(<<Group(NULL)>> \o RemoveCalls(current, InOrder(current, selected), -1)
                 \o <<EndGroup, Changed>>)
    /\ UNCHANGED links

\* plt_crop_selected does the same to the others, one by one.
CropSelected ==
    /\ Edit("crop")
    /\ \E others \in (SUBSET ToSet(Tracks(current))) \ {{}} :
        /\ refs' = Taken(others)
        /\ Begin(RemoveCalls(current, InOrder(current, others), -1) \o <<Changed>>)
    /\ UNCHANGED links

\* plt_clear empties the list under the mutex, then forgets the items
\* without it.  Who clears a list that is not shown sends no event
\* (action_remove_from_playlist_handler).
Clear ==
    /\ \E p \in Lists :
        /\ Edit(IF p = current THEN "clear" ELSE "clear_another")
        /\ head[p] # NULL
        /\ head' = [head EXCEPT ![p] = NULL]
        /\ tail' = [tail EXCEPT ![p] = NULL]
        /\ count' = [count EXCEPT ![p] = 0]
        /\ Begin(<<Group(NULL), ForgetCall(p, head[p]), EndGroup>>
                 \o IF p = current THEN <<Changed>> ELSE <<>>)
    /\ UNCHANGED <<next, prev, refs>>

\* Where drag and drop puts the items.
DropAfter(p, before) == IF before = NULL THEN tail[p] ELSE prev[before]

\* The list that moving items to p, before `before', asks for.
Moved(p, before, items) ==
    LET old == Tracks(p)
        at == IF before = NULL THEN Len(old) + 1
              ELSE CHOOSE k \in DOMAIN old : old[k] = before
        stays == {n \in DOMAIN old : old[n] \notin ToSet(items)}
    IN  PartAt(old, stays \cap 1 .. at - 1) \o items
        \o PartAt(old, stays \cap at .. Len(old))

\* plt_move_items by drag and drop into the list shown.
MoveItems ==
    /\ Edit("move")
    /\ \E from \in Lists,
          before \in ToSet(Tracks(current)) \cup {NULL} :
       \E moved \in (SUBSET (DOMAIN Tracks(from))) \ {{}} :
        LET indexes == PartAt([k \in DOMAIN Tracks(from) |-> k - 1], moved)
            items == PartAt(Tracks(from), moved)
        IN  Begin(<<MoveCall(current, from, head[from], 0, indexes,
                             DropAfter(current, before)),
                    UnlockCall(current, Moved(current, before, items)),
                    Changed>>)
    /\ UNCHANGED <<links, refs>>

\* plt_copy_items copies an item to the list shown.  pl_insert_item puts it
\* into the list that files are being added to, if there is one.
CopyItem ==
    /\ Edit("copy")
    /\ \E new \in Items,
          before \in ToSet(Tracks(current)) \cup {NULL} :
        /\ refs[new] = 0
        /\ refs' = Taken({new})
        /\ Begin(<<InsertCall(IF adding = NULL THEN current ELSE adding,
                              DropAfter(current, before), new, 1),
                   UnlockCall(current, Moved(current, before, <<new>>)),
                   Changed>>)
    /\ UNCHANGED links

\* plt_sort_v2, under the mutex: all items are recorded as removed, put into
\* some order, and recorded as inserted.
Sort ==
    /\ Edit("sort")
    /\ head[current] # NULL
    /\ LET old == Tracks(current) IN
       \E perm \in Bijection(DOMAIN old, DOMAIN old) :
        LET new == [n \in DOMAIN old |-> old[perm[n]]] IN
        /\ head' = [head EXCEPT ![current] = new[1]]
        /\ tail' = [tail EXCEPT ![current] = Last(new)]
        /\ prev' = Relinked(prev, Previous(new))
        /\ next' = Relinked(next, Following(new))
        /\ operations' =
              <<Operation("remove", current, new, NULL)>>
              \o RemovalRecorded(current, old)
        /\ refs' = [i \in Items |-> refs[i] + RemovalRefs(current, old, i)
                                    + InsertionRefs(current, new, i)]
    /\ program' = <<Changed>>
    /\ UNCHANGED <<count, current, adding, adder, grouping, stacks, pending,
                   base, failed>>

\* The user looks at another list.
Switch ==
    /\ "switch" \in UserActs /\ Idle
    /\ current' \in Lists \ {current}
    /\ UNCHANGED <<links, refs, adding, adder, operations, grouping, stacks,
                   pending, program, base, failed, budget>>

---------------------------------------------------------------------------
(* Files are added: by the interface, which reads them into a list of its  *)
(* own and then moves them all, or from the command line, one by one.      *)

\* plt_add_files_begin
AddFiles ==
    /\ Edit("add")
    /\ adding = NULL /\ head[Incoming] # NULL
    /\ adding' = current
    /\ UNCHANGED <<links, refs, current, adder, operations, grouping, stacks,
                   pending, program, base, failed>>

\* The files are read: plt_move_all_items, plt_add_files_end.
FilesRead ==
    /\ program = <<>> /\ adding # NULL /\ adder = NoAdder
    /\ LET files == Tracks(Incoming) IN
       Begin(<<Group(NULL)>>
             \o Joined([n \in DOMAIN files |->
                    <<RemoveCall(Incoming, files[n], 1),
                      InsertCall(adding, IF n = 1 THEN tail[adding]
                                         ELSE files[n - 1], files[n], 1)>>])
             \o <<EndGroup, UnlockCall(adding, Tracks(adding) \o files),
                  FilesEnd>>)
    /\ UNCHANGED <<links, refs, budget>>

\* `deadbeef --queue' in the thread of the main loop, which does not look at
\* what the interface is doing; a user who waits is done before he types it.
\* The list it adds to, a certain one by default, becomes the current one.
CommandLine ==
    /\ "command_line" \in UserActs /\ budget > 0 /\ budget' = budget - 1
    /\ WAITS => Idle
    /\ adding = NULL /\ ~Locked
    /\ \E p \in Lists : /\ current' = p
                        /\ adding' = p
                        /\ adder' = [after |-> tail[p], left |-> CLI_FILES]
    /\ UNCHANGED <<links, refs, operations, grouping, stacks, pending,
                   program, base, failed>>

\* A file goes behind the one before, which is remembered, in a directory,
\* and to the end of the list when it is named by itself.  After the last one
\* the change is announced, before plt_add_files_end (main.c:654).
CommandLineFile ==
    /\ adder.left > 0 /\ ~Locked
    /\ \E new \in Items, after \in {adder.after, tail[adding]} :
        /\ refs[new] = 0
        /\ MayInsert(new)
        /\ Inserted(adding, after, new, 0)
        /\ adder' = [after |-> new, left |-> adder.left - 1]
    /\ pending' = (pending \/ adder.left = 1)
    /\ UNCHANGED <<current, adding, grouping, stacks, program, base, failed,
                   budget>>

\* plt_add_files_end, again without the sorting.
CommandLineEnd ==
    /\ adder # NoAdder /\ adder.left = 0 /\ ~Locked
    /\ adding' = NULL
    /\ adder' = NoAdder
    /\ pending' = TRUE
    /\ UNCHANGED <<links, refs, current, operations, grouping, stacks,
                   program, base, failed, budget>>

---------------------------------------------------------------------------
(* Undo.                                                                   *)

Entry(ops) == [operations |-> ops, before |-> base]

\* The references left when the buffers of these entries are freed.
Released(entries) == [i \in Items |-> refs[i] - Held(OperationsOf(entries), i)]

\* undo_process, called in the interface thread some time after the change;
\* the interface pushes the buffer and forgets what it could redo.
Process ==
    /\ program = <<>> /\ pending
    /\ pending' = FALSE
    /\ operations' = <<>>
    /\ grouping' = FALSE
    /\ base' = Contents
    /\ IF operations = <<>>
       THEN UNCHANGED <<stacks, refs>>
       ELSE /\ undo_stack' = Append(undo_stack, Entry(operations))
            /\ redo_stack' = <<>>
            /\ refs' = Released(redo_stack)
    /\ UNCHANGED <<links, current, adding, adder, program, failed, budget>>

\* _undo_perform_remove_items and _undo_perform_insert_items
Perform(op) ==
    <<Group(op.plt)>>
    \o (IF op.perform = "remove"
        THEN RemoveCalls(op.plt, op.items, 0)
        ELSE InsertCalls(op.plt, op.position, op.items))
    \o <<EndGroup>>

\* Seeded fault: from the oldest one.
ExecuteOldestFirst(type, entry) ==
    Joined([n \in DOMAIN entry.operations |-> Perform(Reverse(entry.operations)[n])])
    \o <<Finish(type, entry), Changed>>

\* ddb_undobuffer_execute runs through the buffer from the newest operation.
Execute(type, entry) ==
    Joined([n \in DOMAIN entry.operations |-> Perform(entry.operations[n])])
    \o <<Finish(type, entry), Changed>>

\* gtkui_undostack_perform_undo and gtkui_undostack_perform_redo
Undo ==
    /\ "undo" \in UserActs /\ Idle
    /\ undo_stack # <<>>
    /\ undo_stack' = Front(undo_stack)
    /\ program' = Execute("undo", Last(undo_stack))
    /\ UNCHANGED <<links, refs, current, adding, adder, operations, grouping,
                   redo_stack, pending, base, failed, budget>>

Redo ==
    /\ "undo" \in UserActs /\ Idle
    /\ redo_stack # <<>>
    /\ redo_stack' = Front(redo_stack)
    /\ program' = Execute("redo", Last(redo_stack))
    /\ UNCHANGED <<links, refs, current, adding, adder, operations, grouping,
                   undo_stack, pending, base, failed, budget>>

\* undo_process again, which takes what undoing has recorded, and the end of
\* the operations that were executed.
DoFinish ==
    /\ Call("finish")
    /\ IF operations = <<>>
       THEN UNCHANGED stacks
       ELSE IF Head(program).type = "undo"
       THEN /\ redo_stack' = Append(redo_stack, Entry(operations))
            /\ UNCHANGED undo_stack
       ELSE /\ undo_stack' = Append(undo_stack, Entry(operations))
            /\ UNCHANGED redo_stack
    /\ operations' = <<>>
    /\ grouping' = FALSE
    /\ base' = Contents
    /\ refs' = Released(<<Head(program)>>)
    /\ program' = Tail(program)
    /\ UNCHANGED <<links, current, adding, adder, pending, failed, budget>>

---------------------------------------------------------------------------
Init ==
    LET Links(new(_)) ==
            [i \in Items |->
                LET p == {p \in AllLists : i \in ToSet(Initial[p])}
                IN  IF p = {} THEN NULL
                    ELSE new(Initial[CHOOSE q \in p : TRUE])[i]]
        End(s, k) == IF s = <<>> THEN NULL ELSE s[k]
    IN
    /\ head = [p \in AllLists |-> End(Initial[p], 1)]
    /\ tail = [p \in AllLists |-> End(Initial[p], Len(Initial[p]))]
    /\ count = [p \in AllLists |-> Len(Initial[p])]
    /\ next = Links(Following)
    /\ prev = Links(Previous)
    /\ refs = [i \in Items |->
                  Cardinality({p \in AllLists : i \in ToSet(Initial[p])})]
    /\ current \in Lists
    /\ adding = NULL /\ adder = NoAdder
    /\ operations = <<>> /\ grouping = FALSE
    /\ undo_stack = <<>> /\ redo_stack = <<>>
    /\ pending = FALSE
    /\ program = <<>>
    /\ base = [p \in Lists |-> Initial[p]]
    /\ failed = FALSE
    /\ budget = BUDGET

Calls ==
    \/ DoGroup \/ DoEndGroup \/ DoRemove \/ DoInsert \/ DoForget \/ DoMove
    \/ DoUnlock \/ DoChanged \/ DoFilesEnd \/ DoFinish

User ==
    \/ DeleteSelected \/ CropSelected \/ Clear \/ MoveItems \/ CopyItem
    \/ Sort \/ Switch \/ AddFiles \/ Undo \/ Redo

Background ==
    FilesRead \/ CommandLine \/ CommandLineFile \/ CommandLineEnd \/ Process

\* A failed assertion ends the program.
Next == ~failed /\ (Calls \/ User \/ Background)

Spec == Init /\ [][Next]_vars

---------------------------------------------------------------------------
(* Properties.                                                             *)

OperationType(op) ==
    /\ op.perform \in {"insert", "remove"}
    /\ op.plt \in Lists
    /\ op.items # <<>> /\ ToSet(op.items) \subseteq Items
    /\ op.position \in Pointer

TypeOK ==
    /\ head \in [AllLists -> Pointer] /\ tail \in [AllLists -> Pointer]
    /\ count \in [AllLists -> Nat]
    /\ next \in [Items -> Pointer] /\ prev \in [Items -> Pointer]
    /\ refs \in [Items -> Nat]
    /\ current \in Lists /\ adding \in Lists \cup {NULL}
    /\ adder.after \in Pointer /\ adder.left \in 0 .. CLI_FILES
    /\ \A n \in DOMAIN operations : OperationType(operations[n])
    /\ \A stack \in {undo_stack, redo_stack} : \A e \in ToSet(stack) :
        \A n \in DOMAIN e.operations : OperationType(e.operations[n])
    /\ {grouping, pending, failed} \subseteq BOOLEAN
    /\ budget \in 0 .. BUDGET

\* The items that are still to be forgotten by plt_clear.
Forgotten ==
    UNION {IF program[n].do = "forget" THEN ToSet(Chain(next, program[n].item))
           ELSE {} : n \in DOMAIN program}

\* The lists are sound after each call, whatever was done and undone: from
\* the tail one meets the same items as from the head, as many as are counted,
\* an item is in one list, and an item in no list has no neighbours.  The
\* assertions of plt_insert_item rely on it.
ListsSound ==
    /\ ~failed
    /\ \A p \in AllLists :
        /\ Tracks(p) = Reverse(Chain(prev, tail[p]))
        /\ Len(Tracks(p)) = count[p]
    /\ \A p, q \in AllLists :
        p # q => ToSet(Tracks(p)) \cap ToSet(Tracks(q)) = {}
    /\ \A i \in Items :
        \/ \E p \in AllLists : i \in ToSet(Tracks(p))
        \/ i \in Forgotten
        \/ next[i] = NULL /\ prev[i] = NULL

\* The operations that are being undone, as a sequence of at most one.
Executing(type) ==
    LET finish == {call \in ToSet(program) : call.do = "finish" /\ call.type = type}
    IN  IF finish = {} THEN <<>> ELSE <<CHOOSE call \in finish : TRUE>>

\* References that the calls to come will give back, less those they will take.
HeldByProgram(i) ==
    Cardinality({n \in DOMAIN program :
        program[n].do = "remove" /\ program[n].item = i /\ program[n].hold = -1})
    + Cardinality({n \in DOMAIN program :
        program[n].do = "insert" /\ program[n].item = i /\ program[n].release = 1})
    - Cardinality({n \in DOMAIN program :
        program[n].do = "remove" /\ program[n].item = i /\ program[n].hold = 1})

\* Every reference is accounted for: the list an item is in, the operations
\* that could bring it back or name it as the place to do so, and the calls
\* under way.  One too few and an undo touches freed memory, one too many and
\* items are never freed.
RefsBalanced ==
    \A i \in Items :
        refs[i] =
            Cardinality({p \in AllLists : i \in ToSet(Tracks(p))})
            + (IF i \in Forgotten THEN 1 ELSE 0)
            + Held(operations, i)
            + Held(OperationsOf(undo_stack), i) + Held(OperationsOf(redo_stack), i)
            + Held(OperationsOf(Executing("undo")), i)
            + Held(OperationsOf(Executing("redo")), i)
            + HeldByProgram(i)

\* The contract that the callers of plt_insert_item and plt_remove_item have
\* to keep, which neither checks: an item that is removed is in that list;
\* one that is inserted is in none, and goes after an item of the list or to
\* its start, also when the place was chosen calls ago, in another thread, or
\* recorded by an operation that is undone.
CallsFit ==
    LET c == Head(program) IN
    /\ Call("remove") => c.item \in ToSet(Tracks(c.plt))
    /\ Call("insert") => /\ c.item \notin Forgotten \cup UNION {ToSet(Tracks(p)) : p \in AllLists}
                         /\ c.after \in ToSet(Tracks(c.plt)) \cup {NULL}
    /\ adder.left > 0 => adder.after \in ToSet(Tracks(adding)) \cup {NULL}

Befores(s) == [n \in DOMAIN s |-> s[n].before]

\* Undo and redo, however they are batched and in whatever order the calls
\* are recorded, restore exactly the lists of before the last action: what
\* is executed is hidden until it is complete.
History == INSTANCE PlaylistHistory WITH
    Contents <- [Lists -> Seq(Items)],
    lists <- IF Executing("undo") \o Executing("redo") = <<>>
             THEN Contents ELSE base,
    past <- Befores(undo_stack \o Executing("undo")),
    future <- Befores(redo_stack \o Executing("redo"))

UndoRestores == History!Spec

\* "this function must move items in playlist / list of items is
\* indexes[count] / drop_before is insertion point" (playlist.c:3830): when
\* plt_move_items lets the mutex go, the items at these indexes, and no
\* others, are where they were to go.
MovedAsAsked ==
    Call("unlock") => Tracks(Head(program).plt) = Head(program).goal

=============================================================================
