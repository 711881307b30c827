------------------------------ MODULE VBlankQueue ------------------------------
(***************************************************************************)
(* The queue of callbacks of the DS front end (vblank_task_queue.h and     *)
(* doAtVBlank, vblankHandler and drawScreen of gbgfx.cpp).  The foreground *)
(* asks for callbacks, the VBlank interrupt runs what is waiting, callback *)
(* by callback, and a callback may ask for others.  Two fixed arrays take  *)
(* turns; a VBlank during a commit of video memory runs nothing.           *)
(***************************************************************************)
EXTENDS Integers, Sequences

CONSTANTS Capacity,   \* 64 in the code
          Tasks, None,
          Follow,     \* the callbacks a callback asks for
          MaxDue      \* bounds what the foreground may leave waiting

ASSUME QueueAssumption == /\ Capacity \in Nat /\ None \notin Tasks
                          /\ Follow \in [Tasks -> Seq(Tasks)]

VARIABLES tasks, lengths, pending,   \* the two arrays, what they hold, and the one that is filled
          batch,                     \* what the interrupt is running: array, count, next
          videoCommitInProgress,
          vblankTaskOverflow, stopped,
          due                        \* what was asked for and has not been run, in order
queueVars == <<tasks, lengths, pending, batch, videoCommitInProgress, vblankTaskOverflow, stopped, due>>

Idle == [array |-> 0, count |-> 0, next |-> 1]
Draining == batch.next <= batch.count

QueueInit == /\ tasks = [a \in 0..1 |-> [i \in 1..Capacity |-> None]] /\ lengths = [a \in 0..1 |-> 0]
        /\ pending = 0 /\ batch = Idle /\ videoCommitInProgress = FALSE
        /\ vblankTaskOverflow = FALSE /\ stopped = FALSE /\ due = << >>

\* The arrays and lengths after enqueueing some callbacks in turn; what does not fit is dropped.
Enqueue(wanted) ==
  LET room == Capacity - lengths[pending]
      n == IF Len(wanted) <= room THEN Len(wanted) ELSE room
  IN /\ tasks' = [tasks EXCEPT ![pending] =
                    [i \in 1..Capacity |-> IF i > lengths[pending] /\ i <= lengths[pending] + n
                                             THEN wanted[i - lengths[pending]] ELSE tasks[pending][i]]]
     /\ lengths' = [lengths EXCEPT ![pending] = @ + n]
     /\ vblankTaskOverflow' = (vblankTaskOverflow \/ n < Len(wanted))

\* doAtVBlank of the foreground, which the interrupt cannot split.
DoAtVBlankTask(t) == /\ ~Draining /\ ~videoCommitInProgress
                 /\ Enqueue(<<t>>) /\ due' = Append(due, t)
                 /\ UNCHANGED <<pending, batch, videoCommitInProgress, stopped>>
\* Mutant: the array that is run is the one that is filled.
BeginDrainSame == /\ batch' = [array |-> pending, count |-> lengths[pending], next |-> 1]
                  /\ lengths' = [lengths EXCEPT ![pending] = 0] /\ UNCHANGED pending
BeginDrain == /\ batch' = [array |-> pending, count |-> lengths[pending], next |-> 1]
              /\ lengths' = [lengths EXCEPT ![pending] = 0] /\ pending' = 1 - pending
\* vblankHandler: switch the arrays, unless a commit is under way.
VBlank == /\ ~Draining /\ ~videoCommitInProgress /\ BeginDrain
          /\ UNCHANGED <<tasks, videoCommitInProgress, vblankTaskOverflow, stopped, due>>
RunTask == /\ Draining
           /\ batch' = [batch EXCEPT !.next = @ + 1]
           /\ Enqueue(Follow[tasks[batch.array][batch.next]])
           /\ due' = Tail(due) \o Follow[tasks[batch.array][batch.next]]
           /\ UNCHANGED <<pending, videoCommitInProgress, stopped>>
\* servicePendingVideoFrameCommit starts only with nothing waiting; the foreground ends it.
Commit == /\ ~Draining
          /\ \/ videoCommitInProgress \/ lengths[pending] = 0
          /\ videoCommitInProgress' = ~videoCommitInProgress
          /\ UNCHANGED <<tasks, lengths, pending, batch, vblankTaskOverflow, stopped, due>>
\* drawScreen stops the program when a callback was dropped.
DrawScreenStops == /\ ~Draining /\ ~videoCommitInProgress /\ vblankTaskOverflow
              /\ stopped' = TRUE
              /\ UNCHANGED <<tasks, lengths, pending, batch, videoCommitInProgress, vblankTaskOverflow, due>>

QueueNext == /\ ~stopped
        /\ \/ \E t \in Tasks : Len(due) <= MaxDue /\ DoAtVBlankTask(t)
           \/ VBlank \/ RunTask \/ Commit \/ DrawScreenStops
QueueSpec == QueueInit /\ [][QueueNext]_queueVars

-----------------------------------------------------------------------------
\* The callbacks that wait: the rest of the batch, and the array that is filled.
Queued == SubSeq(tasks[batch.array], batch.next, batch.count) \o SubSeq(tasks[pending], 1, lengths[pending])

(* Every callback that was asked for is run once, in the order they were     *)
(* asked for, also those that callbacks ask for while the interrupt runs;    *)
(* only an overflow, which stops the program, loses one                      *)
(* (vblank_task_queue.h:20-38, gbgfx.cpp:715-797).                           *)
TasksRunInOrder == vblankTaskOverflow \/ Queued = due
=============================================================================
