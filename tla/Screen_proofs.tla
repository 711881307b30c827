----------------------------- MODULE Screen_proofs -----------------------------
(***************************************************************************)
(* Proofs about the way of a picture to the screen.                        *)
(*                                                                         *)
(* The staged commit (VideoCommit): for every set of blocks, every screen, *)
(* every bound and any number of writes and switches, no line is drawn     *)
(* from the tiles of another frame unless a late copy is about to be       *)
(* recorded as a fault, the three buffers keep their roles, and no change  *)
(* of the game's video memory is forgotten.                                *)
(*                                                                         *)
(* The replay of the lines (ScanlineReplay): the DS shows the lines of a   *)
(* frame as the Game Boy drew them, for any number of lines in a byte and  *)
(* any writes between them.                                                *)
(*                                                                         *)
(* The LCD controller and the timers (LcdTimer): for any lengths of the    *)
(* modes, any number of lines, any periods and any batch that overshoots   *)
(* by less than a frame, the line and mode are those of the cycles counted *)
(* (LcdInTime), and DIV and TIMA have counted what their clocks gave.      *)
(*                                                                         *)
(* The queue of the vertical blank (VBlankQueue): for arrays of any size   *)
(* and whatever callbacks ask for others, what is due is the rest of the   *)
(* batch and then the array that is filled (OrderInv), which is never the  *)
(* one that is run (ArraysInv).                                            *)
(*                                                                         *)
(* The four share no state, and are proved one after the other.            *)
(***************************************************************************)
EXTENDS VideoCommit, ScanlineReplay, LcdTimer, VBlankQueue, BasicLemmas, SequenceTheorems, TLAPS

-----------------------------------------------------------------------------
(* The staged commit: the inductive invariant.                             *)

Contents == [Blocks -> Nat]
InCommit == {"copy", "copied", "publish", "final"}
Places == {"guest", "await", "sleep", "present", "service"} \cup InCommit

Roles == [displayed : 0..2, producer : 0..2, ready : 0..3, free : 0..3]

TypeInv ==
  /\ slots \in Roles
  /\ buf \in [0..2 -> [Blocks -> Int]]
  /\ vram \in Contents /\ live \in Contents /\ staged \in Contents
  /\ pc \in Places /\ ret \in {"guest", "await"}
  /\ active \in BOOLEAN /\ settled \in BOOLEAN

\* Of the three buffers one is shown, one is drawn into, and the third is
\* ready or free.
RolesInv ==
  /\ slots.displayed # slots.producer
  /\ slots.ready \notin {slots.displayed, slots.producer}
  /\ slots.free \notin {slots.displayed, slots.producer}
  /\ HasReady <=> slots.free = NoSlot

\* A ready buffer is one of a staged picture, and holds what is staged.
ReadyInv == HasReady => active /\ buf[slots.ready] = staged

\* A commit is one of a ready buffer; while it copies, video memory lacks what
\* is left to copy, then it holds the stage, and at last what is shown.
CommitInv ==
  /\ pc \in InCommit => active
  /\ pc \in {"copy", "copied", "publish"} => HasReady
  /\ pc = "copy" => \A b \in Blocks : b \in toCopy \/ live[b] = staged[b]
  /\ pc \in {"copied", "publish", "final"} => \A b \in Blocks : live[b] = staged[b]
  /\ pc = "final" => buf[slots.displayed] = staged

\* What differs between the stage and video memory is marked.
DirtyInv == active => \A b \in Blocks : b \in stagedDirty \/ live[b] = staged[b]

\* Outside a commit, and until a fault, video memory fits the buffer shown.
ShownInv == settled /\ fault = "NONE" /\ pc \notin InCommit => live = buf[slots.displayed]

IInv == /\ TypeInv /\ RolesInv /\ ReadyInv /\ CommitInv /\ DirtyInv /\ ShownInv
        /\ ChangesQueued

LEMMA FreshRoles == Fresh \in Roles
  <1>1. 0 \in 0..2 /\ 1 \in 0..2 /\ 3 \in 0..3 /\ 2 \in 0..3
    OBVIOUS
  <1> QED BY <1>1, Zenon DEF Fresh, Roles

LEMMA SameContents ==
    ASSUME NEW f \in Contents, NEW g \in Contents, \A b \in Blocks : f[b] = g[b]
    PROVE  f = g
  BY DEF Contents

\* A frame that is complete is not one being drawn.
LEMMA CompleteIsNotPartial ==
    ASSUME NEW f \in Contents
    PROVE  f # Partial
  <1>1. PICK b \in Blocks : TRUE
    BY VideoAssumption
  <1>2. f[b] \in Nat /\ Partial[b] = -1
    BY <1>1 DEF Contents, Partial
  <1> QED BY <1>2

LEMMA InitInv == Init => IInv
  <1> SUFFICES ASSUME Init PROVE IInv
    OBVIOUS
  <1>1. Blank \in Contents /\ Blank \in [Blocks -> Int]
    BY DEF Blank, Contents
  <1>2. TypeInv
    <2>1. buf \in [0..2 -> [Blocks -> Int]]
      BY <1>1 DEF Init
    <2> QED BY <1>1, <2>1, FreshRoles DEF Init, TypeInv, Places, InCommit
  <1>3. RolesInv /\ ReadyInv
    BY DEF Init, RolesInv, ReadyInv, Fresh, HasReady, NoSlot
  <1>4. CommitInv /\ DirtyInv /\ ShownInv
    BY DEF Init, CommitInv, DirtyInv, ShownInv, InCommit
  <1>5. ChangesQueued
    BY DEF Init, ChangesQueued
  <1> QED BY <1>2, <1>3, <1>4, <1>5 DEF IInv

-----------------------------------------------------------------------------
(* Every step keeps it.                                                    *)

\* A step of the screen, of the waits or of the menu, which touches neither
\* buffers nor contents and neither begins nor ends a commit.
LEMMA IdleStep ==
    ASSUME IInv, UNCHANGED <<frame, active, fault, toCopy>>,
           ret' \in {"guest", "await"},
           \/ pc' = pc
           \/ pc \notin InCommit /\ pc' \in Places \ InCommit
    PROVE  IInv'
  <1>1. TypeInv'
    BY DEF IInv, TypeInv, frame
  <1>2. RolesInv' /\ ReadyInv' /\ DirtyInv' /\ ChangesQueued'
    BY DEF IInv, RolesInv, ReadyInv, DirtyInv, ChangesQueued, HasReady, NoSlot, frame
  <1>3. CommitInv' /\ ShownInv'
    BY DEF IInv, CommitInv, ShownInv, InCommit, HasReady, NoSlot, frame
  <1> QED BY <1>1, <1>2, <1>3 DEF IInv

LEMMA GuestWritesStep == IInv /\ GuestWrites => IInv'
  <1> SUFFICES ASSUME IInv, GuestWrites PROVE IInv'
    OBVIOUS
  <1> USE DEF IInv
  <1>1. PICK n \in 1..MaxWrites, w \in Blocks :
           /\ vram' = [vram EXCEPT ![w] = n]
           /\ w \in changed' \cup inFrame'
           /\ changed \subseteq changed' /\ inFrame \subseteq inFrame'
    BY DEF GuestWrites
  <1>2. /\ pc = "guest" /\ pc' = pc /\ ret' = ret /\ active' = active /\ fault' = fault
        /\ slots' = slots /\ live' = live /\ staged' = staged /\ stagedDirty' = stagedDirty
        /\ settled' = settled /\ buf' = [buf EXCEPT ![slots.producer] = Partial]
    BY DEF GuestWrites, mode, waits
  <1>3. slots.producer \in 0..2 /\ slots.displayed \in 0..2 /\ Partial \in [Blocks -> Int]
    BY DEF TypeInv, Roles, Partial
  <1>4. TypeInv'
    <2>1. vram' \in Contents
      BY <1>1 DEF TypeInv, Contents
    <2>2. buf' \in [0..2 -> [Blocks -> Int]]
      BY <1>2, <1>3 DEF TypeInv
    <2> QED BY <1>2, <2>1, <2>2 DEF TypeInv
  <1>5. RolesInv'
    BY <1>2 DEF RolesInv, HasReady, NoSlot
  <1>6. ReadyInv'
    <2> SUFFICES ASSUME HasReady PROVE active /\ buf'[slots.ready] = staged
      BY <1>2 DEF ReadyInv, HasReady, NoSlot
    <2>1. slots.ready \in 0..2 /\ slots.ready # slots.producer
      BY DEF TypeInv, Roles, RolesInv, HasReady, NoSlot
    <2> QED BY <1>2, <2>1 DEF ReadyInv, TypeInv
  <1>7. CommitInv' /\ DirtyInv'
    BY <1>2 DEF CommitInv, DirtyInv, InCommit
  <1>8. ShownInv'
    BY <1>2, <1>3 DEF ShownInv, RolesInv, TypeInv
  <1>9. ChangesQueued'
    BY <1>1, <1>2 DEF ChangesQueued, TypeInv, Contents
  <1> QED BY <1>4, <1>5, <1>6, <1>7, <1>8, <1>9

LEMMA RefreshGFXStep == IInv /\ RefreshGFX => IInv'
  <1> SUFFICES ASSUME IInv, RefreshGFX PROVE IInv'
    OBVIOUS
  <1> USE DEF IInv, RefreshGFX, waits
  <1>1. TypeInv'
    BY FreshRoles DEF TypeInv
  <1>2. RolesInv' /\ ReadyInv'
    BY DEF RolesInv, ReadyInv, Fresh, HasReady, NoSlot
  <1>3. CommitInv' /\ DirtyInv' /\ ShownInv' /\ ChangesQueued'
    BY DEF CommitInv, DirtyInv, ShownInv, ChangesQueued, InCommit
  <1> QED BY <1>1, <1>2, <1>3

\* What Convert makes of a frame: it is one, and has every change that is queued.
LEMMA Converted ==
    ASSUME NEW target \in Contents, vram \in Contents
    PROVE  /\ Convert(target) \in Contents
           /\ \A b \in Blocks : Convert(target)[b] = IF b \in changed THEN vram[b] ELSE target[b]
  BY DEF Convert, Contents

\* The roles of the buffers when a frame is finished.
LEMMA CompletedRoles ==
    ASSUME TypeInv, RolesInv, NEW assets, StageCompleted(assets)
    PROVE  /\ slots' \in Roles /\ RolesInv'
           /\ slots'.displayed = slots.displayed
           /\ slots'.ready = slots.producer
           /\ slots.producer \in 0..2 /\ slots'.producer \in 0..2
           /\ slots.displayed \in 0..2
           /\ buf' = [buf EXCEPT ![slots.producer] = assets, ![slots'.producer] = assets]
  <1>1. /\ slots.producer \in 0..2 /\ slots.displayed \in 0..2
        /\ slots.ready \in 0..3 /\ slots.free \in 0..3
    BY DEF TypeInv, Roles
  <1> DEFINE next == IF HasReady THEN slots.ready ELSE slots.free
  <1>2. next \in 0..2 /\ next # slots.producer /\ next # slots.displayed
    BY <1>1 DEF RolesInv, HasReady, NoSlot
  <1>3. slots' = [slots EXCEPT !.ready = slots.producer, !.free = NoSlot, !.producer = next]
    BY DEF StageCompleted
  <1> HIDE DEF next
  <1>4. /\ slots'.displayed = slots.displayed /\ slots'.ready = slots.producer
        /\ slots'.free = NoSlot /\ slots'.producer = next /\ slots' \in Roles
    <2>1. slots \in Roles /\ slots.producer \in 0..3 /\ NoSlot \in 0..3
      BY <1>1 DEF TypeInv, NoSlot
    <2> QED BY <1>2, <1>3, <2>1 DEF Roles
  <1>5. RolesInv'
    BY <1>1, <1>2, <1>4 DEF RolesInv, HasReady, NoSlot
  <1> QED BY <1>1, <1>2, <1>4, <1>5 DEF StageCompleted

\* Staging a frame: every queued change is in the stage and marked.
LEMMA StageStep ==
    ASSUME IInv, pc = "present", pc' = "service", ret' = "guest",
           StageFrame, UNCHANGED <<vram, live, settled, toCopy>>
    PROVE  IInv'
  <1> USE DEF IInv
  <1>1. CASE HasReady /\ active /\ age = StaleFrames
    <2>1. /\ fault' = "NO_COMMIT_OPPORTUNITY" /\ active' = TRUE
          /\ UNCHANGED <<slots, buf, changed, inFrame, staged, stagedDirty>>
      BY <1>1 DEF StageFrame
    <2>2. TypeInv'
      BY <2>1 DEF TypeInv, Places, InCommit
    <2>3. RolesInv' /\ ReadyInv' /\ CommitInv'
      BY <1>1, <2>1 DEF RolesInv, ReadyInv, CommitInv, HasReady, NoSlot, InCommit
    <2>4. DirtyInv' /\ ShownInv' /\ ChangesQueued'
      BY <1>1, <2>1 DEF DirtyInv, ShownInv, ChangesQueued
    <2> QED BY <2>2, <2>3, <2>4
  <1>2. CASE ~(HasReady /\ active /\ age = StaleFrames)
    <2> DEFINE target == IF active THEN staged ELSE live
    <2>1. /\ active' = TRUE /\ fault' = fault
          /\ staged' = Convert(target) /\ stagedDirty' = Dirty
          /\ changed' = inFrame /\ StageCompleted(staged')
      BY <1>2 DEF StageFrame, PutOff
    <2>2. target \in Contents /\ vram \in Contents
      BY DEF TypeInv
    <2>3. /\ staged' \in Contents
          /\ \A b \in Blocks : staged'[b] = IF b \in changed THEN vram[b] ELSE target[b]
      <3> HIDE DEF target
      <3> QED BY <2>1, <2>2, Converted
    <2>4. /\ slots' \in Roles /\ RolesInv'
          /\ slots'.displayed = slots.displayed
          /\ slots'.ready = slots.producer
          /\ slots.producer \in 0..2 /\ slots'.producer \in 0..2
          /\ slots.displayed \in 0..2
          /\ buf' = [buf EXCEPT ![slots.producer] = staged', ![slots'.producer] = staged']
      BY <2>1, CompletedRoles
    <2>5. staged' \in [Blocks -> Int]
      BY <2>3 DEF Contents
    <2>6. buf \in [0..2 -> [Blocks -> Int]]
      BY DEF TypeInv
    <2>7. TypeInv'
      <3>1. buf' \in [0..2 -> [Blocks -> Int]]
        BY <2>4, <2>5, <2>6
      <3> QED BY <2>1, <2>3, <2>4, <3>1 DEF TypeInv, Places, InCommit
    <2>8. ReadyInv'
      BY <2>1, <2>4, <2>6 DEF ReadyInv
    <2>9. CommitInv'
      BY DEF CommitInv, InCommit
    <2>10. DirtyInv'
      BY <2>1, <2>3 DEF DirtyInv, Dirty
    <2>11. ShownInv'
      <3>1. slots.displayed # slots.producer /\ slots.displayed # slots'.producer
        BY <2>4 DEF RolesInv
      <3>2. buf'[slots'.displayed] = buf[slots.displayed]
        BY <2>4, <2>6, <3>1
      <3> QED BY <2>1, <3>2 DEF ShownInv, InCommit
    <2>12. ChangesQueued'
      BY <2>1, <2>3 DEF ChangesQueued
    <2> QED BY <2>4, <2>7, <2>8, <2>9, <2>10, <2>11, <2>12
  <1> QED BY <1>1, <1>2

\* Showing a frame without a stage: the buffers swap and the changes are taken.
LEMMA ShowStep ==
    ASSUME IInv, ~active, pc = "present", pc' = "guest",
           ShowNow, UNCHANGED <<active, fault, vram, ret, toCopy>>
    PROVE  IInv'
  <1> USE DEF IInv
  <1>1. /\ live \in Contents /\ vram \in Contents /\ buf \in [0..2 -> [Blocks -> Int]]
        /\ slots \in Roles /\ slots.displayed \in 0..2 /\ slots.producer \in 0..2
    BY DEF TypeInv, Roles
  <1>2. /\ live' \in Contents /\ live' \in [Blocks -> Int]
        /\ \A b \in Blocks : live'[b] = IF b \in changed THEN vram[b] ELSE live[b]
    BY <1>1, Converted DEF ShowNow, Contents
  <1>3. /\ slots' \in Roles /\ slots'.displayed = slots.producer
        /\ slots'.producer = slots.displayed
        /\ slots'.ready = slots.ready /\ slots'.free = slots.free
    BY <1>1 DEF ShowNow, Roles
  <1>4. buf' = [buf EXCEPT ![slots.producer] = live']
    BY DEF ShowNow
  <1>5. buf' \in [0..2 -> [Blocks -> Int]] /\ buf'[slots.producer] = live'
    BY <1>1, <1>2, <1>4
  <1>6. TypeInv'
    BY <1>2, <1>3, <1>5 DEF TypeInv, ShowNow, Places
  <1>7. RolesInv' /\ ReadyInv'
    BY <1>3 DEF RolesInv, ReadyInv, HasReady, NoSlot
  <1>8. CommitInv' /\ DirtyInv' /\ ShownInv'
    BY <1>3, <1>5 DEF CommitInv, DirtyInv, ShownInv, InCommit
  <1>9. ChangesQueued'
    BY <1>2 DEF ChangesQueued, ShowNow, PutOff
  <1> QED BY <1>6, <1>7, <1>8, <1>9

LEMMA PresentStep == IInv /\ Present => IInv'
  <1> SUFFICES ASSUME IInv, Present PROVE IInv'
    OBVIOUS
  <1>1. pc = "present" /\ toCopy' = toCopy
    BY DEF Present, copying
  <1>2. CASE (active /\ (suspended = "pause" \/ fault # "NONE")) \/ suspended = "mask"
    <2>1. pc' = "guest" /\ UNCHANGED <<active, fault, frame, ret>>
      BY <1>2 DEF Present
    <2>2. ret' \in {"guest", "await"} /\ pc \notin InCommit /\ pc' \in Places \ InCommit
      BY <1>1, <2>1 DEF IInv, TypeInv, InCommit, Places
    <2> QED BY <1>1, <2>1, <2>2, IdleStep
  <1>3. CASE /\ ~((active /\ (suspended = "pause" \/ fault # "NONE")) \/ suspended = "mask")
             /\ active \/ (fast /\ seen > 0 /\ fault = "NONE")
    <2>1. pc' = "service" /\ ret' = "guest" /\ StageFrame /\ UNCHANGED <<vram, live, settled>>
      BY <1>3 DEF Present
    <2> QED BY <1>1, <2>1, StageStep
  <1>4. CASE /\ ~((active /\ (suspended = "pause" \/ fault # "NONE")) \/ suspended = "mask")
             /\ ~(active \/ (fast /\ seen > 0 /\ fault = "NONE"))
    <2>1. /\ ~active /\ pc' = "guest" /\ ShowNow /\ UNCHANGED <<active, fault, vram, ret>>
      BY <1>4 DEF Present
    <2> QED BY <1>1, <2>1, ShowStep
  <1> QED BY <1>2, <1>3, <1>4

LEMMA ServiceStep == IInv /\ Service => IInv'
  <1> SUFFICES ASSUME IInv, Service PROVE IInv'
    OBVIOUS
  <1>1. /\ pc \in {"guest", "service"} /\ ret' \in {"guest", "await"}
        /\ UNCHANGED <<frame, active, fault>>
    BY DEF Service, IInv, TypeInv, mode
  <1>2. CASE fault = "NONE" /\ suspended = "no" /\ active /\ HasReady /\ MayCommit /\ ~callbacks
    <2>1. active /\ HasReady /\ pc' = "copy" /\ toCopy' = stagedDirty
      BY <1>2 DEF Service
    <2>2. TypeInv'
      BY <1>1, <2>1 DEF IInv, TypeInv, Places, InCommit, frame
    <2>3. RolesInv' /\ ReadyInv' /\ DirtyInv' /\ ChangesQueued'
      BY <1>1 DEF IInv, RolesInv, ReadyInv, DirtyInv, ChangesQueued, HasReady, NoSlot, frame
    <2>4. CommitInv' /\ ShownInv'
      BY <1>1, <2>1 DEF IInv, CommitInv, ShownInv, DirtyInv, InCommit, HasReady, NoSlot, frame
    <2> QED BY <2>2, <2>3, <2>4 DEF IInv
  <1>3. CASE ~(fault = "NONE" /\ suspended = "no" /\ active /\ HasReady /\ MayCommit /\ ~callbacks)
    <2>1. pc' = ret' /\ toCopy' = toCopy
      BY <1>3 DEF Service, copying
    <2>2. pc \notin InCommit /\ pc' \in Places \ InCommit
      BY <1>1, <2>1 DEF Places, InCommit
    <2> QED BY <1>1, <2>1, <2>2, IdleStep
  <1> QED BY <1>2, <1>3

LEMMA CopyBlockStep == IInv /\ CopyBlock => IInv'
  <1> SUFFICES ASSUME IInv, CopyBlock PROVE IInv'
    OBVIOUS
  <1> USE DEF IInv
  <1>1. PICK c \in toCopy : live' = [live EXCEPT ![c] = staged[c]] /\ toCopy' = toCopy \ {c}
    BY DEF CopyBlock
  <1>2. /\ pc = "copy" /\ pc' = pc
        /\ UNCHANGED <<active, fault, slots, buf, vram, changed, inFrame, staged, stagedDirty,
                       settled, ret>>
    BY DEF CopyBlock, mode, waits
  <1>3. active /\ HasReady
    BY <1>2 DEF CommitInv, InCommit
  <1>4. /\ live' \in Contents
        /\ \A b \in Blocks : live'[b] = IF b = c THEN staged[b] ELSE live[b]
    BY <1>1 DEF TypeInv, Contents
  <1>5. TypeInv' /\ RolesInv' /\ ReadyInv'
    BY <1>2, <1>4 DEF TypeInv, RolesInv, ReadyInv, HasReady, NoSlot
  <1>6. CommitInv'
    BY <1>1, <1>2, <1>3, <1>4 DEF CommitInv, InCommit, HasReady, NoSlot
  <1>7. DirtyInv' /\ ShownInv' /\ ChangesQueued'
    BY <1>2, <1>3, <1>4 DEF DirtyInv, ShownInv, ChangesQueued, InCommit
  <1> QED BY <1>5, <1>6, <1>7

LEMMA CopyEndsStep == IInv /\ CopyEnds => IInv'
  <1> SUFFICES ASSUME IInv, CopyEnds PROVE IInv'
    OBVIOUS
  <1> USE DEF IInv
  <1>1. /\ pc = "copy" /\ toCopy = {} /\ pc' = "copied"
        /\ UNCHANGED <<active, fault, frame, ret, toCopy>>
    BY DEF CopyEnds, mode, waits, copying
  <1>2. TypeInv' /\ RolesInv' /\ ReadyInv'
    BY <1>1 DEF TypeInv, RolesInv, ReadyInv, Places, InCommit, HasReady, NoSlot, frame
  <1>3. CommitInv'
    BY <1>1 DEF CommitInv, InCommit, HasReady, NoSlot, frame
  <1>4. DirtyInv' /\ ShownInv' /\ ChangesQueued'
    BY <1>1 DEF DirtyInv, ShownInv, ChangesQueued, InCommit, frame
  <1> QED BY <1>2, <1>3, <1>4

LEMMA CheckCopyStep == IInv /\ CheckCopy => IInv'
  <1> SUFFICES ASSUME IInv, CheckCopy PROVE IInv'
    OBVIOUS
  <1> USE DEF IInv
  <1>1. /\ pc = "copied" /\ UNCHANGED <<active, frame, ret>>
        /\ \/ pc' = "publish" /\ fault' = fault
           \/ pc' = ret /\ fault' = "DEADLINE"
    BY DEF CheckCopy, waits
  <1>2. TypeInv' /\ RolesInv' /\ ReadyInv'
    BY <1>1 DEF TypeInv, RolesInv, ReadyInv, Places, InCommit, HasReady, NoSlot, frame
  <1>3. CommitInv'
    BY <1>1 DEF CommitInv, TypeInv, InCommit, HasReady, NoSlot, frame
  <1>4. DirtyInv' /\ ShownInv' /\ ChangesQueued'
    BY <1>1 DEF DirtyInv, ShownInv, ChangesQueued, InCommit, frame
  <1> QED BY <1>2, <1>3, <1>4

\* Publishing shows the ready buffer, whose frame video memory holds by now.
LEMMA PublishStep == IInv /\ Publish => IInv'
  <1> SUFFICES ASSUME IInv, Publish PROVE IInv'
    OBVIOUS
  <1> USE DEF IInv
  <1>1. /\ pc = "publish"
        /\ UNCHANGED <<active, buf, vram, changed, inFrame, live, staged, stagedDirty, settled, ret>>
    BY DEF Publish, waits
  <1>2. active /\ HasReady
    BY <1>1 DEF CommitInv, InCommit
  <1>3. CASE InTime
    <2>1. pc' = "final" /\ fault' = fault /\ slots' = CommitReady
      BY <1>3 DEF Publish
    <2>2. /\ slots.ready \in 0..2 /\ slots.displayed \in 0..2 /\ slots.displayed \in 0..3
          /\ slots.producer \in 0..2 /\ NoSlot \in 0..3 /\ slots \in Roles
      BY <1>2 DEF TypeInv, Roles, HasReady, NoSlot
    <2>3. /\ slots' \in Roles /\ slots'.displayed = slots.ready /\ slots'.free = slots.displayed
          /\ slots'.ready = NoSlot /\ slots'.producer = slots.producer
      BY <2>1, <2>2 DEF CommitReady, Roles
    <2>4. TypeInv'
      BY <1>1, <2>1, <2>3 DEF TypeInv, Places, InCommit
    <2>5. RolesInv' /\ ReadyInv'
      BY <1>2, <2>2, <2>3 DEF RolesInv, ReadyInv, HasReady, NoSlot
    <2>6. CommitInv'
      BY <1>1, <1>2, <2>1, <2>3 DEF CommitInv, ReadyInv, InCommit
    <2>7. DirtyInv' /\ ShownInv' /\ ChangesQueued'
      BY <1>1, <2>1 DEF DirtyInv, ShownInv, ChangesQueued, InCommit
    <2> QED BY <2>4, <2>5, <2>6, <2>7
  <1>4. CASE ~InTime
    <2>1. fault' = "DEADLINE" /\ pc' = ret /\ slots' = slots
      BY <1>4 DEF Publish
    <2>2. TypeInv' /\ RolesInv' /\ ReadyInv'
      BY <1>1, <2>1 DEF TypeInv, RolesInv, ReadyInv, Places, HasReady, NoSlot
    <2>3. CommitInv' /\ DirtyInv' /\ ShownInv' /\ ChangesQueued'
      BY <1>1, <1>2, <2>1 DEF CommitInv, DirtyInv, ShownInv, ChangesQueued, TypeInv, InCommit
    <2> QED BY <2>2, <2>3
  <1> QED BY <1>3, <1>4

LEMMA CheckFinalStep == IInv /\ CheckFinal => IInv'
  <1> SUFFICES ASSUME IInv, CheckFinal PROVE IInv'
    OBVIOUS
  <1> USE DEF IInv
  <1>1. /\ pc = "final" /\ pc' = ret
        /\ UNCHANGED <<active, slots, buf, vram, changed, inFrame, live, staged, settled, ret>>
        /\ fault' = fault \/ fault' = "DEADLINE"
    BY DEF CheckFinal, waits
  <1>2. TypeInv' /\ RolesInv' /\ ReadyInv'
    BY <1>1 DEF TypeInv, RolesInv, ReadyInv, Places, HasReady, NoSlot
  <1>3. \A b \in Blocks : live[b] = staged[b]
    BY <1>1 DEF CommitInv
  <1>4. live = staged
    BY <1>3, SameContents DEF TypeInv
  <1>5. buf[slots.displayed] = staged
    BY <1>1 DEF CommitInv
  <1>6. CommitInv'
    BY <1>1 DEF CommitInv, TypeInv, InCommit
  <1>7. DirtyInv' /\ ShownInv' /\ ChangesQueued'
    BY <1>1, <1>3, <1>4, <1>5 DEF DirtyInv, ShownInv, ChangesQueued
  <1> QED BY <1>2, <1>6, <1>7

LEMMA NextInv == IInv /\ [Next]_vars => IInv'
  <1> SUFFICES ASSUME IInv, [Next]_vars PROVE IInv'
    OBVIOUS
  <1>0. ret \in {"guest", "await"} /\ pc \in Places
    BY DEF IInv, TypeInv
  <1>1. CASE UNCHANGED vars
    BY <1>0, <1>1, IdleStep DEF vars, mode, waits, copying
  <1>2. CASE Tick \/ VBlankHandler \/ DoAtVBlank \/ Switch
    <2>1. UNCHANGED <<frame, active, fault, toCopy, ret, pc>>
      BY <1>2 DEF Tick, VBlankHandler, DoAtVBlank, Switch, mode, waits, copying
    <2> QED BY <1>0, <2>1, IdleStep
  <1>3. CASE DrawScreen \/ AwaitPoll \/ AwaitEnds \/ Sleep
    <2>1. /\ UNCHANGED <<frame, active, fault, toCopy>> /\ ret' \in {"guest", "await"}
          /\ pc \in {"guest", "await", "sleep"}
          /\ pc' \in {"present", "await", "sleep", "service"}
      BY <1>0, <1>3 DEF DrawScreen, AwaitPoll, AwaitEnds, Sleep, mode, waits, copying
    <2>2. pc \notin InCommit /\ pc' \in Places \ InCommit
      BY <2>1 DEF Places, InCommit
    <2> QED BY <2>1, <2>2, IdleStep
  <1>4. CASE GuestWrites
    BY <1>4, GuestWritesStep
  <1>5. CASE RefreshGFX
    BY <1>5, RefreshGFXStep
  <1>6. CASE Present
    BY <1>6, PresentStep
  <1>7. CASE Service
    BY <1>7, ServiceStep
  <1>8. CASE CopyBlock
    BY <1>8, CopyBlockStep
  <1>9. CASE CopyEnds
    BY <1>9, CopyEndsStep
  <1>10. CASE CheckCopy
    BY <1>10, CheckCopyStep
  <1>11. CASE Publish
    BY <1>11, PublishStep
  <1>12. CASE CheckFinal
    BY <1>12, CheckFinalStep
  <1> QED BY <1>1, <1>2, <1>3, <1>4, <1>5, <1>6, <1>7, <1>8, <1>9, <1>10, <1>11, <1>12 DEF Next

-----------------------------------------------------------------------------
(* What the runs check.                                                    *)

\* A line of the picture is late for any copy.
LEMMA PictureIsLate == line \in Picture => ~InTime
  BY VideoAssumption DEF Picture, InTime, MayPublish

LEMMA InvariantHolds == Spec => []IInv
  <1> QED BY InitInv, NextInv, PTL DEF Spec

\* No line of the picture is drawn from another frame's tiles and maps, unless
\* a copy is late that CheckCopy, Publish or CheckFinal will record as a fault
\* (servicePendingVideoFrameCommit).
THEOREM NeverTears == Spec => []NoTear
  <1>1. IInv => NoTear
    <2> SUFFICES ASSUME IInv, active, settled, fault = "NONE", line \in Picture
                 PROVE  \/ live = buf[slots.displayed]
                        \/ pc \in {"copy", "copied", "publish", "final"} /\ ~InTime
      BY DEF NoTear
    <2>1. CASE pc \in InCommit
      BY <2>1, PictureIsLate DEF InCommit
    <2>2. CASE pc \notin InCommit
      BY <2>2 DEF IInv, ShownInv
    <2> QED BY <2>1, <2>2
  <1> QED BY <1>1, InvariantHolds, PTL

\* The buffers that are shown, drawn into and ready are never the same, and a
\* ready one is complete (gbgfx_stage.h).
THEOREM SlotsAlwaysDiffer == Spec => []SlotsDiffer
  <1>1. IInv => SlotsDiffer
    <2> SUFFICES ASSUME IInv PROVE SlotsDiffer
      OBVIOUS
    <2>1. slots \in Roles /\ DOMAIN slots = {"displayed", "producer", "ready", "free"}
      BY DEF IInv, TypeInv, Roles
    <2>2. \A r, q \in DOMAIN slots : r # q /\ slots[r] # NoSlot => slots[r] # slots[q]
      BY <2>1 DEF IInv, RolesInv, Roles, HasReady, NoSlot
    <2>3. HasReady => buf[slots.ready] # Partial
      BY CompleteIsNotPartial DEF IInv, ReadyInv, TypeInv
    <2> QED BY <2>2, <2>3 DEF SlotsDiffer
  <1> QED BY <1>1, InvariantHolds, PTL

\* Whatever frames are staged, dropped, shown or drawn anew, a change of the
\* game's video memory is in the stage or on the screen, or is queued.
THEOREM ChangesStayQueued == Spec => []ChangesQueued
  <1>1. IInv => ChangesQueued
    BY DEF IInv
  <1> QED BY <1>1, InvariantHolds, PTL

-----------------------------------------------------------------------------
(* The replay of the lines.  A record tells a line from the line before it *)
(* (Tells): what it leaves out has not changed, which is what the flags    *)
(* say while the line is being drawn (FlagsInv).  So the registers of the  *)
(* DS match the last line it handled (Matches), and matching one line they *)
(* match the next when its record has been drawn over them; one missed     *)
(* line is told by its own record, drawn late.                             *)

ConstantsOK == Height \in 1..256 /\ Settings # {}

FlagsType == [line : BOOLEAN, maps : BOOLEAN, pal : BOOLEAN, obj : BOOLEAN]
PictureType == [scroll : Settings, winOn : BOOLEAN, winX : Int, winRow : Int, objOn : BOOLEAN,
                pal : Settings, obj : Settings]
SlotType == [modified : BOOLEAN, maps : BOOLEAN, objOn : BOOLEAN, scroll : Settings, winOn : BOOLEAN,
             winX : Int, winPosY : Int, palOn : BOOLEAN, hash : Settings, pal : Settings,
             objMod : BOOLEAN, obj : Settings]
Rows == 0..(Height - 1)

ReplayTypeInv ==
  /\ TypeOK
  /\ flags \in FlagsType /\ winX \in WXs
  /\ buffers \in [0..1 -> [Rows -> SlotType]] /\ displayed \in 0..1
  /\ truth \in [Rows -> PictureType] /\ shown \in [Rows -> PictureType] /\ ds \in PictureType
  /\ missed \in BOOLEAN /\ handled \in 0..Height

\* The maps of two lines, one below the other, look alike; a record has those
\* of a line.
SameMaps(t, u) ==
  /\ u.scroll = t.scroll /\ u.objOn = t.objOn /\ u.winOn = t.winOn
  /\ u.winOn => u.winX = t.winX /\ u.winRow = t.winRow + 1
HasMaps(s, u) ==
  /\ s.scroll = u.scroll /\ s.objOn = u.objOn /\ s.winOn = u.winOn
  /\ u.winOn => s.winX = u.winX /\ s.winPosY = u.winRow

\* The record s of the first line, and of line u below line t.
First(s, u) == HasMaps(s, u) /\ s.pal = u.pal /\ s.obj = u.obj
Tells(s, t, u) ==
  /\ IF s.modified /\ s.maps THEN HasMaps(s, u) ELSE SameMaps(t, u)
  /\ u.pal = IF s.modified /\ s.palOn THEN s.pal ELSE t.pal
  /\ u.obj = IF s.modified /\ s.objMod THEN s.obj ELSE t.obj

\* Registers d of the DS show line y as u.
Matches(d, u, y) ==
  /\ d.scroll = u.scroll /\ d.objOn = u.objOn /\ d.winOn = u.winOn
  /\ u.winOn => d.winX = u.winX /\ d.winRow + y = u.winRow
  /\ d.pal = u.pal /\ d.obj = u.obj

\* The lines of the frame that have been recorded.
Done == IF lcdMode = "vblank" THEN Height ELSE IF lcdMode = "hblank" THEN ly + 1 ELSE ly
FrameInv ==
  /\ Done > 0 => First(buffers[producer][0], truth[0])
  /\ \A y \in 1..(Done - 1) : Tells(buffers[producer][y], truth[y - 1], truth[y])

\* A flag that is down says that the registers are those of the line above.
Unchanged(u, f) ==
  /\ ~f.maps => /\ regs.scroll = u.scroll /\ regs.objOn = u.objOn
                /\ u.winOn = WindowOn(regs, winX, Done - 1)
                /\ u.winX = winX /\ u.winRow = winPosY /\ winPosY # -2
  /\ ~f.pal => regs.pal = u.pal
  /\ ~f.obj => regs.obj = u.obj
FlagsInv ==
  /\ flags.maps \/ flags.pal \/ flags.obj => flags.line
  /\ Done > 0 /\ lcdMode # "vblank" => Unchanged(truth[Done - 1], flags)

WindowInv ==
  /\ winPosY <= Done - 1
  /\ winPosY = -2 /\ lcdMode # "vblank" => regs.wy <= ly
  /\ lcdMode = "vblank" => ly = 0

\* The hash is compared instead of the palette.
HashInv == \A b \in 0..1, y \in Rows : buffers[b][y].hash = buffers[b][y].pal

HostInv ==
  IF handled = Height THEN host = Height
  ELSE /\ host = handled + (IF missed THEN 2 ELSE 1)
       /\ lineCompleted \subseteq 0..handled
       /\ ~missed /\ buffers[displayed][handled].modified => handled \in lineCompleted
       /\ \A y \in 1..(Height - 1) : Tells(buffers[displayed][y], shown[y - 1], shown[y])
       /\ Matches(ds, shown[handled], handled)

ReplayInv == ReplayTypeInv /\ FrameInv /\ FlagsInv /\ WindowInv /\ HashInv /\ HostInv

(* ---------------------------- recording a line -------------------------- *)
LEMMA RowFacts ==
  ASSUME ConstantsOK, ReplayTypeInv, WindowInv, lcdMode = "draw"
  PROVE  /\ NextWindowLine \in -1..ly
         /\ WindowOn(regs, winX, ly) => NextWindowLine \in 0..255
<1>1. /\ ly \in 0..(Height - 1) /\ winPosY \in -2..(ly - 1) /\ regs.wy \in 0..Height
      /\ winPosY = -2 => regs.wy <= ly
      /\ Height \in 1..256
  BY DEF ConstantsOK, ReplayTypeInv, TypeOK, WindowInv, Done, Regs
<1>2. NextWindowLine = IF winPosY = -2 THEN ly - regs.wy
                       ELSE IF WindowOn(regs, winX, ly) THEN winPosY + 1 ELSE winPosY
  BY DEF NextWindowLine
<1> QED BY <1>1, <1>2

LEMMA RecordedFields ==
  ASSUME NEW slot \in SlotType, NEW f \in FlagsType, NEW row \in Int, regs \in Regs, winX \in WXs,
         ly \in Int
  PROVE  LET s == Recorded(slot, f, row) IN
         /\ s \in SlotType /\ s.modified = f.line
         /\ f.line => s.maps = f.maps /\ s.palOn = f.pal /\ s.objMod = f.obj
         /\ f.line /\ f.maps => /\ s.scroll = regs.scroll /\ s.objOn = regs.objOn
                                /\ s.winOn = WindowOn(regs, winX, ly)
                                /\ s.winX = winX /\ s.winPosY = row % 256
         /\ f.line /\ f.obj => s.obj = regs.obj
         /\ f.line /\ f.pal => /\ s.hash = regs.pal
                               /\ slot.hash = slot.pal => s.pal = regs.pal
         /\ slot.hash = slot.pal => s.hash = s.pal
<1>1. /\ regs.scroll \in Settings /\ regs.objOn \in BOOLEAN /\ regs.pal \in Settings /\ regs.obj \in Settings
      /\ WindowOn(regs, winX, ly) \in BOOLEAN /\ winX \in Int /\ row % 256 \in Int
  BY DEF Regs, WindowOn, WXs, Far
<1> DEFINE on == [slot EXCEPT !.objOn = regs.objOn, !.modified = f.line]
<1>2. /\ on \in SlotType /\ on.modified = f.line /\ on.objOn = regs.objOn
      /\ on.hash = slot.hash /\ on.pal = slot.pal
  BY <1>1 DEF SlotType, FlagsType
<1>3. CASE ~f.line
  <2>1. Recorded(slot, f, row) = on
    BY <1>3 DEF Recorded
  <2> QED BY <1>2, <1>3, <2>1
<1>4. CASE f.line
  <2> DEFINE obj == IF f.obj THEN regs.obj ELSE on.obj
             scroll == IF f.maps THEN regs.scroll ELSE on.scroll
             winOn == IF f.maps THEN WindowOn(regs, winX, ly) ELSE on.winOn
             wx == IF f.maps THEN winX ELSE on.winX
             pos == IF f.maps THEN row % 256 ELSE on.winPosY
             pal == IF f.pal /\ (slot.hash # regs.pal \/ ly = 0) THEN regs.pal ELSE on.pal
             hash == IF f.pal THEN regs.pal ELSE on.hash
  <2>1. Recorded(slot, f, row) =
          [on EXCEPT !.maps = f.maps, !.palOn = f.pal, !.objMod = f.obj, !.obj = obj,
                     !.scroll = scroll, !.winOn = winOn, !.winX = wx, !.winPosY = pos,
                     !.pal = pal, !.hash = hash]
    BY <1>4 DEF Recorded
  <2>2. /\ obj \in Settings /\ scroll \in Settings /\ winOn \in BOOLEAN /\ wx \in Int /\ pos \in Int
        /\ pal \in Settings /\ hash \in Settings
        /\ f.maps \in BOOLEAN /\ f.pal \in BOOLEAN /\ f.obj \in BOOLEAN
    BY <1>1, <1>2 DEF SlotType, FlagsType
  <2>3. /\ f.maps => scroll = regs.scroll /\ winOn = WindowOn(regs, winX, ly) /\ wx = winX /\ pos = row % 256
        /\ f.obj => obj = regs.obj
        /\ f.pal => hash = regs.pal /\ (slot.hash = slot.pal => pal = regs.pal)
        /\ slot.hash = slot.pal => hash = pal
    BY <1>2
  <2> DEFINE s == Recorded(slot, f, row)
  <2> HIDE DEF on, obj, scroll, winOn, wx, pos, pal, hash
  <2>4. s \in SlotType
    <3> DEFINE half == [on EXCEPT !.maps = f.maps, !.palOn = f.pal, !.objMod = f.obj, !.obj = obj,
                                  !.scroll = scroll]
    <3>1. half \in SlotType
      BY <1>2, <2>2 DEF SlotType
    <3>2. s = [half EXCEPT !.winOn = winOn, !.winX = wx, !.winPosY = pos, !.pal = pal, !.hash = hash]
      BY <2>1
    <3> HIDE DEF half
    <3> QED BY <2>2, <3>1, <3>2 DEF SlotType
  <2>5. s.modified = f.line /\ s.objOn = regs.objOn
    BY <1>2, <2>1 DEF SlotType
  <2>6. s.maps = f.maps /\ s.palOn = f.pal /\ s.objMod = f.obj
    BY <1>2, <2>1 DEF SlotType
  <2>7. /\ s.obj = obj /\ s.scroll = scroll /\ s.winOn = winOn /\ s.winX = wx
        /\ s.winPosY = pos /\ s.pal = pal /\ s.hash = hash
    BY <1>2, <2>1 DEF SlotType
  <2> HIDE DEF s
  <2> QED BY <1>4, <2>3, <2>4, <2>5, <2>6, <2>7 DEF s
<1> QED BY <1>3, <1>4 DEF FlagsType

\* Which flags a line is recorded with.
LEMMA FlagsAtFacts ==
  ASSUME ReplayTypeInv, FlagsInv
  PROVE  LET f == FlagsAt(ly) IN
         /\ f \in FlagsType
         /\ ly = 0 => f.line /\ f.maps /\ f.pal /\ f.obj
         /\ f.maps \/ f.pal \/ f.obj => f.line
         /\ ly # 0 => /\ f.pal <=> flags.pal
                      /\ f.obj <=> flags.obj
                      /\ ~f.maps => ~flags.maps /\ ly # regs.wy
<1>1. flags \in FlagsType /\ (flags.maps \/ flags.pal \/ flags.obj => flags.line)
  BY DEF ReplayTypeInv, FlagsInv
<1>2. CASE ly = 0
  <2>1. FlagsAt(ly) = Everything
    BY <1>2 DEF FlagsAt
  <2>2. Everything \in FlagsType
    BY DEF Everything, FlagsType
  <2>3. Everything.line /\ Everything.maps /\ Everything.pal /\ Everything.obj
    BY Zenon DEF Everything
  <2> QED BY <1>2, <2>1, <2>2, <2>3
<1>3. CASE ly # 0 /\ ly = regs.wy
  <2>1. FlagsAt(ly) = [[flags EXCEPT !.line = TRUE] EXCEPT !["maps"] = TRUE]
    BY <1>3 DEF FlagsAt, Mark
  <2> QED BY <1>1, <1>3, <2>1 DEF FlagsType
<1>4. CASE ly # 0 /\ ly # regs.wy
  <2>1. FlagsAt(ly) = flags
    BY <1>4 DEF FlagsAt
  <2> QED BY <1>1, <1>4, <2>1
<1> QED BY <1>2, <1>3, <1>4

\* The record of a line tells it from the one above.
LEMMA LineFacts ==
  ASSUME ConstantsOK, ReplayTypeInv, FlagsInv, WindowInv, HashInv, lcdMode = "draw"
  PROVE  LET s == Recorded(buffers[producer][ly], FlagsAt(ly), NextWindowLine)
             u == InFull(NextWindowLine)
         IN /\ s \in SlotType /\ s.hash = s.pal /\ u \in PictureType
            /\ ly = 0 => First(s, u)
            /\ ly # 0 => Tells(s, truth[ly - 1], u)
<1> DEFINE row == NextWindowLine
           f == FlagsAt(ly)
           s == Recorded(buffers[producer][ly], f, row)
           u == InFull(row)
<1>1. /\ row \in -1..ly /\ (WindowOn(regs, winX, ly) => row \in 0..255)
      /\ ly \in Rows /\ regs \in Regs /\ winX \in WXs /\ winX \in Int
  BY RowFacts DEF ReplayTypeInv, TypeOK, Rows, WXs, Far
<1>2. WindowOn(regs, winX, ly) => row % 256 = row
  BY <1>1
<1>3. /\ f \in FlagsType /\ (f.maps \/ f.pal \/ f.obj => f.line)
      /\ ly = 0 => f.line /\ f.maps /\ f.pal /\ f.obj
      /\ ly # 0 => /\ f.pal <=> flags.pal
                   /\ f.obj <=> flags.obj
                   /\ ~f.maps => ~flags.maps /\ ly # regs.wy
  BY FlagsAtFacts
<1>4. /\ buffers[producer][ly] \in SlotType
      /\ buffers[producer][ly].hash = buffers[producer][ly].pal
  BY <1>1 DEF ReplayTypeInv, HashInv, producer
<1>5. row \in Int /\ ly \in Int
  BY <1>1 DEF Rows
<1>6. /\ u \in PictureType
      /\ u.scroll = regs.scroll /\ u.winOn = WindowOn(regs, winX, ly) /\ u.winX = winX
      /\ u.winRow = row /\ u.objOn = regs.objOn /\ u.pal = regs.pal /\ u.obj = regs.obj
  BY <1>1, <1>5 DEF InFull, PictureType, Regs, WindowOn
<1>7. /\ s \in SlotType /\ s.modified = f.line
      /\ f.line => s.maps = f.maps /\ s.palOn = f.pal /\ s.objMod = f.obj
      /\ f.line /\ f.maps => /\ s.scroll = regs.scroll /\ s.objOn = regs.objOn
                             /\ s.winOn = WindowOn(regs, winX, ly)
                             /\ s.winX = winX /\ s.winPosY = row % 256
      /\ f.line /\ f.obj => s.obj = regs.obj
      /\ f.line /\ f.pal => s.hash = regs.pal /\ s.pal = regs.pal
      /\ s.hash = s.pal
  <2> DEFINE slot == buffers[producer][ly]
  <2>1. slot \in SlotType /\ slot.hash = slot.pal /\ s = Recorded(slot, f, row)
    BY <1>4
  <2>2. f \in FlagsType /\ regs \in Regs /\ winX \in WXs
    BY <1>1, <1>3
  <2> HIDE DEF slot, f, row, s
  <2> QED BY <1>5, <2>1, <2>2, RecordedFields
<1>8. /\ f.line \in BOOLEAN /\ f.maps \in BOOLEAN /\ f.pal \in BOOLEAN /\ f.obj \in BOOLEAN
  BY <1>3 DEF FlagsType
<1>9. f.maps => HasMaps(s, u)
  BY <1>2, <1>3, <1>6, <1>7 DEF HasMaps
<1>10. f.pal => s.pal = u.pal
  BY <1>3, <1>6, <1>7
<1>11. f.obj => s.obj = u.obj
  BY <1>3, <1>6, <1>7
<1>12. CASE ly = 0
  BY <1>3, <1>7, <1>6, <1>9, <1>10, <1>11, <1>12 DEF First
<1>13. CASE ly # 0
  <2> DEFINE t == truth[ly - 1]
  <2>1. Done = ly /\ Done > 0 /\ ly - 1 \in Rows
    BY <1>1, <1>13 DEF Done, Rows, ConstantsOK
  <2>2. Unchanged(t, flags) /\ t \in PictureType
    BY <2>1 DEF FlagsInv, ReplayTypeInv
  <2>3. ~f.maps => SameMaps(t, u)
    <3> SUFFICES ASSUME ~f.maps PROVE SameMaps(t, u)
      OBVIOUS
    <3>1. /\ regs.scroll = t.scroll /\ regs.objOn = t.objOn
          /\ t.winOn = WindowOn(regs, winX, ly - 1)
          /\ t.winX = winX /\ t.winRow = winPosY /\ winPosY # -2 /\ ly # regs.wy
      BY <1>3, <1>13, <2>1, <2>2 DEF Unchanged
    <3>2. WindowOn(regs, winX, ly - 1) = WindowOn(regs, winX, ly)
      <4>1. regs.wy <= ly - 1 <=> regs.wy <= ly
        BY <1>1, <3>1 DEF Regs, Rows
      <4> QED BY <4>1 DEF WindowOn
    <3>3. u.winOn => row = winPosY + 1
      BY <1>6, <3>1 DEF NextWindowLine
    <3> QED BY <1>6, <3>1, <3>2, <3>3 DEF SameMaps
  <2>4. (~f.pal => u.pal = t.pal) /\ (~f.obj => u.obj = t.obj)
    BY <1>3, <1>6, <1>13, <2>2 DEF Unchanged
  <2> HIDE DEF row, f, s, u, t
  <2>5. IF s.modified /\ s.maps THEN HasMaps(s, u) ELSE SameMaps(t, u)
    BY <1>3, <1>7, <1>8, <1>9, <2>3
  <2>6. u.pal = IF s.modified /\ s.palOn THEN s.pal ELSE t.pal
    BY <1>3, <1>7, <1>8, <1>10, <2>4
  <2>7. u.obj = IF s.modified /\ s.objMod THEN s.obj ELSE t.obj
    BY <1>3, <1>7, <1>8, <1>11, <2>4
  <2>8. Tells(s, t, u)
    BY <2>5, <2>6, <2>7 DEF Tells
  <2> QED BY <1>6, <1>7, <1>13, <2>8 DEF row, f, s, u, t
<1> QED BY <1>12, <1>13

(* ------------------------------ the DS's lines -------------------------- *)
\* Registers that match a line match the next when its record is drawn.
LEMMA NextLineMatches ==
  ASSUME ConstantsOK, ReplayTypeInv, NEW y \in 1..(Height - 1), NEW d \in PictureType, NEW t, NEW u,
         Tells(buffers[displayed][y], t, u), Matches(d, t, y - 1)
  PROVE  LET e == IF Modified(y) THEN DrawLine(d, y) ELSE d IN
         e \in PictureType /\ Matches(e, u, y)
<1> DEFINE s == buffers[displayed][y]
           e == IF Modified(y) THEN DrawLine(d, y) ELSE d
           scroll == IF s.maps THEN s.scroll ELSE d.scroll
           winOn == IF s.maps THEN s.winOn ELSE d.winOn
           wx == IF s.maps THEN s.winX ELSE d.winX
           objOn == IF s.maps THEN s.objOn ELSE d.objOn
           row == IF s.maps THEN s.winPosY - y ELSE d.winRow
           pal == IF s.palOn THEN s.pal ELSE d.pal
           obj == IF s.objMod THEN s.obj ELSE d.obj
<1>1. s \in SlotType /\ y \in Int
  <2>1. y \in Rows /\ y \in Int
    BY DEF Rows, ConstantsOK
  <2> QED BY <2>1 DEF ReplayTypeInv
<1>2. CASE ~s.modified
  <2>1. e = d
    BY <1>2 DEF Modified
  <2>2. SameMaps(t, u) /\ u.pal = t.pal /\ u.obj = t.obj
    BY <1>2 DEF Tells
  <2>3. d.winRow \in Int
    BY DEF PictureType
  <2>4. Matches(d, u, y)
    BY <1>1, <2>2, <2>3 DEF Matches, SameMaps
  <2> QED BY <2>1, <2>4
<1>3. CASE s.modified
  <2>1. e = DrawLine(d, y)
    BY <1>3 DEF Modified
  <2> DEFINE m == DrawMaps(d, s, y)
  <2>0. s.winPosY - y \in Int
    BY <1>1 DEF SlotType
  <2>2. /\ m \in PictureType /\ m.scroll = scroll /\ m.winX = wx
        /\ m.winRow = row /\ m.pal = d.pal /\ m.obj = d.obj
    <3>1. CASE s.maps
      <4> DEFINE n == s.winPosY - y
      <4>1. m = [d EXCEPT !.scroll = s.scroll, !.winOn = s.winOn, !.winX = s.winX,
                          !.objOn = s.objOn, !.winRow = n]
        BY <3>1 DEF DrawMaps
      <4> HIDE DEF m, n
      <4>2. m \in PictureType
        BY <1>1, <2>0, <4>1 DEF PictureType, SlotType, n
      <4>3. m.scroll = s.scroll /\ m.winX = s.winX /\ m.winRow = n /\ m.pal = d.pal /\ m.obj = d.obj
        BY <4>1 DEF PictureType
      <4> QED BY <3>1, <4>2, <4>3 DEF n
    <3>2. CASE ~s.maps
      BY <3>2 DEF DrawMaps
    <3> QED BY <3>1, <3>2
  <2>3. m.winOn = winOn /\ m.objOn = objOn
    BY <1>1 DEF DrawMaps, PictureType, SlotType
  <2>4. e = [m EXCEPT !.pal = IF s.palOn THEN s.pal ELSE @, !.obj = IF s.objMod THEN s.obj ELSE @]
    BY <2>1 DEF DrawLine
  <2> HIDE DEF m, e
  <2>5. /\ e \in PictureType /\ e.scroll = scroll /\ e.winX = wx /\ e.winRow = row
        /\ e.pal = pal /\ e.obj = obj
    BY <1>1, <2>2, <2>4 DEF PictureType, SlotType
  <2>6. e.winOn = winOn /\ e.objOn = objOn
    BY <2>2, <2>3, <2>4 DEF PictureType
  <2>7. Matches(e, u, y)
    <3>1. u.pal = pal /\ u.obj = obj
      BY <1>3 DEF Tells, Matches
    <3>2. CASE s.maps
      <4>1. HasMaps(s, u)
        BY <1>3, <3>2 DEF Tells
      <4>2. s.winPosY - y + y = s.winPosY
        BY <1>1 DEF SlotType
      <4> QED BY <2>5, <2>6, <3>1, <3>2, <4>1, <4>2 DEF HasMaps, Matches
    <3>3. CASE ~s.maps
      <4>1. SameMaps(t, u)
        BY <3>3 DEF Tells
      <4>2. d.winRow \in Int
        BY DEF PictureType
      <4> QED BY <1>1, <2>5, <2>6, <3>1, <3>3, <4>1, <4>2 DEF SameMaps, Matches
    <3> QED BY <3>2, <3>3
  <2> QED BY <2>5, <2>7 DEF e
<1> QED BY <1>2, <1>3

LEMMA HBlankStep == ASSUME ConstantsOK, ReplayInv, HBlank PROVE ReplayInv'
<1>1. /\ host < Height /\ host' = host + 1 /\ handled' = host /\ missed' = FALSE
      /\ ds' = IF Modified(host) THEN DrawLine(Retried(ds, host), host) ELSE Retried(ds, host)
      /\ lineCompleted' = IF Modified(host) THEN lineCompleted \cup {host} ELSE lineCompleted
      /\ UNCHANGED <<regs, ly, lcdMode, flags, winPosY, winX, buffers, truth, writes, displayed, shown>>
  BY DEF HBlank, game
<1>2. /\ host \in 1..(Height - 1) /\ Height \in Nat /\ handled \in 0..Height /\ handled # Height
  BY <1>1 DEF ReplayInv, ReplayTypeInv, TypeOK, HostInv, ConstantsOK
<1>3. /\ host = handled + (IF missed THEN 2 ELSE 1)
      /\ lineCompleted \subseteq 0..handled
      /\ ~missed /\ buffers[displayed][handled].modified => handled \in lineCompleted
      /\ \A y \in 1..(Height - 1) : Tells(buffers[displayed][y], shown[y - 1], shown[y])
      /\ Matches(ds, shown[handled], handled) /\ ds \in PictureType
  BY <1>2 DEF ReplayInv, HostInv, ReplayTypeInv
<1>4. Retried(ds, host) \in PictureType /\ Matches(Retried(ds, host), shown[host - 1], host - 1)
  <2>1. CASE ~missed
    <3>1. handled = host - 1
      BY <1>2, <1>3, <2>1
    <3>2. Retried(ds, host) = ds
      BY <1>3, <2>1, <3>1 DEF Retried, Modified
    <3> QED BY <1>3, <3>1, <3>2
  <2>2. CASE missed
    <3>1. handled = (host - 1) - 1 /\ host - 1 \in 1..(Height - 1) /\ (host - 1) \notin lineCompleted
      BY <1>2, <1>3, <2>2
    <3>2. Retried(ds, host) = IF Modified(host - 1) THEN DrawLine(ds, host - 1) ELSE ds
      BY <3>1 DEF Retried
    <3>3. Tells(buffers[displayed][host - 1], shown[(host - 1) - 1], shown[host - 1])
      BY <1>3, <3>1
    <3>4. Matches(ds, shown[(host - 1) - 1], (host - 1) - 1)
      BY <1>3, <3>1
    <3> QED BY <1>3, <3>1, <3>2, <3>3, <3>4, NextLineMatches DEF ReplayInv
  <2> QED BY <2>1, <2>2
<1>5. ds' \in PictureType /\ Matches(ds', shown[host], host)
  <2>1. Tells(buffers[displayed][host], shown[host - 1], shown[host])
    BY <1>2, <1>3
  <2> QED BY <1>1, <1>2, <1>4, <2>1, NextLineMatches DEF ReplayInv
<1>6. lineCompleted' \subseteq 0..host /\ lineCompleted' \subseteq 0..(Height - 1)
      /\ (buffers[displayed][host].modified => host \in lineCompleted')
  BY <1>1, <1>2, <1>3 DEF Modified
<1>7. ReplayTypeInv'
  <2>1. host' \in 1..Height /\ handled' \in 0..Height /\ lcdMode \in {"oam", "vblank"}
    BY <1>1, <1>2 DEF ReplayInv, ReplayTypeInv, TypeOK
  <2> QED BY <1>1, <1>5, <1>6, <2>1 DEF ReplayInv, ReplayTypeInv, TypeOK
<1>8. HostInv'
  BY <1>1, <1>2, <1>3, <1>5, <1>6 DEF HostInv
<1>9. FrameInv' /\ FlagsInv' /\ WindowInv' /\ HashInv'
  BY <1>1
  DEF ReplayInv, FrameInv, FlagsInv, WindowInv, HashInv, Done, producer, Unchanged,
      WindowOn
<1> QED BY <1>7, <1>8, <1>9 DEF ReplayInv

LEMMA MissHBlankStep == ASSUME ConstantsOK, ReplayInv, MissHBlank PROVE ReplayInv'
<1>1. /\ host < Height /\ ~missed /\ host' = host + 1 /\ missed' = TRUE
      /\ UNCHANGED <<regs, ly, lcdMode, flags, winPosY, winX, buffers, truth, writes, displayed,
                     lineCompleted, ds, shown, handled>>
  BY DEF MissHBlank, game
<1>2. /\ host \in 1..(Height - 1) /\ Height \in Nat /\ handled \in 0..Height /\ handled # Height
  BY <1>1 DEF ReplayInv, ReplayTypeInv, TypeOK, HostInv, ConstantsOK
<1>3. ReplayTypeInv'
  BY <1>1, <1>2 DEF ReplayInv, ReplayTypeInv, TypeOK
<1>4. HostInv'
  BY <1>1, <1>2 DEF ReplayInv, HostInv
<1>5. FrameInv' /\ FlagsInv' /\ WindowInv' /\ HashInv'
  BY <1>1
  DEF ReplayInv, FrameInv, FlagsInv, WindowInv, HashInv, Done, producer, Unchanged,
      WindowOn
<1> QED BY <1>3, <1>4, <1>5 DEF ReplayInv

\* The frame is whole: its records become those that are shown.
LEMMA PublishFrameStep == ASSUME ConstantsOK, ReplayInv, PublishFrame PROVE ReplayInv'
<1> DEFINE s == buffers[producer][0]
<1>1. /\ host = Height /\ lcdMode = "vblank" /\ displayed' = producer /\ winPosY' = -1 /\ shown' = truth
      /\ ds' = [scroll |-> s.scroll, winOn |-> s.winOn, winX |-> s.winX, objOn |-> s.objOn,
                winRow |-> s.winPosY, pal |-> s.pal, obj |-> s.obj]
      /\ lineCompleted' = {0} /\ host' = 1 /\ handled' = 0 /\ missed' = FALSE /\ lcdMode' = "oam"
      /\ UNCHANGED <<regs, ly, flags, winX, buffers, truth, writes>>
  BY DEF PublishFrame
<1>2. ly = 0 /\ Done = Height /\ Done' = 0 /\ Height \in Nat /\ Height > 0 /\ 0 \in Rows
  BY <1>1 DEF ReplayInv, WindowInv, Done, ConstantsOK, Rows
<1>3. producer \in 0..1 /\ s \in SlotType
  BY <1>2 DEF ReplayInv, ReplayTypeInv, producer
<1>4. First(s, truth[0]) /\ \A y \in 1..(Height - 1) : Tells(buffers[producer][y], truth[y - 1], truth[y])
  BY <1>2 DEF ReplayInv, FrameInv
<1>5. /\ ds' \in PictureType /\ ds'.scroll = s.scroll /\ ds'.winX = s.winX
      /\ ds'.winRow = s.winPosY /\ ds'.pal = s.pal /\ ds'.obj = s.obj
  BY <1>1, <1>3 DEF PictureType, SlotType
<1>6. ds'.winOn = s.winOn /\ ds'.objOn = s.objOn
  BY <1>1
<1>7. Matches(ds', truth[0], 0)
  <2>1. ds'.winRow + 0 = s.winPosY
    BY <1>3, <1>5 DEF SlotType
  <2> HIDE DEF s
  <2> QED BY <1>4, <1>5, <1>6, <2>1 DEF First, HasMaps, Matches
<1>8. ReplayTypeInv'
  <2>1. /\ host' \in 1..Height /\ handled' \in 0..Height /\ winPosY' \in -2..(Height - 1)
        /\ lineCompleted' \subseteq 0..(Height - 1)
    BY <1>1, <1>2
  <2> HIDE DEF s
  <2> QED BY <1>1, <1>3, <1>5, <2>1 DEF ReplayInv, ReplayTypeInv, TypeOK
<1>9. HostInv'
  BY <1>1, <1>2, <1>4, <1>7 DEF HostInv
<1>10. FrameInv'
  BY <1>2 DEF FrameInv
<1>11. FlagsInv'
  BY <1>1, <1>2 DEF ReplayInv, FlagsInv
<1>12. WindowInv' /\ HashInv'
  BY <1>1, <1>2 DEF ReplayInv, WindowInv, HashInv
<1> QED BY <1>8, <1>9, <1>10, <1>11, <1>12 DEF ReplayInv

(* ------------------------------ the game's lines ------------------------ *)
\* The frame being shown does not mind what the game does.
LEMMA HostKept ==
  ASSUME HostInv, UNCHANGED console,
         \A y \in Rows : buffers'[displayed][y] = buffers[displayed][y],
         ConstantsOK, ReplayTypeInv
  PROVE  HostInv'
<1>1. UNCHANGED <<displayed, host, lineCompleted, ds, shown, handled, missed>>
  BY DEF console
<1>2. CASE handled = Height
  BY <1>1, <1>2 DEF HostInv
<1>3. CASE handled # Height
  <2>1. handled \in Rows /\ \A y \in 1..(Height - 1) : y \in Rows
    BY <1>3 DEF ReplayTypeInv, Rows, ConstantsOK
  <2> QED BY <1>1, <1>3, <2>1 DEF HostInv
<1> QED BY <1>2, <1>3

LEMMA DrawScanlineStep == ASSUME ConstantsOK, ReplayInv, DrawScanline PROVE ReplayInv'
<1>1. /\ host = Height /\ lcdMode = "oam" /\ winX' = regs.wx /\ lcdMode' = "draw"
      /\ flags' = IF winX = regs.wx THEN flags ELSE Mark("maps")
      /\ UNCHANGED <<regs, ly, winPosY, buffers, truth, writes>> /\ UNCHANGED console
  BY DEF DrawScanline
<1>2. flags \in FlagsType /\ regs \in Regs
  BY DEF ReplayInv, ReplayTypeInv, TypeOK
<1>3. /\ flags' \in FlagsType
      /\ flags'.maps \/ flags'.pal \/ flags'.obj => flags'.line
      /\ flags'.pal <=> flags.pal
      /\ flags'.obj <=> flags.obj
      /\ ~flags'.maps => ~flags.maps /\ winX' = winX
  <2>1. CASE winX = regs.wx
    BY <1>1, <1>2, <2>1 DEF ReplayInv, FlagsInv
  <2>2. CASE winX # regs.wx
    <3>1. flags' = [[flags EXCEPT !.line = TRUE] EXCEPT !["maps"] = TRUE]
      BY <1>1, <2>2 DEF Mark
    <3> QED BY <1>2, <3>1 DEF FlagsType
  <2> QED BY <2>1, <2>2
<1>4. Done' = Done
  BY <1>1 DEF Done
<1>5. ReplayTypeInv'
  <2>1. regs.wx \in WXs
    BY <1>2 DEF Regs
  <2> QED BY <1>1, <1>3, <2>1 DEF ReplayInv, ReplayTypeInv, TypeOK, console
<1>6. FlagsInv'
  BY <1>1, <1>3, <1>4 DEF ReplayInv, FlagsInv, Unchanged, WindowOn
<1>7. FrameInv' /\ WindowInv' /\ HashInv'
  BY <1>1, <1>4 DEF ReplayInv, FrameInv, WindowInv, HashInv, producer, console
<1>8. HostInv'
  BY <1>1, HostKept DEF ReplayInv
<1> QED BY <1>5, <1>6, <1>7, <1>8 DEF ReplayInv

LEMMA NextLineStep == ASSUME ConstantsOK, ReplayInv, NextLine PROVE ReplayInv'
<1>1. /\ host = Height /\ lcdMode = "hblank" /\ ly' = (ly + 1) % Height
      /\ lcdMode' = IF ly' = 0 THEN "vblank" ELSE "oam"
      /\ UNCHANGED <<regs, flags, winPosY, winX, buffers, truth, writes>> /\ UNCHANGED console
  BY DEF NextLine
<1>2. Height \in Nat /\ Height > 0 /\ ly \in 0..(Height - 1) /\ Done = ly + 1
  BY <1>1 DEF ReplayInv, ReplayTypeInv, TypeOK, ConstantsOK, Done
<1>3. /\ ly' \in 0..(Height - 1) /\ Done' = Done
      /\ lcdMode' # "vblank" => ly' = ly + 1
  <2>1. CASE ly + 1 = Height
    <3>1. ly' = 0
      BY <1>1, <1>2, <2>1
    <3> QED BY <1>1, <1>2, <2>1, <3>1 DEF Done
  <2>2. CASE ly + 1 < Height
    <3>1. ly' = ly + 1 /\ ly' # 0
      BY <1>1, <1>2, <2>2
    <3> QED BY <1>1, <1>2, <2>2, <3>1 DEF Done
  <2> QED BY <1>2, <2>1, <2>2
<1>4. ReplayTypeInv'
  BY <1>1, <1>3 DEF ReplayInv, ReplayTypeInv, TypeOK, console
<1>5. FlagsInv'
  BY <1>1, <1>3 DEF ReplayInv, FlagsInv, Unchanged, WindowOn
<1>6. WindowInv'
  <2>1. regs.wy \in Int
    BY <1>2 DEF ReplayInv, ReplayTypeInv, TypeOK, Regs
  <2> QED BY <1>1, <1>2, <1>3, <2>1 DEF ReplayInv, WindowInv
<1>7. FrameInv' /\ HashInv'
  BY <1>1, <1>3 DEF ReplayInv, FrameInv, HashInv, producer, console
<1>8. HostInv'
  BY <1>1, HostKept DEF ReplayInv
<1> QED BY <1>4, <1>5, <1>6, <1>7, <1>8 DEF ReplayInv

LEMMA DrawScanlineP2Step == ASSUME ConstantsOK, ReplayInv, DrawScanlineP2 PROVE ReplayInv'
<1> DEFINE row == NextWindowLine
           s == Recorded(buffers[producer][ly], FlagsAt(ly), row)
           u == InFull(row)
<1>1. /\ host = Height /\ lcdMode = "draw" /\ lcdMode' = "hblank" /\ winPosY' = row
      /\ buffers' = [buffers EXCEPT ![producer][ly] = s]
      /\ flags' = IF FlagsAt(ly).line THEN Nothing ELSE flags
      /\ truth' = [truth EXCEPT ![ly] = u]
      /\ UNCHANGED <<regs, ly, winX, writes>> /\ UNCHANGED console
  BY DEF DrawScanlineP2
<1>2. /\ s \in SlotType /\ s.hash = s.pal /\ u \in PictureType
      /\ ly = 0 => First(s, u)
      /\ ly # 0 => Tells(s, truth[ly - 1], u)
  BY <1>1, LineFacts DEF ReplayInv
<1>3. /\ ly \in Rows /\ Height \in Nat /\ Height > 0 /\ Done = ly /\ Done' = ly + 1
      /\ producer \in 0..1 /\ producer' = producer /\ displayed \in 0..1 /\ displayed # producer
      /\ displayed' = displayed
  BY <1>1 DEF ReplayInv, ReplayTypeInv, TypeOK, ConstantsOK, Rows, Done, producer, console
<1>4. row \in -1..ly
  BY <1>1, RowFacts DEF ReplayInv
<1>5. /\ u.scroll = regs.scroll /\ u.winOn = WindowOn(regs, winX, ly) /\ u.winX = winX
      /\ u.winRow = row /\ u.objOn = regs.objOn /\ u.pal = regs.pal /\ u.obj = regs.obj
  BY DEF InFull
<1>6. /\ flags' \in FlagsType
      /\ flags'.maps \/ flags'.pal \/ flags'.obj => flags'.line
  <2>1. Nothing \in FlagsType /\ ~Nothing.maps /\ ~Nothing.pal /\ ~Nothing.obj
    BY DEF Nothing, FlagsType
  <2>2. flags \in FlagsType /\ (flags.maps \/ flags.pal \/ flags.obj => flags.line)
    BY DEF ReplayInv, ReplayTypeInv, FlagsInv
  <2> QED BY <1>1, <2>1, <2>2
<1> HIDE DEF row, s, u
<1>7. /\ buffers \in [0..1 -> [Rows -> SlotType]] /\ truth \in [Rows -> PictureType]
  BY DEF ReplayInv, ReplayTypeInv
<1>8. /\ buffers' \in [0..1 -> [Rows -> SlotType]]
      /\ buffers'[producer][ly] = s /\ buffers'[displayed] = buffers[displayed]
      /\ \A y \in Rows : y # ly => buffers'[producer][y] = buffers[producer][y]
      /\ truth' \in [Rows -> PictureType] /\ truth'[ly] = u
      /\ \A y \in Rows : y # ly => truth'[y] = truth[y]
  BY <1>1, <1>2, <1>3, <1>7
<1>9. ReplayTypeInv'
  <2>1. winPosY' \in -2..(Height - 1)
    BY <1>1, <1>3, <1>4 DEF Rows
  <2> QED BY <1>1, <1>6, <1>8, <2>1 DEF ReplayInv, ReplayTypeInv, TypeOK, console
<1>10. FrameInv'
  <2>1. First(buffers[producer][0], truth[0])' \/ ~(Done > 0)'
    <3>1. CASE ly = 0
      BY <1>2, <1>3, <1>8, <3>1
    <3>2. CASE ly # 0
      <4>1. First(buffers[producer][0], truth[0]) /\ 0 \in Rows
        BY <1>3, <3>2 DEF ReplayInv, FrameInv, Rows
      <4> QED BY <1>3, <1>8, <3>2, <4>1
    <3> QED BY <3>1, <3>2
  <2>2. ASSUME NEW y \in 1..ly
        PROVE  Tells(buffers'[producer][y], truth'[y - 1], truth'[y])
    <3>1. y \in Rows /\ y - 1 \in Rows /\ y - 1 # ly /\ ly # 0
      BY <1>3 DEF Rows
    <3>2. CASE y = ly
      BY <1>2, <1>8, <3>1, <3>2
    <3>3. CASE y # ly
      <4>1. y \in 1..(Done - 1)
        BY <1>3, <3>3 DEF Rows
      <4>2. Tells(buffers[producer][y], truth[y - 1], truth[y])
        BY <4>1 DEF ReplayInv, FrameInv
      <4> QED BY <1>8, <3>1, <3>3, <4>2
    <3> QED BY <3>2, <3>3
  <2>3. (Done - 1)' = ly
    BY <1>3 DEF Rows
  <2> QED BY <1>3, <2>1, <2>2, <2>3 DEF FrameInv
<1>11. FlagsInv'
  <2>1. (Done - 1)' = ly /\ truth'[(Done - 1)'] = u
    BY <1>3, <1>8 DEF Rows
  <2>2. /\ regs'.scroll = u.scroll /\ regs'.objOn = u.objOn
        /\ u.winOn = WindowOn(regs, winX, ly)' /\ u.winX = winX' /\ u.winRow = winPosY'
        /\ winPosY' # -2 /\ regs'.pal = u.pal /\ regs'.obj = u.obj
    BY <1>1, <1>3, <1>4, <1>5 DEF WindowOn, Rows
  <2>3. Unchanged(truth[Done - 1], flags)'
    <3>1. WindowOn(regs, winX, Done - 1)' = WindowOn(regs, winX, ly)'
      BY <1>1, <1>3, <2>1 DEF WindowOn
    <3>2. truth'[Done' - 1] = u
      BY <2>1
    <3> QED BY <2>2, <3>1, <3>2 DEF Unchanged
  <2> QED BY <1>6, <2>3 DEF FlagsInv
<1>12. WindowInv'
  <2>1. winPosY' # -2 /\ winPosY' <= Done' - 1
    BY <1>1, <1>3, <1>4 DEF Rows
  <2> QED BY <1>1, <2>1 DEF WindowInv
<1>13. HashInv'
  BY <1>2, <1>3, <1>8 DEF ReplayInv, HashInv
<1>14. HostInv'
  BY <1>1, <1>8, HostKept DEF ReplayInv
<1> QED BY <1>9, <1>10, <1>11, <1>12, <1>13, <1>14 DEF ReplayInv

\* A write raises the flag of what it changes.
Noticed ==
  /\ regs' \in Regs /\ flags' \in FlagsType
  /\ flags'.maps \/ flags'.pal \/ flags'.obj => flags'.line
  /\ ~flags'.maps => /\ ~flags.maps /\ winPosY' = winPosY
                     /\ regs'.scroll = regs.scroll /\ regs'.objOn = regs.objOn
                     /\ regs'.win = regs.win /\ regs'.wy = regs.wy
  /\ ~flags'.pal => ~flags.pal /\ regs'.pal = regs.pal
  /\ ~flags'.obj => ~flags.obj /\ regs'.obj = regs.obj
  /\ \/ winPosY' = winPosY /\ regs'.wy = regs.wy
     \/ winPosY' = -1
     \/ winPosY' = -2 /\ lcdMode # "vblank" /\ regs'.wy <= ly

LEMMA MarkFacts ==
  ASSUME flags \in FlagsType
  PROVE  /\ Mark("maps") \in FlagsType /\ Mark("pal") \in FlagsType /\ Mark("obj") \in FlagsType
         /\ Mark("maps").line /\ Mark("pal").line /\ Mark("obj").line
         /\ Mark("maps").maps /\ Mark("pal").pal /\ Mark("obj").obj
         /\ (Mark("maps").pal <=> flags.pal) /\ (Mark("maps").obj <=> flags.obj)
         /\ (Mark("pal").maps <=> flags.maps) /\ (Mark("pal").obj <=> flags.obj)
         /\ (Mark("obj").maps <=> flags.maps) /\ (Mark("obj").pal <=> flags.pal)
BY DEF Mark, FlagsType

LEMMA WriteFacts ==
  ASSUME ReplayInv, ConstantsOK, NEW k \in DOMAIN regs, NEW v \in ValuesOf(k), Write(k, v)
  PROVE  Noticed
<1>1. /\ flags \in FlagsType /\ (flags.maps \/ flags.pal \/ flags.obj => flags.line)
      /\ regs \in Regs /\ ly \in Int /\ Height \in Nat
  BY DEF ReplayInv, ReplayTypeInv, TypeOK, FlagsInv, ConstantsOK
<1>2. /\ flags' = Flagged(k, v) /\ regs' = [regs EXCEPT ![k] = v]
      /\ winPosY' = IF k = "wy" THEN WindowReset(v) ELSE winPosY
  BY DEF Write
<1>3. k \in {"scroll", "wx", "wy", "win", "objOn", "pal", "obj"}
  BY <1>1 DEF Regs
<1>4. CASE k = "scroll"
  <2>1. v \in Settings /\ regs' = [regs EXCEPT !.scroll = v] /\ winPosY' = winPosY
    BY <1>2, <1>4 DEF ValuesOf
  <2>2. flags' = IF v = regs.scroll THEN flags ELSE Mark("maps")
    BY <1>2, <1>4 DEF Flagged
  <2> QED BY <1>1, <2>1, <2>2, MarkFacts DEF Noticed, Regs
<1>5. CASE k = "win"
  <2>1. v \in BOOLEAN /\ regs' = [regs EXCEPT !.win = v] /\ winPosY' = winPosY
    BY <1>2, <1>5 DEF ValuesOf
  <2>2. flags' = IF v = regs.win THEN flags ELSE Mark("maps")
    BY <1>2, <1>5 DEF Flagged
  <2> QED BY <1>1, <2>1, <2>2, MarkFacts DEF Noticed, Regs
<1>6. CASE k = "objOn"
  <2>1. v \in BOOLEAN /\ regs' = [regs EXCEPT !.objOn = v] /\ winPosY' = winPosY
    BY <1>2, <1>6 DEF ValuesOf
  <2>2. flags' = IF v = regs.objOn THEN flags ELSE Mark("maps")
    BY <1>2, <1>6 DEF Flagged
  <2> QED BY <1>1, <2>1, <2>2, MarkFacts DEF Noticed, Regs
<1>7. CASE k = "wy"
  <2>1. v \in 0..Height /\ regs' = [regs EXCEPT !.wy = v] /\ winPosY' = WindowReset(v)
    BY <1>2, <1>7 DEF ValuesOf
  <2>2. flags' = Mark("maps")
    BY <1>2, <1>7 DEF Flagged
  <2>3. /\ regs' \in Regs /\ regs'.wy = v /\ regs'.pal = regs.pal /\ regs'.obj = regs.obj
    BY <1>1, <2>1 DEF Regs
  <2>4. winPosY' = -1 \/ (winPosY' = -2 /\ lcdMode # "vblank" /\ v <= ly)
    BY <1>1, <2>1 DEF WindowReset
  <2> QED BY <1>1, <2>2, <2>3, <2>4, MarkFacts DEF Noticed
<1>8. CASE k = "wx"
  <2>1. v \in WXs /\ regs' = [regs EXCEPT !.wx = v] /\ winPosY' = winPosY /\ flags' = flags
    BY <1>2, <1>8 DEF ValuesOf, Flagged
  <2> QED BY <1>1, <2>1 DEF Noticed, Regs
<1>9. CASE k = "pal"
  <2>1. v \in Settings /\ regs' = [regs EXCEPT !.pal = v] /\ winPosY' = winPosY
    BY <1>2, <1>9 DEF ValuesOf
  <2>2. flags' = IF v = regs.pal THEN flags ELSE Mark("pal")
    BY <1>2, <1>9 DEF Flagged
  <2> QED BY <1>1, <2>1, <2>2, MarkFacts DEF Noticed, Regs
<1>10. CASE k = "obj"
  <2>1. v \in Settings /\ regs' = [regs EXCEPT !.obj = v] /\ winPosY' = winPosY
    BY <1>2, <1>10 DEF ValuesOf
  <2>2. flags' = Mark("obj")
    BY <1>2, <1>10 DEF Flagged
  <2> QED BY <1>1, <2>1, <2>2, MarkFacts DEF Noticed, Regs
<1> QED BY <1>3, <1>4, <1>5, <1>6, <1>7, <1>8, <1>9, <1>10

LEMMA WriteStep ==
  ASSUME ConstantsOK, ReplayInv, NEW k \in DOMAIN regs, NEW v \in ValuesOf(k), Write(k, v)
  PROVE  ReplayInv'
<1>1. UNCHANGED <<ly, lcdMode, winX, buffers, truth>> /\ UNCHANGED console
  BY DEF Write
<1>2. Noticed
  BY WriteFacts
<1>3. Done' = Done /\ Height \in Nat /\ Done \in 0..Height
  BY <1>1 DEF Done, ReplayInv, ReplayTypeInv, TypeOK, ConstantsOK
<1>4. ReplayTypeInv'
  <2>1. winPosY' \in -2..(Height - 1)
    BY <1>2, <1>3 DEF ReplayInv, ReplayTypeInv, TypeOK, Noticed, ConstantsOK
  <2> QED BY <1>1, <1>2, <2>1 DEF ReplayInv, ReplayTypeInv, TypeOK, console, Noticed
<1>5. FlagsInv'
  <2>1. ~flags'.maps => WindowOn(regs, winX, Done - 1)' = WindowOn(regs, winX, Done - 1)
    BY <1>1, <1>2, <1>3 DEF WindowOn, Noticed
  <2>2. ASSUME Done > 0, lcdMode # "vblank" PROVE Unchanged(truth[Done - 1], flags)'
    <3>1. Unchanged(truth[Done - 1], flags)
      BY <2>2 DEF ReplayInv, FlagsInv
    <3> QED BY <1>1, <1>2, <1>3, <2>1, <3>1 DEF Unchanged, Noticed
  <2> QED BY <1>1, <1>2, <1>3, <2>2 DEF FlagsInv, Noticed
<1>6. WindowInv'
  BY <1>1, <1>2, <1>3 DEF ReplayInv, WindowInv, Noticed
<1>7. FrameInv' /\ HashInv'
  BY <1>1, <1>3 DEF ReplayInv, FrameInv, HashInv, producer, console
<1>8. HostInv'
  BY <1>1, HostKept DEF ReplayInv
<1> QED BY <1>4, <1>5, <1>6, <1>7, <1>8 DEF ReplayInv

(* ------------------------------ the theorems ---------------------------- *)
LEMMA InitInvariant == ASSUME ConstantsOK, ReplayInit PROVE ReplayInv
<1>1. Pick(Settings) \in Settings /\ Height \in Nat /\ Height > 0
  BY DEF Pick, ConstantsOK
<1>2. Unrecorded \in SlotType /\ Unrecorded.hash = Unrecorded.pal
  BY <1>1 DEF Unrecorded, SlotType
<1>3. NoPicture \in PictureType
  BY <1>1 DEF NoPicture, PictureType
<1>4. Nothing \in FlagsType /\ ~Nothing.maps /\ ~Nothing.pal /\ ~Nothing.obj
  BY DEF Nothing, FlagsType
<1>5. regs \in Regs
  BY <1>1 DEF ReplayInit, Regs, WXs
<1>6. Done = 0
  BY DEF ReplayInit, Done
<1>7. ReplayTypeInv
  <2>1. /\ ly = 0 /\ lcdMode = "oam" /\ winPosY = -1 /\ winX = Far /\ displayed = 0 /\ host = Height
        /\ lineCompleted = {} /\ handled = Height /\ missed = FALSE
        /\ ds = NoPicture /\ flags = Nothing
    BY DEF ReplayInit
  <2>2. TypeOK
    BY <1>1, <1>5, <2>1 DEF TypeOK
  <2>3. buffers \in [0..1 -> [Rows -> SlotType]]
    BY <1>2 DEF ReplayInit, Rows
  <2>4. truth \in [Rows -> PictureType] /\ shown \in [Rows -> PictureType]
    BY <1>3 DEF ReplayInit, Rows
  <2>5. winX \in WXs
    BY <2>1 DEF WXs
  <2>6. displayed \in 0..1 /\ handled \in 0..Height
    BY <1>1, <2>1
  <2>7. missed \in BOOLEAN
    BY <2>1
  <2> QED BY <1>3, <1>4, <2>1, <2>2, <2>3, <2>4, <2>5, <2>6, <2>7 DEF ReplayTypeInv
<1>8. FlagsInv /\ FrameInv /\ WindowInv
  BY <1>4, <1>6 DEF ReplayInit, FlagsInv, FrameInv, WindowInv
<1>9. HashInv
  BY <1>2 DEF ReplayInit, HashInv, Rows
<1>10. HostInv
  BY DEF ReplayInit, HostInv
<1> QED BY <1>7, <1>8, <1>9, <1>10 DEF ReplayInv

LEMMA StutterStep == ASSUME ConstantsOK, ReplayInv, UNCHANGED replayVars PROVE ReplayInv'
<1>1. /\ UNCHANGED <<regs, ly, lcdMode, flags, winPosY, winX, buffers, truth, writes>>
      /\ UNCHANGED console
  BY DEF replayVars, game
<1>2. Done' = Done
  BY <1>1 DEF Done
<1>3. ReplayTypeInv' /\ FrameInv' /\ FlagsInv' /\ WindowInv' /\ HashInv'
  BY <1>1, <1>2
  DEF ReplayInv, ReplayTypeInv, TypeOK, FrameInv, FlagsInv, WindowInv, HashInv, Unchanged,
      WindowOn, 
                    producer, console
<1>4. HostInv'
  BY <1>1, HostKept DEF ReplayInv
<1> QED BY <1>3, <1>4 DEF ReplayInv

LEMMA NextInvariant == ASSUME ConstantsOK, ReplayInv, [ReplayNext]_replayVars PROVE ReplayInv'
BY WriteStep, DrawScanlineStep, DrawScanlineP2Step, NextLineStep, HBlankStep,
   MissHBlankStep, 
   PublishFrameStep, StutterStep DEF ReplayNext

\* Every record tells its line from the line above.
THEOREM ReplayInvHolds == ReplaySpec => []ReplayInv
<1>1. ReplayInit => ReplayInv
  BY InitInvariant, ConstantsAssumption DEF ConstantsOK
<1>2. ReplayInv /\ [ReplayNext]_replayVars => ReplayInv'
  BY NextInvariant, ConstantsAssumption DEF ConstantsOK
<1> QED BY <1>1, <1>2, PTL DEF ReplaySpec

\* However a game writes the registers between its lines, and with any HBlank
\* of the DS missed (but not two in a row), each line that hblankHandler of
\* gbgfx.cpp has replayed looks as if every line had been drawn in full, and
\* needs no more layers than the DS has.
THEOREM ReplayAlwaysFaithful == ReplaySpec => []ReplayFaithful
<1>1. ReplayInv => ReplayFaithful
  <2> SUFFICES ASSUME ReplayInv PROVE ReplayFaithful
    OBVIOUS
  <2>1. DrawnInFull
    <3> SUFFICES ASSUME handled # Height, ~missed
                 PROVE  Looks(ds, handled) = InPlace(shown[handled])
      BY DEF DrawnInFull
    <3>1. Matches(ds, shown[handled], handled)
      BY DEF ReplayInv, HostInv
    <3>2. handled \in Rows /\ handled \in Int
      BY ConstantsAssumption DEF ReplayInv, ReplayTypeInv, Rows
    <3>3. ds \in PictureType /\ shown[handled] \in PictureType
      BY <3>2 DEF ReplayInv, ReplayTypeInv
    <3> DEFINE u == shown[handled]
    <3>4. u \in PictureType /\ Matches(ds, u, handled)
      BY <3>1, <3>3
    <3> HIDE DEF u
    <3>5. Looks(ds, handled) = InPlace(u)
      BY <3>2, <3>3, <3>4 DEF Looks, InPlace, Matches, PictureType
    <3> QED BY <3>5 DEF u
  <2>2. LayersFit
    BY DEF LayersFit, LayersOf
  <2> QED BY <2>1, <2>2 DEF ReplayFaithful, ReplayInv, ReplayTypeInv
<1>2. ReplaySpec => []ReplayInv
  BY ReplayInvHolds
<1> QED BY <1>1, <1>2, PTL

-----------------------------------------------------------------------------
(* The clocks that time the picture: the timer.                            *)

TimerSet == [on : BOOLEAN, tima : 0..TimaTop, tma : 0..TimaTop, period : Periods, left : Int, irqs : 0..1]
\* What c clocks of TIMA make of a timer n cycles later, and which c that is.
Clocked(t, n, c) ==
  [t EXCEPT !.left = t.left - n + t.period * c,
            !.tima = IF t.tima + c > TimaTop THEN t.tma ELSE t.tima + c,
            !.irqs = IF t.tima + c > TimaTop THEN 1 - @ ELSE @]
IsClocks(t, n, c) == /\ n < t.left + t.period * c
                     /\ c > 0 => t.left + t.period * (c - 1) <= n

LEMMA PeriodsPositive == ASSUME NEW t \in TimerSet PROVE t.period \in Nat \ {0} /\ t.left \in Int
BY ClockAssumption DEF TimerSet

LEMMA ClocksExist ==
  ASSUME NEW t \in TimerSet, NEW n \in Nat
  PROVE  \E c \in Nat : IsClocks(t, n, c)
<1> DEFINE p == t.period  x == t.left
<1>1. p \in Nat \ {0} /\ x \in Int
  BY PeriodsPositive
<1> HIDE DEF p, x
<1>2. CASE n < x
  <2>1. n < x + p * 0
    BY <1>1, <1>2
  <2> QED BY <2>1 DEF IsClocks, p, x
<1>3. CASE ~(n < x)
  <2> DEFINE a == n - x
  <2>4. a \in Int
    BY <1>1
  <2>5. \E q \in Int, r \in Nat : a \div p = q /\ a % p = r /\ r < p /\ a = p * q + r
    <3> HIDE DEF a
    <3> QED BY <1>1, <2>4, Division
  <2>1. PICK q \in Int, r \in Nat : r < p /\ n - x = p * q + r
    BY <2>5
  <2>2. q \in Nat
    BY <1>1, <1>3, <2>1
  <2>3. n < x + p * (q + 1) /\ x + p * ((q + 1) - 1) <= n
    BY <1>1, <2>1, <2>2
  <2> QED BY <2>2, <2>3 DEF IsClocks, p, x
<1> QED BY <1>2, <1>3

LEMMA ClocksCount ==
  ASSUME NEW t \in TimerSet, t.on, NEW n \in Nat, NEW c \in Nat, IsClocks(t, n, c)
  PROVE  UpdateTimers(t, n) = Clocked(t, n, c)
<1> DEFINE p == t.period  x == t.left
           clocks == IF x - n > 0 THEN 0 ELSE (-(x - n)) \div p + 1
<1>1. p \in Nat \ {0} /\ x \in Int
  BY PeriodsPositive
<1>2. n < x + p * c /\ (c > 0 => x + p * (c - 1) <= n)
  BY DEF IsClocks
<1>3. clocks = c
  <2> HIDE DEF p, x
  <2>1. CASE c = 0
    BY <1>1, <1>2, <2>1
  <2>2. CASE c > 0
    <3>1. x - n <= 0
      BY <1>1, <1>2, <2>2
    <3>2. p * (c - 1) <= -(x - n) /\ -(x - n) < p * (c - 1) + p
      BY <1>1, <1>2, <2>2
    <3> DEFINE a == -(x - n)  q == c - 1
    <3>4. a \in Int /\ q \in Int /\ p * q <= a /\ a < p * q + p
      BY <1>1, <3>2
    <3>3. a \div p = q
      <4> HIDE DEF a, q
      <4> QED BY <1>1, <3>4, Quotient
    <3> QED BY <1>1, <3>1, <3>3
  <2> QED BY <2>1, <2>2
<1> HIDE DEF clocks
<1>4. UpdateTimers(t, n) = [t EXCEPT !.left = (x - n) + p * clocks,
                                     !.tima = IF t.tima + clocks > TimaTop THEN t.tma ELSE t.tima + clocks,
                                     !.irqs = IF t.tima + clocks > TimaTop THEN 1 - @ ELSE @]
  BY DEF UpdateTimers, clocks
<1> QED BY <1>3, <1>4 DEF Clocked

LEMMA ClockedTyped ==
  ASSUME NEW t \in TimerSet, NEW n \in Nat, NEW c \in Nat, IsClocks(t, n, c)
  PROVE  /\ Clocked(t, n, c) \in TimerSet /\ Clocked(t, n, c).left >= 1
         /\ Clocked(t, n, c).period = t.period /\ Clocked(t, n, c).on = t.on
<1>1. t.period \in Nat \ {0} /\ t.left \in Int
  BY PeriodsPositive
<1>2. t.left - n + t.period * c \in Int /\ t.left - n + t.period * c >= 1
  BY <1>1 DEF IsClocks
<1> DEFINE x == t.left - n + t.period * c
<1>3. Clocked(t, n, c) = [t EXCEPT !.left = x,
            !.tima = IF t.tima + c > TimaTop THEN t.tma ELSE t.tima + c,
            !.irqs = IF t.tima + c > TimaTop THEN 1 - t.irqs ELSE t.irqs]
  BY DEF Clocked, TimerSet
<1> DEFINE y == IF t.tima + c > TimaTop THEN t.tma ELSE t.tima + c
           z == IF t.tima + c > TimaTop THEN 1 - t.irqs ELSE t.irqs
<1>4. y \in 0..TimaTop /\ z \in 0..1
  BY ClockAssumption DEF TimerSet
<1>5. Clocked(t, n, c) = [t EXCEPT !.left = x, !.tima = y, !.irqs = z]
  BY <1>3
<1> HIDE DEF x, y, z
<1> QED BY <1>2, <1>4, <1>5 DEF TimerSet, x

LEMMA UpdatedTimer ==
  ASSUME NEW t \in TimerSet, NEW n \in Nat
  PROVE  /\ UpdateTimers(t, n) \in TimerSet /\ UpdateTimers(t, n).on = t.on
         /\ UpdateTimers(t, n).period = t.period
         /\ t.on => UpdateTimers(t, n).left >= 1
<1>1. CASE t.on
  <2>1. PICK c \in Nat : IsClocks(t, n, c)
    BY ClocksExist
  <2>2. UpdateTimers(t, n) = Clocked(t, n, c)
    BY <1>1, <2>1, ClocksCount
  <2> QED BY <2>1, <2>2, ClockedTyped
<1>2. CASE ~t.on
  BY <1>2 DEF UpdateTimers
<1> QED BY <1>1, <1>2

LEMMA OneCycleMore ==
  ASSUME NEW t \in TimerSet, t.on, t.left >= 1, NEW i \in Nat,
         i + 1 < t.left + t.period * (TimaTop - t.tima + 1)
  PROVE  UpdateTimers(UpdateTimers(t, i), 1) = UpdateTimers(t, i + 1)
<1> DEFINE p == t.period  x == t.left  k == TimaTop - t.tima + 1
<1>1. p \in Nat \ {0} /\ x \in Int /\ k \in Nat /\ t.tima \in Nat /\ t.tima + k = TimaTop + 1
  BY PeriodsPositive, ClockAssumption DEF TimerSet
<1>2. PICK c \in Nat : IsClocks(t, i, c)
  BY ClocksExist
<1> DEFINE u == Clocked(t, i, c)
<1>3. UpdateTimers(t, i) = u /\ u \in TimerSet /\ u.left >= 1 /\ u.period = p /\ u.on
  BY <1>2, ClocksCount, ClockedTyped
<1>4. u.left = x - i + p * c
  BY DEF Clocked, TimerSet
<1>5. i < x + p * c /\ (c > 0 => x + p * (c - 1) <= i)
  BY <1>2 DEF IsClocks
<1>6. CASE u.left = 1
  <2>1. i + 1 = x + p * c
    BY <1>1, <1>4, <1>6
  <2>2. p * c < p * k
    BY <1>1, <2>1
  <2>3. c < k
    <3> HIDE DEF p, k
    <3> QED BY <1>1, <2>2
  <2>4. t.tima + c <= TimaTop /\ t.tima + (c + 1) = (t.tima + c) + 1
    BY <1>1, <2>3, ClockAssumption
  <2>5. u.tima = t.tima + c /\ u.irqs = t.irqs /\ u.tma = t.tma
    BY <2>4, ClockAssumption DEF Clocked, TimerSet
  <2>6. IsClocks(t, i + 1, c + 1) /\ IsClocks(u, 1, 1)
    <3>1. i + 1 < x + p * (c + 1) /\ x + p * ((c + 1) - 1) <= i + 1
      <4> HIDE DEF p, x, k
      <4> QED BY <1>1, <2>1
    <3>2. 1 < u.left + p * 1 /\ u.left + p * (1 - 1) <= 1
      BY <1>1, <1>6
    <3> QED BY <1>3, <3>1, <3>2 DEF IsClocks
  <2>7. UpdateTimers(u, 1) = Clocked(u, 1, 1) /\ UpdateTimers(t, i + 1) = Clocked(t, i + 1, c + 1)
    BY <1>3, <2>6, ClocksCount
  <2>8. u.left - 1 + p * 1 = p /\ t.left - (i + 1) + p * (c + 1) = p
    <3>1. x - (i + 1) + p * (c + 1) = p
      <4> HIDE DEF p, x, k
      <4> QED BY <1>1, <2>1
    <3> QED BY <1>1, <1>6, <3>1
  <2> HIDE DEF u
  <2> DEFINE y == IF t.tima + (c + 1) > TimaTop THEN t.tma ELSE t.tima + (c + 1)
             z == IF t.tima + (c + 1) > TimaTop THEN 1 - t.irqs ELSE t.irqs
  <2>9. Clocked(u, 1, 1) = [u EXCEPT !.left = p, !.tima = y, !.irqs = z]
    BY <1>3, <2>4, <2>5, <2>8 DEF Clocked, TimerSet
  <2>10. Clocked(t, i + 1, c + 1) = [t EXCEPT !.left = p, !.tima = y, !.irqs = z]
    BY <2>8 DEF Clocked, TimerSet
  <2>11. [t EXCEPT !.left = p, !.tima = y, !.irqs = z] = [u EXCEPT !.left = p, !.tima = y, !.irqs = z]
    <3> HIDE DEF y, z, p
    <3> QED BY DEF u, Clocked, TimerSet
  <2>12. Clocked(u, 1, 1) = Clocked(t, i + 1, c + 1)
    BY <2>9, <2>10, <2>11
  <2> QED BY <1>3, <2>7, <2>12
<1>7. CASE u.left > 1
  <2>1. IsClocks(t, i + 1, c) /\ IsClocks(u, 1, 0)
    <3>1. i + 1 < x + p * c /\ (c > 0 => x + p * (c - 1) <= i + 1)
      BY <1>1, <1>4, <1>5, <1>7
    <3>2. 1 < u.left + p * 0 /\ ~(0 > 0)
      <4>1. p * 0 = 0 /\ u.left \in Int
        BY <1>1, <1>3 DEF TimerSet
      <4> QED BY <1>7, <4>1
    <3> QED BY <1>3, <3>1, <3>2 DEF IsClocks
  <2>2. UpdateTimers(u, 1) = Clocked(u, 1, 0) /\ UpdateTimers(t, i + 1) = Clocked(t, i + 1, c)
    BY <1>3, <2>1, ClocksCount
  <2>3. u.tima \in 0..TimaTop /\ u.tima + 0 = u.tima /\ u.left - 1 + p * 0 = u.left - 1
    BY <1>1, <1>3, <1>4 DEF TimerSet
  <2>4. Clocked(u, 1, 0) = [u EXCEPT !.left = u.left - 1]
    <3> HIDE DEF u
    <3>1. ~(u.tima + 0 > TimaTop)
      BY <2>3, ClockAssumption
    <3> QED BY <1>3, <2>3, <3>1 DEF Clocked, TimerSet
  <2> DEFINE x2 == t.left - (i + 1) + t.period * c
  <2>5. u.left - 1 = x2
    <3> DEFINE w == t.period * c
    <3>1. w \in Int /\ u.left = x - i + w
      BY <1>1, <1>4
    <3> HIDE DEF w
    <3>2. u.left - 1 = x - (i + 1) + w
      BY <1>1, <3>1
    <3> QED BY <3>2 DEF w
  <2>6. Clocked(t, i + 1, c) = [u EXCEPT !.left = x2]
    BY DEF Clocked, TimerSet
  <2> QED BY <1>3, <2>2, <2>4, <2>5, <2>6
<1> QED BY <1>3, <1>6, <1>7 DEF TimerSet

(* The reference that counts every cycle arrives where the batch does, by    *)
(* induction over the cycles.                                                *)
LEMMA EveryCycleIsBatch ==
  ASSUME NEW t \in TimerSet, NEW n \in Nat,
         t.on => t.left >= 1 /\ n < t.left + t.period * (TimaTop - t.tima + 1)
  PROVE  EveryCycle(t, n) = UpdateTimers(t, n)
<1>1. UpdateTimers(t, 0) = t
  <2>1. CASE t.on
    <3>1. IsClocks(t, 0, 0)
      <4>1. t.period * 0 = 0 /\ t.left \in Int
        BY PeriodsPositive
      <4> QED BY <2>1, <4>1 DEF IsClocks
    <3>2. UpdateTimers(t, 0) = Clocked(t, 0, 0)
      BY <2>1, <3>1, ClocksCount
    <3>3. t.left - 0 + t.period * 0 = t.left /\ t.tima + 0 = t.tima /\ ~(t.tima + 0 > TimaTop)
      BY PeriodsPositive, ClockAssumption DEF TimerSet
    <3>4. Clocked(t, 0, 0) = [t EXCEPT !.left = t.left, !.tima = t.tima, !.irqs = t.irqs]
      BY <3>3 DEF Clocked, TimerSet
    <3>5. [t EXCEPT !.left = t.left, !.tima = t.tima, !.irqs = t.irqs] = t
      BY DEF TimerSet
    <3> QED BY <3>2, <3>4, <3>5
  <2>2. CASE ~t.on
    BY <2>2 DEF UpdateTimers
  <2> QED BY <2>1, <2>2
<1>2. ASSUME NEW i \in Nat, i < n
      PROVE  UpdateTimers(UpdateTimers(t, i), 1) = UpdateTimers(t, i + 1)
  <2>1. CASE t.on
    <3> DEFINE top == t.left + t.period * (TimaTop - t.tima + 1)
    <3>1. top \in Int
      BY PeriodsPositive, ClockAssumption DEF TimerSet
    <3>2. i + 1 < top
      <4>1. n < top
        BY <2>1
      <4> HIDE DEF top
      <4> QED BY <1>2, <3>1, <4>1
    <3> QED BY <2>1, <3>2, OneCycleMore
  <2>2. CASE ~t.on
    BY <2>2 DEF UpdateTimers
  <2> QED BY <2>1, <2>2
<1> DEFINE Cycle(f) == [i \in 0..n |-> IF i = 0 THEN {t} ELSE {UpdateTimers(u, 1) : u \in f[i - 1]}]
           g == [i \in 0..n |-> {UpdateTimers(t, i)}]
           after == CHOOSE f : f = Cycle(f)
<1>3. g = Cycle(g)
  <2>1. ASSUME NEW i \in 0..n PROVE g[i] = Cycle(g)[i]
    <3>1. CASE i = 0
      BY <1>1, <3>1
    <3>2. CASE i > 0
      <4>1. i - 1 \in 0..n /\ i - 1 \in Nat /\ i - 1 < n /\ (i - 1) + 1 = i
        BY <3>2
      <4>2. g[i - 1] = {UpdateTimers(t, i - 1)}
        BY <4>1
      <4>3. UpdateTimers(UpdateTimers(t, i - 1), 1) = UpdateTimers(t, i)
        BY <1>2, <4>1
      <4>4. Cycle(g)[i] = {UpdateTimers(u, 1) : u \in g[i - 1]}
        <5> HIDE DEF g
        <5> QED BY <2>1, <3>2
      <4>5. {UpdateTimers(u, 1) : u \in g[i - 1]} = {UpdateTimers(t, i)}
        BY <4>2, <4>3
      <4>6. g[i] = {UpdateTimers(t, i)}
        OBVIOUS
      <4> HIDE DEF g, Cycle
      <4> QED BY <4>4, <4>5, <4>6
    <3>3. i = 0 \/ i > 0
      OBVIOUS
    <3> HIDE DEF g, Cycle
    <3> QED BY <3>1, <3>2, <3>3
  <2>2. DOMAIN g = 0..n /\ DOMAIN Cycle(g) = 0..n
    OBVIOUS
  <2>3. g = [i \in 0..n |-> g[i]] /\ Cycle(g) = [i \in 0..n |-> Cycle(g)[i]]
    OBVIOUS
  <2> HIDE DEF g, Cycle
  <2> QED BY <2>1, <2>3
<1>4. after = Cycle(after)
  <2> HIDE DEF g
  <2> QED BY <1>3
<1>5. \A i \in Nat : i <= n => after[i] = {UpdateTimers(t, i)}
  <2> DEFINE T == {i \in Nat : i <= n => after[i] = {UpdateTimers(t, i)}}
  <2>0. \A i \in 0..n : after[i] = IF i = 0 THEN {t} ELSE {UpdateTimers(u, 1) : u \in after[i - 1]}
    <3>1. \A i \in 0..n : Cycle(after)[i] = IF i = 0 THEN {t} ELSE {UpdateTimers(u, 1) : u \in after[i - 1]}
      <4> HIDE DEF after
      <4> QED OBVIOUS
    <3> HIDE DEF after, Cycle
    <3> QED BY <1>4, <3>1
  <2> HIDE DEF after
  <2>1. 0 \in T
    <3>0. 0 <= n => 0 \in 0..n
      OBVIOUS
    <3>1. 0 <= n => after[0] = {t}
      BY <2>0, <3>0
    <3>2. 0 <= n => after[0] = {UpdateTimers(t, 0)}
      BY <1>1, <3>1
    <3> QED BY <3>2
  <2>2. ASSUME NEW i \in Nat, i \in T PROVE i + 1 \in T
    <3>1. CASE i + 1 <= n
      <4>1. after[i] = {UpdateTimers(t, i)} /\ i + 1 \in 0..n /\ (i + 1) - 1 = i /\ i + 1 # 0
        BY <2>2, <3>1
      <4>2. after[i + 1] = {UpdateTimers(u, 1) : u \in after[i]}
        BY <2>0, <4>1
      <4>3. UpdateTimers(UpdateTimers(t, i), 1) = UpdateTimers(t, i + 1)
        BY <1>2, <3>1
      <4>4. after[i + 1] = {UpdateTimers(t, i + 1)}
        BY <4>1, <4>2, <4>3
      <4> QED BY <4>4
    <3>2. CASE ~(i + 1 <= n)
      BY <3>2
    <3> QED BY <3>1, <3>2
  <2> HIDE DEF T
  <2>3. Nat \subseteq T
    BY <2>1, <2>2, Induction
  <2> QED BY <2>3 DEF T
<1>6. EveryCycle(t, n) = CHOOSE u \in after[n] : TRUE
  BY DEF EveryCycle
<1>7. after[n] = {UpdateTimers(t, n)}
  BY <1>5
<1> HIDE DEF after
<1> QED BY <1>6, <1>7

(* --------------------------------- the LCD ------------------------------ *)
LcdSet == [on : BOOLEAN, ly : 0..(LastLine - 1), mode : 0..3, dots : Int, phase : 1..Frame,
           lyc : 0..LastLine, match : BOOLEAN]
\* The lines each mode is in; line 0 begins in mode 1.
LineOfMode(l) == IF l.mode = 1 THEN l.ly = 0 \/ l.ly >= Visible ELSE l.ly < Visible
LineTold(l) == l.ly # 0 => l.match = (l.ly = l.lyc)
\* What holds of an LCD whose lines have been counted for c cycles.
LcdInTime(l, c) ==
  /\ l \in LcdSet /\ LineOfMode(l) /\ c \in Nat
  /\ l.on => LineTold(l) /\ (c + l.dots) % Frame = EndsAt(l) % Frame
  /\ ~l.on => l.ly = 0 /\ l.mode = 0

LEMMA LineAndFrame ==
  /\ Line \in Nat \ {0} /\ Frame \in Nat \ {0} /\ Frame = LastLine * Line + Line
  /\ ScanTime + DrawTime < Line
<1>1. Line \in Nat \ {0} /\ ScanTime + DrawTime < Line
  BY ClockAssumption DEF Line
<1>2. LastLine \in Nat
  BY ClockAssumption
<1> QED BY <1>1, <1>2 DEF Frame

LEMMA ModeEnds ==
  ASSUME NEW l \in LcdSet, l.on, LineOfMode(l), LineTold(l)
  PROVE  \E k \in Nat : LET m == NextMode(l) IN
           /\ m \in LcdSet /\ m.on /\ LineOfMode(m) /\ LineTold(m)
           /\ m.dots = l.dots + k
           /\ EndsAt(l) \in Int /\ EndsAt(m) \in Int
           /\ EndsAt(m) = EndsAt(l) + k \/ EndsAt(m) + Frame = EndsAt(l) + k
<1> DEFINE y == l.ly  d == l.dots  m == NextMode(l)
           Lys == 0..(LastLine - 1)
           Phases == 1..Frame
           Asked == 0..LastLine
<1>0. LcdSet = [on : BOOLEAN, ly : Lys, mode : 0..3, dots : Int, phase : Phases,
                lyc : Asked, match : BOOLEAN]
  BY DEF LcdSet
<1>1. y \in Nat /\ y < LastLine /\ d \in Int /\ Visible < LastLine /\ Visible \in Nat \ {0} /\ LastLine \in Nat
  BY ClockAssumption DEF LcdSet
<1>2. ScanTime \in Nat /\ DrawTime \in Nat /\ HBlankTime \in Nat /\ Line = ScanTime + DrawTime + HBlankTime
  BY ClockAssumption DEF Line
<1>3. y * Line \in Int /\ (y + 1) * Line = y * Line + Line /\ 0 * Line = 0
      /\ Line \in Nat /\ LastLine * Line \in Nat /\ Frame = LastLine * Line + Line
  BY <1>1, LineAndFrame
<1>4. CASE l.mode = 2
  <2> DEFINE e == d + DrawTime
  <2>0. e \in Int /\ 3 \in 0..3
    BY <1>1, <1>2
  <2>1. m = [l EXCEPT !.mode = 3, !.dots = e]
    BY <1>4 DEF NextMode
  <2>2. m \in LcdSet /\ m.on /\ m.ly = l.ly /\ m.mode = 3 /\ m.dots = e
        /\ m.match = l.match /\ m.lyc = l.lyc
    <3> HIDE DEF m, e, Lys, Phases, Asked
    <3> QED BY <1>0, <2>0, <2>1, Zenon
  <2>3. EndsAt(l) = y * Line + ScanTime /\ EndsAt(m) = y * Line + (ScanTime + DrawTime)
    BY <1>4, <2>2 DEF EndsAt
  <2> HIDE DEF m
  <2>4. LineOfMode(m) /\ LineTold(m)
    BY <1>4, <2>2 DEF LineOfMode, LineTold
  <2>5. EndsAt(m) = EndsAt(l) + DrawTime /\ EndsAt(l) \in Int /\ EndsAt(m) \in Int
    BY <1>2, <1>3, <2>3
  <2> QED BY <1>2, <2>2, <2>4, <2>5 DEF m
<1>5. CASE l.mode = 3
  <2> DEFINE e == d + HBlankTime
  <2>0. e \in Int /\ 0 \in 0..3
    BY <1>1, <1>2
  <2>1. m = [l EXCEPT !.mode = 0, !.dots = e]
    BY <1>5 DEF NextMode
  <2>2. m \in LcdSet /\ m.on /\ m.ly = l.ly /\ m.mode = 0 /\ m.dots = e
        /\ m.match = l.match /\ m.lyc = l.lyc
    <3> HIDE DEF m, e, Lys, Phases, Asked
    <3> QED BY <1>0, <2>0, <2>1, Zenon
  <2>3. EndsAt(l) = y * Line + (ScanTime + DrawTime) /\ EndsAt(m) = y * Line + Line
    BY <1>5, <2>2 DEF EndsAt
  <2> HIDE DEF m
  <2>4. LineOfMode(m) /\ LineTold(m)
    BY <1>5, <2>2 DEF LineOfMode, LineTold
  <2>5. EndsAt(m) = EndsAt(l) + HBlankTime /\ EndsAt(l) \in Int /\ EndsAt(m) \in Int
    BY <1>2, <1>3, <2>3
  <2> QED BY <1>2, <2>2, <2>4, <2>5 DEF m
<1>6. CASE l.mode = 1 /\ y = 0
  <2> DEFINE e == d + ScanTime
  <2>0. e \in Int /\ 2 \in 0..3
    BY <1>1, <1>2
  <2>1. m = [l EXCEPT !.mode = 2, !.dots = e]
    BY <1>6 DEF NextMode
  <2>2. m \in LcdSet /\ m.on /\ m.ly = l.ly /\ m.mode = 2 /\ m.dots = e
        /\ m.match = l.match /\ m.lyc = l.lyc
    <3> HIDE DEF m, e, Lys, Phases, Asked
    <3> QED BY <1>0, <2>0, <2>1, Zenon
  <2>3. EndsAt(l) = LastLine * Line + Line /\ EndsAt(m) = 0 * Line + ScanTime
    BY <1>6, <2>2 DEF EndsAt
  <2> HIDE DEF m
  <2>4. LineOfMode(m) /\ LineTold(m)
    BY <1>1, <1>6, <2>2 DEF LineOfMode, LineTold
  <2>5. EndsAt(m) + Frame = EndsAt(l) + ScanTime /\ EndsAt(l) \in Int /\ EndsAt(m) \in Int
    BY <1>2, <1>3, <2>3
  <2> QED BY <1>2, <2>2, <2>4, <2>5 DEF m
<1>7. CASE l.mode = 1 /\ y # 0
  <2>0. m = NextLcdLine(l) /\ y >= Visible
    BY <1>7 DEF NextMode, LineOfMode
  <2>1. EndsAt(l) = y * Line + Line
    BY <1>7 DEF EndsAt
  <2>2. CASE y + 1 = LastLine
    <3> DEFINE e == d + Line  up == 0
    <3>0. e \in Int /\ 1 \in 0..3 /\ up \in Lys
      BY <1>1, <1>2, <1>3, <2>2
    <3>1. m = CheckLYC([l EXCEPT !.ly = up, !.dots = e])
      BY <2>0, <2>2 DEF NextLcdLine
    <3>2. m = [l EXCEPT !.ly = up, !.mode = 1, !.dots = e, !.match = (up = l.lyc)]
      <4>1. l.mode = 1 => [l EXCEPT !.ly = up, !.dots = e] = [l EXCEPT !.ly = up, !.mode = 1, !.dots = e]
        <5> HIDE DEF m, e, up, Lys, Phases, Asked
        <5> QED BY <1>0
      <4> HIDE DEF m, e, up, Lys, Phases, Asked
      <4> QED BY <1>0, <1>7, <3>1, <4>1 DEF CheckLYC
    <3>6. /\ m \in LcdSet /\ m.on /\ m.ly = up /\ m.mode = 1 /\ m.dots = e
          /\ m.match = (up = m.lyc)
      <4> HIDE DEF m, e, up, Lys, Phases, Asked
      <4> QED BY <1>0, <3>0, <3>2, Zenon
    <3>3. EndsAt(m) = LastLine * Line + Line
      BY <3>6 DEF EndsAt
    <3> HIDE DEF m
    <3>4. LineOfMode(m) /\ LineTold(m)
      BY <3>2 DEF LineOfMode, LineTold
    <3>5. EndsAt(m) = EndsAt(l) + Line /\ EndsAt(l) \in Int /\ EndsAt(m) \in Int
      BY <1>2, <1>3, <2>1, <2>2, <3>3
    <3> QED BY <1>3, <3>6, <3>4, <3>5 DEF m
  <2>3. CASE y + 1 # LastLine
    <3> DEFINE e == d + Line  up == y + 1
    <3>0. e \in Int /\ 1 \in 0..3 /\ up \in Lys
      BY <1>1, <2>3, LineAndFrame
    <3>1. m = CheckLYC([l EXCEPT !.ly = up, !.dots = e, !.mode = l.mode])
      <4>1. up # LastLine /\ ~(up < Visible) /\ up # Visible
        BY <1>1, <2>0, <2>3
      <4> HIDE DEF up
      <4> QED BY <2>0, <4>1 DEF NextLcdLine, up
    <3>2. m = [l EXCEPT !.ly = up, !.mode = 1, !.dots = e, !.match = (up = l.lyc)]
      <4>1. l.mode = 1 => [l EXCEPT !.ly = up, !.dots = e] = [l EXCEPT !.ly = up, !.mode = 1, !.dots = e]
        <5> HIDE DEF m, e, up, Lys, Phases, Asked
        <5> QED BY <1>0
      <4> HIDE DEF m, e, up, Lys, Phases, Asked
      <4> QED BY <1>0, <1>7, <3>1, <4>1 DEF CheckLYC
    <3>6. /\ m \in LcdSet /\ m.on /\ m.ly = up /\ m.mode = 1 /\ m.dots = e
          /\ m.match = (up = m.lyc)
      <4> HIDE DEF m, e, up, Lys, Phases, Asked
      <4> QED BY <1>0, <3>0, <3>2, Zenon
    <3>3. EndsAt(m) = (y + 1) * Line + Line
      BY <1>1, <3>6 DEF EndsAt
    <3> HIDE DEF m
    <3>4. LineOfMode(m) /\ LineTold(m)
      BY <1>1, <2>0, <3>2 DEF LineOfMode, LineTold
    <3>5. EndsAt(m) = EndsAt(l) + Line /\ EndsAt(l) \in Int /\ EndsAt(m) \in Int
      BY <1>3, <2>1, <3>3
    <3> QED BY <1>3, <3>6, <3>4, <3>5 DEF m
  <2> QED BY <2>2, <2>3
<1>8. CASE l.mode = 0
  <2>0. m = NextLcdLine(l) /\ y < Visible
    BY <1>8 DEF NextMode, LineOfMode
  <2>1. EndsAt(l) = y * Line + Line
    BY <1>8 DEF EndsAt
  <2>2. CASE y + 1 < Visible
    <3> DEFINE e == d + ScanTime  up == y + 1
    <3>0. e \in Int /\ 2 \in 0..3 /\ up \in Lys
      BY <1>1, <1>2, <1>3, <2>2
    <3>1. m = CheckLYC([l EXCEPT !.ly = up, !.mode = 2, !.dots = e])
      BY <1>1, <2>0, <2>2 DEF NextLcdLine
    <3>2. m = [l EXCEPT !.ly = up, !.mode = 2, !.dots = e, !.match = (up = l.lyc)]
      <4>1. l.mode = 2 => [l EXCEPT !.ly = up, !.dots = e] = [l EXCEPT !.ly = up, !.mode = 2, !.dots = e]
        <5> HIDE DEF m, e, up, Lys, Phases, Asked
        <5> QED BY <1>0
      <4> HIDE DEF m, e, up, Lys, Phases, Asked
      <4> QED BY <1>0, <3>1, <4>1 DEF CheckLYC
    <3>6. /\ m \in LcdSet /\ m.on /\ m.ly = up /\ m.mode = 2 /\ m.dots = e
          /\ m.match = (up = m.lyc)
      <4> HIDE DEF m, e, up, Lys, Phases, Asked
      <4> QED BY <1>0, <3>0, <3>2, Zenon
    <3>3. EndsAt(m) = (y + 1) * Line + ScanTime
      BY <3>6 DEF EndsAt
    <3> HIDE DEF m
    <3>4. LineOfMode(m) /\ LineTold(m)
      BY <2>2, <3>2 DEF LineOfMode, LineTold
    <3>5. EndsAt(m) = EndsAt(l) + ScanTime /\ EndsAt(l) \in Int /\ EndsAt(m) \in Int
      BY <1>2, <1>3, <2>1, <3>3
    <3> QED BY <1>2, <3>6, <3>4, <3>5 DEF m
  <2>3. CASE ~(y + 1 < Visible)
    <3> DEFINE e == d + Line  up == y + 1
    <3>0. e \in Int /\ 1 \in 0..3 /\ up \in Lys
      BY <1>1, <1>2, <1>3, <2>0, <2>3
    <3>1. m = CheckLYC([l EXCEPT !.ly = up, !.dots = e, !.mode = 1])
      <4>1. up # LastLine /\ ~(up < Visible) /\ up = Visible
        BY <1>1, <2>0, <2>3
      <4> HIDE DEF up
      <4> QED BY <2>0, <4>1 DEF NextLcdLine, up
    <3>2. m = [l EXCEPT !.ly = up, !.mode = 1, !.dots = e, !.match = (up = l.lyc)]
      <4>1. l.mode = 1 => [l EXCEPT !.ly = up, !.dots = e] = [l EXCEPT !.ly = up, !.mode = 1, !.dots = e]
        <5> HIDE DEF m, e, up, Lys, Phases, Asked
        <5> QED BY <1>0
      <4> HIDE DEF m, e, up, Lys, Phases, Asked
      <4> QED BY <1>0, <3>1, <4>1 DEF CheckLYC
    <3>6. /\ m \in LcdSet /\ m.on /\ m.ly = up /\ m.mode = 1 /\ m.dots = e
          /\ m.match = (up = m.lyc)
      <4> HIDE DEF m, e, up, Lys, Phases, Asked
      <4> QED BY <1>0, <3>0, <3>2, Zenon
    <3>3. EndsAt(m) = (y + 1) * Line + Line
      BY <1>1, <3>6 DEF EndsAt
    <3> HIDE DEF m
    <3>4. LineOfMode(m) /\ LineTold(m)
      BY <1>1, <2>0, <2>3, <3>2 DEF LineOfMode, LineTold
    <3>5. EndsAt(m) = EndsAt(l) + Line /\ EndsAt(l) \in Int /\ EndsAt(m) \in Int
      BY <1>3, <2>1, <3>3
    <3> QED BY <1>3, <3>6, <3>4, <3>5 DEF m
  <2> QED BY <2>2, <2>3
<1>9. l.mode \in 0..3
  BY DEF LcdSet
<1> QED BY <1>4, <1>5, <1>6, <1>7, <1>8, <1>9

(* However much a batch overshot, the mode that begins now ends in time.     *)
LEMMA LcdOnStep ==
  ASSUME NEW l, NEW c, LcdInTime(l, c), l.on, NEW n \in Int
  PROVE  LcdInTime(UpdateLCD(l, n), (c + n) % Frame) /\ UpdateLCD(l, n).on
<1> DEFINE d == l.dots - n  p == [l EXCEPT !.dots = d]
           Lys == 0..(LastLine - 1)
           Phases == 1..Frame
           Asked == 0..LastLine
<1>0. LcdSet = [on : BOOLEAN, ly : Lys, mode : 0..3, dots : Int, phase : Phases,
                lyc : Asked, match : BOOLEAN]
  BY DEF LcdSet
<1>1. /\ l \in LcdSet /\ LineOfMode(l) /\ c \in Nat /\ LineTold(l)
      /\ (c + l.dots) % Frame = EndsAt(l) % Frame
  BY DEF LcdInTime
<1>2. l.dots \in Int /\ d \in Int /\ d = l.dots - n
  BY <1>1 DEF LcdSet
<1>3. p = Passed(l, n)
  BY DEF Passed
<1>4. /\ p \in LcdSet /\ p.on /\ p.ly = l.ly /\ p.mode = l.mode /\ p.dots = d
      /\ p.match = l.match /\ p.lyc = l.lyc
  <2> HIDE DEF d, Lys, Phases, Asked
  <2> QED BY <1>0, <1>1, <1>2, Zenon
<1> HIDE DEF d, p, Lys, Phases, Asked
<1>5. LineOfMode(p) /\ LineTold(p) /\ EndsAt(p) = EndsAt(l)
  BY <1>1, <1>4 DEF LineOfMode, LineTold, EndsAt
<1>6. Frame \in Nat \ {0}
  BY LineAndFrame
<1>7. (c + n) % Frame \in Nat
  BY <1>1, <1>6
<1>8. PICK k \in Nat : LET m == NextMode(p) IN
           /\ m \in LcdSet /\ m.on /\ LineOfMode(m) /\ LineTold(m)
           /\ m.dots = p.dots + k
           /\ EndsAt(p) \in Int /\ EndsAt(m) \in Int
           /\ EndsAt(m) = EndsAt(p) + k \/ EndsAt(m) + Frame = EndsAt(p) + k
  BY <1>4, <1>5, ModeEnds
<1>9. \A j \in Nat : (((c + n) % Frame) + (d + j)) % Frame = (EndsAt(l) + j) % Frame
  <2> TAKE j \in Nat
  <2> DEFINE a == c + n  b == d + j  u == c + l.dots
  <2>1. a \in Int /\ b \in Int /\ u \in Int /\ j \in Int /\ a + b = u + j
    BY <1>1, <1>2
  <2>2. u % Frame = EndsAt(l) % Frame /\ EndsAt(l) \in Int
    BY <1>1, <1>5, <1>8
  <2> HIDE DEF a, b, u
  <2>3. ((a % Frame) + b) % Frame = (a + b) % Frame
    BY <1>6, <2>1, RestOfSum
  <2>4. ((u % Frame) + j) % Frame = (u + j) % Frame
    BY <1>6, <2>1, RestOfSum
  <2>5. ((EndsAt(l) % Frame) + j) % Frame = (EndsAt(l) + j) % Frame
    BY <1>6, <2>2, RestOfSum
  <2>6. ((a % Frame) + b) % Frame = (EndsAt(l) + j) % Frame
    BY <2>1, <2>2, <2>3, <2>4, <2>5
  <2> QED BY <2>6 DEF a, b
<1>10. CASE l.dots - n > 0
  <2>1. UpdateLCD(l, n) = p
    BY <1>3, <1>10 DEF UpdateLCD
  <2>2. (((c + n) % Frame) + p.dots) % Frame = EndsAt(p) % Frame
    <3>1. d + 0 = d /\ EndsAt(l) + 0 = EndsAt(l)
      BY <1>2, <1>5, <1>8
    <3> QED BY <1>4, <1>5, <1>9, <3>1
  <2> QED BY <1>4, <1>5, <1>7, <2>1, <2>2 DEF LcdInTime
<1>11. CASE ~(l.dots - n > 0)
  <2> DEFINE m == NextMode(p)
  <2>1. UpdateLCD(l, n) = m
    BY <1>3, <1>11 DEF UpdateLCD
  <2>2. /\ m \in LcdSet /\ m.on /\ LineOfMode(m) /\ LineTold(m) /\ m.dots = d + k
        /\ EndsAt(l) \in Int /\ EndsAt(m) \in Int
        /\ EndsAt(m) = EndsAt(l) + k \/ EndsAt(m) + Frame = EndsAt(l) + k
    BY <1>4, <1>5, <1>8
  <2> HIDE DEF m
  <2>3. (EndsAt(l) + k) % Frame = EndsAt(m) % Frame
    <3>1. CASE EndsAt(m) = EndsAt(l) + k
      BY <3>1
    <3>2. CASE EndsAt(m) + Frame = EndsAt(l) + k
      <4>1. (EndsAt(m) + Frame * 1) % Frame = EndsAt(m) % Frame
        <5>1. 1 \in Int /\ EndsAt(m) \in Int
          BY <2>2
        <5> DEFINE z == EndsAt(m)
        <5> HIDE DEF z
        <5> QED BY <1>6, <5>1, SameRest DEF z
      <4>2. Frame * 1 = Frame
        BY <1>6
      <4> QED BY <3>2, <4>1, <4>2
    <3> QED BY <2>2, <3>1, <3>2
  <2>4. (((c + n) % Frame) + m.dots) % Frame = EndsAt(m) % Frame
    BY <1>9, <2>2, <2>3
  <2> QED BY <1>7, <2>1, <2>2, <2>4 DEF LcdInTime
<1> QED BY <1>10, <1>11

LEMMA LcdOffStep ==
  ASSUME NEW l \in LcdSet, ~l.on, NEW n \in Nat, n <= Frame
  PROVE  LcdInTime(UpdateLCD(l, n), 0) /\ ~UpdateLCD(l, n).on
<1> DEFINE p == l.phase - n  q == IF p <= 0 THEN p + Frame ELSE p  e == Line
           Lys == 0..(LastLine - 1)
           Phases == 1..Frame
           Asked == 0..LastLine
           m == UpdateLCD(l, n)
<1>0. LcdSet = [on : BOOLEAN, ly : Lys, mode : 0..3, dots : Int, phase : Phases,
                lyc : Asked, match : BOOLEAN]
  BY DEF LcdSet
<1>1. l.phase \in Int /\ 1 <= l.phase /\ l.phase <= Frame /\ Frame \in Nat
  BY LineAndFrame DEF LcdSet
<1>2. q \in Phases /\ e \in Int /\ 0 \in Lys /\ 0 \in 0..3
  BY <1>1, LineAndFrame, ClockAssumption
<1>3. m = [l EXCEPT !.dots = e, !.ly = 0, !.mode = 0, !.match = FALSE, !.phase = q]
  BY DEF UpdateLCD, Off
<1>4. m \in LcdSet /\ ~m.on /\ m.ly = 0 /\ m.mode = 0 /\ m.dots = e
  <2> HIDE DEF m, q, e, Lys, Phases, Asked
  <2> QED BY <1>0, <1>2, <1>3, Zenon
<1> HIDE DEF m
<1>5. LineOfMode(m)
  BY <1>4, ClockAssumption DEF LineOfMode
<1>7. 0 \in Nat
  OBVIOUS
<1> QED BY <1>4, <1>5, <1>7 DEF LcdInTime, m

(* Switching the LCD on or off and asking for a line keep it in time, if its *)
(* lines are counted from where the line it is switched on in has begun.     *)
CountedFrom(l, m, c) == IF m.on /\ ~l.on THEN (Line - l.dots) % Frame ELSE c

LEMMA LcdWritten ==
  ASSUME NEW l, NEW c, LcdInTime(l, c), NEW t, NEW reg \in Registers, NEW v \in Values(reg)
  PROVE  LET m == WriteRegister(l, t, reg, v)[1] IN
         LcdInTime(m, CountedFrom(l, m, c))
<1> DEFINE Lys == 0..(LastLine - 1)
           Phases == 1..Frame
           Asked == 0..LastLine
           m == WriteRegister(l, t, reg, v)[1]
<1>0. LcdSet = [on : BOOLEAN, ly : Lys, mode : 0..3, dots : Int, phase : Phases,
                lyc : Asked, match : BOOLEAN]
  BY DEF LcdSet
<1>1. l \in LcdSet /\ LineOfMode(l) /\ c \in Nat
  BY DEF LcdInTime
<1>2. 0 \in Lys /\ 0 \in 0..3 /\ 0 < Visible /\ Line \in Int
  BY ClockAssumption, LineAndFrame
<1>3. CASE reg = "LCDC" /\ v = 1
  <2>1. m = [l EXCEPT !.on = TRUE]
    BY <1>3 DEF WriteRegister
  <2>2. /\ m \in LcdSet /\ m.on /\ m.ly = l.ly /\ m.mode = l.mode /\ m.dots = l.dots
        /\ m.match = l.match /\ m.lyc = l.lyc
    <3> HIDE DEF m, Lys, Phases, Asked
    <3> QED BY <1>0, <1>1, <2>1, Zenon
  <2> HIDE DEF m
  <2>3. LineOfMode(m) /\ EndsAt(m) = EndsAt(l)
    BY <1>1, <2>2 DEF LineOfMode, EndsAt
  <2>4. CASE l.on
    <3>1. LineTold(l) /\ (c + l.dots) % Frame = EndsAt(l) % Frame
      BY <2>4 DEF LcdInTime
    <3>2. LineTold(m)
      BY <2>2, <3>1 DEF LineTold
    <3>3. (c + m.dots) % Frame = EndsAt(m) % Frame
      BY <2>2, <2>3, <3>1
    <3>5. LcdInTime(m, c)
      BY <1>1, <2>2, <2>3, <3>2, <3>3 DEF LcdInTime
    <3>6. CountedFrom(l, m, c) = c
      BY <2>4 DEF CountedFrom
    <3> QED BY <3>5, <3>6 DEF m
  <2>5. CASE ~l.on
    <3>1. l.ly = 0 /\ l.mode = 0 /\ l.dots \in Int
      BY <1>1, <2>5 DEF LcdInTime, LcdSet
    <3>2. EndsAt(m) = 0 * Line + Line /\ EndsAt(m) = Line
      BY <1>2, <2>3, <3>1 DEF EndsAt
    <3> DEFINE e == (Line - l.dots) % Frame
    <3>3. CountedFrom(l, m, c) = e /\ e \in Nat
      BY <1>2, <2>2, <2>5, <3>1, LineAndFrame DEF CountedFrom
    <3>4. (e + m.dots) % Frame = EndsAt(m) % Frame
      <4> DEFINE x == Line - l.dots
      <4>1. x \in Int /\ l.dots \in Int /\ x + l.dots = Line /\ Frame \in Nat \ {0}
        BY <1>2, <3>1, LineAndFrame
      <4> HIDE DEF x
      <4>2. ((x % Frame) + l.dots) % Frame = (x + l.dots) % Frame
        BY <4>1, RestOfSum
      <4> QED BY <2>2, <3>2, <4>1, <4>2 DEF x
    <3>5. LineTold(m)
      BY <2>2, <3>1 DEF LineTold
    <3> HIDE DEF e
    <3>6. LcdInTime(m, e)
      BY <2>2, <2>3, <3>3, <3>4, <3>5 DEF LcdInTime
    <3> QED BY <3>3, <3>6 DEF m
  <2> QED BY <2>4, <2>5 DEF m
<1>4. CASE reg = "LCDC" /\ v # 1
  <2>1. m = [l EXCEPT !.on = FALSE, !.ly = 0, !.mode = 0]
    BY <1>4 DEF WriteRegister
  <2>2. m \in LcdSet /\ ~m.on /\ m.ly = 0 /\ m.mode = 0
    <3> HIDE DEF m, Lys, Phases, Asked
    <3> QED BY <1>0, <1>1, <1>2, <2>1, Zenon
  <2> HIDE DEF m
  <2>3. LineOfMode(m) /\ CountedFrom(l, m, c) = c
    BY <1>2, <2>2 DEF LineOfMode, CountedFrom
  <2>4. LcdInTime(m, c)
    BY <1>1, <2>2, <2>3 DEF LcdInTime
  <2> QED BY <2>3, <2>4 DEF m
<1>5. CASE reg = "LYC"
  <2> DEFINE b == l.ly = v
  <2>0. v \in Asked
    BY <1>5, ClockAssumption DEF Values
  <2>1. m = [l EXCEPT !.lyc = v, !.match = b]
    <3>1. m = CheckLYC([l EXCEPT !.lyc = v])
      BY <1>5 DEF WriteRegister
    <3>2. [l EXCEPT !.lyc = v].ly = l.ly /\ [l EXCEPT !.lyc = v].lyc = v
      <4> HIDE DEF m, Lys, Phases, Asked
      <4> QED BY <1>0, <1>1, Zenon
    <3> HIDE DEF m
    <3> QED BY <3>1, <3>2 DEF CheckLYC
  <2>2. /\ m \in LcdSet /\ m.on = l.on /\ m.ly = l.ly /\ m.mode = l.mode /\ m.dots = l.dots
        /\ m.match = b /\ m.lyc = v
    <3>1. b \in BOOLEAN
      OBVIOUS
    <3> HIDE DEF m, b, Lys, Phases, Asked
    <3> QED BY <1>0, <1>1, <2>0, <2>1, <3>1, Zenon
  <2> HIDE DEF m
  <2>3. LineOfMode(m) /\ EndsAt(m) = EndsAt(l) /\ LineTold(m)
    BY <1>1, <2>2 DEF LineOfMode, EndsAt, LineTold
  <2>4. LcdInTime(m, c)
    BY <1>1, <2>2, <2>3 DEF LcdInTime
  <2>5. CountedFrom(l, m, c) = c
    BY <2>2 DEF CountedFrom
  <2> QED BY <2>4, <2>5 DEF m
<1>6. CASE reg \notin {"LCDC", "LYC"}
  <2>1. m = l
    BY <1>6 DEF WriteRegister, Registers
  <2>2. CountedFrom(l, m, c) = c
    BY <2>1 DEF CountedFrom
  <2> QED BY <2>1, <2>2
<1> QED BY <1>3, <1>4, <1>5, <1>6

(* ------------------------------ the program ----------------------------- *)
\* A timer that was not written to fires no later than the batch ends, but for
\* the overshoot, and an event that is past is the LCD's.
BatchEndsInTime ==
  /\ timer.on /\ "timer" \notin written
       => /\ timer.left >= 1
          /\ quota <= timer.left + timer.period * (TimaTop - timer.tima)
  /\ quota < 0 /\ written = {} => lcd.on
ClockInv == /\ LcdInTime(lcd, counted) /\ timer \in TimerSet
            /\ quota \in Int /\ quota <= MaxWait /\ BatchEndsInTime /\ TimerExact

LEMMA TimerTop ==
  ASSUME NEW t \in TimerSet
  PROVE  t.left + t.period * (TimaTop - t.tima) \in Int
<1>1. t.period \in Nat /\ t.left \in Int /\ TimaTop - t.tima \in Int
  BY PeriodsPositive, ClockAssumption DEF TimerSet
<1> QED BY <1>1

\* The batch after n cycles ends before every event of the clocks.
LEMMA NextBatch ==
  ASSUME NEW l, NEW c, LcdInTime(l, c), NEW t \in TimerSet
  PROVE  LET q == Min({MaxWait} \cup LcdEvents(l) \cup TimerEvents(t)) IN
         /\ q \in Int /\ q <= MaxWait
         /\ t.on => q <= t.left + t.period * (TimaTop - t.tima)
         /\ q < 0 /\ (t.on => t.left >= 1) => l.on
<1> DEFINE top == t.left + t.period * (TimaTop - t.tima)
           S == {MaxWait} \cup LcdEvents(l) \cup TimerEvents(t)
           a == IF l.on THEN l.dots ELSE MaxWait
           b == IF t.on THEN top ELSE MaxWait
<1>1. MaxWait \in Int /\ top \in Int /\ l.dots \in Int
  BY ClockAssumption, TimerTop DEF LcdInTime, LcdSet
<1>0. t.on /\ t.left >= 1 => top >= 0
  <2>1. t.period \in Nat /\ t.left \in Int /\ TimaTop - t.tima \in Nat
    BY PeriodsPositive, ClockAssumption DEF TimerSet
  <2>2. t.period * (TimaTop - t.tima) \in Nat
    BY <2>1
  <2> QED BY <2>1, <2>2
<1> HIDE DEF top
<1>2. S = {MaxWait, a, b}
  BY DEF LcdEvents, TimerEvents, top
<1>3. a \in Int /\ b \in Int
  BY <1>1
<1> HIDE DEF a, b, S
<1>4. \E x \in S : \A y \in S : x <= y
  <2>1. \E x \in {MaxWait, a, b} : x <= MaxWait /\ x <= a /\ x <= b
    BY <1>1, <1>3
  <2> QED BY <1>2, <2>1
<1>5. Min(S) \in S /\ \A y \in S : Min(S) <= y
  BY <1>4 DEF Min
<1>6. Min(S) \in Int /\ Min(S) <= MaxWait /\ Min(S) <= b
  BY <1>1, <1>2, <1>3, <1>5
<1>7. ASSUME Min(S) < 0, t.on => t.left >= 1 PROVE l.on
  <2>1. Min(S) = MaxWait \/ Min(S) = a \/ Min(S) = b
    BY <1>2, <1>5
  <2>2. MaxWait > 0 /\ b >= 0
    BY <1>0, <1>7, ClockAssumption DEF b
  <2>3. Min(S) = a /\ a # MaxWait
    BY <1>1, <1>3, <1>7, <2>1, <2>2
  <2> QED BY <2>3 DEF a
<1> QED BY <1>6, <1>7 DEF S, b, top

LEMMA ClocksStart == ClockInit => ClockInv
<1> SUFFICES ASSUME ClockInit PROVE ClockInv
  OBVIOUS
<1> DEFINE longest == Max(Periods)  phase == Line * LastLine
<1>1. longest \in Periods
  <2>1. Periods \in SUBSET Int
    BY ClockAssumption
  <2>2. \E x \in Periods : \A y \in Periods : y <= x
    BY <2>1, ClockAssumption, FiniteHasLargest
  <2>3. \E x \in Periods : \A y \in Periods : x >= y
    BY <2>1, <2>2
  <2> QED BY <2>3 DEF Max
<1>2. phase \in 1..Frame
  <2>1. LastLine >= 1 /\ LastLine \in Nat /\ Line \in Nat \ {0} /\ Frame = LastLine * Line + Line
    BY ClockAssumption, LineAndFrame
  <2> QED BY <2>1
<1>3. 0 \in 0..(LastLine - 1) /\ 0 \in 0..3 /\ 0 \in 0..LastLine /\ 0 \in 0..TimaTop /\ 0 < Visible
  BY ClockAssumption
<1>4. lcd = [on |-> TRUE, ly |-> 0, mode |-> 0, dots |-> Line, phase |-> phase,
             lyc |-> 0, match |-> FALSE]
      /\ timer = [on |-> FALSE, tima |-> 0, tma |-> 0, period |-> longest, left |-> 0, irqs |-> 0]
  BY DEF ClockInit
<1> HIDE DEF longest, phase
<1>5. LcdInTime(lcd, counted)
  <2>1. lcd \in LcdSet
    BY <1>2, <1>3, <1>4, LineAndFrame DEF LcdSet
  <2>2. LineOfMode(lcd) /\ LineTold(lcd) /\ lcd.on
    BY <1>3, <1>4 DEF LineOfMode, LineTold
  <2>3. EndsAt(lcd) = 0 * Line + Line
    BY <1>4 DEF EndsAt
  <2>4. counted = 0 /\ counted + lcd.dots = EndsAt(lcd)
    BY <1>4, <2>3, LineAndFrame DEF ClockInit
  <2> QED BY <2>1, <2>2, <2>4 DEF LcdInTime
<1>6. timer \in TimerSet /\ ~timer.on
  BY <1>1, <1>3, <1>4 DEF TimerSet
<1> QED BY <1>5, <1>6, ClockAssumption DEF ClockInit, ClockInv, BatchEndsInTime, TimerExact

\* A batch is no longer than a frame, and ends before the timer overflows
\* twice.
LEMMA BatchFits ==
  ASSUME ClockInv, NEW n \in Lengths
  PROVE  /\ n \in Nat /\ n <= Frame
         /\ timer.on /\ timer.period > Over /\ "timer" \notin written
              => n < timer.left + timer.period * (TimaTop - timer.tima + 1)
<1>1. /\ quota \in Int /\ quota <= MaxWait /\ MaxWait + Over <= Frame
      /\ Over \in Nat /\ MaxWait \in Nat /\ Frame \in Nat
  BY ClockAssumption, LineAndFrame DEF ClockInv
<1>2. n \in Nat /\ n <= Frame /\ (n <= Over \/ n <= quota + Over)
  BY <1>1, ClockAssumption DEF Lengths
<1>3. ASSUME timer.on, timer.period > Over, "timer" \notin written
      PROVE  n < timer.left + timer.period * (TimaTop - timer.tima + 1)
  <2> DEFINE p == timer.period  k == TimaTop - timer.tima  x == timer.left
  <2>1. p \in Nat \ {0} /\ x \in Int /\ k \in Nat
    BY PeriodsPositive, ClockAssumption DEF ClockInv, TimerSet
  <2>2. x >= 1 /\ quota <= x + p * k
    BY <1>3 DEF ClockInv, BatchEndsInTime
  <2>3. p > Over
    BY <1>3
  <2> HIDE DEF p, k, x
  <2>4. p * (k + 1) = p * k + p /\ p * k \in Nat
    BY <2>1
  <2>5. n < x + p * (k + 1)
    BY <1>1, <1>2, <2>1, <2>2, <2>3, <2>4
  <2> QED BY <2>5 DEF p, k, x
<1> QED BY <1>2, <1>3

\* The LCD and the cycles counted after n cycles; the clocks are set back only
\* while the LCD is on.
LEMMA LcdStep ==
  ASSUME NEW l, NEW c, LcdInTime(l, c), NEW n \in Int, n <= Frame, n >= 0 \/ l.on
  PROVE  LcdInTime(UpdateLCD(l, n), IF l.on THEN (c + n) % Frame ELSE 0)
<1>1. CASE l.on
  BY <1>1, LcdOnStep
<1>2. CASE ~l.on
  <2>1. l \in LcdSet /\ n \in Nat
    BY <1>2 DEF LcdInTime
  <2> QED BY <1>2, <2>1, LcdOffStep
<1> QED BY <1>1, <1>2

\* What a timer is after n cycles.
Ticks(t, n) ==
  LET u == UpdateTimers(t, n)
  IN u \in TimerSet /\ u.on = t.on /\ u.period = t.period /\ (t.on => u.left >= 1)

LEMMA ClocksCaughtUp ==
  ASSUME ClockInv, NEW n \in Int, n <= Frame, n >= 0 \/ lcd.on, Ticks(timer, n), CatchUp(n)
  PROVE  /\ LcdInTime(lcd', counted') /\ timer' \in TimerSet /\ timer' = UpdateTimers(timer, n)
         /\ timer'.period = timer.period /\ quota' \in Int /\ quota' <= MaxWait
         /\ BatchEndsInTime' /\ written' = {}
<1>1. /\ lcd' = UpdateLCD(lcd, n) /\ timer' = UpdateTimers(timer, n)
      /\ quota' = Min({MaxWait} \cup LcdEvents(lcd') \cup TimerEvents(timer'))
      /\ written' = {} /\ counted' = IF lcd.on THEN (counted + n) % Frame ELSE 0
  BY DEF CatchUp
<1>2. LcdInTime(lcd', counted')
  BY <1>1, LcdStep DEF ClockInv
<1>3. /\ timer' \in TimerSet /\ timer'.period = timer.period /\ timer'.on = timer.on
      /\ timer.on => timer'.left >= 1
  BY <1>1 DEF Ticks
<1>4. /\ quota' \in Int /\ quota' <= MaxWait
      /\ timer'.on => quota' <= timer'.left + timer'.period * (TimaTop - timer'.tima)
      /\ quota' < 0 /\ (timer'.on => timer'.left >= 1) => lcd'.on
  BY <1>1, <1>2, <1>3, NextBatch
<1>5. BatchEndsInTime'
  BY <1>1, <1>3, <1>4 DEF BatchEndsInTime
<1> QED BY <1>1, <1>2, <1>3, <1>4, <1>5

\* A timer the program leaves alone counts every cycle of the batch.
LEMMA StillExact ==
  ASSUME ClockInv, NEW n \in Lengths, "timer" \notin written, timer' = UpdateTimers(timer, n),
         timer'.period = timer.period, exact' = EveryCycle(exact, n)
  PROVE  TimerExact'
<1> SUFFICES ASSUME timer.period > Over PROVE timer' = exact'
  BY DEF TimerExact
<1>1. timer = exact /\ timer \in TimerSet
  BY DEF ClockInv, TimerExact
<1>2. n \in Nat /\ (timer.on => timer.left >= 1
                     /\ n < timer.left + timer.period * (TimaTop - timer.tima + 1))
  BY BatchFits DEF ClockInv, BatchEndsInTime
<1> QED BY <1>1, <1>2, EveryCycleIsBatch

LEMMA BatchKeeps == ASSUME ClockInv, Batch PROVE ClockInv'
<1>1. PICK n \in Lengths :
        /\ CatchUp(n)
        /\ exact' = IF "timer" \in written THEN timer' ELSE EveryCycle(exact, n)
  BY DEF Batch
<1>2. n \in Nat /\ n <= Frame /\ timer \in TimerSet
  BY BatchFits DEF ClockInv
<1>3. Ticks(timer, n)
  BY <1>2, UpdatedTimer DEF Ticks
<1>4. /\ LcdInTime(lcd', counted') /\ timer' \in TimerSet /\ timer' = UpdateTimers(timer, n)
      /\ timer'.period = timer.period /\ quota' \in Int /\ quota' <= MaxWait
      /\ BatchEndsInTime' /\ written' = {}
  BY <1>1, <1>2, <1>3, ClocksCaughtUp
<1>5. TimerExact'
  <2>1. CASE "timer" \in written
    BY <1>1, <2>1 DEF TimerExact
  <2>2. CASE "timer" \notin written
    BY <1>1, <1>4, <2>2, StillExact
  <2> QED BY <2>1, <2>2
<1> QED BY <1>4, <1>5 DEF ClockInv

\* Cycles that are taken back move the next clock of the timer away.
LEMMA TakenBack ==
  ASSUME NEW t \in TimerSet, t.on => t.left >= 1, NEW n \in Int, n < 0
  PROVE  UpdateTimers(t, n) = SetBack(t, -n) /\ Ticks(t, n)
<1>1. CASE ~t.on
  BY <1>1 DEF UpdateTimers, SetBack, Ticks
<1>2. CASE t.on
  <2> DEFINE x == t.left - n
  <2>1. t.left \in Int /\ t.left >= 1 /\ t.period \in Nat
    BY <1>2, PeriodsPositive
  <2>2. x \in Int /\ x > 0 /\ x >= 1 /\ x + t.period * 0 = x /\ t.left + (-n) = x
    BY <2>1
  <2>3. t.tima + 0 = t.tima /\ ~(t.tima + 0 > TimaTop)
    BY ClockAssumption DEF TimerSet
  <2> HIDE DEF x
  <2>4. UpdateTimers(t, n) = [t EXCEPT !.left = x, !.tima = t.tima, !.irqs = t.irqs]
    BY <1>2, <2>2, <2>3 DEF UpdateTimers, x
  <2>5. [t EXCEPT !.left = x, !.tima = t.tima, !.irqs = t.irqs] = [t EXCEPT !.left = x]
    BY DEF TimerSet
  <2>6. SetBack(t, -n) = [t EXCEPT !.left = x]
    BY <1>2, <2>2 DEF SetBack
  <2>7. Ticks(t, n)
    BY <1>2, <2>2, <2>4, <2>5 DEF Ticks, TimerSet
  <2> QED BY <2>4, <2>5, <2>6, <2>7
<1> QED BY <1>1, <1>2

LEMMA SleepBackKeeps == ASSUME ClockInv, SleepBack PROVE ClockInv'
<1>1. /\ quota < 0 /\ quota \in Int /\ written = {} /\ lcd.on /\ CatchUp(quota)
      /\ timer \in TimerSet /\ (timer.on => timer.left >= 1) /\ exact' = SetBack(exact, -quota)
  BY DEF SleepBack, ClockInv, BatchEndsInTime
<1>2. UpdateTimers(timer, quota) = SetBack(timer, -quota) /\ Ticks(timer, quota)
  BY <1>1, TakenBack
<1>3. quota <= Frame
  BY <1>1, LineAndFrame
<1>4. /\ LcdInTime(lcd', counted') /\ timer' \in TimerSet /\ timer' = UpdateTimers(timer, quota)
      /\ timer'.period = timer.period /\ quota' \in Int /\ quota' <= MaxWait
      /\ BatchEndsInTime' /\ written' = {}
  BY <1>1, <1>2, <1>3, ClocksCaughtUp
<1>5. TimerExact'
  BY <1>1, <1>2, <1>4 DEF ClockInv, TimerExact
<1> QED BY <1>4, <1>5 DEF ClockInv

LEMMA TimerWritten ==
  ASSUME NEW l, NEW t \in TimerSet, NEW reg \in Registers, NEW v \in Values(reg)
  PROVE  LET u == WriteRegister(l, t, reg, v)[2] IN
         u \in TimerSet /\ (reg \in {"LCDC", "LYC"} => u = t)
<1> DEFINE Tops == 0..TimaTop
           u == WriteRegister(l, t, reg, v)[2]
<1>1. TimerSet = [on : BOOLEAN, tima : Tops, tma : Tops, period : Periods, left : Int, irqs : 0..1]
  BY DEF TimerSet
<1>2. CASE reg \in {"LCDC", "LYC"}
  BY <1>2 DEF WriteRegister
<1>3. CASE reg \in {"TIMA", "TMA"}
  <2>1. v \in Tops
    BY <1>3, ClockAssumption DEF Values
  <2>2. u = [t EXCEPT !.tima = v] \/ u = [t EXCEPT !.tma = v]
    BY <1>3 DEF WriteRegister
  <2>3. u \in TimerSet
    <3> HIDE DEF u, Tops
    <3> QED BY <1>1, <2>1, <2>2
  <2> QED BY <1>3, <2>3
<1>4. CASE reg = "TAC"
  <2> DEFINE on == v # 0  period == IF v = 0 THEN t.period ELSE v
  <2>1. period \in Periods
    BY <1>4, PeriodsPositive DEF Values, TimerSet
  <2>2. on \in BOOLEAN
    OBVIOUS
  <2>3. u = [t EXCEPT !.on = on, !.period = period]
    BY <1>4 DEF WriteRegister
  <2>4. u \in TimerSet
    <3> HIDE DEF u, Tops, on, period
    <3> QED BY <1>1, <2>1, <2>2, <2>3, Zenon
  <2> QED BY <1>4, <2>4
<1> QED BY <1>2, <1>3, <1>4 DEF Registers

LEMMA WriteKeeps == ASSUME ClockInv, WriteClocks PROVE ClockInv'
<1>1. PICK reg \in Registers : \E v \in Values(reg) :
        /\ lcd' = WriteRegister(lcd, timer, reg, v)[1]
        /\ timer' = WriteRegister(lcd, timer, reg, v)[2]
        /\ written' = written \cup {IF reg \in {"LCDC", "LYC"} THEN "lcd" ELSE "timer"}
        /\ counted' = IF lcd'.on /\ ~lcd.on THEN (Line - lcd.dots) % Frame ELSE counted
        /\ exact' = IF reg \in {"LCDC", "LYC"} THEN exact ELSE timer'
        /\ UNCHANGED quota
  BY DEF WriteClocks
<1>2. PICK v \in Values(reg) :
        /\ lcd' = WriteRegister(lcd, timer, reg, v)[1]
        /\ timer' = WriteRegister(lcd, timer, reg, v)[2]
  BY <1>1
<1>3. timer \in TimerSet /\ LcdInTime(lcd, counted)
  BY DEF ClockInv
<1>4. LcdInTime(lcd', CountedFrom(lcd, lcd', counted))
  BY <1>2, <1>3, LcdWritten
<1>5. timer' \in TimerSet /\ (reg \in {"LCDC", "LYC"} => timer' = timer)
  BY <1>2, <1>3, TimerWritten
<1>6. counted' = CountedFrom(lcd, lcd', counted)
  BY <1>1 DEF CountedFrom
<1>7. BatchEndsInTime' /\ TimerExact'
  <2>1. written' # {}
    BY <1>1
  <2>2. CASE reg \in {"LCDC", "LYC"}
    <3>1. timer' = timer /\ exact' = exact /\ quota' = quota
          /\ ("timer" \in written' <=> "timer" \in written)
      BY <1>1, <1>5, <2>2
    <3> QED BY <2>1, <3>1 DEF ClockInv, BatchEndsInTime, TimerExact
  <2>3. CASE reg \notin {"LCDC", "LYC"}
    <3>1. "timer" \in written'
      BY <1>1, <2>3
    <3> QED BY <2>1, <3>1 DEF BatchEndsInTime, TimerExact
  <2> QED BY <2>2, <2>3
<1> QED BY <1>1, <1>4, <1>5, <1>6, <1>7 DEF ClockInv

LEMMA ClocksStep == ClockInv /\ [ClockNext]_clockVars => ClockInv'
<1> SUFFICES ASSUME ClockInv, [ClockNext]_clockVars PROVE ClockInv'
  OBVIOUS
<1>1. CASE Batch
  BY <1>1, BatchKeeps
<1>2. CASE SleepBack
  BY <1>2, SleepBackKeeps
<1>3. CASE WriteClocks
  BY <1>3, WriteKeeps
<1>4. CASE UNCHANGED clockVars
  BY <1>4 DEF clockVars, ClockInv, LcdInTime, BatchEndsInTime, TimerExact
<1> QED BY <1>1, <1>2, <1>3, <1>4 DEF ClockNext

LEMMA ClockInvTells == ClockInv => ClocksOnTime
<1> SUFFICES ASSUME ClockInv PROVE ClocksOnTime
  OBVIOUS
<1>1. lcd \in LcdSet /\ (lcd.on => LineTold(lcd) /\ (counted + lcd.dots) % Frame = EndsAt(lcd) % Frame)
  BY DEF ClockInv, LcdInTime
<1>2. NoDrift /\ MatchTold
  BY <1>1 DEF NoDrift, MatchTold, LineTold
<1>3. LcdTypeOK
  BY <1>1 DEF LcdTypeOK, LcdSet, ClockInv, TimerSet
<1> QED BY <1>2, <1>3 DEF ClockInv, ClocksOnTime, LcdOnTime

(* Whatever the length of the lines, the periods of the timer, the longest   *)
(* batch and its overshoot, as long as a batch is no longer than a frame:    *)
(* every mode of the LCD ends at its cycle of the frame, STAT tells the line *)
(* asked for, and TIMA is that of a timer that counts every cycle, over      *)
(* batches of any length and with any writes in them.  Excepted are the      *)
(* line an LCD begins that is switched off and on within a batch, which is   *)
(* as short as what was left of its mode, timers written to in their batch,  *)
(* and periods no longer than an overshoot.                                  *)
THEOREM ClocksAlwaysOnTime == ClockSpec => []ClocksOnTime
<1>1. ClockSpec => []ClockInv
  BY ClocksStart, ClocksStep, PTL DEF ClockSpec
<1> QED BY <1>1, ClockInvTells, PTL

-----------------------------------------------------------------------------
(* The queue of callbacks: the inductive invariant.                        *)

\* What is left of the batch.
Rest == batch.count + 1 - batch.next
Entries == Tasks \cup {None}

QueueType ==
  /\ tasks \in [0..1 -> [1..Capacity -> Entries]]
  /\ lengths \in [0..1 -> 0..Capacity]
  /\ pending \in 0..1
  /\ batch \in [array : 0..1, count : 0..Capacity, next : Nat]
  /\ batch.next > 0 /\ batch.next <= batch.count + 1
  /\ vblankTaskOverflow \in BOOLEAN

\* The array that is run is not the one that is filled, and holds nothing else.
ArraysInv == lengths[1 - pending] = 0 /\ (Draining => batch.array = 1 - pending)

\* What waits are callbacks.
FilledInv ==
  /\ \A i \in 1..Rest : tasks[batch.array][batch.next + i - 1] \in Tasks
  /\ \A j \in 1..lengths[pending] : tasks[pending][j] \in Tasks

\* As long as nothing was dropped, what is due is the rest of the batch and
\* then the array that is filled.
OrderInv ==
  /\ due \in Seq(Tasks)
  /\ Len(due) = Rest + lengths[pending]
  /\ \A i \in 1..Rest : due[i] = tasks[batch.array][batch.next + i - 1]
  /\ \A j \in 1..lengths[pending] : due[Rest + j] = tasks[pending][j]

QueueInv == /\ QueueType /\ ArraysInv /\ FilledInv
            /\ vblankTaskOverflow \/ OrderInv

LEMMA OtherArray == ASSUME NEW p \in 0..1 PROVE 1 - p \in 0..1 /\ 1 - p # p /\ 1 - (1 - p) = p
OBVIOUS

LEMMA QueueInitInv == QueueInit => QueueInv
<1> SUFFICES ASSUME QueueInit PROVE QueueInv
  OBVIOUS
<1>1. QueueType
  <2>1. tasks \in [0..1 -> [1..Capacity -> Entries]]
    BY DEF QueueInit, Entries
  <2>2. lengths \in [0..1 -> 0..Capacity] /\ pending \in 0..1
    BY QueueAssumption DEF QueueInit
  <2>4. vblankTaskOverflow \in BOOLEAN
    BY DEF QueueInit
  <2>3. batch = [array |-> 0, count |-> 0, next |-> 1]
    BY DEF QueueInit, Idle
  <2> QED BY <2>1, <2>2, <2>3, <2>4, QueueAssumption DEF QueueType
<1>2. Rest = 0 /\ pending = 0 /\ lengths[0] = 0 /\ lengths[1] = 0 /\ due = << >> /\ ~Draining
  BY DEF QueueInit, Rest, Idle, Draining
<1>3. ArraysInv /\ FilledInv
  BY <1>2 DEF ArraysInv, FilledInv
<1>4. OrderInv
  BY <1>2 DEF OrderInv
<1> QED BY <1>1, <1>3, <1>4 DEF QueueInv

\* What enqueueing some callbacks in turn does.
LEMMA EnqueueFacts ==
  ASSUME QueueInv, NEW w \in Seq(Tasks), Enqueue(w)
  PROVE  /\ tasks' \in [0..1 -> [1..Capacity -> Entries]]
         /\ lengths' \in [0..1 -> 0..Capacity]
         /\ vblankTaskOverflow' \in BOOLEAN
         /\ tasks'[1 - pending] = tasks[1 - pending]
         /\ lengths'[1 - pending] = lengths[1 - pending]
         /\ lengths'[pending] >= lengths[pending]
         /\ \A j \in 1..lengths[pending] : tasks'[pending][j] = tasks[pending][j]
         /\ \A j \in 1..lengths'[pending] : tasks'[pending][j] \in Tasks
         /\ ~vblankTaskOverflow' =>
              /\ ~vblankTaskOverflow /\ lengths'[pending] = lengths[pending] + Len(w)
              /\ \A j \in 1..Len(w) : tasks'[pending][lengths[pending] + j] = w[j]
<1> DEFINE p == pending  have == lengths[p]  room == Capacity - have
           n == IF Len(w) <= room THEN Len(w) ELSE room
           new == [i \in 1..Capacity |-> IF i > have /\ i <= have + n THEN w[i - have] ELSE tasks[p][i]]
<1>1. /\ p \in 0..1 /\ 1 - p \in 0..1 /\ 1 - p # p
      /\ tasks \in [0..1 -> [1..Capacity -> Entries]] /\ lengths \in [0..1 -> 0..Capacity]
      /\ vblankTaskOverflow \in BOOLEAN
  BY OtherArray DEF QueueInv, QueueType
<1>2. have \in Nat /\ have <= Capacity /\ Capacity \in Nat /\ Len(w) \in Nat
  BY <1>1, QueueAssumption, LenProperties
<1>3. \A j \in 1..Len(w) : w[j] \in Tasks
  BY ElementOfSeq
<1>4. /\ tasks' = [tasks EXCEPT ![p] = new] /\ lengths' = [lengths EXCEPT ![p] = have + n]
      /\ vblankTaskOverflow' = (vblankTaskOverflow \/ n < Len(w))
  BY DEF Enqueue
<1>5. n \in Nat /\ n <= Len(w) /\ have + n \in 0..Capacity
  BY <1>2
<1>6. \A j \in 1..have : tasks[p][j] \in Tasks
  BY DEF QueueInv, FilledInv
<1> HIDE DEF n, have, p
<1>7. \A i \in 1..Capacity : new[i] \in Entries
  <2> TAKE i \in 1..Capacity
  <2>1. CASE i > have /\ i <= have + n
    <3>1. i - have \in 1..Len(w)
      BY <1>2, <1>5, <2>1
    <3> QED BY <1>3, <2>1, <3>1 DEF Entries
  <2>2. CASE ~(i > have /\ i <= have + n)
    <3>1. tasks[p][i] \in Entries
      BY <1>1
    <3> QED BY <2>2, <3>1
  <2> QED BY <2>1, <2>2
<1>8. new \in [1..Capacity -> Entries]
  BY <1>7
<1>9. \A j \in 1..have : new[j] = tasks[p][j]
  BY <1>2
<1>10. \A j \in 1..n : new[have + j] = w[j]
  BY <1>2, <1>5
<1>11. \A j \in 1..(have + n) : new[j] \in Tasks
  BY <1>2, <1>3, <1>5, <1>6
<1> HIDE DEF new
<1>12. /\ tasks' \in [0..1 -> [1..Capacity -> Entries]] /\ tasks'[p] = new
       /\ tasks'[1 - p] = tasks[1 - p]
  BY <1>1, <1>4, <1>8
<1>13. /\ lengths' \in [0..1 -> 0..Capacity] /\ lengths'[p] = have + n
       /\ lengths'[1 - p] = lengths[1 - p]
  BY <1>1, <1>4, <1>5
<1>14. vblankTaskOverflow' \in BOOLEAN
  BY <1>4
<1>15. ASSUME ~vblankTaskOverflow' PROVE ~vblankTaskOverflow /\ n = Len(w)
  <2>1. ~vblankTaskOverflow /\ ~(n < Len(w))
    BY <1>4, <1>15, Zenon
  <2> QED BY <1>2, <1>5, <2>1
<1>16. lengths'[p] >= have
  BY <1>2, <1>5, <1>13
<1> QED BY <1>9, <1>10, <1>11, <1>12, <1>13, <1>14, <1>15, <1>16 DEF p, have

LEMMA QueueFacts ==
  ASSUME QueueInv
  PROVE  /\ pending \in 0..1 /\ 1 - pending \in 0..1 /\ 1 - pending # pending
         /\ lengths[pending] \in 0..Capacity /\ lengths[1 - pending] = 0
         /\ batch.array \in 0..1 /\ batch.count \in 0..Capacity /\ batch.next \in Nat
         /\ batch.next > 0 /\ Rest \in Nat /\ (Draining <=> Rest > 0)
         /\ Draining => batch.array = 1 - pending
         /\ Capacity \in Nat
<1>1. QueueType /\ ArraysInv
  BY DEF QueueInv
<1>2. batch.array \in 0..1 /\ batch.count \in 0..Capacity /\ batch.next \in Nat
  BY <1>1 DEF QueueType
<1>3. batch.next > 0 /\ batch.next <= batch.count + 1 /\ Capacity \in Nat
  BY <1>1, QueueAssumption DEF QueueType
<1>4. Rest \in Nat /\ (Draining <=> Rest > 0)
  BY <1>2, <1>3 DEF Rest, Draining
<1> QED BY <1>1, <1>2, <1>3, <1>4, OtherArray DEF QueueType, ArraysInv

LEMMA DoAtVBlankStep == ASSUME QueueInv, NEW t \in Tasks, DoAtVBlankTask(t) PROVE QueueInv'
<1> DEFINE p == pending  w == <<t>>
<1>1. /\ ~Draining /\ Enqueue(w) /\ due' = Append(due, t)
      /\ pending' = pending /\ batch' = batch
  BY DEF DoAtVBlankTask
<1>2. w \in Seq(Tasks) /\ Len(w) = 1 /\ w[1] = t
  OBVIOUS
<1> HIDE DEF w
<1>3. /\ tasks' \in [0..1 -> [1..Capacity -> Entries]]
      /\ lengths' \in [0..1 -> 0..Capacity] /\ vblankTaskOverflow' \in BOOLEAN
      /\ lengths'[1 - p] = lengths[1 - p]
      /\ \A j \in 1..lengths[p] : tasks'[p][j] = tasks[p][j]
      /\ \A j \in 1..lengths'[p] : tasks'[p][j] \in Tasks
  BY <1>1, <1>2, EnqueueFacts
<1>4. ~vblankTaskOverflow' =>
        /\ ~vblankTaskOverflow /\ lengths'[p] = lengths[p] + Len(w)
        /\ \A j \in 1..Len(w) : tasks'[p][lengths[p] + j] = w[j]
  BY <1>1, <1>2, EnqueueFacts
<1>5. QueueType'
  BY <1>1, <1>3 DEF QueueInv, QueueType
<1>6. Rest = 0 /\ Rest' = 0 /\ ~Draining'
  BY <1>1, QueueFacts DEF Rest, Draining
<1>7. ArraysInv'
  BY <1>1, <1>3, <1>6, QueueFacts DEF ArraysInv
<1>8. FilledInv'
  BY <1>1, <1>3, <1>6 DEF FilledInv
<1>9. ASSUME ~vblankTaskOverflow' PROVE OrderInv'
  <2>1. /\ OrderInv /\ lengths'[p] = lengths[p] + 1
        /\ tasks'[p][lengths[p] + 1] = t
    BY <1>2, <1>4, <1>9 DEF QueueInv
  <2>2. /\ due \in Seq(Tasks) /\ Len(due) = lengths[p]
        /\ \A j \in 1..lengths[p] : due[j] = tasks[p][j]
    BY <1>6, <2>1, QueueFacts DEF OrderInv
  <2>3. lengths[p] \in Nat
    BY QueueFacts
  <2>4. /\ due' \in Seq(Tasks) /\ Len(due') = lengths[p] + 1
        /\ \A i \in 1..lengths[p] : due'[i] = due[i]
        /\ due'[lengths[p] + 1] = t
    BY <1>1, <2>2, AppendProperties
  <2>5. \A j \in 1..lengths'[p] : due'[j] = tasks'[p][j]
    BY <1>3, <2>1, <2>2, <2>3, <2>4
  <2>6. pending' = p /\ Rest' = 0
    BY <1>1, <1>6
  <2>7. \A j \in 1..lengths'[p] : 0 + j = j
    OBVIOUS
  <2> HIDE DEF p
  <2>8. Len(due') = Rest' + lengths'[p]
    BY <2>1, <2>3, <2>4, <2>6
  <2>9. \A j \in 1..lengths'[p] : due'[Rest' + j] = tasks'[p][j]
    BY <2>5, <2>6, <2>7
  <2> QED BY <2>4, <2>6, <2>8, <2>9 DEF OrderInv
<1> QED BY <1>5, <1>7, <1>8, <1>9 DEF QueueInv

LEMMA VBlankStep == ASSUME QueueInv, VBlank PROVE QueueInv'
<1> DEFINE p == pending  q == 1 - pending
<1>1. /\ ~Draining /\ batch' = [array |-> p, count |-> lengths[p], next |-> 1]
      /\ lengths' = [lengths EXCEPT ![p] = 0] /\ pending' = q
      /\ tasks' = tasks /\ vblankTaskOverflow' = vblankTaskOverflow /\ due' = due
  BY DEF VBlank, BeginDrain
<1>2. /\ p \in 0..1 /\ q \in 0..1 /\ q # p /\ 1 - q = p /\ lengths[p] \in 0..Capacity /\ lengths[q] = 0
      /\ Rest = 0 /\ Capacity \in Nat
  BY <1>1, QueueFacts
<1>3. lengths \in [0..1 -> 0..Capacity]
  BY DEF QueueInv, QueueType
<1> HIDE DEF p, q
<1>4. lengths' \in [0..1 -> 0..Capacity] /\ lengths'[p] = 0 /\ lengths'[q] = 0
  BY <1>1, <1>2, <1>3
<1>5. batch'.array = p /\ batch'.count = lengths[p] /\ batch'.next = 1
  BY <1>1
<1>6. Rest' = lengths[p]
  BY <1>2, <1>5 DEF Rest
<1>7. QueueType'
  <2>1. batch' \in [array : 0..1, count : 0..Capacity, next : Nat]
    BY <1>1, <1>2
  <2>2. batch'.next > 0 /\ batch'.next <= batch'.count + 1
    BY <1>2, <1>5
  <2>3. vblankTaskOverflow \in BOOLEAN /\ tasks \in [0..1 -> [1..Capacity -> Entries]]
    BY DEF QueueInv, QueueType
  <2> QED BY <1>1, <1>2, <1>4, <2>1, <2>2, <2>3 DEF QueueType
<1>8. ArraysInv'
  BY <1>1, <1>2, <1>4, <1>5 DEF ArraysInv
<1>9. \A j \in 1..lengths[p] : 1 + j - 1 = j /\ 0 + j = j
  OBVIOUS
<1>10. FilledInv'
  <2>1. \A j \in 1..lengths[p] : tasks[p][j] \in Tasks
    BY DEF QueueInv, FilledInv, p
  <2>2. \A i \in 1..Rest' : tasks'[batch'.array][batch'.next + i - 1] \in Tasks
    BY <1>1, <1>5, <1>6, <1>9, <2>1
  <2>3. \A j \in 1..lengths'[pending'] : tasks'[pending'][j] \in Tasks
    BY <1>1, <1>4
  <2> QED BY <2>2, <2>3 DEF FilledInv
<1>11. ASSUME ~vblankTaskOverflow' PROVE OrderInv'
  <2>1. OrderInv
    BY <1>1, <1>11 DEF QueueInv
  <2>2. /\ due \in Seq(Tasks) /\ Len(due) = lengths[p]
        /\ \A j \in 1..lengths[p] : due[j] = tasks[p][j]
    BY <1>2, <1>9, <2>1 DEF OrderInv, p
  <2>3. \A i \in 1..Rest' : due'[i] = tasks'[batch'.array][batch'.next + i - 1]
    BY <1>1, <1>5, <1>6, <1>9, <2>2
  <2>4. Len(due') = Rest' + lengths'[pending']
    BY <1>1, <1>2, <1>4, <1>6, <2>2
  <2>5. \A j \in 1..lengths'[pending'] : due'[Rest' + j] = tasks'[pending'][j]
    BY <1>1, <1>4
  <2> QED BY <1>1, <2>2, <2>3, <2>4, <2>5 DEF OrderInv
<1> QED BY <1>7, <1>8, <1>10, <1>11 DEF QueueInv

LEMMA RunTaskStep == ASSUME QueueInv, RunTask PROVE QueueInv'
<1> DEFINE p == pending  a == batch.array  x == batch.next
           w == Follow[tasks[a][x]]
<1>1. /\ Draining /\ batch' = [batch EXCEPT !.next = x + 1]
      /\ Enqueue(w) /\ due' = Tail(due) \o w /\ pending' = p
  BY DEF RunTask
<1>2. /\ p \in 0..1 /\ a = 1 - p /\ 1 - p # p /\ lengths[p] \in 0..Capacity
      /\ batch.count \in 0..Capacity /\ x \in Nat /\ x > 0 /\ Rest \in Nat /\ Rest > 0
      /\ batch \in [array : 0..1, count : 0..Capacity, next : Nat] /\ x <= batch.count
  BY <1>1, QueueFacts DEF QueueInv, QueueType, Draining
<1>3. tasks[a][x] \in Tasks
  <2>1. tasks[a][x + 1 - 1] \in Tasks
    BY <1>2 DEF QueueInv, FilledInv
  <2>2. x + 1 - 1 = x
    BY <1>2
  <2> QED BY <2>1, <2>2
<1>4. w \in Seq(Tasks)
  BY <1>3, QueueAssumption
<1> HIDE DEF w
<1>5. /\ tasks' \in [0..1 -> [1..Capacity -> Entries]]
      /\ lengths' \in [0..1 -> 0..Capacity] /\ vblankTaskOverflow' \in BOOLEAN
      /\ tasks'[1 - p] = tasks[1 - p]
      /\ lengths'[1 - p] = lengths[1 - p]
      /\ \A j \in 1..lengths[p] : tasks'[p][j] = tasks[p][j]
      /\ \A j \in 1..lengths'[p] : tasks'[p][j] \in Tasks
  BY <1>1, <1>4, EnqueueFacts
<1>6. ~vblankTaskOverflow' =>
        /\ ~vblankTaskOverflow /\ lengths'[p] = lengths[p] + Len(w)
        /\ \A j \in 1..Len(w) : tasks'[p][lengths[p] + j] = w[j]
  BY <1>1, <1>4, EnqueueFacts
<1>7. /\ batch' \in [array : 0..1, count : 0..Capacity, next : Nat]
      /\ batch'.array = a /\ batch'.count = batch.count /\ batch'.next = x + 1
  BY <1>1, <1>2
<1>8. batch'.next > 0 /\ batch'.next <= batch'.count + 1
  BY <1>2, <1>7
<1>9. Rest' = Rest - 1
  BY <1>2, <1>7 DEF Rest
<1>10. QueueType'
  BY <1>1, <1>2, <1>5, <1>7, <1>8 DEF QueueType
<1>11. ArraysInv'
  BY <1>1, <1>2, <1>5, <1>7, QueueFacts DEF ArraysInv
<1>12. \A i \in 1..Rest' : /\ i + 1 \in 1..Rest
                           /\ tasks'[batch'.array][batch'.next + i - 1] = tasks[a][x + (i + 1) - 1]
  <2> TAKE i \in 1..Rest'
  <2>1. i + 1 \in 1..Rest /\ (x + 1) + i - 1 = x + (i + 1) - 1
    BY <1>2, <1>9
  <2> QED BY <1>2, <1>5, <1>7, <2>1
<1>13. FilledInv'
  <2>1. \A i \in 1..Rest' : tasks'[batch'.array][batch'.next + i - 1] \in Tasks
    BY <1>12 DEF QueueInv, FilledInv
  <2> QED BY <1>1, <1>5, <2>1 DEF FilledInv
<1>14. ASSUME ~vblankTaskOverflow' PROVE OrderInv'
  <2> DEFINE r == Tail(due)  k == lengths[p]
  <2>1. OrderInv /\ lengths'[p] = k + Len(w)
    BY <1>6, <1>14 DEF QueueInv
  <2>2. due \in Seq(Tasks) /\ Len(due) = Rest + k /\ k \in Nat /\ Len(w) \in Nat
    BY <1>2, <1>4, <2>1, LenProperties DEF OrderInv
  <2>3. due # << >>
    BY <1>2, <2>2, EmptySeq
  <2>11. /\ r \in Seq(Tasks) /\ Len(r) = Len(due) - 1
        /\ \A i \in 1..Len(r) : r[i] = due[i + 1]
    BY <2>2, <2>3, HeadTailProperties
  <2> HIDE DEF r
  <2>12. Len(due) - 1 = Rest' + k
    BY <1>2, <1>9, <2>2
  <2>4. /\ r \in Seq(Tasks) /\ Len(r) = Rest' + k
        /\ \A i \in 1..(Rest' + k) : r[i] = due[i + 1]
    BY <2>11, <2>12
  <2>5. /\ due' \in Seq(Tasks) /\ Len(due') = (Rest' + k) + Len(w)
        /\ \A i \in 1..((Rest' + k) + Len(w)) :
             due'[i] = IF i <= Rest' + k THEN r[i] ELSE w[i - (Rest' + k)]
    BY <1>1, <1>4, <2>4, ConcatProperties DEF r
  <2>6. Rest' \in Nat
    BY <1>2, <1>9
  <2>10. k \in Nat /\ Len(w) \in Nat
    BY <2>2
  <2>7. Len(due') = Rest' + lengths'[pending']
    BY <1>1, <2>1, <2>2, <2>5, <2>6
  <2>8. \A i \in 1..Rest' : due'[i] = tasks'[batch'.array][batch'.next + i - 1]
    <3> TAKE i \in 1..Rest'
    <3>1. i \in 1..(Rest' + k) /\ i \in 1..((Rest' + k) + Len(w)) /\ i <= Rest' + k
      BY <2>2, <2>6
    <3>2. due'[i] = due[i + 1]
      BY <2>4, <2>5, <3>1
    <3>3. due[i + 1] = tasks[a][x + (i + 1) - 1]
      BY <1>12, <2>1 DEF OrderInv
    <3> QED BY <1>12, <3>2, <3>3
  <2>9. \A j \in 1..lengths'[pending'] : due'[Rest' + j] = tasks'[pending'][j]
    <3> SUFFICES ASSUME NEW j \in 1..(k + Len(w)) PROVE due'[Rest' + j] = tasks'[p][j]
      BY <1>1, <2>1
    <3>1. Rest' + j \in 1..((Rest' + k) + Len(w))
      <4> DEFINE l == Rest'  n == Len(w)  m == k
      <4>1. l \in Nat /\ n \in Nat /\ m \in Nat /\ j \in 1..(m + n)
        BY <2>6, <2>10
      <4> HIDE DEF l, n, m
      <4>2. j \in Nat /\ j > 0 /\ j <= m + n
        BY <4>1
      <4>3. l + j \in 1..((l + m) + n)
        BY <4>1, <4>2
      <4> QED BY <4>3 DEF l, n, m
    <3>2. CASE j <= k
      <4>1. Rest' + j \in 1..(Rest' + k) /\ Rest' + j <= Rest' + k /\ (Rest' + j) + 1 = Rest + j
            /\ j \in 1..k
        <5> DEFINE l == Rest'  m == k
        <5>1. l \in Nat /\ m \in Nat /\ j \in Nat /\ j > 0 /\ j <= m /\ Rest = l + 1
          BY <1>2, <1>9, <2>6, <2>10, <3>2
        <5> HIDE DEF l, m
        <5>2. l + j \in 1..(l + m) /\ l + j <= l + m /\ (l + j) + 1 = Rest + j /\ j \in 1..m
          BY <5>1
        <5> QED BY <5>2 DEF l, m
      <4>2. due'[Rest' + j] = due[Rest + j]
        BY <2>4, <2>5, <3>1, <4>1
      <4>3. due[Rest + j] = tasks[p][j]
        BY <2>1, <4>1 DEF OrderInv
      <4> QED BY <1>5, <4>1, <4>2, <4>3
    <3>3. CASE ~(j <= k)
      <4>1. /\ ~(Rest' + j <= Rest' + k) /\ (Rest' + j) - (Rest' + k) = j - k /\ j - k \in 1..Len(w)
            /\ k + (j - k) = j
        BY <2>2, <2>6, <3>3
      <4>2. due'[Rest' + j] = w[j - k]
        BY <2>5, <3>1, <4>1
      <4>3. tasks'[p][k + (j - k)] = w[j - k]
        BY <1>6, <1>14, <4>1
      <4> QED BY <4>1, <4>2, <4>3
    <3> QED BY <3>2, <3>3
  <2> QED BY <2>5, <2>7, <2>8, <2>9 DEF OrderInv
<1> QED BY <1>10, <1>11, <1>13, <1>14 DEF QueueInv

\* A commit, the end of the program and a stutter leave the queue alone.
LEMMA QueueKept ==
  ASSUME QueueInv, UNCHANGED <<tasks, lengths, pending, batch, vblankTaskOverflow, due>>
  PROVE  QueueInv'
BY DEF QueueInv, QueueType, ArraysInv, FilledInv, OrderInv, Rest, Draining

LEMMA QueueNextInv == QueueInv /\ [QueueNext]_queueVars => QueueInv'
<1> SUFFICES ASSUME QueueInv, [QueueNext]_queueVars PROVE QueueInv'
  OBVIOUS
<1>1. ASSUME NEW t \in Tasks, DoAtVBlankTask(t) PROVE QueueInv'
  BY <1>1, DoAtVBlankStep
<1>2. CASE VBlank
  BY <1>2, VBlankStep
<1>3. CASE RunTask
  BY <1>3, RunTaskStep
<1>4. CASE Commit
  BY <1>4, QueueKept DEF Commit
<1>5. CASE DrawScreenStops
  BY <1>5, QueueKept DEF DrawScreenStops
<1>6. CASE UNCHANGED queueVars
  BY <1>6, QueueKept DEF queueVars
<1> QED BY <1>1, <1>2, <1>3, <1>4, <1>5, <1>6 DEF QueueNext

\* Without an overflow, what waits is what is due.
LEMMA QueuedIsDue == ASSUME QueueInv, ~vblankTaskOverflow PROVE Queued = due
<1> DEFINE p == pending  k == lengths[p]
           rest == SubSeq(tasks[batch.array], batch.next, batch.count)
           filled == SubSeq(tasks[p], 1, k)
<1>1. /\ batch.count \in Int /\ batch.next \in Int /\ k \in Nat /\ Rest \in Nat
      /\ Rest = batch.count + 1 - batch.next
  BY QueueFacts DEF Rest
<1>2. FilledInv /\ OrderInv
  BY DEF QueueInv
<1>3. \A i \in batch.next..batch.count : tasks[batch.array][i] \in Tasks
  <2> TAKE i \in batch.next..batch.count
  <2> DEFINE j == i + 1 - batch.next
  <2>1. j \in 1..Rest /\ batch.next + j - 1 = i
    BY <1>1
  <2> QED BY <1>2, <2>1 DEF FilledInv
<1>4. /\ rest \in Seq(Tasks) /\ Len(rest) = Rest
      /\ \A i \in 1..Rest : rest[i] = tasks[batch.array][batch.next + i - 1]
  <2>1. /\ rest \in Seq(Tasks)
        /\ Len(rest) = IF batch.next <= batch.count THEN batch.count - batch.next + 1 ELSE 0
        /\ \A i \in 1..(batch.count - batch.next + 1) : rest[i] = tasks[batch.array][batch.next + i - 1]
    BY <1>1, <1>3, SubSeqProperties
  <2>2. batch.count - batch.next + 1 = Rest
    BY <1>1
  <2> QED BY <1>1, <2>1, <2>2
<1>5. /\ filled \in Seq(Tasks) /\ Len(filled) = k
      /\ \A j \in 1..k : filled[j] = tasks[p][j]
  <2>1. \A j \in 1..k : tasks[p][j] \in Tasks
    BY <1>2 DEF FilledInv
  <2>2. /\ filled \in Seq(Tasks) /\ Len(filled) = IF 1 <= k THEN k - 1 + 1 ELSE 0
        /\ \A j \in 1..(k - 1 + 1) : filled[j] = tasks[p][1 + j - 1]
    BY <1>1, <2>1, SubSeqProperties
  <2>3. k - 1 + 1 = k /\ \A j \in 1..k : 1 + j - 1 = j
    BY <1>1
  <2> QED BY <1>1, <2>2, <2>3
<1>6. Queued = rest \o filled
  BY DEF Queued
<1> HIDE DEF rest, filled
<1>7. /\ Queued \in Seq(Tasks) /\ Len(Queued) = Rest + k
      /\ \A i \in 1..(Rest + k) : Queued[i] = IF i <= Rest THEN rest[i] ELSE filled[i - Rest]
  <2>1. /\ rest \o filled \in Seq(Tasks)
        /\ Len(rest \o filled) = Len(rest) + Len(filled)
        /\ \A i \in 1..(Len(rest) + Len(filled)) :
             (rest \o filled)[i] = IF i <= Len(rest) THEN rest[i] ELSE filled[i - Len(rest)]
    BY <1>4, <1>5, ConcatProperties
  <2> QED BY <1>4, <1>5, <1>6, <2>1
<1>8. due \in Seq(Tasks) /\ Len(due) = Rest + k
  BY <1>2 DEF OrderInv
<1>9. \A i \in 1..(Rest + k) : Queued[i] = due[i]
  <2> TAKE i \in 1..(Rest + k)
  <2>1. CASE i <= Rest
    <3>1. i \in 1..Rest
      BY <1>1, <2>1
    <3> QED BY <1>2, <1>4, <1>7, <2>1, <3>1 DEF OrderInv
  <2>2. CASE ~(i <= Rest)
    <3>1. i - Rest \in 1..k /\ Rest + (i - Rest) = i
      BY <1>1, <2>2
    <3> QED BY <1>2, <1>5, <1>7, <2>2, <3>1 DEF OrderInv
  <2> QED BY <2>1, <2>2
<1> QED BY <1>7, <1>8, <1>9, SeqEqual

(* Every callback is run once, in the order they were asked for, also those  *)
(* that callbacks ask for, unless one was dropped and the program stops; for *)
(* arrays of any size and whatever follows on what                           *)
(* (vblank_task_queue.h:20-38, gbgfx.cpp:715-797).                           *)
THEOREM TasksAlwaysInOrder == QueueSpec => []TasksRunInOrder
<1>1. QueueInv => TasksRunInOrder
  BY QueuedIsDue DEF TasksRunInOrder
<1> QED BY <1>1, QueueInitInv, QueueNextInv, PTL DEF QueueSpec
================================================================================
