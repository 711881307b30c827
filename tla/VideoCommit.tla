------------------------------ MODULE VideoCommit ------------------------------
(***************************************************************************)
(* How a finished frame of the game reaches the screen of the DS           *)
(* (gbgfx.cpp, gbgfx_stage.h).  The foreground runs the game, which draws  *)
(* scan lines into a buffer and queues the tiles and maps it changed; the  *)
(* HBlank and VCount interrupts draw another buffer's lines from video     *)
(* memory.  While the game is fast-forwarded, a finished frame is staged   *)
(* in RAM, and copied to video memory by the foreground in the lines below *)
(* the picture, against the clock of the screen.                           *)
(*                                                                         *)
(* A block is all the tiles or a map; its content is the number of the     *)
(* write that made it.  Lines are those where something happens;           *)
(* SafeFirst..SafeLast stand for 168..170.                                 *)
(***************************************************************************)
EXTENDS Integers

CONSTANTS Blocks, MaxWrites,
          Deferred,            \* blocks whose change can be put off to the next frame (tiles)
          SafeFirst, SafeLast, VBlankLine, VCountLine, Lines,  \* 168, 170, 192, 235, 263 lines
          Slack,               \* 2 lines
          Bound,               \* stageAdmittedBoundLines
          StaleFrames, Recent, \* 120 and 2 host frames
          MaxSwitches          \* fast-forward, menu and reset, together

\* There is something to show, and the picture begins behind the safe lines.
ASSUME VideoAssumption == /\ Blocks # {} /\ Slack \in Nat
                          /\ SafeFirst \in Nat /\ VCountLine \in Nat /\ Lines \in Nat

VARIABLES line, irqs, masked,
          pc,                  \* where the foreground is
          fast, suspended,     \* fast-forward; "no", "menu", "mask" or "pause"
          active, fault,       \* stagedRendererActive, stageFaultCode
          slots, buf,          \* the roles of the scan-line buffers; the frame each holds
          vram, changed, inFrame,  \* the game's video memory, and the queues of changed blocks
          live, staged, stagedDirty,
          settled,             \* a frame has been shown since video memory was drawn anew
          didVblank, since,    \* a VBlank since the last frame; since the wait fell asleep or polled
          polled, seen,        \* a poll of the safe lines since the wait began; in the last host frames
          ret,                 \* where the service goes back to
          callbacks,           \* vblankTasks.hasPending()
          start, frames, toCopy,   \* of the copy: its first line, host frames since, blocks left
          age,                 \* host frames since the ready frame was staged
          switches
screen == <<line, irqs, masked>>
frame == <<slots, buf, vram, changed, inFrame, live, staged, stagedDirty, settled>>
copying == <<start, frames, toCopy>>
mode == <<fast, suspended, active, fault, switches>>
waits == <<didVblank, since, polled, seen, ret, callbacks, age>>
vars == <<screen, pc, mode, frame, waits, copying>>

NoSlot == 3
Fresh == [displayed |-> 0, producer |-> 1, ready |-> 3, free |-> 2]
Blank == [b \in Blocks |-> 0]
Partial == [b \in Blocks |-> -1]  \* a frame being drawn
HasReady == slots.ready # NoSlot
\* Lines whose content is being drawn: the first is, before the picture begins.
Picture == 0..(SafeFirst - 1) \cup VCountLine..(Lines - 1)
Before(n, limit) == IF n < limit THEN n + 1 ELSE n

Init == /\ line = 0 /\ irqs = {} /\ masked = FALSE /\ pc = "guest"
        /\ fast \in BOOLEAN /\ suspended = "no" /\ active = FALSE /\ fault = "NONE"
        /\ slots = Fresh /\ buf = [i \in 0..2 |-> Blank]
        /\ vram = Blank /\ changed = {} /\ inFrame = {} /\ live = Blank /\ staged = Blank
        /\ stagedDirty = {} /\ settled = FALSE
        /\ didVblank = FALSE /\ since = FALSE /\ ret = "guest" /\ polled = FALSE /\ seen = 0 /\ callbacks = FALSE
        /\ start = 0 /\ frames = 0 /\ toCopy = {} /\ age = 0 /\ switches = MaxSwitches

(***************************************************************************)
(* The screen: lines go by; an interrupt waits while interrupts are off.   *)
(***************************************************************************)
Quiet == irqs = {} \/ masked
Tick == /\ Quiet
        /\ line' = (line + 1) % Lines
        /\ irqs' = IF line' = VBlankLine THEN irqs \cup {"vblank"} ELSE irqs
        /\ UNCHANGED <<masked, pc, mode, frame, waits, copying>>
Committing == pc \in {"copy", "copied"}
Waiting == pc \in {"await", "sleep"} \/ ret = "await"
\* vblankHandler: callbacks may ask for others; none run while a copy is under way.
VBlankHandler == /\ "vblank" \in irqs /\ ~masked
                 /\ irqs' = irqs \ {"vblank"} /\ didVblank' = TRUE /\ since' = Waiting
                 /\ callbacks' \in (IF Committing THEN {callbacks} ELSE IF callbacks THEN BOOLEAN ELSE {FALSE})
                 /\ age' = IF HasReady THEN Before(age, StaleFrames) ELSE age
                 /\ frames' = IF Committing \/ pc \in {"publish", "final"} THEN Before(frames, 2) ELSE frames
                 /\ seen' = IF seen = 0 THEN 0 ELSE seen - 1
                 /\ UNCHANGED <<line, masked, pc, mode, frame, polled, ret, start, toCopy>>

(***************************************************************************)
(* The game: it changes video memory, and the front end its modes.         *)
(***************************************************************************)
\* n is the number of the game's next write.
NextWrite(n) == (\A b \in Blocks : vram[b] < n) /\ \E b \in Blocks : vram[b] = n - 1
GuestWrites == /\ Quiet /\ pc = "guest" /\ suspended # "pause"
               /\ \E n \in 1..MaxWrites, b \in Blocks :
                    /\ NextWrite(n) /\ vram' = [vram EXCEPT ![b] = n]
                    /\ \/ changed' = changed \cup {b} /\ UNCHANGED inFrame
                       \/ b \in Deferred /\ inFrame' = inFrame \cup {b} /\ UNCHANGED changed
               /\ buf' = [buf EXCEPT ![slots.producer] = Partial]
               /\ UNCHANGED <<screen, pc, mode, slots, live, staged, stagedDirty, settled, waits, copying>>
DoAtVBlank == /\ Quiet /\ pc = "guest" /\ suspended = "menu" /\ callbacks' = TRUE
              /\ UNCHANGED <<screen, pc, mode, frame, didVblank, since, polled, seen, ret, age, copying>>
Switch == /\ Quiet /\ pc = "guest" /\ switches > 0 /\ switches' = switches - 1
          /\ \/ fast' = ~fast /\ UNCHANGED suspended
             \/ suspended' \in {"no", "menu", "mask", "pause"} \ {suspended} /\ UNCHANGED fast
          /\ UNCHANGED <<screen, pc, active, fault, frame, waits, copying>>
\* refreshGFX: video memory is drawn anew from the game's, and staging left.
RefreshGFX == /\ Quiet /\ pc = "guest" /\ switches > 0 /\ switches' = switches - 1
              /\ active' = FALSE /\ slots' = Fresh /\ stagedDirty' = {}
              /\ live' = vram /\ changed' = {} /\ inFrame' = {} /\ settled' = FALSE
              /\ suspended' = IF suspended = "mask" THEN "no" ELSE suspended
              /\ UNCHANGED <<screen, pc, fast, fault, buf, vram, staged, waits, copying>>

(***************************************************************************)
(* drawScreen: wait for the screen, then show or stage the frame.          *)
(***************************************************************************)
CanShow == suspended \in {"no", "pause"}
DrawScreen == /\ Quiet /\ pc = "guest"
              /\ pc' = IF fast \/ didVblank THEN "present"
                       ELSE IF active /\ HasReady /\ CanShow /\ fault = "NONE" THEN "await" ELSE "sleep"
              /\ polled' = FALSE /\ since' = FALSE
              /\ UNCHANGED <<screen, mode, frame, didVblank, seen, ret, callbacks, age, copying>>
\* The wait polls the safe lines first, and then sleeps until the VBlank if it has not come.
AwaitPoll == /\ Quiet /\ pc = "await" /\ ~polled /\ fault = "NONE" /\ line \in SafeFirst..SafeLast
             /\ pc' = "service" /\ ret' = "await"
             /\ UNCHANGED <<screen, mode, frame, didVblank, since, polled, seen, callbacks, age, copying>>
AwaitEnds == /\ Quiet /\ pc = "await" /\ (polled \/ fault # "NONE")
             /\ pc' = IF fault = "NONE" /\ ~since THEN "sleep" ELSE "present"
             /\ ret' = "guest" /\ polled' = FALSE
             /\ UNCHANGED <<screen, mode, frame, didVblank, since, seen, callbacks, age, copying>>
Sleep == /\ Quiet /\ pc = "sleep" /\ since
         /\ pc' = "present" /\ UNCHANGED <<screen, mode, frame, waits, copying>>

\* Blocks whose changes the stage or video memory takes now, and those put off.
Convert(target) == [b \in Blocks |-> IF b \in changed THEN vram[b] ELSE target[b]]
\* gbStageCompleteLatestFrame: the finished buffer is ready, and its frame goes on in the next one.
StageCompleted(assets) ==
  /\ slots' = [slots EXCEPT !.ready = slots.producer, !.free = NoSlot,
                            !.producer = IF HasReady THEN slots.ready ELSE slots.free]
  /\ buf' = [buf EXCEPT ![slots.producer] = assets, ![slots'.producer] = assets]
\* Mutant: only the blocks changed in this frame are marked for the copy.
DirtyNow == changed
Dirty == (IF active THEN stagedDirty ELSE {}) \cup changed
\* Mutant: the changes put off to the next frame are dropped.
PutOffNone == {}
PutOff == inFrame
StageFrame ==
  IF HasReady /\ active /\ age = StaleFrames
    THEN /\ fault' = "NO_COMMIT_OPPORTUNITY" /\ active' = TRUE
         /\ UNCHANGED <<slots, buf, changed, inFrame, staged, stagedDirty, age>>
    ELSE /\ active' = TRUE /\ UNCHANGED fault
         /\ staged' = Convert(IF active THEN staged ELSE live)
         /\ stagedDirty' = Dirty
         /\ changed' = PutOff /\ inFrame' = {}
         /\ StageCompleted(staged')
         /\ age' = IF HasReady THEN age ELSE 0
\* The way without staging: the buffers swap, and video memory takes the changes at once.
ShowNow == /\ slots' = [slots EXCEPT !.displayed = slots.producer, !.producer = slots.displayed]
           /\ live' = Convert(live) /\ settled' = TRUE
           /\ buf' = [buf EXCEPT ![slots.producer] = live']
           /\ changed' = PutOff /\ inFrame' = {}
           /\ UNCHANGED <<staged, stagedDirty>>
Present ==
  /\ Quiet /\ pc = "present" /\ didVblank' = FALSE /\ since' = FALSE
  /\ IF (active /\ (suspended = "pause" \/ fault # "NONE")) \/ suspended = "mask"
       THEN /\ pc' = "guest" /\ age' = IF suspended # "no" THEN 0 ELSE age
            /\ UNCHANGED <<active, fault, frame, ret>>
       ELSE IF active \/ (fast /\ seen > 0 /\ fault = "NONE")
       THEN /\ pc' = "service" /\ ret' = "guest" /\ StageFrame /\ UNCHANGED <<vram, live, settled>>
       ELSE /\ pc' = "guest" /\ ShowNow /\ UNCHANGED <<active, fault, vram, age, ret>>
  /\ UNCHANGED <<screen, fast, suspended, switches, polled, seen, callbacks, copying>>

(***************************************************************************)
(* servicePendingVideoFrameCommit, from the wait, after staging, or from   *)
(* any scan line of the game.                                              *)
(***************************************************************************)
MayCommit == line \in SafeFirst..SafeLast /\ line + Bound + Slack < VCountLine
MayPublish == line >= SafeFirst /\ line + Slack < VCountLine
Service == /\ Quiet /\ pc \in {"guest", "service"}
           /\ ret' = IF pc = "guest" THEN "guest" ELSE ret
           /\ polled' = (ret' = "await") /\ since' = FALSE
           /\ seen' = IF line \in SafeFirst..SafeLast THEN Recent + 1 ELSE seen
           /\ age' = IF suspended # "no" THEN 0 ELSE age
           /\ IF fault = "NONE" /\ suspended = "no" /\ active /\ HasReady /\ MayCommit /\ ~callbacks
                THEN /\ pc' = "copy" /\ start' = line /\ frames' = 0 /\ toCopy' = stagedDirty
                ELSE /\ pc' = ret' /\ UNCHANGED copying
           /\ UNCHANGED <<screen, mode, frame, didVblank, callbacks>>
CopyBlock == /\ Quiet /\ pc = "copy"
             /\ \E b \in toCopy : live' = [live EXCEPT ![b] = staged[b]] /\ toCopy' = toCopy \ {b}
             /\ UNCHANGED <<screen, pc, mode, slots, buf, vram, changed, inFrame, staged, stagedDirty,
                            settled, waits, start, frames>>
\* The interrupts are off from here to the reading of the clock.
CopyEnds == /\ Quiet /\ pc = "copy" /\ toCopy = {}
            /\ masked' = TRUE /\ pc' = "copied"
            /\ UNCHANGED <<line, irqs, mode, frame, waits, copying>>
\* gbStageElapsedLines, whose result is unsigned: less than nothing is too much.
Phase(n) == (n + Lines - VBlankLine) % Lines
Elapsed == (frames * Lines) + Phase(line) - Phase(start)
\* Mutant: the copy is not timed.
InTimeAlways == TRUE
InTime == Elapsed \in 0..Bound /\ MayPublish
Forget == start' = 0 /\ frames' = 0 /\ toCopy' = {}
CheckCopy == /\ pc = "copied" /\ masked' = FALSE
             /\ pc' = IF InTime THEN "publish" ELSE ret
             /\ fault' = IF InTime THEN fault ELSE "DEADLINE"
             /\ IF InTime THEN UNCHANGED copying ELSE Forget
             /\ UNCHANGED <<line, irqs, fast, suspended, active, switches, frame, waits>>
\* Mutant: the buffer shown is still the ready one.
CommitKeepsReady == [slots EXCEPT !.free = slots.displayed, !.displayed = slots.ready]
CommitReady == [slots EXCEPT !.free = slots.displayed, !.displayed = slots.ready, !.ready = NoSlot]
Publish == /\ Quiet /\ pc = "publish"
           /\ IF InTime
                THEN /\ masked' = TRUE /\ pc' = "final" /\ UNCHANGED <<fault, copying>>
                     /\ slots' = CommitReady
                ELSE /\ fault' = "DEADLINE" /\ pc' = ret /\ Forget /\ UNCHANGED <<masked, slots>>
           /\ UNCHANGED <<line, irqs, fast, suspended, active, switches, buf, vram, changed, inFrame,
                          live, staged, stagedDirty, settled, waits>>
CheckFinal == /\ pc = "final" /\ masked' = FALSE
              /\ fault' = IF InTime THEN fault ELSE "DEADLINE"
              /\ stagedDirty' = IF InTime THEN {} ELSE stagedDirty
              /\ pc' = ret /\ Forget
              /\ UNCHANGED <<line, irqs, fast, suspended, active, switches, slots, buf, vram, changed,
                             inFrame, live, staged, settled, waits>>

Next == \/ Tick \/ VBlankHandler
        \/ GuestWrites \/ DoAtVBlank \/ Switch \/ RefreshGFX
        \/ DrawScreen \/ AwaitPoll \/ AwaitEnds \/ Sleep \/ Present
        \/ Service \/ CopyBlock \/ CopyEnds \/ CheckCopy \/ Publish \/ CheckFinal
Spec == Init /\ [][Next]_vars

\* While the lines of the picture are drawn, video memory holds the tiles and maps of the frame whose
\* lines are drawn, whole.  Only a copy that is late can break this, and it is recorded as a fault.
NoTear == active /\ settled /\ fault = "NONE" /\ line \in Picture =>
            live = buf[slots.displayed] \/ (pc \in {"copy", "copied", "publish", "final"} /\ ~InTime)
\* The three buffers keep their roles, and what the game draws into is never shown.
SlotsDiffer == /\ \A r, q \in DOMAIN slots : r # q /\ slots[r] # NoSlot => slots[r] # slots[q]
               /\ HasReady => buf[slots.ready] # Partial
\* No change of the game's video memory is forgotten: what the stage or the screen does not have yet
\* is queued.
ChangesQueued == LET target == IF active THEN staged ELSE live
                 IN \A b \in Blocks : target[b] = vram[b] \/ b \in changed \cup inFrame
================================================================================
