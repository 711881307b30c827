---------------------------- MODULE SoundHandover ----------------------------
(***************************************************************************)
(* How a change of a sound channel reaches the speaker of the DS.  The     *)
(* ARM9 (dssoundengine.cpp) changes shared memory and tells the ARM7       *)
(* (sound.c) to read it: by a command in the FIFO or, with the sound       *)
(* timing fix on, by leaving the command in sharedData->message and        *)
(* waiting until the ARM7's timer has taken it at the right cycle.         *)
(***************************************************************************)
EXTENDS Integers, Sequences

CONSTANTS Channels, Values,  \* channels, and what a pitch or a volume may be
          MaxWaiting,        \* MAX_FIFOS_WAITING
          Ticks,             \* dsCycles is followed up to here
          Works,             \* what a game and the menu do: sets of operations
          MaxMenu            \* bound: commands of the menu not yet received

ASSUME TicksAssumption == Ticks \in Nat

None == -1
Silent == <<0, 0>>

VARIABLES work,       \* the operations of this behaviour
          shared,     \* sharedData: on chanOn, enabled, pitch chanRealFreq, vol chanRealVol, mix NR50
          speaker,    \* the sound hardware: runs, pitch, vol
          fifo,       \* FIFO_USER_01: sent and not received
          sgb,        \* sgbHostAudio, the buffer sgbHostPcmIndex, and what speaker 15 plays
          hyperSound, scaling, scaleReady,
          message, cycles, dsCycles,
          apart,      \* frameFlip_Gameboy # frameFlip_DS
          timerOn,    \* the ARM7's timer 1
          arm7,       \* "taking" between clearing cycles and reading message
          arm9, todo, \* "run", "sync" or "wait"; the commands it still has to hand over
          muted,      \* the last word of the menu was to mute
          touched,    \* channels switched in the menu since their last start
          lost        \* a command was refused, or replaced while it was taken
sync == <<message, cycles, dsCycles, apart, timerOn, arm7, scaleReady>>
vars == <<work, shared, speaker, sgb, fifo, hyperSound, scaling, sync, arm9, todo, muted, touched, lost>>

Init ==
  /\ work \in Works
  /\ shared = [on |-> {}, enabled |-> Channels, mix |-> 1,
               pitch |-> [c \in Channels |-> 1], vol |-> [c \in Channels |-> 1]]
  /\ speaker = [c \in Channels |-> [runs |-> FALSE, pitch |-> 1, vol |-> Silent]]
  /\ sgb = [audio |-> FALSE, index |-> 0, plays |-> {}]
  /\ fifo = << >> /\ hyperSound \in BOOLEAN /\ scaling \in BOOLEAN /\ scaleReady = FALSE
  /\ message = <<"none">> /\ cycles = None /\ dsCycles = 0 /\ apart = FALSE
  /\ timerOn = TRUE /\ arm7 = "idle"
  /\ arm9 = "run" /\ todo = << >> /\ muted = FALSE /\ touched = {} /\ lost = FALSE

(* --------------------------------- ARM7 --------------------------------- *)
Audible(c) == c \in shared.on \cap shared.enabled
\* getChannelMix
Mixed(c) == IF Audible(c) THEN <<shared.vol[c], shared.mix>> ELSE Silent
WithVolume(s, c) == [s EXCEPT ![c].vol = Mixed(c)]
UpdateChannel(s, c) == IF Audible(c) THEN [WithVolume(s, c) EXCEPT ![c].pitch = shared.pitch[c]]
                       ELSE [s EXCEPT ![c].vol = Silent]
StartChannel(s, c) ==
  IF c \in shared.enabled THEN [UpdateChannel(s, c) EXCEPT ![c].runs = TRUE]
  ELSE [s EXCEPT ![c].runs = FALSE, ![c].vol = Silent]
ForAll(Op(_, _), cs) == [c \in Channels |-> IF c \in cs THEN Op(speaker, c)[c] ELSE speaker[c]]

DoCommand(m) ==
  /\ speaker' = CASE m[1] = "update" -> ForAll(UpdateChannel, m[2])
                  [] m[1] = "start" -> ForAll(StartChannel, m[2])
                  [] m[1] = "volume" -> ForAll(WithVolume, m[2])
                  [] m[1] = "master" -> ForAll(WithVolume, Channels)
                  [] m[1] = "mute" -> [c \in Channels |-> [speaker[c] EXCEPT !.vol = Silent]]
                  [] m[1] = "unmute" -> ForAll(WithVolume, shared.on \cap shared.enabled)
                  [] OTHER -> speaker
  /\ timerOn' = IF m[1] = "hyper" THEN m[2] ELSE timerOn
  /\ sgb' = IF m[1] = "buffer" THEN [sgb EXCEPT !.plays = IF sgb.audio THEN m[2] ELSE {}] ELSE sgb

\* gameboySoundCommandHandler
Receive == /\ arm7 = "idle" /\ fifo # << >>
           /\ DoCommand(Head(fifo)) /\ fifo' = Tail(fifo)
           /\ UNCHANGED <<work, shared, hyperSound, scaling, scaleReady, message, cycles, dsCycles, apart,
                          arm7, arm9, todo, muted, touched, lost>>

Due(now) == cycles # None /\ now >= cycles
AtCycle(now) == cycles # None /\ (apart \/ now >= cycles)
\* timerCallback clears cycles before it reads message.
TimerCallback ==
  /\ timerOn /\ arm7 = "idle"
  /\ dsCycles' = IF dsCycles < Ticks THEN dsCycles + 1 ELSE Ticks
  /\ IF AtCycle(dsCycles')
     THEN cycles' = None /\ arm7' = "taking"
     ELSE UNCHANGED <<cycles, arm7>>
  /\ UNCHANGED <<work, shared, speaker, sgb, fifo, hyperSound, scaling, scaleReady, message, apart, timerOn,
                 arm9, todo, muted, touched, lost>>
Take == /\ arm7 = "taking" /\ arm7' = "idle"
        /\ DoCommand(message)
        /\ UNCHANGED <<work, shared, fifo, hyperSound, scaling, scaleReady, message, cycles, dsCycles, apart,
                       arm9, todo, muted, touched, lost>>

\* VblankHandler; the timer fires often between two of them.
VblankHandler ==
  /\ arm7 = "idle" /\ (timerOn => dsCycles > 0)
  /\ apart' = ~apart /\ dsCycles' = 0
  /\ scaleReady' = (scaleReady /\ ~scaling)
  /\ UNCHANGED <<work, shared, speaker, sgb, fifo, hyperSound, scaling, message, cycles, timerOn, arm7, arm9,
                 todo, muted, touched, lost>>

(* --------------------------------- ARM9 --------------------------------- *)
Idle == arm9 = "run" /\ todo = << >>
UnboundedSend(m) == fifo' = Append(fifo, m) /\ lost' = lost
\* FIFO_SEND
FifoSend(m) == IF Len(fifo) < MaxWaiting THEN fifo' = Append(fifo, m) /\ lost' = lost
               ELSE fifo' = fifo /\ lost' = TRUE

\* refreshSoundVolume leaves a channel alone that cannot be heard.
Refreshed(s, c, v) == IF c \in s.on \cap s.enabled THEN [s EXCEPT !.vol[c] = v] ELSE s

\* handleSoundRegister and updateSound: what they change, and the commands
\* that follow.
Change(op, c, v) ==
  CASE op = "pitch" -> <<[shared EXCEPT !.pitch[c] = v], <<<<"update", {c}>>>>>>
    [] op = "volume" -> <<Refreshed(shared, c, v),
                          IF Refreshed(shared, c, v) = shared THEN << >> ELSE <<<<"volume", {c}>>>>>>
    [] op = "start" -> <<Refreshed([shared EXCEPT !.on = @ \cup {c}], c, v), <<<<"start", {c}>>>>>>
    [] op = "stop" -> <<[shared EXCEPT !.on = @ \ {c}], <<<<"update", {c}>>>>>>
    [] op = "master" -> <<[shared EXCEPT !.mix = v],
                          IF v = shared.mix THEN << >> ELSE <<<<"master">>>>>>
    [] op = "output" -> <<shared, <<<<"update", Channels>>, <<"master">>>>>>
Game ==
  /\ Idle
  /\ \E op \in work \cap {"pitch", "volume", "start", "stop", "master", "output"},
        c \in Channels, v \in Values :
       /\ shared' = Change(op, c, v)[1]
       /\ todo' = Change(op, c, v)[2]
       /\ touched' = IF op = "start" THEN touched \ {c} ELSE touched
  /\ UNCHANGED <<work, speaker, sgb, fifo, hyperSound, scaling, sync, arm9, muted, lost>>

\* doCommand finds the number of a command in bits 20 to 23, and there is a 0
\* when the number was shifted by 28: an update.
Read(shift, number, data) == IF shift = 20 THEN <<number, data>> ELSE <<"update", data>>

\* updateSound when a note ended, an envelope or a sweep took a step: all
\* channels are handed over, or a command is sent at once.
UpdateSound ==
  /\ Idle /\ "time" \in work
  /\ \E c \in shared.on, v \in Values :
       shared' \in {[shared EXCEPT !.on = @ \ {c}], [shared EXCEPT !.pitch[c] = v], Refreshed(shared, c, v)}
  /\ IF hyperSound THEN todo' = <<<<"update", Channels>>>> /\ UNCHANGED <<fifo, lost>>
     ELSE FifoSend(Read(28, "update", Channels)) /\ UNCHANGED todo
  /\ UNCHANGED <<work, speaker, sgb, hyperSound, scaling, sync, arm9, muted, touched>>

\* soundUpdateVBlank fills the other buffer with the samples of a picture.
SgbBuffer ==
  /\ Idle /\ "sgb" \in work
  /\ \/ sgb' = [sgb EXCEPT !.audio = TRUE, !.index = 1 - @]
     \/ sgb.audio /\ sgb' = [sgb EXCEPT !.audio = FALSE]
  /\ FifoSend(Read(28, "buffer", {IF sgb'.audio THEN sgb'.index ELSE 0}))
  /\ UNCHANGED <<work, shared, speaker, hyperSound, scaling, sync, arm9, todo, muted, touched>>

\* synchronizeSound: leave the command for the timer, or send it.
Synchronize ==
  /\ arm9 = "run" /\ todo # << >>
  /\ message' = Head(todo)
  /\ lost' = (lost \/ (arm7 = "taking" /\ message' # message))
  /\ arm9' = "sync"
  /\ UNCHANGED <<work, shared, speaker, sgb, fifo, hyperSound, scaling, cycles, dsCycles, apart, timerOn, arm7,
                 scaleReady, todo, muted, touched>>
Decide ==
  /\ arm9 = "sync"
  /\ \E now \in 1..Ticks :
       IF hyperSound /\ ~scaleReady /\ ~apart /\ dsCycles < now
       THEN cycles' = now /\ arm9' = "wait" /\ UNCHANGED <<fifo, lost, todo>>
       ELSE FifoSend(message) /\ todo' = Tail(todo) /\ arm9' = "run" /\ UNCHANGED cycles
  /\ UNCHANGED <<work, shared, speaker, sgb, hyperSound, scaling, message, dsCycles, apart, timerOn, arm7,
                 scaleReady, muted, touched>>
\* The wait ends when the command was taken, or gives up for the scaled
\* picture; then the command is sent, taken or not.
WaitEnds == /\ arm9 = "wait" /\ (cycles = None \/ scaleReady)
            /\ cycles' = None /\ arm9' = "run" /\ todo' = Tail(todo)
            /\ UNCHANGED <<work, shared, speaker, sgb, hyperSound, scaling, message, dsCycles, apart, timerOn,
                           arm7, scaleReady, muted, touched>>
WaitForTimer == WaitEnds /\ UNCHANGED <<fifo, lost>>
Wait == WaitEnds /\ IF cycles # None THEN FifoSend(message) ELSE UNCHANGED <<fifo, lost>>

\* The ARM9's vblankHandler, also while it waits.
HostVblank == /\ scaling /\ ~scaleReady /\ scaleReady' = TRUE
              /\ UNCHANGED <<work, shared, speaker, sgb, fifo, hyperSound, scaling, message, cycles, dsCycles,
                             apart, timerOn, arm7, arm9, todo, muted, touched, lost>>
\* drawScreen, at the host's line 192 or not.
DrawScreen == /\ Idle /\ apart' \in {FALSE, ~apart}
              /\ UNCHANGED <<work, shared, speaker, sgb, fifo, hyperSound, scaling, message, cycles, dsCycles,
                             timerOn, arm7, scaleReady, arm9, todo, muted, touched, lost>>

\* The menu does not ask whether the FIFO has room.
Menu ==
  /\ Idle /\ Len(fifo) < MaxMenu
  /\ \/ \E m \in work \cap {"mute", "unmute"} :
          UnboundedSend(<<m>>) /\ muted' = (m = "mute") /\ UNCHANGED <<hyperSound, shared, touched>>
     \/ /\ "hyper" \in work
        /\ hyperSound' = ~hyperSound /\ UnboundedSend(<<"hyper", hyperSound'>>)
        /\ UNCHANGED <<muted, shared, touched>>
     \/ /\ "channel" \in work
        /\ \E c \in Channels :
             /\ shared' = [shared EXCEPT !.enabled = IF c \in @ THEN @ \ {c} ELSE @ \cup {c}]
             /\ touched' = touched \cup {c}
        /\ UNCHANGED <<fifo, lost, muted, hyperSound>>
  /\ UNCHANGED <<work, speaker, sgb, scaling, sync, arm9, todo>>

Arm7 == Receive \/ TimerCallback \/ Take
Next == Arm7 \/ VblankHandler \/ Game \/ UpdateSound \/ SgbBuffer \/ Synchronize \/ Decide \/ Wait
        \/ HostVblank \/ DrawScreen \/ Menu
\* The ARM7 takes its interrupts, and the ARM9's loop runs.
Fairness == WF_vars(Arm7) /\ WF_vars(Wait)
Spec == Init /\ [][Next]_vars /\ Fairness

TypeOK == /\ shared.on \subseteq Channels /\ arm9 \in {"run", "sync", "wait"}
          /\ cycles \in {None} \cup 1..Ticks /\ dsCycles \in 0..Ticks
          /\ arm9 # "wait" => cycles = None

\* Once every command has been taken the speaker plays what the game asked
\* for, unless a command was refused or replaced, the sound was muted, or
\* the channel switched in the menu and not started since.
Follows(c) == IF Audible(c) THEN /\ speaker[c].runs /\ speaker[c].pitch = shared.pitch[c]
                                 /\ speaker[c].vol \in {Mixed(c)} \cup (IF muted THEN {Silent} ELSE {})
              ELSE speaker[c].vol = Silent
SpeakersFollow ==
  /\ TypeOK
  /\ Idle /\ fifo = << >> /\ arm7 = "idle" /\ ~lost => \A c \in Channels \ touched : Follows(c)

\* What the host of the Super Game Boy plays is mixed beside the four
\* channels: with every command taken, speaker 15 plays its newest buffer.
SgbSourceMixed == Idle /\ fifo = << >> /\ arm7 = "idle" /\ ~lost /\ sgb.audio => sgb.plays = {sgb.index}

\* The ARM9 never waits for ever for the ARM7.
HandoverEnds == arm9 = "wait" ~> arm9 = "run"
==============================================================================
