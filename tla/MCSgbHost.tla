------------------------------ MODULE MCSgbHost ------------------------------
(***************************************************************************)
(* The Super Game Boy's host and the sound, for TLC: the host's processor, *)
(* its sound side and its picture side, the Game Boy's own four channels,  *)
(* and the way of a change of a channel to the DS's speakers.  A behaviour *)
(* exercises one of them; the variables of the others stay 0, and those of *)
(* the hand-over as they are at the start.                                 *)
(***************************************************************************)
EXTENDS SoundHandover, TLC

VARIABLES part, cpu, nmiPending, budget, first, frames, jumps, nmis, saved,
          apu, voices, played, fed, transfers, outputs, ppu, stream,
          engine, program, soundWrites, ioSaved, io, snd, elapsed, soundQuota, soundCycles, soundDue
hostVars == <<cpu, nmiPending, budget, first, frames, jumps, nmis, saved>>
apuVars == <<apu, voices, played, fed, transfers, outputs>>
ppuVars == <<ppu, stream>>
channelVars == <<engine, program, soundWrites, ioSaved, io, snd, elapsed, soundQuota, soundCycles, soundDue>>
machineVars == <<part, hostVars, apuVars, ppuVars, channelVars, vars>>

Entry == \h100
Handler == \h200
Bytes(at, code) == [a \in at..(at + Len(code) - 1) |-> code[a - at + 1]]

\* CLC XCE, REP #$30, MVN of 1 2 3 from $40 to $50 in bank $7E, and their sum
\* with A in 8 bits and X from 2 down, WAI, STP.
Sum == <<\h18, \hFB, \hC2, \h30, \hA9, 2, 0, \hA2, \h40, 0, \hA0, \h50, 0, \h54, \h7E, \h7E,
         \hA9, 0, 0, \hA2, 2, 0, \hCB, \hE2, \h20, \h18, \h75, \h50, \hCA, \h10, \hFB,
         \hC2, \h20, \hDB>>
\* REP #$30, PHA PHX, SEP #$20, LDA $90, INC A, STA $90, REP #$30, PLX PLA, RTI.
Counter == <<\hC2, \h30, \h48, \hDA, \hE2, \h20, \hA5, \h90, \h1A, \h85, \h90, \hC2, \h30,
             \hFA, \h68, \h40>>

Registers == [a |-> 0, x |-> 0, y |-> 0, sp |-> \h1FF, d |-> 0, pc |-> 0, pbr |-> 0, dbr |-> 0,
              p |-> {"I", "M", "X"}, emulation |-> TRUE, waiting |-> FALSE, stopped |-> TRUE,
              faulted |-> FALSE, nmiVector |-> 0, ports |-> <<0, 0, 0, 0>>, mem |-> << >>]
SumStart == [Registers EXCEPT !.mem = Bytes(Entry, Sum) @@ Bytes(Handler, Counter) @@ Bytes(\h40, <<1, 2, 3>>)]

\* ADC and SBC of decimals, with and without carry, in 8 and 16 bits.
DecimalStarts ==
  {[Registers EXCEPT !.emulation = FALSE, !.a = 256 * ah + al, !.p = p \cup {"D"},
                     !.mem = Bytes(Entry, <<op, l, IF "M" \in p THEN \hDB ELSE h, \hDB>>)] :
     ah \in {0, \h99}, al \in {0, 9, \h45, \h99}, op \in {\h69, \hE9}, l \in {1, \h10, \h55, \h99}, h \in {0, \h50},
     p \in SUBSET {"C", "M"}}

\* Every opcode once, on registers and memory with something in them.
Modes == {<<TRUE, {"I", "M", "X"}>>, <<FALSE, {}>>, <<FALSE, {"M", "D", "C"}>>, <<FALSE, {"X", "N", "V"}>>}
OpcodeStarts ==
  {[Registers EXCEPT !.emulation = m[1], !.p = m[2], !.a = \h81FF,
                     !.x = IF "X" \in m[2] THEN \hFE ELSE \hFFFE, !.y = IF "X" \in m[2] THEN 3 ELSE \h103,
                     !.d = \h30, !.dbr = \h7E,
                     !.mem = Bytes(Entry, <<op, \h10, 2, \h7F, \hDB>>) @@ Bytes(\h3E, <<\h80, \h7F, 0, 1>>)] :
     op \in 0..255, m \in Modes}

Starting == {SumStart} \cup DecimalStarts \cup OpcodeStarts
H == INSTANCE SgbHost WITH Starts <- Starting,
       NmiHandler <- Handler, JumpBudgets <- {2, 5, 9}, FrameBudgets <- {3, 11, 50},
       MaxFrames <- LAMBDA s : IF s = SumStart THEN 3 ELSE 0, MaxJumps <- 2

\* The sound program: dir $1000, source, pitch and volume from the ports, key on.
Set(reg, port) == <<\hE8, reg, \hC4, \hF2, \hE4, \hF4 + port, \hC4, \hF3>>
SetTo(reg, v) == <<\hE8, reg, \hC4, \hF2, \hE8, v, \hC4, \hF3>>
Player == SetTo(\h5D, \h10) \o Set(4, 2) \o Set(2, 0) \o Set(3, 1) \o SetTo(0, \h7F)
          \o SetTo(\h4C, 1) \o <<\hEF>>
Block(header) == <<header, \h12, \h34, \h56, \h78, \h9A, \hBC, \hDE, \hF0>>
Player2 == <<[dest |-> \h1000, bytes |-> <<0, \h20, 9, \h20, 0, \h30, 18, \h30>>],
             [dest |-> \h2000, bytes |-> Block(\hB0) \o Block(\hC5)],
             [dest |-> \h3000, bytes |-> Block(\h48) \o Block(\hD8) \o Block(\h2F)],
             [dest |-> \h200, bytes |-> Player]>>
A == INSTANCE SgbHostApu WITH NVoices <- 1,
       Programs <- {Player2, Player2 \o <<[dest |-> \h200, bytes |-> << >>]>>},
       Commands <- {<<255, 63, 1>>, <<0, 24, 0>>, <<1, 8>>},
       Sources <- <<[start |-> \h2000, blocks |-> 2, loops |-> FALSE],
                    [start |-> \h3000, blocks |-> 3, loops |-> TRUE]>>,
       MaxTransfers <- 1, MaxOutputs <- 14

P == INSTANCE SgbHostPpu WITH Starts <- {0, 254, 255} \X {0, 1, 255}, MaxAccesses <- 40

\* Writes of a game to the sound registers, and the sets of them that it makes.
Length(c, l) == [reg |-> "length", c |-> c, len |-> l]
Envelope(c, v, d, n) == [reg |-> "envelope", c |-> c, vol |-> v, dir |-> d, sweep |-> n]
Control(c, st, len) == [reg |-> "control", c |-> c, start |-> st, length |-> len, pitch |-> 2]
Sweep(t, d, a) == [reg |-> "sweep", time |-> t, dir |-> d, amount |-> a]
Dac(on) == [reg |-> "dac", on |-> on]
Power(on) == [reg |-> "power", on |-> on]
C == INSTANCE SoundChannels WITH apu <- snd, writes <- soundWrites, saved <- ioSaved, due <- soundDue, quota <- soundQuota,
       Engines <- {"ds", "3ds", "sdl"}, ClockSpeed <- 768, IdleEvent <- 2, LongOp <- 2,
       LengthTop <- 2, VolumeTop <- 2, FirstSweep <- 1, PitchTop <- 3, MaxWrites <- 1,
       Programs <- {{Length(2, 0), Control(2, TRUE, TRUE), Control(2, FALSE, TRUE)},
                    {Envelope(2, 1, 1, 1), Control(2, TRUE, TRUE)},
                    {Dac(TRUE), Power(FALSE), Power(TRUE), Control(3, TRUE, TRUE)},
                    {Dac(FALSE), Control(4, TRUE, TRUE), Length(4, 1)},
                    {Sweep(1, 1, 1), Control(1, TRUE, FALSE)}}

NoHost ==
  /\ cpu = 0 /\ nmiPending = 0 /\ budget = 0 /\ first = 0 /\ frames = 0 /\ jumps = 0
  /\ nmis = 0 /\ saved = 0
NoApu ==
  /\ apu = 0 /\ voices = 0 /\ played = 0 /\ fed = 0 /\ transfers = 0 /\ outputs = 0
NoPpu ==
  /\ ppu = 0 /\ stream = 0
NoChannels ==
  /\ engine = 0 /\ program = 0 /\ soundWrites = 0 /\ ioSaved = 0 /\ io = 0 /\ snd = 0
  /\ elapsed = 0 /\ soundQuota = 0 /\ soundCycles = 0 /\ soundDue = 0
FirstHandover == work = {"pitch", "start"} /\ ~hyperSound /\ ~scaling

MachineInit == /\ part \in {"cpu", "apu", "ppu", "channels", "handover"}
               /\ IF part = "cpu" THEN H!Init ELSE NoHost
               /\ IF part = "apu" THEN A!Init ELSE NoApu
               /\ IF part = "ppu" THEN P!Init ELSE NoPpu
               /\ IF part = "channels" THEN C!Init ELSE NoChannels
               /\ Init /\ (part # "handover" => FirstHandover)
MachineNext == /\ UNCHANGED part
               /\ \/ part = "cpu" /\ H!Next /\ UNCHANGED <<apuVars, ppuVars, channelVars, vars>>
                  \/ part = "apu" /\ A!Next /\ UNCHANGED <<hostVars, ppuVars, channelVars, vars>>
                  \/ part = "ppu" /\ P!Next /\ UNCHANGED <<hostVars, apuVars, channelVars, vars>>
                  \/ part = "channels" /\ C!Next /\ UNCHANGED <<hostVars, apuVars, ppuVars, vars>>
                  \/ part = "handover" /\ Next /\ UNCHANGED <<hostVars, apuVars, ppuVars, channelVars>>
\* What the two processors of the DS do sooner or later (Fairness of SoundHandover).
Sooner(step) == part = "handover" /\ step /\ UNCHANGED <<part, hostVars, apuVars, ppuVars, channelVars>>
MachineSpec == /\ MachineInit /\ [][MachineNext]_machineVars
               /\ WF_machineVars(Sooner(Arm7)) /\ WF_machineVars(Sooner(Wait))

(* A program computes the same whatever its NMIs fall behind, and its        *)
(* decimal sums are those of decimals (SgbHost).                             *)
ProgramsRight == part = "cpu" => H!TypeOK /\ H!NmiInvisible /\ H!DecimalRight
(* A voice plays each sample of its source once and in order (SgbHostApu).   *)
VoicePlays == part = "apu" => A!TypeOK /\ A!VoicePlays
(* A port reads back what was streamed into it, and a dot is drawn where its *)
(* object and its flips put it (SgbHostPpu).                                 *)
PictureRight == part = "ppu" => P!TypeOK /\ P!ReadsBack /\ P!OneDot
(* The registers and the engine agree on what sounds (SoundChannels).        *)
ChannelsAgree == part = "channels" => C!ChannelsAgree
(* A note with a length ends when its length is over (SoundChannels).        *)
NotesEndOnTime == [][part = "channels" => C!EndsOnTime]_machineVars
=============================================================================
