---------------------------- MODULE SoundChannels ----------------------------
(***************************************************************************)
(* The four sound channels of the Game Boy, as each front end's engine     *)
(* keeps them: dssoundengine.cpp of the DS, soundengine.cpp of the 3DS and *)
(* sdlsoundengine.cpp.  The memory map (mmu.cpp) guards the registers and  *)
(* keeps the status bits of NR52, the engine keeps what sounds; runEmul    *)
(* (gameboy.cpp) lets time reach the engine in batches, no later than the  *)
(* event the engine asked for.  Waveforms, duty and panning are left out.  *)
(***************************************************************************)
EXTENDS Integers, SequencesExt

CONSTANTS Engines,      \* front ends: "ds", "3ds", "sdl"
          ClockSpeed,   \* cycles in a second (clockSpeed)
          IdleEvent,    \* cycles between updates nobody asked for (10000)
          LongOp,       \* cycles of the longest opcode
          LengthTop,    \* steps of a length counter (64; 256 for the wave)
          VolumeTop,    \* the loudest volume (15)
          FirstSweep,   \* the envelope of channel 1 after initSND (3)
          PitchTop,     \* the highest frequency register (0x7FF)
          Programs,     \* what the games write: sets of register writes
          MaxWrites     \* bound: writes between two idle updates

Wave == 3
FourChannels == 1..4
Enveloped == FourChannels \ {Wave}
Never == -1000
Drift == -1             \* bound: how far an idle counter of the 3DS is followed

VARIABLES engine, program, writes,
          saved,        \* ioRam of the state on the card
          io,           \* ioRam: what a later write or a state reads back
          apu,          \* the engine's fields; event is cyclesToSoundEvent
          elapsed,      \* cycles of this batch
          quota,        \* what the batch may take (cyclesToEvent)
          soundCycles,  \* cycles of the batches before that have not reached the engine
          due           \* for every note with a length: cycles until it has to end
vars == <<engine, program, writes, saved, io, apu, elapsed, quota, soundCycles, due>>

Least(x, y) == IF x < y THEN x ELSE y
Most(x, y) == IF x < y THEN y ELSE x

(* ------------------------------- registers ------------------------------ *)
SweepPeriod(time) == ClockSpeed \div (128 \div time)
LengthPeriod(steps) == (steps * ClockSpeed) \div 256
EnvelopePeriod(steps) == (steps * ClockSpeed) \div 64

\* setSoundEventCycles
Asks(a, cycles) == [a EXCEPT !.event = Least(@, cycles)]
AsksForLength(a, c) == IF c \in a.useLen THEN Asks(a, a.lenCounter[c]) ELSE a

Reloaded(a, c) == [a EXCEPT !.lenCounter[c] = LengthPeriod(LengthTop - a.len[c])]
Rewound(a) == IF a.sweep.time = 0 THEN a ELSE [a EXCEPT !.sweep.counter = SweepPeriod(a.sweep.time)]
Swept(a, w) == Rewound([a EXCEPT !.sweep = [time |-> w.time, dir |-> w.dir, amount |-> w.amount,
                                            counter |-> @.counter]])
Enveloping(a, w) == [a EXCEPT !.vol[w.c] = w.vol, !.env[w.c] = [dir |-> w.dir, sweep |-> w.sweep]]
\* NRx4 without its start bit, and what the bit adds.
Controlled(a, w) == [a EXCEPT !.useLen = IF w.length THEN @ \cup {w.c} ELSE @ \ {w.c},
                              !.pitch = IF w.c = 1 THEN w.pitch ELSE @]
Starts(i, w) == w.start /\ (w.c = Wave => i.dac)
Started(a, i, w) ==
  LET b == [Reloaded(a, w.c) EXCEPT !.on = @ \cup {w.c},
                                    !.vol[w.c] = IF w.c = Wave THEN @ ELSE i.env[w.c].vol]
  IN IF w.c = 1 THEN Rewound(b) ELSE b
Silenced(a, cs) == [a EXCEPT !.on = @ \ cs]

\* handleSoundRegister of the DS for channels 1 and 2, and for the others.
DsTone(a, i, w) ==
  CASE w.reg = "sweep" -> IF w.time = 0 THEN Swept(a, w) ELSE Asks(Swept(a, w), SweepPeriod(w.time))
    [] w.reg = "length" -> AsksForLength(Reloaded([a EXCEPT !.len[w.c] = w.len], w.c), w.c)
    [] w.reg = "envelope" -> Enveloping(a, w)
    [] w.reg = "control" ->
         LET b == Started(Controlled(a, w), i, w)
             d == AsksForLength(b, w.c)
         IN IF ~Starts(i, w) THEN Controlled(a, w)
            ELSE IF w.c = 1 /\ d.sweep.time # 0 THEN Asks(d, d.sweep.counter) ELSE d
DsOther(a, i, w) ==
  CASE w.reg = "dac" -> IF w.on THEN a ELSE Silenced(a, {Wave})
    [] w.reg = "power" -> IF w.on THEN a ELSE Silenced(a, FourChannels)
    [] w.reg \in {"length", "envelope", "control"} -> DsTone(a, i, w)

\* The same of the 3DS: no event is asked for, and a length of the wave or of
\* the noise waits for the next start.  NR32 is compared with one less than
\* it was last time.
Tone3ds(a, i, w) ==
  CASE w.reg = "sweep" -> Swept(a, w)
    [] w.reg = "length" -> Reloaded([a EXCEPT !.len[w.c] = w.len], w.c)
    [] w.reg = "envelope" -> Enveloping(a, w)
    [] w.reg = "control" -> IF Starts(i, w) THEN Started(Controlled(a, w), i, w) ELSE Controlled(a, w)
Other3ds(a, i, w) ==
  CASE w.reg = "dac" -> IF w.on THEN a ELSE Silenced(a, {Wave})
    [] w.reg = "power" -> IF w.on THEN a ELSE Silenced(a, FourChannels)
    [] w.reg = "length" -> [a EXCEPT !.len[w.c] = IF w.c = Wave THEN w.len ELSE w.len % (LengthTop \div 2)]
    [] w.reg = "envelope" /\ w.c = Wave -> IF a.vol[Wave] = w.vol THEN a
                                           ELSE [a EXCEPT !.vol[Wave] = w.vol - 1]
    [] OTHER -> Tone3ds(a, i, w)
ToneSdl(a, i, w) == Tone3ds(a, i, w)
OtherSdl(a, i, w) ==
  IF w.reg = "envelope" /\ w.c = Wave THEN [a EXCEPT !.vol[Wave] = w.vol - 1]
  ELSE Other3ds(a, i, w)

IsTone(w) == w.reg = "sweep" \/ (w.reg \in {"length", "envelope", "control"} /\ w.c \in 1..2)
\* handleSoundRegister
Handled(a, i, w) ==
  CASE engine = "ds" -> IF IsTone(w) THEN DsTone(a, i, w) ELSE DsOther(a, i, w)
    [] engine = "3ds" -> IF IsTone(w) THEN Tone3ds(a, i, w) ELSE Other3ds(a, i, w)
    [] engine = "sdl" -> IF IsTone(w) THEN ToneSdl(a, i, w) ELSE OtherSdl(a, i, w)
\* The status bits the engine itself sets and clears.  The 3DS clears the bit
\* of the noise when the wave is turned off.
Marks(i, w) ==
  IF engine = "ds" THEN i.status
  ELSE CASE w.reg = "power" /\ ~w.on -> {}
         [] w.reg = "dac" /\ ~w.on -> i.status \ {IF engine = "3ds" THEN 4 ELSE Wave}
         [] w.reg = "control" /\ Starts(i, w) /\ w.c # 4 -> i.status \cup {w.c}
         [] OTHER -> i.status

SilentIo == [power |-> FALSE, status |-> {}, dac |-> FALSE, useLen |-> {},
             sweep |-> [time |-> 0, dir |-> 1, amount |-> 0],
             env |-> [c \in FourChannels |-> [vol |-> 0, dir |-> -1, sweep |-> 0]]]
\* After initSND: the envelope of channel 1 is set, the wave is off.
FirstIo == [SilentIo EXCEPT !.power = TRUE, !.env[1] = [vol |-> VolumeTop, dir |-> -1, sweep |-> FirstSweep]]
\* writeIO of the sound registers: ignored while NR52 is off, except NR52.
WrittenIo(i, w) ==
  CASE w.reg = "power" -> IF w.on THEN [i EXCEPT !.power = TRUE] ELSE SilentIo
    [] ~i.power -> i
    [] w.reg = "sweep" -> [i EXCEPT !.sweep = [time |-> w.time, dir |-> w.dir, amount |-> w.amount]]
    [] w.reg = "envelope" -> [i EXCEPT !.env[w.c] = [vol |-> w.vol, dir |-> w.dir, sweep |-> w.sweep]]
    [] w.reg = "dac" -> [i EXCEPT !.dac = w.on, !.status = IF w.on THEN @ ELSE @ \ {Wave}]
    [] w.reg = "control" -> [i EXCEPT !.status = IF w.start THEN @ \cup {w.c} ELSE @,
                                      !.useLen = IF w.length THEN @ \cup {w.c} ELSE @ \ {w.c}]
    [] OTHER -> i

Counting(a) == a.on \cap a.useLen
\* The notes that are to end: those of the SDL never do.
Timed(a) == IF engine = "sdl" THEN {} ELSE Counting(a)
Reloads(i, w, c) == /\ w.reg \in {"length", "control"} /\ w.c = c
                    /\ IF w.reg = "control" THEN Starts(i, w) ELSE engine = "ds" \/ c \in 1..2
Write ==
  /\ writes < MaxWrites
  /\ \E w \in program :
       LET i == WrittenIo(io, w)
       IN /\ w.reg = "power" \/ io.power
          /\ io' = [i EXCEPT !.status = Marks(i, w)]
          /\ apu' = Handled(apu, i, w)
          /\ due' = [c \in FourChannels |-> IF c \notin Timed(apu') THEN Never
                                        ELSE IF c \in Counting(apu) /\ ~Reloads(i, w, c) THEN due[c]
                                        ELSE apu'.lenCounter[c]]
  /\ writes' = writes + 1
  /\ UNCHANGED <<engine, program, saved, elapsed, quota, soundCycles>>

\* What readIO gives refresh back: all bits that cannot be read are set.
Control(c, i, start) == [reg |-> "control", c |-> c, start |-> start, length |-> c \in i.useLen,
                         pitch |-> PitchTop]
ReadBack(i) ==
  <<[reg |-> "power", on |-> i.power], [reg |-> "sweep"] @@ i.sweep>>
  \o FlattenSeq([c \in FourChannels |->
       (IF c = Wave THEN <<[reg |-> "dac", on |-> i.dac]>> ELSE << >>)
       \o <<[reg |-> "length", c |-> c, len |-> LengthTop - 1],
            [reg |-> "envelope", c |-> c] @@ i.env[c], Control(c, i, FALSE)>>])
  \o FlattenSeq([c \in FourChannels |-> IF c \in i.status THEN <<Control(c, i, TRUE)>> ELSE << >>])
\* refresh; the DS forgets what sounded before
Refreshed(a, i) == FoldLeft(LAMBDA b, w : Handled(b, i, w),
                            IF engine = "ds" THEN Silenced(a, FourChannels) ELSE a, ReadBack(i))
RefreshedStatus(i) ==
  FoldLeft(LAMBDA b, w : [b EXCEPT !.status = Marks(b, w)], i, ReadBack(i)).status

SaveState == elapsed = 0 /\ saved = FirstIo /\ saved' = io      \* bound: one save
             /\ UNCHANGED <<engine, program, writes, io, apu, elapsed, quota, soundCycles, due>>
LoadState ==
  /\ elapsed = 0
  /\ io' = [saved EXCEPT !.status = RefreshedStatus(saved)]
  /\ apu' = Refreshed(apu, saved)
  /\ due' = [c \in FourChannels |-> IF c \in Timed(apu') THEN apu'.lenCounter[c] ELSE Never]
  /\ quota' = 1
  /\ UNCHANGED <<engine, program, writes, saved, elapsed, soundCycles>>

Blank == [on |-> {}, event |-> 0, pitch |-> 0, useLen |-> {},
          sweep |-> [time |-> 0, dir |-> 1, amount |-> 0, counter |-> 0],
          len |-> [c \in FourChannels |-> 0], lenCounter |-> [c \in FourChannels |-> 0],
          vol |-> [c \in FourChannels |-> 0], envCounter |-> [c \in FourChannels |-> 0],
          env |-> [c \in FourChannels |-> [dir |-> -1, sweep |-> 0]]]
Init ==
  /\ engine \in Engines /\ program \in Programs /\ writes = 0
  /\ io = FirstIo /\ saved = FirstIo
  /\ apu = Refreshed(Blank, FirstIo)
  /\ elapsed = 0 /\ quota = 1 /\ soundCycles = 0
  /\ due = [c \in FourChannels |-> Never]

(* --------------------------------- time --------------------------------- *)
\* One period of the sweep; above the top the channel stops.
SweepOnce(a) ==
  LET p == a.pitch + ((a.pitch \div 2 ^ a.sweep.amount) * a.sweep.dir)
      b == [a EXCEPT !.pitch = Least(p, PitchTop + 1),
                     !.sweep.counter = IF engine = "ds" THEN SweepPeriod(a.sweep.time) + (2 * @)
                                       ELSE SweepPeriod(a.sweep.time) + @]
  IN IF p > PitchTop THEN Silenced(b, {1}) ELSE b
SweepLoop(a) == LET once == SweepOnce(a) IN IF once.sweep.counter <= 0 THEN SweepOnce(once) ELSE once
SweepFor(a, n) ==
  LET b == [a EXCEPT !.sweep.counter = @ - n]
      d == IF b.sweep.counter <= 0 THEN SweepLoop(b) ELSE b
  IN IF a.sweep.time = 0 \/ (engine = "ds" /\ 1 \notin a.on) THEN a
     ELSE IF 1 \in d.on THEN Asks(d, d.sweep.counter) ELSE d

Louder(a, c, times) == Least(VolumeTop, Most(0, a.vol[c] + (a.env[c].dir * times)))
\* The DS plays every period of the envelope that has passed.
EnvelopeOnce(a, c, n) ==
  LET x == a.envCounter[c] - n
      b == [a EXCEPT !.envCounter[c] = IF x > 0 THEN x ELSE EnvelopePeriod(a.env[c].sweep),
                     !.vol[c] = IF x > 0 THEN @ ELSE Louder(a, c, 1)]
  IN IF c \notin a.on \/ a.env[c].sweep = 0 THEN a ELSE Asks(b, b.envCounter[c])
Envelope(a, c, n) ==
  LET x == a.envCounter[c] - n
      times == IF x > 0 THEN 0 ELSE ((-x) \div EnvelopePeriod(a.env[c].sweep)) + 1
      b == [a EXCEPT !.envCounter[c] = x + (times * EnvelopePeriod(a.env[c].sweep)),
                     !.vol[c] = Louder(a, c, times)]
  IN IF c \notin a.on \/ a.env[c].sweep = 0 THEN a
     ELSE IF b.vol[c] \in {0, VolumeTop} THEN b ELSE Asks(b, b.envCounter[c])
\* The 3DS plays one period and starts the next one from now; its noise counts
\* on while it has no envelope.
Envelope3ds(a, c, n) ==
  LET x == Most(Drift, a.envCounter[c] - n)
      b == IF x > 0 THEN [a EXCEPT !.envCounter[c] = x]
           ELSE [a EXCEPT !.envCounter[c] = EnvelopePeriod(a.env[c].sweep), !.vol[c] = Louder(a, c, 1)]
  IN IF c \notin a.on THEN a
     ELSE IF a.env[c].sweep # 0 THEN Asks(b, b.envCounter[c])
     ELSE IF c = 4 THEN [a EXCEPT !.envCounter[c] = x] ELSE a
LengthUnasked(a, c, n) ==
  IF c \notin Counting(a) THEN a
  ELSE IF a.lenCounter[c] <= n THEN Silenced(a, {c}) ELSE [a EXCEPT !.lenCounter[c] = @ - n]
LengthOf(a, c, n) ==
  LET b == [a EXCEPT !.lenCounter[c] = @ - n]
  IN IF c \notin Counting(a) THEN a
     ELSE IF b.lenCounter[c] <= 0 THEN Silenced(b, {c}) ELSE Asks(b, b.lenCounter[c])

\* updateSound
DsUpdated(a, n) ==
  FoldLeft(LAMBDA b, c : LengthOf(b, c, n),
           FoldLeft(LAMBDA b, c : Envelope(b, c, n), SweepFor(a, n), <<1, 2, 4>>), <<1, 2, 3, 4>>)
Updated3ds(a, n) ==
  FoldLeft(LAMBDA b, c : LengthOf(IF c = Wave THEN b ELSE Envelope3ds(b, c, n), c, n),
           SweepFor(a, n), <<1, 2, 3, 4>>)
UpdatedSdl(a, n) == a
Updated(a, n) == CASE engine = "ds" -> DsUpdated(a, n)
                   [] engine = "3ds" -> Updated3ds(a, n)
                   [] engine = "sdl" -> UpdatedSdl(a, n)

\* An opcode passes; runEmul goes on until the batch is used up.
Pass ==
  /\ elapsed < quota - 1 + LongOp
  /\ elapsed' = elapsed + 1
  /\ due' = [c \in FourChannels |-> IF c \in Timed(apu) THEN due[c] - 1 ELSE Never]
  /\ UNCHANGED <<engine, program, writes, saved, io, apu, quota, soundCycles>>

EndBatch ==
  /\ elapsed > 0 /\ elapsed' = 0
  /\ IF soundCycles + elapsed < apu.event
     THEN soundCycles' = soundCycles + elapsed /\ UNCHANGED <<io, apu, writes, due>>
     ELSE /\ apu' = Updated([apu EXCEPT !.event = IdleEvent], soundCycles + elapsed)
          /\ io' = [io EXCEPT !.status = @ \ (apu.on \ apu'.on)]
          /\ soundCycles' = 0 /\ writes' = 0
          /\ due' = [c \in FourChannels |-> IF c \in Timed(apu') THEN due[c] ELSE Never]
  /\ quota' = apu'.event
  /\ UNCHANGED <<engine, program, saved>>

Next == Write \/ SaveState \/ LoadState \/ Pass \/ EndBatch
Spec == Init /\ [][Next]_vars

TypeOK ==
  /\ apu.on \subseteq FourChannels /\ apu.useLen \subseteq FourChannels /\ io.status \subseteq FourChannels
  /\ apu.pitch \in 0..(PitchTop + 1) /\ \A c \in FourChannels : apu.vol[c] \in -1..VolumeTop
  /\ apu.event \in 0..IdleEvent /\ elapsed < IdleEvent + LongOp /\ soundCycles < IdleEvent

\* NR52 says which channels sound, but for a wave that was started while it
\* was turned off (mmu.cpp:480).
StatusTracks == /\ io.status \ apu.on \subseteq {Wave}
                /\ engine = "ds" => apu.on \subseteq io.status

\* What the DS plays does not depend on how often updateSound is called, as
\* long as no sweep is on.
CaughtUp ==
  \A n, m \in 1..IdleEvent :
    LET once == DsUpdated(apu, n + m)
        twice == DsUpdated(DsUpdated(apu, n), m)
    IN engine = "ds" /\ apu.sweep.time = 0 =>
         /\ once.on = twice.on
         /\ \A c \in once.on : /\ once.vol[c] = twice.vol[c]
                               /\ once.envCounter[c] = twice.envCounter[c]
                               /\ once.lenCounter[c] = twice.lenCounter[c]
ChannelsAgree == TypeOK /\ StatusTracks /\ CaughtUp

\* A note with a length ends when its length is over: not before by more than
\* the cycles the engine had not been told of when it was written, and not
\* after by more than the update that ends it had to wait.
Pending == (IdleEvent - 1) + (IdleEvent - 1 + LongOp)
Latency == (IdleEvent - 1) + (LongOp - 1)
EndsOnTime ==
  \A c \in Timed(apu) :
    /\ due[c] >= -Latency
    /\ c \notin apu'.on /\ elapsed' < elapsed /\ (c = 1 => apu'.pitch <= PitchTop) => due[c] <= Pending
NotesEndOnTime == [][EndsOnTime]_vars
==============================================================================
