------------------------------ MODULE SgbHostApu ------------------------------
(***************************************************************************)
(* The sound side of the Super Game Boy's host (SgbHostApu in              *)
(* sgb_host.cpp): the program that SOU_TRN transfers, the subset of the    *)
(* SPC700 that runs it, the registers of the DSP, and voices that decode   *)
(* BRR samples.  NVoices stands for the eight voices; memory is sparse,    *)
(* what apu.ram does not hold is 0.                                        *)
(***************************************************************************)
EXTENDS Integers, Sequences, FiniteSetsExt, TLC

CONSTANTS NVoices,
          Programs,     \* what SOU_TRN may transfer: sequences of [dest, bytes]
          Commands,     \* what SOUND may put in the ports
          Sources,      \* the samples of those programs: [start, blocks, loops]
          MaxTransfers, \* programs transferred in a behaviour
          MaxOutputs    \* samples rendered in a behaviour

VARIABLES apu,      \* ram, dsp, dspAddress, ports and the SPC700's registers
          voices,   \* one record per voice
          played,   \* samples decoded per voice since its key on
          fed,      \* pitch fed to each voice since its key on
          transfers,
          outputs
vars == <<apu, voices, played, fed, transfers, outputs>>

Voice == 0..(NVoices - 1)
ByteOf(f, a) == IF a \in DOMAIN f THEN f[a] ELSE 0
Ram(s, a) == ByteOf(s.ram, a % 65536)
Dsp(s, r) == ByteOf(s.dsp, r)
Silent == [phase |-> 0, brrAddress |-> 0, nibble |-> 0, previous1 |-> 0, previous2 |-> 0,
           sample |-> 0, active |-> FALSE]

Reset == [ram |-> << >>, dsp |-> << >>, dspAddress |-> 0, ports |-> <<0, 0, 0, 0>>,
          a |-> 0, x |-> 0, y |-> 0, sp |-> 255, pc |-> 0, n |-> FALSE, z |-> FALSE,
          stopped |-> TRUE, faulted |-> FALSE]
Init == /\ apu = Reset
        /\ voices = [v \in Voice |-> Silent]
        /\ played = [v \in Voice |-> 0] /\ fed = [v \in Voice |-> 0]
        /\ transfers = 0 /\ outputs = 0

-----------------------------------------------------------------------------
(* Memory and DSP registers.                                                 *)

ReadApu(s, a) == IF a \in \hF4..\hF7 THEN s.ports[a - \hF3] ELSE Ram(s, a)
KeysOn(s, a, v) == IF a = \hF3 /\ s.dspAddress = \h4C
                   THEN {i \in Voice : (v \div 2^i) % 2 = 1} ELSE {}
WriteApu(s, a, v) ==
  CASE a = \hF2 -> [s EXCEPT !.dspAddress = v % 128]
    [] a = \hF3 -> [s EXCEPT !.dsp = (s.dspAddress :> v) @@ @]
    [] OTHER -> [s EXCEPT !.ram = (a % 65536 :> v) @@ @]

\* The directory holds a start and a loop address for each source.
Entry(s, i, offset) ==
  LET at == 256 * Dsp(s, \h5D) + 4 * Dsp(s, 16 * i + 4) + offset
  IN Ram(s, at) + 256 * Ram(s, at + 1)
KeyOn(s, i) == [Silent EXCEPT !.brrAddress = Entry(s, i, 0), !.active = TRUE]

-----------------------------------------------------------------------------
(* The SPC700 subset: one instruction.                                       *)

Op8(s) == ReadApu(s, s.pc)
Op16(s) == Op8(s) + 256 * ReadApu(s, (s.pc + 1) % 65536)
Skip(s, n) == [s EXCEPT !.pc = (@ + n) % 65536]
Nz(s, v) == [s EXCEPT !.n = v > 127, !.z = v = 0]
SetA(s, v) == Nz([s EXCEPT !.a = v], v)
SetX(s, v) == Nz([s EXCEPT !.x = v], v)
SetY(s, v) == Nz([s EXCEPT !.y = v], v)
Rel(v) == IF v > 127 THEN v - 256 ELSE v
Branch(s, taken) == Skip(s, 1 + (IF taken THEN Rel(Op8(s)) ELSE 0))

Stores == {\hC4, \hC5}
Target(s, op) == IF op = \hC4 THEN Op8(s) ELSE Op16(s)
Execute(s, op) ==
  CASE op = \h00 -> s
    [] op = \hE8 -> SetA(Skip(s, 1), Op8(s))
    [] op = \hCD -> SetX(Skip(s, 1), Op8(s))
    [] op = \h8D -> SetY(Skip(s, 1), Op8(s))
    [] op = \hC4 -> WriteApu(Skip(s, 1), Op8(s), s.a)
    [] op = \hC5 -> WriteApu(Skip(s, 2), Op16(s), s.a)
    [] op = \hE4 -> SetA(Skip(s, 1), ReadApu(s, Op8(s)))
    [] op = \hE5 -> SetA(Skip(s, 2), ReadApu(s, Op16(s)))
    [] op = \hBC -> SetA(s, (s.a + 1) % 256)
    [] op = \h9C -> SetA(s, (s.a - 1) % 256)
    [] op = \h2F -> Branch(s, TRUE)
    [] op = \hD0 -> Branch(s, ~s.z)
    [] op = \hF0 -> Branch(s, s.z)
    [] op = \h5F -> [s EXCEPT !.pc = Op16(s)]
    [] op \in {\hFF, \hEF} -> [s EXCEPT !.stopped = TRUE]
    [] op = \h5D -> SetX(s, s.a)
    [] op = \h7D -> SetA(s, s.x)
    [] op = \hFD -> SetY(s, s.a)
    [] op = \hDD -> SetA(s, s.y)
    [] op = \hBD -> [s EXCEPT !.sp = s.x]
    [] OTHER -> [s EXCEPT !.faulted = TRUE]

Started(s, op) == IF op \in Stores THEN KeysOn(s, Target(s, op), s.a) ELSE {}

Run == /\ ~apu.stopped /\ ~apu.faulted
       /\ LET op == Op8(apu)
              s == Skip(apu, 1)
              on == Started(s, op)
          IN /\ apu' = Execute(s, op)
             /\ voices' = [i \in Voice |-> IF i \in on THEN KeyOn(apu', i) ELSE voices[i]]
             /\ played' = [i \in Voice |-> IF i \in on THEN 0 ELSE played[i]]
             /\ fed' = [i \in Voice |-> IF i \in on THEN 0 ELSE fed[i]]
       /\ UNCHANGED <<transfers, outputs>>

\* transferProgram: blocks up to the one without bytes, whose address starts
\* the program; what lies past the end of memory is cut off.
Loaded(ram, block) == [a \in {x \in block.dest..(block.dest + Len(block.bytes) - 1) : x < 65536} |->
                         block.bytes[a - block.dest + 1]] @@ ram
TransferProgram(p) ==
  /\ transfers < MaxTransfers
  /\ transfers' = transfers + 1
  /\ LET load[k \in 0..Len(p)] == IF k = 0 THEN apu.ram ELSE Loaded(load[k - 1], p[k])
         start == p[Len(p)]
     IN apu' = IF start.bytes = << >>
               THEN [apu EXCEPT !.ram = load[Len(p)], !.pc = start.dest,
                                !.stopped = FALSE, !.faulted = FALSE]
               ELSE [apu EXCEPT !.ram = load[Len(p)]]
  /\ UNCHANGED <<voices, played, fed, outputs>>

ApplySoundCommand(c) ==
  /\ apu' = [apu EXCEPT !.ports = [i \in 1..4 |-> IF i <= Len(c) THEN c[i] ELSE @[i]]]
  /\ UNCHANGED <<voices, played, fed, transfers, outputs>>

-----------------------------------------------------------------------------
(* Voices.                                                                   *)

Trunc(a, b) == IF a < 0 THEN -((-a) \div b) ELSE a \div b     \* C's division
Clamp16(v) == IF v < -32768 THEN -32768 ELSE IF v > 32767 THEN 32767 ELSE v

Scaled(header, nibble) ==
  LET v == IF nibble > 7 THEN nibble - 16 ELSE nibble
      shift == header \div 16
  IN IF shift <= 12 THEN (v * 2^shift) \div 2 ELSE IF v < 0 THEN -2048 ELSE 0
Filtered(header, v, p1, p2) ==
  CASE (header \div 4) % 4 = 0 -> v
    [] (header \div 4) % 4 = 1 -> v + Trunc(p1 * 15, 16)
    [] (header \div 4) % 4 = 2 -> v + Trunc(p1 * 61, 32) - Trunc(p2 * 15, 16)
    [] (header \div 4) % 4 = 3 -> v + Trunc(p1 * 115, 64) - Trunc(p2 * 13, 16)

LoopsToStart(s, i, voice, header) ==     \* a mutant
  IF header % 4 = 3 THEN [voice EXCEPT !.brrAddress = Entry(s, i, 0)]
  ELSE [voice EXCEPT !.brrAddress = (@ + 9) % 65536, !.active = header % 2 = 0]
\* Behind a block: the next one, the loop address, or silence.
NextBlock(s, i, voice, header) ==
  CASE header % 2 = 0 -> [voice EXCEPT !.brrAddress = (@ + 9) % 65536]
    [] header % 4 = 3 -> [voice EXCEPT !.brrAddress = Entry(s, i, 2)]
    [] header % 4 = 1 -> [voice EXCEPT !.active = FALSE]

DecodeBrrSample(s, i, voice) ==
  LET header == Ram(s, voice.brrAddress)
      packed == Ram(s, voice.brrAddress + 1 + (voice.nibble \div 2))
      nibble == IF voice.nibble % 2 = 1 THEN packed % 16 ELSE packed \div 16
      sample == Clamp16(Filtered(header, Scaled(header, nibble), voice.previous1, voice.previous2))
      next == [voice EXCEPT !.previous2 = voice.previous1, !.previous1 = sample, !.sample = sample,
                            !.nibble = (@ + 1) % 16]
  IN CASE ~voice.active -> [voice EXCEPT !.sample = 0]
       [] voice.active /\ next.nibble # 0 -> next
       [] voice.active /\ next.nibble = 0 -> NextBlock(s, i, next, header)

Pitch(s, i) == Dsp(s, 16 * i + 2) + 256 * (Dsp(s, 16 * i + 3) % 64)
Decodes(s, i, voice) == (voice.phase + Pitch(s, i)) \div 4096
\* One output sample of one voice: as many decodes as whole steps have passed.
Advanced(s, i, voice) ==
  LET after[k \in 0..Decodes(s, i, voice)] ==
        IF k = 0 THEN [voice EXCEPT !.phase = (@ + Pitch(s, i)) % 4096]
        ELSE DecodeBrrSample(s, i, after[k - 1])
  IN after[Decodes(s, i, voice)]

Volume(s, i) == Trunc(Rel(Dsp(s, 16 * i)) + Rel(Dsp(s, 16 * i + 1)), 2)
Mix(s, vs) == Clamp16(MapThenSumSet(LAMBDA i : Trunc(vs[i].sample * Volume(s, i), 128), Voice))

Render == /\ outputs < MaxOutputs
          /\ voices' = [i \in Voice |-> Advanced(apu, i, voices[i])]
          /\ played' = [i \in Voice |-> played[i] + Decodes(apu, i, voices[i])]
          /\ fed' = [i \in Voice |-> fed[i] + Pitch(apu, i)]
          /\ outputs' = outputs + 1
          /\ UNCHANGED <<apu, transfers>>

Next == \/ \E p \in Programs : TransferProgram(p)
        \/ \E c \in Commands : ApplySoundCommand(c)
        \/ Run \/ Render
-----------------------------------------------------------------------------

TypeOK ==
  /\ \A r \in {"a", "x", "y"} : apu[r] \in 0..255
  /\ apu.pc \in 0..65535 /\ apu.dspAddress \in 0..127
  /\ \A i \in Voice : /\ voices[i].phase \in 0..4095 /\ voices[i].nibble \in 0..15
                      /\ voices[i].brrAddress \in 0..65535
                      /\ voices[i].sample \in -32768..32767
  /\ Mix(apu, voices) \in -32768..32767

HasActiveAudio == \E i \in Voice : voices[i].active

(* A voice that was keyed on plays the samples of its source one after      *)
(* another, none skipped and none twice, however its pitch cuts them into    *)
(* outputs, and stops or goes back to the last block behind the block that   *)
(* says so (keyOn, render and the end of decodeBrrSample).                   *)
VoicePlays ==
  \A i \in Voice : voices[i].brrAddress # 0 =>
    LET v == voices[i]
        source == Sources[Dsp(apu, 16 * i + 4) + 1]
        block == played[i] \div 16
        at == IF block < source.blocks THEN block ELSE source.blocks - 1
    IN /\ 4096 * played[i] + v.phase = fed[i]
       /\ v.active <=> (source.loops \/ block < source.blocks)
       /\ v.active => v.nibble = played[i] % 16 /\ v.brrAddress = source.start + 9 * at
=============================================================================
