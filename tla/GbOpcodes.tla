------------------------------- MODULE GbOpcodes -------------------------------
(***************************************************************************)
(* The instruction set of the Game Boy's processor, as                     *)
(* Gameboy::runOpcode (src/platform/common/gbcpu.cpp) executes it.         *)
(*                                                                         *)
(* One operator per family of opcodes takes a processor state s to the     *)
(* state after the opcode.  s holds the registers s.r (a, b, c, d, e, h,   *)
(* l), the set s.f of flags that are up, the locals of runOpcode - s.sp    *)
(* (locSP, an int that is masked only when the batch ends), s.pc (pcAddr   *)
(* as an address), s.t (totalCycles), s.quota (cyclesToExecute), s.bug     *)
(* (haltBugAddr) - and s.mem, s.ime and s.halt.  Memory is flat: below     *)
(* 0x8000 it is cartridge ROM that writes do not change, and an address    *)
(* that s.mem does not hold reads as 0.                                    *)
(***************************************************************************)
EXTENDS Integers, Sequences, Bitwise, TLC

CONSTANT CGB   \* gbMode == CGB

NoAddr == -1
IF_ == \hFF0F
IE_ == \hFFFF
KEY1 == \hFF4D

When(p, flag) == IF p THEN {flag} ELSE {}
Flags(z, n, h, c) == When(z, "Z") \cup When(n, "N") \cup When(h, "H") \cup When(c, "C")
FlagByte(f) == (IF "Z" \in f THEN 128 ELSE 0) + (IF "N" \in f THEN 64 ELSE 0)
             + (IF "H" \in f THEN 32 ELSE 0) + (IF "C" \in f THEN 16 ELSE 0)
ByteFlags(v) == LET up(n) == (v \div 2^n) % 2 = 1 IN Flags(up(7), up(6), up(5), up(4))
Carry(s) == IF "C" \in s.f THEN 1 ELSE 0
Bit(v, n) == (v \div 2^n) % 2
Signed(v) == IF v > 127 THEN v - 256 ELSE v

\* Memory: readMemory and quickRead, writeMemory and its IF and IE cases.
Byte(s, addr) == LET a == addr % 65536 IN IF a \in DOMAIN s.mem THEN s.mem[a] ELSE 0
Word(s, addr) == Byte(s, addr) + 256 * Byte(s, addr + 1)
Pending(s) == Byte(s, IF_) & Byte(s, IE_)

WriteIF(s, a, v) ==
  LET m == (a :> v) @@ s.mem
  IN [s EXCEPT !.mem = m, !.quota = IF Pending([s EXCEPT !.mem = m]) # 0 THEN -1 ELSE @]

Write(s, addr, v) ==
  LET a == addr % 65536
  IN CASE a < \h8000 -> s
       [] a \in {IF_, IE_} -> WriteIF(s, a, v % 256)
       [] a = KEY1 -> [s EXCEPT !.mem = (a :> 128 * Bit(Byte(s, a), 7) + (v % 2)) @@ @]
       [] OTHER -> [s EXCEPT !.mem = (a :> v % 256) @@ @]

\* numberedGbReg(op & 7): number 6 is the byte at HL.
Number == <<"b", "c", "d", "e", "h", "l", "hl", "a">>
BC(s) == 256 * s.r.b + s.r.c
DE(s) == 256 * s.r.d + s.r.e
HL(s) == 256 * s.r.h + s.r.l
Get(s, n) == IF n = 6 THEN Byte(s, HL(s)) ELSE s.r[Number[n + 1]]
Put(s, n, v) == IF n = 6 THEN Write(s, HL(s), v) ELSE [s EXCEPT !.r[Number[n + 1]] = v]

Pair(s, n) == CASE n = 0 -> BC(s) [] n = 1 -> DE(s) [] n = 2 -> HL(s) [] n = 3 -> s.sp
PutPair(s, n, v) ==
  LET hi == (v \div 256) % 256
      lo == v % 256
  IN CASE n = 0 -> [s EXCEPT !.r.b = hi, !.r.c = lo]
       [] n = 1 -> [s EXCEPT !.r.d = hi, !.r.e = lo]
       [] n = 2 -> [s EXCEPT !.r.h = hi, !.r.l = lo]
       [] n = 3 -> [s EXCEPT !.sp = v]

\* readPC and readPC16: the operand bytes after the opcode.
Imm(s) == Byte(s, s.pc)
Imm16(s) == Word(s, s.pc)
Skip(s, n) == [s EXCEPT !.pc = @ + n]
SetPC(s, target) == [s EXCEPT !.pc = target % 65536]

opCycles ==
  << 4,12, 8, 8, 4, 4, 8, 4,20, 8, 8, 8, 4, 4, 8, 4,   4,12, 8, 8, 4, 4, 8, 4,12, 8, 8, 8, 4, 4, 8, 4,
    12,12, 8, 8, 4, 4, 8, 4,12, 8, 8, 8, 4, 4, 8, 4,  12,12, 8, 8,12,12,12, 4,12, 8, 8, 8, 4, 4, 8, 4 >>
  \o [n \in 1..128 |-> IF n # 55 /\ (n \in 49..56 \/ n % 8 = 7) THEN 8 ELSE 4]
  \o <<20,12,16,16,24,16, 8,16,20,16,16, 0,24,24, 8,16, 20,12,16,99,24,16, 8,16,20,16,16,99,24,99, 8,16,
       12,12, 8,99,99,16, 8,16,16, 4,16,99,99,99, 8,16, 12,12, 8, 4,99,16, 8,16,12, 8,16, 4,99,99, 8,16 >>

CBopCycles(op) == IF op % 8 # 6 THEN 8 ELSE IF op \in \h40..\h7F THEN 12 ELSE 16

-----------------------------------------------------------------------------
(* Loads.                                                                    *)

\* LD r, n; LD r, r'; LD r, (HL); LD (HL), r; LD (HL), n
LoadImm(s, op) == Skip(Put(s, (op \div 8) % 8, Imm(s)), 1)
LoadReg(s, op) == Put(s, (op \div 8) % 8, Get(s, op % 8))

\* LD A, (BC) ... LD (HL-), A: the two high rows move HL after the access.
LoadStoreA(s, op) ==
  LET row == op \div 16
      addr == IF row = 0 THEN BC(s) ELSE IF row = 1 THEN DE(s) ELSE HL(s)
      moved == PutPair(s, 2, HL(s) + (CASE row = 2 -> 1 [] row = 3 -> -1 [] OTHER -> 0))
  IN IF op % 16 = 2 THEN Write(moved, addr, s.r.a) ELSE [moved EXCEPT !.r.a = Byte(s, addr)]

\* LDH (n), A and LDH A, (n); LDH (C), A and LDH A, (C); LD (nn), A and LD A, (nn)
LoadStoreHigh(s, op) ==
  LET addr == CASE op % 16 = 0 -> \hFF00 + Imm(s)
                [] op % 16 = 2 -> \hFF00 + s.r.c
                [] op % 16 = 10 -> Imm16(s)
      next == Skip(s, CASE op % 16 = 0 -> 1 [] op % 16 = 2 -> 0 [] op % 16 = 10 -> 2)
  IN IF op \div 16 = 14 THEN Write(next, addr, s.r.a) ELSE [next EXCEPT !.r.a = Byte(s, addr)]

LoadPair(s, op) == Skip(PutPair(s, op \div 16, Imm16(s)), 2)

\* The flags of an offset to SP come from the low byte and the unsigned offset.
OffsetFlags(s) == Flags(FALSE, FALSE, (s.sp % 16) + (Imm(s) % 16) > 15, (s.sp % 256) + Imm(s) > 255)
LoadHLSP(s) == Skip(PutPair([s EXCEPT !.f = OffsetFlags(s)], 2, s.sp + Signed(Imm(s))), 1)
AddSP(s) == Skip([s EXCEPT !.f = OffsetFlags(s), !.sp = @ + Signed(Imm(s))], 1)
StoreSP(s) == Skip(Write(Write(s, Imm16(s), s.sp % 256), Imm16(s) + 1, s.sp \div 256), 2)

PushWord(s, hi, lo) == [Write(Write(s, s.sp - 1, hi), s.sp - 2, lo) EXCEPT !.sp = @ - 2]
Push(s, op) ==
  LET n == (op \div 16) % 4
      v == IF n = 3 THEN 256 * s.r.a + FlagByte(s.f) ELSE Pair(s, n)
  IN PushWord(s, v \div 256, v % 256)
PopFlagsOnly(s, op) ==
  LET n == (op \div 16) % 4
      next == [s EXCEPT !.sp = @ + 2]
  IN IF n = 3 THEN [next EXCEPT !.f = ByteFlags(Byte(s, s.sp))] ELSE PutPair(next, n, Word(s, s.sp))
Pop(s, op) ==
  LET n == (op \div 16) % 4
      v == Word(s, s.sp)
      next == [s EXCEPT !.sp = @ + 2]
  IN IF n = 3 THEN [next EXCEPT !.r.a = v \div 256, !.f = ByteFlags(v % 256)]
     ELSE PutPair(next, n, v)

-----------------------------------------------------------------------------
(* 8-bit and 16-bit arithmetic.                                              *)

Add(s, v, c) == LET sum == s.r.a + v + c
                IN [s EXCEPT !.r.a = sum % 256,
                             !.f = Flags(sum % 256 = 0, FALSE, (s.r.a % 16) + (v % 16) + c > 15, sum > 255)]
CpNoBorrowIn(s, v, c) == [s EXCEPT !.f = Flags((s.r.a - v - c) % 256 = 0, TRUE,
                                               s.r.a % 16 < v % 16, s.r.a < v + c)]
Cp(s, v, c) == [s EXCEPT !.f = Flags((s.r.a - v - c) % 256 = 0, TRUE,
                                     s.r.a % 16 < (v % 16) + c, s.r.a < v + c)]
Sub(s, v, c) == [Cp(s, v, c) EXCEPT !.r.a = (s.r.a - v - c) % 256]
AndA(s, v) == [s EXCEPT !.r.a = @ & v, !.f = Flags(s.r.a & v = 0, FALSE, TRUE, FALSE)]
OrA(s, v) == [s EXCEPT !.r.a = @ | v, !.f = Flags(s.r.a | v = 0, FALSE, FALSE, FALSE)]
XorA(s, v) == [s EXCEPT !.r.a = @ ^^ v, !.f = Flags(s.r.a ^^ v = 0, FALSE, FALSE, FALSE)]

\* ADD ADC SUB SBC AND XOR OR CP, by bits 3-5 of the opcode.
Alu(s, op, v) ==
  LET row == (op \div 8) % 8
  IN CASE row = 0 -> Add(s, v, 0)
       [] row = 1 -> Add(s, v, Carry(s))
       [] row = 2 -> Sub(s, v, 0)
       [] row = 3 -> Sub(s, v, Carry(s))
       [] row = 4 -> AndA(s, v)
       [] row = 5 -> XorA(s, v)
       [] row = 6 -> OrA(s, v)
       [] row = 7 -> Cp(s, v, 0)

Inc(s, op) ==
  LET n == (op \div 8) % 8
      v == (Get(s, n) + 1) % 256
  IN [Put(s, n, v) EXCEPT !.f = Flags(v = 0, FALSE, v % 16 = 0, "C" \in s.f)]
Dec(s, op) ==
  LET n == (op \div 8) % 8
      v == (Get(s, n) - 1) % 256
  IN [Put(s, n, v) EXCEPT !.f = Flags(v = 0, TRUE, v % 16 = 15, "C" \in s.f)]

\* ADD HL, rr compares with the stack pointer as runOpcode holds it, unmasked.
AddHL(s, op) ==
  LET v == Pair(s, op \div 16)
  IN [PutPair(s, 2, HL(s) + v) EXCEPT
        !.f = Flags("Z" \in s.f, FALSE, (HL(s) % 4096) + (v % 4096) > 4095, HL(s) + v > 65535)]
IncPair(s, op) == PutPair(s, op \div 16, Pair(s, op \div 16) + 1)
DecPair(s, op) == PutPair(s, op \div 16, Pair(s, op \div 16) - 1)

DaaLateCarry(s) ==
  LET a0 == s.r.a
      up == a0 + (IF "C" \in s.f \/ a0 > \h9F THEN 96 ELSE 0)
      a == IF "N" \in s.f THEN a0 - 96 * Carry(s) - (IF "H" \in s.f THEN 6 ELSE 0)
           ELSE up + (IF "H" \in s.f \/ a0 % 16 > 9 THEN 6 ELSE 0)
  IN [s EXCEPT !.r.a = a % 256,
               !.f = Flags(a % 256 = 0, "N" \in s.f, FALSE, "C" \in s.f \/ Bit(a, 8) = 1)]
Daa(s) ==
  LET a0 == s.r.a
      up == a0 + (IF "H" \in s.f \/ a0 % 16 > 9 THEN 6 ELSE 0)
      down == IF "H" \in s.f THEN (a0 - 6) % 256 ELSE a0
      a == IF "N" \in s.f THEN down - 96 * Carry(s)
           ELSE up + (IF "C" \in s.f \/ up > \h9F THEN 96 ELSE 0)
  IN [s EXCEPT !.r.a = a % 256,
               !.f = Flags(a % 256 = 0, "N" \in s.f, FALSE, "C" \in s.f \/ Bit(a, 8) = 1)]

Cpl(s) == [s EXCEPT !.r.a = 255 - @, !.f = @ \cup {"N", "H"}]
Ccf(s) == [s EXCEPT !.f = Flags("Z" \in @, FALSE, FALSE, "C" \notin @)]
Scf(s) == [s EXCEPT !.f = Flags("Z" \in @, FALSE, FALSE, TRUE)]

-----------------------------------------------------------------------------
(* Rotations, shifts and bits: the opcodes after 0xCB, and RLCA to RRA.      *)

\* Each takes the byte v with the carry c to <<the new byte, the new carry>>.
Rlc(v, c) == <<((2 * v) % 256) + Bit(v, 7), Bit(v, 7)>>
Rrc(v, c) == <<v \div 2 + 128 * Bit(v, 0), Bit(v, 0)>>
Rl(v, c) == <<((2 * v) % 256) + c, Bit(v, 7)>>
Rr(v, c) == <<v \div 2 + 128 * c, Bit(v, 0)>>
Sla(v, c) == <<(2 * v) % 256, Bit(v, 7)>>
Sra(v, c) == <<v \div 2 + 128 * Bit(v, 7), Bit(v, 0)>>
Srl(v, c) == <<v \div 2, Bit(v, 0)>>
Swap(v, c) == <<16 * (v % 16) + (v \div 16), 0>>

Shifted(op, v, c) ==
  LET row == op \div 8
  IN CASE row = 0 -> Rlc(v, c) [] row = 1 -> Rrc(v, c) [] row = 2 -> Rl(v, c)
       [] row = 3 -> Rr(v, c) [] row = 4 -> Sla(v, c) [] row = 5 -> Sra(v, c)
       [] row = 6 -> Swap(v, c) [] row = 7 -> Srl(v, c)

Shift(s, op) == LET out == Shifted(op, Get(s, op % 8), Carry(s))
                IN [Put(s, op % 8, out[1]) EXCEPT
                      !.f = Flags(out[1] = 0, FALSE, FALSE, out[2] = 1)]
\* RLCA, RRCA, RLA and RRA never set Z.
ShiftA(s, op) == LET out == Shifted(op, s.r.a, Carry(s))
                 IN [s EXCEPT !.r.a = out[1], !.f = When(out[2] = 1, "C")]

TestedBit(s, op) == Bit(Get(s, op % 8), (op \div 8) % 8)
BitOp(s, op) == [s EXCEPT !.f = Flags(TestedBit(s, op) = 0, FALSE, TRUE, "C" \in @)]
SetBit(s, op) == Put(s, op % 8, Get(s, op % 8) + (1 - TestedBit(s, op)) * 2^((op \div 8) % 8))
ResetBit(s, op) == Put(s, op % 8, Get(s, op % 8) - TestedBit(s, op) * 2^((op \div 8) % 8))

Prefixed(s) ==
  LET op == Imm(s)
      next == [Skip(s, 1) EXCEPT !.t = @ + CBopCycles(op)]
  IN CASE op < \h40 -> Shift(next, op)
       [] op \in \h40..\h7F -> BitOp(next, op)
       [] op \in \h80..\hBF -> ResetBit(next, op)
       [] OTHER -> SetBit(next, op)

-----------------------------------------------------------------------------
(* Control.                                                                  *)

\* NZ, Z, NC and C, by bits 3-4 of the opcode.
Cond(s, op) == LET n == (op \div 8) % 4
               IN (n % 2 = 1) <=> (IF n < 2 THEN "Z" \in s.f ELSE "C" \in s.f)
Late(s, cycles) == [s EXCEPT !.t = @ - cycles]

JumpRel(s, taken) == IF taken THEN SetPC(s, s.pc + Signed(Imm(s)) + 1) ELSE Late(Skip(s, 1), 4)
Jump(s, taken) == IF taken THEN SetPC(s, Imm16(s)) ELSE Late(Skip(s, 2), 4)
PushPC(s, ret) == PushWord(s, ret \div 256, ret % 256)
Call(s, taken) == IF taken THEN SetPC(PushPC(s, s.pc + 2), Imm16(s)) ELSE Late(Skip(s, 2), 12)
Restart(s, op) == SetPC(PushPC(s, s.pc), 8 * ((op \div 8) % 8))
Return(s) == [SetPC(s, Word(s, s.sp)) EXCEPT !.sp = @ + 2]
\* What a conditional return that is not taken gives back of its 20 cycles.
NotTaken(op) == IF op = \hC0 THEN 12 ELSE 16
ReturnIf(s, op) == IF Cond(s, op) THEN Return(s) ELSE Late(s, NotTaken(op))

EnableInterrupts(s) == [s EXCEPT !.ime = TRUE, !.quota = IF Pending(s) # 0 THEN -1 ELSE @]
DisableInterrupts(s) == [s EXCEPT !.ime = FALSE]

\* HALT with interrupts off: the byte after it is written over it and run from
\* there, so that it runs twice, and the batch ends after that one opcode.
HaltBugRunsOn(s) ==
  IF s.bug # NoAddr THEN s
  ELSE [s EXCEPT !.bug = s.pc - 1, !.mem = ((s.pc - 1) :> Byte(s, s.pc)) @@ @, !.pc = @ - 1]
HaltBug(s) ==
  IF s.bug # NoAddr THEN s
  ELSE [s EXCEPT !.bug = s.pc - 1, !.mem = ((s.pc - 1) :> Byte(s, s.pc)) @@ @,
                 !.pc = @ - 1, !.quota = s.t + 1]
Halt(s) == CASE s.ime -> [s EXCEPT !.halt = 1]
             [] ~s.ime /\ CGB -> s
             [] ~s.ime /\ ~CGB -> HaltBug(s)

\* STOP switches the speed when KEY1 asks for it, else it stops the processor.
Stop(s) == LET k == Byte(s, KEY1)
           IN IF k % 2 = 1 /\ CGB
              THEN [Skip(s, 1) EXCEPT !.mem = (KEY1 :> (k + 127) % 256) @@ @]
              ELSE [s EXCEPT !.halt = 2]

-----------------------------------------------------------------------------
(* The switch of runOpcode: s.pc is behind the opcode.                       *)

Group0(s, op) ==      \* 0x00 .. 0x3F
  CASE op = 0 -> s
    [] op = \h08 -> StoreSP(s)
    [] op = \h10 -> Stop(s)
    [] op = \h18 -> JumpRel(s, TRUE)
    [] op \in {\h20, \h28, \h30, \h38} -> JumpRel(s, Cond(s, op))
    [] op % 16 = 1 -> LoadPair(s, op)
    [] op % 16 = 9 -> AddHL(s, op)
    [] op % 8 = 2 -> LoadStoreA(s, op)
    [] op % 16 = 3 -> IncPair(s, op)
    [] op % 16 = 11 -> DecPair(s, op)
    [] op % 8 = 4 -> Inc(s, op)
    [] op % 8 = 5 -> Dec(s, op)
    [] op % 8 = 6 -> LoadImm(s, op)
    [] op \in {\h07, \h0F, \h17, \h1F} -> ShiftA(s, op)
    [] op = \h27 -> Daa(s)
    [] op = \h2F -> Cpl(s)
    [] op = \h37 -> Scf(s)
    [] op = \h3F -> Ccf(s)

Group3(s, op) ==      \* 0xC0 .. 0xFF; what is left out is undefined and does nothing
  CASE op \in {\hC0, \hC8, \hD0, \hD8} -> ReturnIf(s, op)
    [] op = \hC9 -> Return(s)
    [] op = \hD9 -> EnableInterrupts(Return(s))
    [] op \in {\hC1, \hD1, \hE1, \hF1} -> Pop(s, op)
    [] op \in {\hC5, \hD5, \hE5, \hF5} -> Push(s, op)
    [] op = \hC3 -> Jump(s, TRUE)
    [] op \in {\hC2, \hCA, \hD2, \hDA} -> Jump(s, Cond(s, op))
    [] op = \hE9 -> SetPC(s, HL(s))
    [] op = \hCD -> Call(s, TRUE)
    [] op \in {\hC4, \hCC, \hD4, \hDC} -> Call(s, Cond(s, op))
    [] op % 8 = 7 -> Restart(s, op)
    [] op % 8 = 6 -> Skip(Alu(s, op, Imm(s)), 1)
    [] op = \hCB -> Prefixed(s)
    [] op \in {\hE0, \hE2, \hEA, \hF0, \hF2, \hFA} -> LoadStoreHigh(s, op)
    [] op = \hE8 -> AddSP(s)
    [] op = \hF8 -> LoadHLSP(s)
    [] op = \hF9 -> [s EXCEPT !.sp = HL(s)]
    [] op = \hF3 -> DisableInterrupts(s)
    [] op = \hFB -> EnableInterrupts(s)
    [] OTHER -> s

Exec(s, op) ==
  CASE op < \h40 -> Group0(s, op)
    [] op = \h76 -> Halt(s)
    [] op \in \h40..\h7F /\ op # \h76 -> LoadReg(s, op)
    [] op \in \h80..\hBF -> Alu(s, op, Get(s, op % 8))
    [] OTHER -> Group3(s, op)

\* One turn of runOpcode's loop.
RunOne(s) == LET op == Byte(s, s.pc)
             IN Exec([Skip(s, 1) EXCEPT !.t = @ + opCycles[op + 1]], op)

\* handleInterrupts: it ends HALT and STOP whatever IME says, and with IME up
\* it calls the vector of the lowest interrupt that is pending.
Serve(s) ==
  LET i == CHOOSE n \in 0..4 : Bit(Pending(s), n) = 1 /\ \A k \in 0..n - 1 : Bit(Pending(s), k) = 0
      woken == [s EXCEPT !.halt = 0]
      at == PushPC([woken EXCEPT !.ime = FALSE], s.pc)
  IN IF ~s.ime THEN woken
     ELSE [at EXCEPT !.pc = \h40 + 8 * i, !.mem = (IF_ :> Byte(at, IF_) - 2^i) @@ @]
=============================================================================
