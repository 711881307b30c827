------------------------------- MODULE Sgb65816 -------------------------------
(***************************************************************************)
(* The 65C816 of the Super Game Boy's host as SgbHostCpu::run executes it  *)
(* (src/platform/common/sgb_host.cpp).  A processor state s is a record of *)
(* the registers a, x, y, sp, d, pc, pbr and dbr, the set p of flags that  *)
(* are up, emulation, waiting, stopped, faulted, nmiVector, and the        *)
(* memory: s.mem holds the bytes of WRAM that a program uses, s.ports the  *)
(* four ports to the sound processor.  The lambdas of run are operators    *)
(* here, and the width they capture, m8 and x8, is that of s.              *)
(***************************************************************************)
EXTENDS Integers, FiniteSets, Sequences, Bitwise, TLC

M8(s) == "M" \in s.p
X8(s) == "X" \in s.p
Size(byte) == IF byte THEN 256 ELSE 65536
Low(s) == s.a % Size(M8(s))
FlagBit == [C |-> 0, Z |-> 1, I |-> 2, D |-> 3, X |-> 4, M |-> 5, V |-> 6, N |-> 7]
PByte(p) == LET at(f) == IF f \in p THEN 2^FlagBit[f] ELSE 0
            IN at("C") + at("Z") + at("I") + at("D") + at("X") + at("M") + at("V") + at("N")
PSet(v) == {f \in DOMAIN FlagBit : (v \div 2^FlagBit[f]) % 2 = 1}
Up(p, f, on) == IF on THEN p \cup {f} ELSE p \ {f}
C(s) == IF "C" \in s.p THEN 1 ELSE 0
SignUp(v, byte) == 2 * v >= Size(byte)
Rel(v, byte) == IF SignUp(v, byte) THEN v - Size(byte) ELSE v

\* SgbHost::read8 and write8: WRAM, its mirror in the low banks, the ports.
\* The data ports of the picture processor are those of module SgbHostPpu.
Bank(addr) == (addr \div 65536) % 256
Mirrored(addr) == Bank(addr) \in (0..\h3F) \cup (\h80..\hBF)
Wram(addr) == CASE Bank(addr) \in {\h7E, \h7F} -> 65536 * (Bank(addr) - \h7E) + (addr % 65536)
                [] Mirrored(addr) /\ addr % 65536 < \h2000 -> addr % 65536
                [] OTHER -> -1
Port(addr) == IF Mirrored(addr) /\ addr % 65536 \in \h2140..\h2143 THEN (addr % 65536) - \h213F ELSE 0
Read8(s, addr) == CASE Wram(addr) \in DOMAIN s.mem -> s.mem[Wram(addr)]
                    [] Wram(addr) >= 0 /\ Wram(addr) \notin DOMAIN s.mem -> 0
                    [] Port(addr) > 0 -> s.ports[Port(addr)]
                    [] OTHER -> \hFF
Write8(s, addr, v) == CASE Wram(addr) >= 0 -> [s EXCEPT !.mem = (Wram(addr) :> v % 256) @@ @]
                        [] Port(addr) > 0 -> [s EXCEPT !.ports[Port(addr)] = v % 256]
                        [] OTHER -> s

\* read16 runs on into the next bank, read16Bank wraps inside it.
After(addr, wrap) == IF wrap THEN 65536 * (addr \div 65536) + ((addr + 1) % 65536) ELSE (addr + 1) % 2^24
Read(s, addr, byte, wrap) ==
  Read8(s, addr) + (IF byte THEN 0 ELSE 256 * Read8(s, After(addr, wrap)))
Write(s, addr, byte, wrap, v) ==
  IF byte THEN Write8(s, addr, v) ELSE Write8(Write8(s, addr, v), After(addr, wrap), v \div 256)
Read24(s, addr) == Read8(s, addr) + 256 * Read8(s, (addr + 1) % 65536) + 65536 * Read8(s, (addr + 2) % 65536)

\* The operand bytes at the program counter, and moving past them.
Fetched(s, n) == Read8(s, 65536 * s.pbr + ((s.pc + n) % 65536))
Op8(s) == Fetched(s, 0)
Op16(s) == Fetched(s, 0) + 256 * Fetched(s, 1)
Op24(s) == Op16(s) + 65536 * Fetched(s, 2)
Skip(s, n) == [s EXCEPT !.pc = (@ + n) % 65536]
Imm(s, byte) == IF byte THEN Op8(s) ELSE Op16(s)
ImmSize(byte) == IF byte THEN 1 ELSE 2

\* The stack stays in page 1 in emulation mode.
InPage1(s, v) == IF s.emulation THEN 256 + (v % 256) ELSE v % 65536
Push(s, v) == [Write8(s, s.sp, v) EXCEPT !.sp = InPage1(s, @ - 1)]
Push16(s, v) == Push(Push(s, v \div 256), v)
PushWidth(s, v, byte) == IF byte THEN Push(s, v) ELSE Push16(s, v)
Popped(s, n) == Read8(s, InPage1(s, s.sp + n))
Pop(s, n) == [s EXCEPT !.sp = InPage1(s, @ + n)]
PopWidth(s, byte) == Popped(s, 1) + (IF byte THEN 0 ELSE 256 * Popped(s, 2))

Nz(s, v, byte) == [s EXCEPT !.p = Up(Up(@, "Z", v = 0), "N", SignUp(v, byte))]
SetA(s, v) == Nz([s EXCEPT !.a = IF M8(s) THEN 256 * (@ \div 256) + v ELSE v], v, M8(s))
SetX(s, v) == Nz([s EXCEPT !.x = v], v, X8(s))
SetY(s, v) == Nz([s EXCEPT !.y = v], v, X8(s))

-----------------------------------------------------------------------------
(* Addressing: where an operand is, [at, wrap, n]: its address, whether a    *)
(* word wraps in the bank, and how many bytes follow the opcode.             *)

Direct(s, index) == IF s.emulation /\ s.d % 256 = 0 THEN s.d + ((Op8(s) + index) % 256)
                    ELSE (s.d + Op8(s) + index) % 65536
DirectPointer(s, at) ==
  LET next == IF s.emulation /\ s.d % 256 = 0 THEN 256 * (at \div 256) + ((at + 1) % 256)
              ELSE (at + 1) % 65536
  IN Read8(s, at) + 256 * Read8(s, next)
InData(s, offset) == (65536 * s.dbr + offset) % 2^24
At(addr, wrap, n) == [at |-> addr, wrap |-> wrap, n |-> n]

Dp(s, index) == At(Direct(s, index), TRUE, 1)
Abs(s, index) == At(InData(s, Op16(s) + index), FALSE, 2)
Long(s, index) == At((Op24(s) + index) % 2^24, FALSE, 3)
Indirect(s, index, post) == At(InData(s, DirectPointer(s, Direct(s, index)) + post), FALSE, 1)
IndirectLong(s, index) == At((Read24(s, Direct(s, 0)) + index) % 2^24, FALSE, 1)
Stack(s) == At((s.sp + Op8(s)) % 65536, TRUE, 1)
StackIndirect(s, index) == At(InData(s, Read(s, Stack(s).at, FALSE, TRUE) + index), FALSE, 1)

\* Bits 0-4 of the opcodes that work on A and memory.
Operand(s, op) ==
  LET m == op % 32
  IN CASE m = \h01 -> Indirect(s, s.x, 0) [] m = \h03 -> Stack(s)
       [] m = \h05 -> Dp(s, 0)            [] m = \h07 -> IndirectLong(s, 0)
       [] m = \h0D -> Abs(s, 0)           [] m = \h0F -> Long(s, 0)
       [] m = \h11 -> Indirect(s, 0, s.y) [] m = \h12 -> Indirect(s, 0, 0)
       [] m = \h13 -> StackIndirect(s, s.y) [] m = \h15 -> Dp(s, s.x)
       [] m = \h17 -> IndirectLong(s, s.y) [] m = \h19 -> Abs(s, s.y)
       [] m = \h1D -> Abs(s, s.x)         [] m = \h1F -> Long(s, s.x)
AMode == {\h01, \h03, \h05, \h07, \h0D, \h0F, \h11, \h12, \h13, \h15, \h17, \h19, \h1D, \h1F}

-----------------------------------------------------------------------------
(* Arithmetic.                                                               *)

Compare(s, left, right, byte) ==
  Nz([s EXCEPT !.p = Up(@, "C", left >= right)], (left - right) % Size(byte), byte)

\* A mutant: the digit ten is kept.
DigitsCarryLate(s, right, minus) ==
  LET digit(v, k) == (v \div 16^k) % 16
      out[k \in -1..3] ==
        IF k = -1 THEN <<0, IF minus THEN 1 - C(s) ELSE C(s)>>
        ELSE LET v == IF minus THEN digit(Low(s), k) - digit(right, k) - out[k - 1][2]
                      ELSE digit(Low(s), k) + digit(right, k) + out[k - 1][2]
                 carry == IF minus THEN v < 0 ELSE v > 10
                 fixed == IF ~carry THEN v ELSE IF minus THEN v - 6 ELSE v + 6
             IN <<out[k - 1][1] + (fixed % 16) * 16^k, IF carry THEN 1 ELSE 0>>
  IN out[IF M8(s) THEN 1 ELSE 3]

\* Decimal mode works digit by digit; out[k] is <<digits so far, carry>>.
DecimalDigits(s, right, minus) ==
  LET digit(v, k) == (v \div 16^k) % 16
      out[k \in -1..3] ==
        IF k = -1 THEN <<0, IF minus THEN 1 - C(s) ELSE C(s)>>
        ELSE LET v == IF minus THEN digit(Low(s), k) - digit(right, k) - out[k - 1][2]
                      ELSE digit(Low(s), k) + digit(right, k) + out[k - 1][2]
                 carry == IF minus THEN v < 0 ELSE v > 9
                 fixed == IF ~carry THEN v ELSE IF minus THEN v - 6 ELSE v + 6
             IN <<out[k - 1][1] + (fixed % 16) * 16^k, IF carry THEN 1 ELSE 0>>
  IN out[IF M8(s) THEN 1 ELSE 3]

Arithmetic(s, right, minus) ==
  LET w == Size(M8(s))
      borrow == 1 - C(s)
      binary == (IF minus THEN Low(s) - right - borrow ELSE Low(s) + right + C(s)) % w
      sign(v) == SignUp(v, M8(s))
      overflow == /\ sign(Low(s)) # sign(binary)
                  /\ (sign(Low(s)) = sign(right)) # minus
      decimal == DecimalDigits(s, right, minus)
      result == IF "D" \in s.p THEN decimal[1] ELSE binary
      carry == CASE "D" \in s.p -> (decimal[2] = 1) # minus
                 [] "D" \notin s.p /\ minus -> Low(s) >= right + borrow
                 [] "D" \notin s.p /\ ~minus -> Low(s) + right + C(s) >= w
  IN SetA([s EXCEPT !.p = Up(Up(@, "C", carry), "V", overflow)], result)

\* ORA AND EOR ADC CMP SBC with a value, by bits 5-7 of the opcode.
ApplyMemoryArithmetic(s, op, value) ==
  CASE op \div 32 = 0 -> SetA(s, Low(s) | value)
    [] op \div 32 = 1 -> SetA(s, Low(s) & value)
    [] op \div 32 = 2 -> SetA(s, Low(s) ^^ value)
    [] op \div 32 = 3 -> Arithmetic(s, value, FALSE)
    [] op \div 32 = 6 -> Compare(s, Low(s), value, M8(s))
    [] op \div 32 = 7 -> Arithmetic(s, value, TRUE)

\* ASL ROL LSR ROR DEC INC of v: <<result, carry>>, the carry kept by DEC and INC.
Modified(s, n, v) ==
  LET w == Size(M8(s))
      top == IF 2 * v >= w THEN 1 ELSE 0
  IN CASE n = 0 -> <<(2 * v) % w, top>>
       [] n = 1 -> <<((2 * v) % w) + C(s), top>>
       [] n = 2 -> <<v \div 2, v % 2>>
       [] n = 3 -> <<(v \div 2) + C(s) * (w \div 2), v % 2>>
       [] n = 6 -> <<(v - 1) % w, C(s)>>
       [] n = 7 -> <<(v + 1) % w, C(s)>>
ModifyMemory(s, n, o) ==
  LET out == Modified(s, n, Read(s, o.at, M8(s), o.wrap))
  IN Nz([Write(s, o.at, M8(s), o.wrap, out[1]) EXCEPT !.p = Up(@, "C", out[2] = 1)], out[1], M8(s))
ModifyA(s, n) == LET out == Modified(s, n, Low(s))
                 IN SetA([s EXCEPT !.p = Up(@, "C", out[2] = 1)], out[1])

BitMemory(s, v) ==
  LET w == Size(M8(s))
  IN [s EXCEPT !.p = Up(Up(Up(@, "N", SignUp(v, M8(s))), "V", ((4 * v) \div w) % 2 = 1), "Z", Low(s) & v = 0)]
\* TSB and TRB.
ChangeMemoryBits(s, o, set) ==
  LET v == Read(s, o.at, M8(s), o.wrap)
      both == Low(s) & v
  IN [Write(s, o.at, M8(s), o.wrap, IF set THEN v + Low(s) - both ELSE v - both)
        EXCEPT !.p = Up(@, "Z", both = 0)]

-----------------------------------------------------------------------------
(* The cases of the switch, s.pc behind the opcode.                          *)

LoadStoreA(s, op) ==
  LET o == Operand(s, op)
      v == Read(s, o.at, M8(s), o.wrap)
      next == Skip(s, o.n)
  IN CASE op \div 32 = 4 -> Write(next, o.at, M8(s), o.wrap, s.a)
       \* LDA abs and LDA long assign all of A
       [] op \in {\hAD, \hAF} -> Nz([next EXCEPT !.a = v], v, M8(s))
       [] op \div 32 = 5 /\ op \notin {\hAD, \hAF} -> SetA(next, v)
       [] op \div 32 \notin {4, 5} -> ApplyMemoryArithmetic(next, op, v)

ImmediateA(s, op) ==
  LET v == Imm(s, M8(s))
      next == Skip(s, ImmSize(M8(s)))
  IN CASE op = \hA9 -> SetA(next, v)
       [] op = \h89 -> [next EXCEPT !.p = Up(@, "Z", Low(s) & v = 0)]
       [] op \notin {\hA9, \h89} -> ApplyMemoryArithmetic(next, op, v)

\* Where the opcodes of X and Y find their operand: bits 2-4.
IndexOperand(s, op) ==
  LET m == op % 32
      index == IF op \in {\hB6, \h96, \hBE} THEN s.y ELSE s.x
  IN CASE m \in {\h04, \h06} -> Dp(s, 0) [] m \in {\h14, \h16} -> Dp(s, index)
       [] m \in {\h0C, \h0E} -> Abs(s, 0) [] m \in {\h1C, \h1E} -> Abs(s, index)
IndexOps(s, op) ==
  LET immediate == op \in {\hA2, \hA0, \hE0, \hC0}
      o == IndexOperand(s, op)
      v == IF immediate THEN Imm(s, X8(s)) ELSE Read(s, o.at, X8(s), o.wrap)
      next == Skip(s, IF immediate THEN ImmSize(X8(s)) ELSE o.n)
  IN CASE op \in {\hA2, \hA6, \hB6, \hAE, \hBE} -> SetX(next, v)
       [] op \in {\hA0, \hA4, \hB4, \hAC, \hBC} -> SetY(next, v)
       [] op \in {\h86, \h96, \h8E} -> Write(next, o.at, X8(s), o.wrap, s.x)
       [] op \in {\h84, \h94, \h8C} -> Write(next, o.at, X8(s), o.wrap, s.y)
       [] op \in {\hE0, \hE4, \hEC} -> Compare(next, s.x, v, X8(s))
       [] op \in {\hC0, \hC4, \hCC} -> Compare(next, s.y, v, X8(s))

BitOps(s, op) ==
  LET o == CASE op % 16 = 4 -> Dp(s, IF op \in {\h34, \h74} THEN s.x ELSE 0)
             [] op % 16 # 4 -> Abs(s, IF op \in {\h3C, \h9E} THEN s.x ELSE 0)
      next == Skip(s, o.n)
  IN CASE op \in {\h64, \h74, \h9C, \h9E} -> Write(next, o.at, M8(s), o.wrap, 0)
       [] op \in {\h24, \h34, \h2C, \h3C} -> BitMemory(next, Read(s, o.at, M8(s), o.wrap))
       [] op \in {\h04, \h0C} -> ChangeMemoryBits(next, o, TRUE)
       [] op \in {\h14, \h1C} -> ChangeMemoryBits(next, o, FALSE)

\* MVN and MVP move one byte and go back to themselves until A wraps.
BlockMove(s, op) ==
  LET to == Op8(s)
      step == IF op = \h54 THEN 1 ELSE -1
      v == Read8(s, 65536 * Fetched(s, 1) + s.x)
      next == Write8(Skip(s, 2), 65536 * to + s.y, v)
  IN [next EXCEPT !.dbr = to, !.x = (@ + step) % 65536, !.y = (@ + step) % 65536,
                  !.a = (@ - 1) % 65536,
                  !.pc = IF s.a = 0 THEN @ ELSE (@ - 3) % 65536]

Branch(s, taken) == LET next == Skip(s, 1)
                    IN IF taken THEN Skip(next, Rel(Op8(s), TRUE)) ELSE next
Branches(s, op) ==
  CASE op = \h80 -> Branch(s, TRUE)
    [] op = \h82 -> Skip(Skip(s, 2), Rel(Op16(s), FALSE))
    [] op \notin {\h80, \h82} ->
         LET f == CASE op \in {\h10, \h30} -> "N" [] op \in {\h50, \h70} -> "V"
                    [] op \in {\h90, \hB0} -> "C" [] op \in {\hD0, \hF0} -> "Z"
         IN Branch(s, (f \in s.p) <=> op \in {\h30, \h70, \hB0, \hF0})

JumpTo(s, addr) == [s EXCEPT !.pc = addr % 65536, !.pbr = addr \div 65536]
Here(s, offset) == 65536 * s.pbr + (offset % 65536)
Jumps(s, op) ==
  LET table == Here(s, Read(s, Here(s, Op16(s) + s.x), FALSE, TRUE))
      ret == (s.pc + 1) % 65536
      retLong == (s.pc + 2) % 65536
  IN CASE op = \h4C -> JumpTo(s, Here(s, Op16(s)))
       [] op = \h5C -> JumpTo(s, Op24(s))
       [] op = \h6C -> JumpTo(s, Here(s, Read(s, Op16(s), FALSE, TRUE)))
       [] op = \h7C -> JumpTo(s, table)
       [] op = \hDC -> JumpTo(s, Read24(s, Op16(s)))
       [] op = \h20 -> JumpTo(Push16(s, ret), Here(s, Op16(s)))
       [] op = \hFC -> JumpTo(Push16(s, ret), table)
       [] op = \h22 -> JumpTo(Push16(Push(s, s.pbr), retLong), Op24(s))
       [] op = \h60 -> JumpTo(Pop(s, 2), Here(s, PopWidth(s, FALSE) + 1))
       [] op = \h6B -> JumpTo(Pop(s, 3), 65536 * Popped(s, 3) + ((PopWidth(s, FALSE) + 1) % 65536))

\* What BRK, COP and an NMI push, and RTI takes back.
Interrupted(s, p, at) ==
  LET bank == IF s.emulation THEN s ELSE Push(s, s.pbr)
  IN [JumpTo(Push(Push16(bank, s.pc), PByte(p)), at) EXCEPT !.p = (@ \cup {"I"}) \ {"D"}]
SoftwareInterrupt(s, emulationVector, nativeVector) ==
  LET next == Skip(s, 1)
      vector == IF s.emulation THEN emulationVector ELSE nativeVector
  IN Interrupted(next, IF s.emulation THEN s.p \cup {"X"} ELSE s.p, Read(s, vector, FALSE, TRUE))
Nmi(s) == Interrupted([s EXCEPT !.waiting = FALSE], IF s.emulation THEN s.p \ {"X"} ELSE s.p, s.nmiVector)
ReturnInBank(s) ==     \* a mutant: the bank stays on the stack
  LET next == Pop([s EXCEPT !.p = PSet(Popped(s, 1))], 3)
  IN JumpTo(next, 65536 * s.pbr + Popped(s, 2) + 256 * Popped(s, 3))
ReturnFromInterrupt(s) ==
  LET pc == Popped(s, 2) + 256 * Popped(s, 3)
      next == Pop([s EXCEPT !.p = PSet(Popped(s, 1))], IF s.emulation THEN 3 ELSE 4)
  IN JumpTo(next, 65536 * (IF s.emulation THEN s.pbr ELSE Popped(s, 4)) + pc)

\* XCE swaps the carry and emulation.
ExchangeCE(s) ==
  LET on == "C" \in s.p
      p == Up(s.p, "C", s.emulation)
  IN [s EXCEPT !.emulation = on, !.p = IF on THEN p \cup {"M", "X"} ELSE p,
               !.sp = IF on THEN 256 + (@ % 256) ELSE @]

Transfers(s, op) ==
  CASE op = \hAA -> SetX(s, s.a % Size(X8(s)))
    [] op = \hA8 -> SetY(s, s.a % Size(X8(s)))
    [] op = \hBB -> SetX(s, s.y % Size(X8(s)))
    [] op = \h9B -> SetY(s, s.x % Size(X8(s)))
    [] op = \hBA -> SetX(s, s.sp % Size(X8(s)))
    [] op = \h8A -> SetA(s, s.x % Size(M8(s)))
    [] op = \h98 -> SetA(s, s.y % Size(M8(s)))
    [] op = \h9A -> [s EXCEPT !.sp = s.x]
    [] op = \h1B -> [s EXCEPT !.sp = s.a]
    [] op = \h5B -> Nz([s EXCEPT !.d = s.a], s.a, FALSE)
    [] op = \h7B -> Nz([s EXCEPT !.a = s.d], s.d, FALSE)
    [] op = \h3B -> Nz([s EXCEPT !.a = s.sp], s.sp, FALSE)
    [] op = \hEB -> Nz([s EXCEPT !.a = 256 * (@ % 256) + (@ \div 256)], s.a \div 256, TRUE)
    [] op = \hE8 -> SetX(s, (s.x + 1) % Size(X8(s)))
    [] op = \hCA -> SetX(s, (s.x - 1) % Size(X8(s)))
    [] op = \hC8 -> SetY(s, (s.y + 1) % Size(X8(s)))
    [] op = \h88 -> SetY(s, (s.y - 1) % Size(X8(s)))

Pushes(s, op) ==
  CASE op = \h48 -> PushWidth(s, s.a, M8(s)) [] op = \hDA -> PushWidth(s, s.x, X8(s))
    [] op = \h5A -> PushWidth(s, s.y, X8(s)) [] op = \h08 -> Push(s, PByte(s.p))
    [] op = \h8B -> Push(s, s.dbr) [] op = \h4B -> Push(s, s.pbr) [] op = \h0B -> Push16(s, s.d)
    [] op = \h62 -> Push16(Skip(s, 2), (s.pc + 2 + Rel(Op16(s), FALSE)) % 65536)
    [] op = \hD4 -> Push16(Skip(s, 1), Read(s, Direct(s, 0), FALSE, TRUE))
    [] op = \hF4 -> Push16(Skip(s, 2), Op16(s))
Pops(s, op) ==
  LET byte == CASE op = \h68 -> M8(s) [] op \in {\hFA, \h7A} -> X8(s)
                [] op \in {\h28, \hAB} -> TRUE [] op = \h2B -> FALSE
      v == PopWidth(s, byte)
      next == Pop(s, ImmSize(byte))
  IN CASE op = \h68 -> Nz([next EXCEPT !.a = v], v, byte)   \* assigns all of A
       [] op = \hFA -> SetX(next, v)
       [] op = \h7A -> SetY(next, v)
       [] op = \h28 -> [next EXCEPT !.p = PSet(v)]
       [] op = \hAB -> Nz([next EXCEPT !.dbr = v], v, TRUE)
       [] op = \h2B -> Nz([next EXCEPT !.d = v], v, FALSE)

FlagOps(s, op) ==
  CASE op = \hC2 -> [Skip(s, 1) EXCEPT !.p = @ \ PSet(Op8(s))]
    [] op = \hE2 -> [Skip(s, 1) EXCEPT !.p = @ \cup PSet(Op8(s))]
    [] op \notin {\hC2, \hE2} ->
         LET f == CASE op \in {\h18, \h38} -> "C" [] op \in {\h58, \h78} -> "I"
                    [] op \in {\hD8, \hF8} -> "D" [] op = \hB8 -> "V"
         IN [s EXCEPT !.p = Up(@, f, op \in {\h38, \h78, \hF8})]

Exec(s, op) ==
  CASE op % 32 \in AMode /\ op # \h89 -> LoadStoreA(s, op)
    [] op % 32 = 9 -> ImmediateA(s, op)
    [] op \in {\h06, \h16, \h26, \h36, \h46, \h56, \h66, \h76, \hC6, \hD6, \hE6, \hF6} ->
         LET o == Dp(s, IF op % 32 = 6 THEN 0 ELSE s.x) IN ModifyMemory(Skip(s, 1), op \div 32, o)
    [] op \in {\h0E, \h1E, \h2E, \h3E, \h4E, \h5E, \h6E, \h7E, \hCE, \hDE, \hEE, \hFE} ->
         LET o == Abs(s, IF op % 32 = 14 THEN 0 ELSE s.x) IN ModifyMemory(Skip(s, 2), op \div 32, o)
    [] op \in {\h0A, \h2A, \h4A, \h6A} -> ModifyA(s, op \div 32)
    [] op = \h3A -> ModifyA(s, 6)
    [] op = \h1A -> ModifyA(s, 7)
    [] op \in {\hA2, \hA6, \hB6, \hAE, \hBE, \hA0, \hA4, \hB4, \hAC, \hBC, \h86, \h96, \h8E, \h84,
               \h94, \h8C, \hE0, \hE4, \hEC, \hC0, \hC4, \hCC} -> IndexOps(s, op)
    [] op \in {\h64, \h74, \h9C, \h9E, \h24, \h34, \h2C, \h3C, \h04, \h0C, \h14, \h1C} -> BitOps(s, op)
    [] op \in {\h44, \h54} -> BlockMove(s, op)
    [] op \in {\h80, \h82, \h10, \h30, \h50, \h70, \h90, \hB0, \hD0, \hF0} -> Branches(s, op)
    [] op \in {\h4C, \h5C, \h6C, \h7C, \hDC, \h20, \hFC, \h22, \h60, \h6B} -> Jumps(s, op)
    [] op = \h00 -> SoftwareInterrupt(s, \hFFFE, \hFFE6)
    [] op = \h02 -> SoftwareInterrupt(s, \hFFF4, \hFFE4)
    [] op = \h40 -> ReturnFromInterrupt(s)
    [] op = \hFB -> ExchangeCE(s)
    [] op \in {\hAA, \hA8, \hBB, \h9B, \hBA, \h8A, \h98, \h9A, \h1B, \h5B, \h7B, \h3B, \hEB, \hE8,
               \hCA, \hC8, \h88} -> Transfers(s, op)
    [] op \in {\h48, \hDA, \h5A, \h08, \h8B, \h4B, \h0B, \h62, \hD4, \hF4} -> Pushes(s, op)
    [] op \in {\h68, \hFA, \h7A, \h28, \hAB, \h2B} -> Pops(s, op)
    [] op \in {\hC2, \hE2, \h18, \h38, \h58, \h78, \hD8, \hF8, \hB8} -> FlagOps(s, op)
    [] op = \hEA -> s
    [] op = \h42 -> Skip(s, 1)
    [] op = \hCB -> [s EXCEPT !.waiting = TRUE]
    [] op = \hDB -> [s EXCEPT !.stopped = TRUE]

SettledStack(s) ==     \* a mutant: the index registers keep their high bytes
  IF s.emulation THEN [s EXCEPT !.p = @ \cup {"M", "X"}, !.sp = 256 + (@ % 256)] ELSE s
\* Behind the switch: emulation keeps its widths and its stack, X its bytes.
Settled(s) ==
  LET t == IF s.emulation THEN [s EXCEPT !.p = @ \cup {"M", "X"}, !.sp = 256 + (@ % 256)] ELSE s
  IN IF X8(t) THEN [t EXCEPT !.x = @ % 256, !.y = @ % 256] ELSE t

RunOne(s) == Settled(Exec(Skip(s, 1), Op8(s)))
=============================================================================
