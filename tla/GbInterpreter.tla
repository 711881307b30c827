----------------------------- MODULE GbInterpreter -----------------------------
(***************************************************************************)
(* Gameboy::runOpcode as runEmul drives it: a batch runs opcodes with the  *)
(* stack pointer, the flags and the program counter in locals until its    *)
(* cycles are used up, something sets cyclesToExecute to -1, or the        *)
(* processor halts; then the locals are written back, the devices are      *)
(* brought up to date and may request an interrupt, and before that is     *)
(* served one more opcode runs.                                            *)
(***************************************************************************)
EXTENDS GbOpcodes

CONSTANTS Starts,        \* the processor states a program may start in
          Batches,       \* what cyclesToEvent may be at the top of the loop
          Requests,      \* the interrupts devices may request
          MaxRequests    \* how many requests a behaviour holds

VARIABLES cpu,       \* the processor state of GbOpcodes
          phase,     \* where runEmul is: event, batch, between, check, lastOp, irq
          first,     \* the state the program started in
          asked,     \* requests so far
          served     \* interrupts served so far, per number
vars == <<cpu, phase, first, asked, served>>

Init == /\ cpu \in Starts
        /\ first = cpu
        /\ phase = "event"
        /\ asked = 0
        /\ served = [i \in 0..4 |-> 0]

\* The entry of runOpcode: the registers are loaded into its locals.
Enter(s, n) == [s EXCEPT !.t = 0, !.quota = n]

\* The label end: HALT is put back, and the locals are written back.
PutHaltBack(s) == IF s.bug = NoAddr THEN s
                  ELSE [s EXCEPT !.mem = (s.bug :> \h76) @@ @, !.bug = NoAddr]
LeaveUnmasked(s) == PutHaltBack(s)
Leave(s) == [PutHaltBack(s) EXCEPT !.sp = @ % 65536, !.pc = @ % 65536]

Begin(n) == /\ phase = "event" /\ cpu.halt = 0
            /\ cpu' = Enter(cpu, n)
            /\ phase' = "batch"
            /\ UNCHANGED <<first, asked, served>>

Halted == /\ phase = "event" /\ cpu.halt # 0
          /\ phase' = "between"
          /\ UNCHANGED <<cpu, first, asked, served>>

Over == cpu.t >= cpu.quota \/ cpu.halt # 0

Opcode == /\ phase \in {"batch", "lastOp"} /\ ~Over
          /\ cpu' = RunOne(cpu)
          /\ UNCHANGED <<phase, first, asked, served>>

End == /\ phase \in {"batch", "lastOp"} /\ Over
       /\ cpu' = Leave(cpu)
       /\ phase' = IF phase = "batch" THEN "between" ELSE "irq"
       /\ UNCHANGED <<first, asked, served>>

\* Timers, LCD, sound and the link are brought up to date: requestInterrupt.
DeviceRequests(i) ==
  /\ phase = "between" /\ asked < MaxRequests
  /\ cpu' = [cpu EXCEPT !.mem = (IF_ :> Byte(cpu, IF_) | 2^i) @@ @]
  /\ asked' = asked + 1
  /\ UNCHANGED <<phase, first, served>>

DevicesDone == /\ phase = "between"
               /\ phase' = "check"
               /\ UNCHANGED <<cpu, first, asked, served>>

\* "if (interruptTriggered)": one more opcode, unless the batch itself raised it.
Check ==
  /\ phase = "check"
  /\ LET more == Pending(cpu) # 0 /\ cpu.halt = 0 /\ cpu.quota # -1
     IN /\ cpu' = IF more THEN Enter(cpu, 4) ELSE cpu
        /\ phase' = CASE more -> "lastOp"
                      [] Pending(cpu) # 0 /\ ~more -> "irq"
                      [] Pending(cpu) = 0 -> "event"
  /\ UNCHANGED <<first, asked, served>>

HandleInterrupts ==
  /\ phase = "irq"
  /\ cpu' = IF Pending(cpu) # 0 THEN Serve(cpu) ELSE cpu
  /\ served' = [i \in 0..4 |-> served[i] + (IF Bit(Byte(cpu, IF_), i) > Bit(Byte(cpu', IF_), i) THEN 1 ELSE 0)]
  /\ phase' = "event"
  /\ UNCHANGED <<first, asked>>

Next == \/ \E n \in Batches : Begin(n)
        \/ Halted \/ Opcode \/ End
        \/ \E i \in Requests : DeviceRequests(i)
        \/ DevicesDone \/ Check \/ HandleInterrupts

Spec == Init /\ [][Next]_vars
-----------------------------------------------------------------------------

(* Between batches the registers have their widths, no HALT is overwritten,  *)
(* and a batch that has stopped on HALT or STOP says so (the registers       *)
(* runOpcode writes back at its label end).                                  *)
TypeOK ==
  /\ \A n \in DOMAIN cpu.r : cpu.r[n] \in 0..255
  /\ cpu.f \subseteq {"Z", "N", "H", "C"}
  /\ \A a \in DOMAIN cpu.mem : cpu.mem[a] \in 0..255
  /\ cpu.ime \in BOOLEAN /\ cpu.halt \in 0..2
  /\ phase \in {"event", "batch", "between", "check", "lastOp", "irq"}
  /\ phase \notin {"batch", "lastOp"} => /\ cpu.sp \in 0..65535 /\ cpu.pc \in 0..65535
                                         /\ cpu.bug = NoAddr

(* However the opcodes are cut into batches, with registers in locals and    *)
(* the byte after HALT written over it, the program sees a processor that    *)
(* runs one instruction after another (runOpcode, runEmul's loop).           *)
BugPending == cpu.bug # NoAddr /\ ~Over
Architectural ==
  LET s == PutHaltBack(cpu)
  IN [r |-> s.r, f |-> s.f, sp |-> s.sp % 65536,
      pc |-> (IF BugPending THEN s.pc + 1 ELSE s.pc) % 65536,
      mem |-> s.mem, ime |-> s.ime, halt |-> s.halt, twice |-> BugPending]
Processor == INSTANCE GbProcessor WITH cpu <- Architectural
ImplementsProcessor == Processor!Spec

-----------------------------------------------------------------------------
(* Programs that compute something and stop (0x10) tell how they ended.      *)
Stopped == cpu.halt = 2 /\ phase = "event"
OpAt(k) == Byte(first, first.pc + k)
FirstCarry == Carry(first)

\* A ripple-carry adder over eight bits: the carry out of bit k.
CarryOut(x, y, c) ==
  LET out[k \in -1..7] == IF k = -1 THEN c
                          ELSE IF Bit(x, k) + Bit(y, k) + out[k - 1] > 1 THEN 1 ELSE 0
  IN out
Ripple(x, y, c) == LET sum(k) == (Bit(x, k) + Bit(y, k) + CarryOut(x, y, c)[k - 1]) % 2
                   IN sum(0) + 2 * sum(1) + 4 * sum(2) + 8 * sum(3) + 16 * sum(4)
                      + 32 * sum(5) + 64 * sum(6) + 128 * sum(7)

(* ADD, ADC, SUB, SBC and CP of every operand give what an adder made of     *)
(* gates gives: the sum, the carry out of bit 3 as H and out of bit 7 as C,  *)
(* a subtraction being the addition of the complement (gbcpu.cpp 482-706,    *)
(* 783-853: the carry and half carry are compared, not added, in the code).  *)
RippleAgrees ==
  LET row == (OpAt(0) \div 8) % 8
      minus == row \in {2, 3, 7}
      c == IF row \in {1, 3} THEN FirstCarry ELSE 0
      x == first.r.a
      y == IF minus THEN 255 - OpAt(1) ELSE OpAt(1)
      cin == IF minus THEN 1 - c ELSE c
      carries == CarryOut(x, y, cin)
      up(k) == (carries[k] = 1) # minus
  IN Stopped /\ OpAt(0) \in {\hC6, \hCE, \hD6, \hDE, \hFE} /\ OpAt(2) = \h10
     => /\ cpu.r.a = IF row = 7 THEN x ELSE Ripple(x, y, cin)
        /\ cpu.f = Flags(Ripple(x, y, cin) = 0, minus, up(3), up(7))

Decimal(v) == 10 * (v \div 16) + (v % 16)

(* ADD, ADC, SUB or SBC of two numbers in decimal digits and DAA after it    *)
(* give the decimal result and its carry (DAA, gbcpu.cpp 1010-1045).         *)
DecimalAdjusted ==
  LET op == OpAt(0)
      c == IF op \in {\hCE, \hDE} THEN FirstCarry ELSE 0
      sum == IF op \in {\hC6, \hCE} THEN Decimal(first.r.a) + Decimal(OpAt(1)) + c
             ELSE Decimal(first.r.a) - Decimal(OpAt(1)) - c
  IN Stopped /\ op \in {\hC6, \hCE, \hD6, \hDE} /\ OpAt(2) = \h27
     => /\ cpu.r.a \in {16 * d + u : d \in 0..9, u \in 0..9}
        /\ Decimal(cpu.r.a) = sum % 100
        /\ ("C" \in cpu.f) <=> sum \notin 0..99

(* Registers keep their width, and sums are right, binary and decimal.        *)
ArithmeticRight == TypeOK /\ RippleAgrees /\ DecimalAdjusted

(* A program that adds 3, 2 and 1 in a loop, with pushes and pops, while     *)
(* handlers that save what they use run at any opcode, ends as it does       *)
(* without them: the sum in A, the stack where it was, and the handler's     *)
(* counter at one per interrupt served (handleInterrupts, PUSH, POP, RETI).  *)
InterruptsInvisible ==
  Stopped /\ OpAt(0) = \hFB
  => /\ cpu.r.a = 6 /\ cpu.r.b = 0 /\ cpu.sp = first.sp
     /\ Byte(cpu, \hC000) = served[1]
=============================================================================
