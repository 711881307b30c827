---------------------------- MODULE MCGbInterpreter ----------------------------
EXTENDS GbInterpreter

Regs(a, b) == [a |-> a, b |-> b, c |-> \h9A, d |-> \h0F, e |-> \hF0, h |-> \hC1, l |-> \h02]
Placed(code, at) == [x \in at..(at + Len(code) - 1) |-> code[x - at + 1]]
Handlers == Placed(<<\hF5, \hE5, \h21, \h00, \hC0, \h34, \hAF, \hE1, \hF1, \hD9>>, \h48)
         @@ Placed(<<\hC5, \h01, \h34, \h12, \hC1, \hD9>>, \h58)
Start(code, r, f, ime, mem) ==
  [r |-> r, f |-> f, sp |-> \hDFF0, pc |-> \h150, ime |-> ime, halt |-> 0,
   mem |-> mem @@ Placed(code, \h150) @@ ((IF_ :> 0) @@ (IE_ :> 0)),
   t |-> 0, quota |-> 0, bug |-> NoAddr]
Flat == [a \in {} |-> 0]

Operands == {0, 1, 7, 8, 15, 16, 127, 128, 240, 255}
Digits == {16 * d + u : d, u \in {0, 4, 5, 9}}
Carries == {{}, {"C"}}

Sums == {Start(<<op, v, \h10>>, Regs(a, 0), f, FALSE, Flat) :
           op \in {\hC6, \hCE, \hD6, \hDE, \hFE}, v \in Operands, a \in Operands, f \in Carries}
Decimals == {Start(<<op, v, \h27, \h10>>, Regs(a, 0), f, FALSE, Flat) :
               op \in {\hC6, \hCE, \hD6, \hDE}, v \in Digits, a \in Digits, f \in Carries}
\* Every opcode and every opcode after 0xCB, over two register files.
Data == (\hC102 :> \h81) @@ (\hDFF0 :> \h34) @@ (\hDFF1 :> \h02)
Every == {Start(<<op, v, \hC1, 0>>, Regs(a, \hC1), f, FALSE, Data) :
            op \in 0..255, v \in {\h02, \h98}, a \in {\h0F, \h80}, f \in {{}, {"Z", "C"}}}
Prefix == {Start(<<\hCB, op, 0, 0>>, Regs(a, \h01), f, FALSE, Data) :
             op \in 0..255, a \in {\h00, \h81}, f \in Carries}
\* HALT with interrupts off, before an opcode with an operand, a jump and a HALT.
Bugs == {Start(<<\h76>> \o code, Regs(1, 2), {}, FALSE, Data) :
           code \in {<<\h06, \h04, \h10>>, <<\h18, \h01, 0, \h10>>, <<\h76, \h3C, \h10>>, <<\hFB, \h10>>}}
Loop == {Start(<<\hFB, \h06, \h03, \hAF, \h80, \hC5, \hC1, \h05, \h20, \hFA, \hF3, \h10>>, Regs(9, 9), {},
               FALSE, (IE_ :> ie) @@ Handlers) : ie \in {2, 10}}
\* The stack pointer wraps inside a batch.
Wraps == {[Start(<<\h33, \h33, \hF8, \h02, \h10>>, Regs(1, 2), {}, FALSE, Flat) EXCEPT !.sp = 65535]}
\* HALT waits for the interrupt that IE lets through.
Waits == {Start(<<0, \hFB, \h76, \h3C, \h76, \h10>>, Regs(9, 9), {}, FALSE, (IE_ :> 2) @@ Handlers)}

MCStarts == Sums \cup Decimals \cup Every \cup Prefix \cup Bugs \cup Loop \cup Wraps \cup Waits
\* The programs of Every run on into zeroes: they are followed for two opcodes,
\* the others until a request wakes them after their end.
\* Requests that IE masks are followed in the programs with handlers only.
Bounded == /\ \/ phase # "event"
              \/ cpu.pc \in IF Byte(first, IE_) # 0 THEN \h48..\h160 ELSE \h150..\h156
           /\ Byte(first, IE_) # 0 \/ asked = 0
=============================================================================
