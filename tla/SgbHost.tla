-------------------------------- MODULE SgbHost --------------------------------
(***************************************************************************)
(* The Super Game Boy's host as the emulator drives it (sgb_host.cpp):     *)
(* JUMP starts a program and runs it at once, every frame requests an NMI  *)
(* and runs the program for a while, and a state may be saved and loaded   *)
(* between two runs.  The budgets of the code, 4096 and 8192 instructions, *)
(* are the small sets JumpBudgets and FrameBudgets here: a run may end     *)
(* behind any instruction.                                                 *)
(***************************************************************************)
EXTENDS Sgb65816

CONSTANTS Starts,         \* the host's state before the JUMP of each behaviour
          NmiHandler,     \* the NMI address that JUMP hands over; 0 for none
          Entry,          \* the address JUMP starts at
          JumpBudgets, FrameBudgets,
          MaxFrames(_),   \* frames in a behaviour, by the state it starts in
          MaxJumps        \* JUMP commands in a behaviour

VARIABLES cpu,        \* SgbHostCpu::cpu and the memory
          nmiPending,
          budget,     \* instructions the run under way may still execute
          first,      \* the state at the start
          frames,     \* frames so far
          jumps,      \* JUMPs that led to this state
          nmis,       \* NMIs taken since the last JUMP
          saved       \* the state in the file, or the empty sequence
vars == <<cpu, nmiPending, budget, first, frames, jumps, nmis, saved>>

Init == /\ cpu \in Starts
        /\ first = cpu
        /\ nmiPending = FALSE
        /\ budget = 0 /\ frames = 0 /\ jumps = 0 /\ nmis = 0
        /\ saved = << >>

Idle == budget = 0
Running == budget > 0

Jump(b) ==
  /\ Idle /\ jumps < MaxJumps
  /\ cpu' = [JumpTo(cpu, Entry) EXCEPT !.nmiVector = NmiHandler, !.waiting = FALSE,
                                       !.stopped = FALSE, !.faulted = FALSE]
  /\ budget' = b
  /\ jumps' = jumps + 1
  /\ nmis' = 0
  /\ UNCHANGED <<nmiPending, first, frames, saved>>

RunFrame(b) ==
  /\ Idle /\ frames < MaxFrames(first)
  /\ ~cpu.stopped
  /\ nmiPending' = TRUE
  /\ budget' = b
  /\ frames' = frames + 1
  /\ UNCHANGED <<cpu, first, jumps, nmis, saved>>

\* One turn of run's loop: the NMI first, then an instruction, unless it waits.
TakesNmi == nmiPending /\ cpu.nmiVector # 0
Turn ==
  /\ Running /\ ~cpu.stopped /\ ~cpu.faulted
  /\ LET s == IF TakesNmi THEN Nmi(cpu) ELSE cpu
     IN /\ cpu' = IF s.waiting THEN s ELSE RunOne(s)
        /\ budget' = IF s.waiting THEN 0 ELSE budget - 1
  /\ nmiPending' = (nmiPending /\ ~TakesNmi)
  /\ nmis' = IF TakesNmi THEN nmis + 1 ELSE nmis
  /\ UNCHANGED <<first, frames, jumps, saved>>

Ends == /\ Running /\ (cpu.stopped \/ cpu.faulted)
        /\ budget' = 0
        /\ UNCHANGED <<cpu, nmiPending, first, frames, jumps, nmis, saved>>

\* saveState writes every field of the processor and the memories; what is
\* pending is not among them, and loadState leaves it as it is.
SaveState == /\ Idle
             /\ saved = << >> /\ MaxFrames(first) > 0
             /\ saved' = <<[core |-> cpu, jumps |-> jumps, nmis |-> nmis]>>
             /\ UNCHANGED <<cpu, nmiPending, budget, first, frames, jumps, nmis>>
LoadState == /\ Idle /\ saved # << >>
             /\ cpu' = saved[1].core
             /\ jumps' = saved[1].jumps
             /\ nmis' = saved[1].nmis
             /\ UNCHANGED <<nmiPending, budget, first, frames, saved>>

Next == \/ \E b \in JumpBudgets : Jump(b)
        \/ \E b \in FrameBudgets : RunFrame(b)
        \/ Turn \/ Ends
        \/ SaveState \/ LoadState

Spec == Init /\ [][Next]_vars
-----------------------------------------------------------------------------

(* Between two instructions the registers have the widths that the flags     *)
(* say: emulation has its flags and its stack page, 8-bit index registers    *)
(* have no high byte (the checks behind run's switch), whatever XCE, PLP,    *)
(* RTI, SEP, a transfer or a block move did.                                 *)
TypeOK ==
  /\ cpu.a \in 0..65535 /\ cpu.d \in 0..65535 /\ cpu.pc \in 0..65535
  /\ cpu.pbr \in 0..255 /\ cpu.dbr \in 0..255
  /\ cpu.p \subseteq DOMAIN FlagBit
  /\ cpu.emulation => cpu.sp \in 256..511 /\ {"M", "X"} \subseteq cpu.p
  /\ cpu.sp \in 0..65535
  /\ cpu.x \in 0..(Size(X8(cpu)) - 1) /\ cpu.y \in 0..(Size(X8(cpu)) - 1)
  /\ \A a \in DOMAIN cpu.mem : cpu.mem[a] \in 0..255

\* A program ends with STP; what it computed depends on its first byte.
Done == cpu.stopped /\ jumps = 1
Code(k) == Read8(first, Entry + k)

(* A program that moves a block and adds up what it moved ends with the same *)
(* sum and stack whatever instruction the frames and their NMIs fell behind, *)
(* states were saved and loaded at, and however many instructions a run got; *)
(* the handler's counter tells every NMI that was taken (NMI entry and RTI,  *)
(* MVN going back to itself, WAI).                                           *)
NmiInvisible ==
  Done /\ Code(0) = \h18
  => /\ cpu.a = 6 /\ cpu.sp = first.sp /\ cpu.pbr = 0
     /\ ~cpu.emulation /\ "M" \notin cpu.p
     /\ Read8(cpu, \h90) = nmis

Decimal(v) == (v % 16) + 10 * ((v \div 16) % 16) + 100 * ((v \div 256) % 16) + 1000 * (v \div 4096)
(* ADC and SBC in decimal mode are the sums of decimals, in 8 and 16 bits,   *)
(* with carry and borrow (arithmetic's loop over the digits).                *)
DecimalRight ==
  LET w == IF M8(first) THEN 100 ELSE 10000
      left == Decimal(Low(first))
      right == Decimal(Imm([first EXCEPT !.pc = Entry + 1], M8(first)))
      adds == Code(0) = \h69
      sum == IF adds THEN left + right + C(first) ELSE left - right - (1 - C(first))
  IN Done /\ Code(0) \in {\h69, \hE9} /\ "D" \in first.p
     => /\ Decimal(Low(cpu)) = sum % w
        /\ C(cpu) = 1 <=> IF adds THEN sum >= w ELSE sum >= 0
=============================================================================
