------------------------------ MODULE GbProcessor ------------------------------
(***************************************************************************)
(* What a Game Boy program is promised: a processor that executes one      *)
(* instruction after another and takes an interrupt only between two of    *)
(* them.  There are no batches here, no registers kept in locals, and the  *)
(* HALT bug is what a programmer knows of it: the byte after HALT is       *)
(* fetched twice, because the program counter does not move on.            *)
(***************************************************************************)
EXTENDS GbOpcodes

VARIABLE cpu

Core(s, twice) == [r |-> s.r, f |-> s.f, sp |-> s.sp % 65536, pc |-> s.pc % 65536,
                   mem |-> s.mem, ime |-> s.ime, halt |-> s.halt, twice |-> twice]
Full(c) == [k \in DOMAIN c \ {"twice"} |-> c[k]] @@ [t |-> 0, quota |-> 0, bug |-> NoAddr]

\* A program may start in any state of a running processor.
Init == cpu.halt = 0 /\ ~cpu.twice

Fetched == Byte(cpu, cpu.pc)
AfterFetch == [cpu EXCEPT !.pc = IF cpu.twice THEN @ ELSE @ + 1]
BugNow == Fetched = \h76 /\ ~cpu.ime /\ ~CGB

Instruction ==
  /\ cpu.halt = 0
  /\ cpu' = IF BugNow THEN [AfterFetch EXCEPT !.twice = ~@]
            ELSE Core(Exec(Full(AfterFetch), Fetched), FALSE)

Interrupt == /\ ~cpu.twice /\ Pending(cpu) # 0
             /\ cpu' = Core(Serve(Full(cpu)), FALSE)

Request(i) == cpu' = [cpu EXCEPT !.mem = (IF_ :> Byte(cpu, IF_) | 2^i) @@ @]

Next == Instruction \/ Interrupt \/ \E i \in 0..4 : Request(i)
Spec == Init /\ [][Next]_cpu
=============================================================================
