------------------------------ MODULE LinkCable ------------------------------
(***************************************************************************)
(* Two Game Boys of one program joined by a link cable: mgr_runFrame       *)
(* (gbmanager.cpp) lets one of them run at a time, inside runEmul          *)
(* (gameboy.cpp), and the serial port is what makes it hand over to the    *)
(* other.  Time is counted in machine cycles of a few cycles each; a batch *)
(* of opcodes may overshoot its quota by less than one opcode.             *)
(***************************************************************************)
EXTENDS Integers

CONSTANTS SerialCycles,   \* SERIAL_CYCLES, and what one byte takes (clockSpeed / 1024)
          FrameCycles,    \* CYCLES_PER_FRAME
          LongOp,         \* the longest opcode
          Service,        \* what handleInterrupts takes
          Late            \* what an interrupt's opcode and service together may take

\* A byte, a frame, an opcode and an interrupt take time.
ASSUME CyclesAssumption ==
  /\ SerialCycles \in Nat \ {0} /\ FrameCycles \in Nat \ {0}
  /\ LongOp \in Nat \ {0} /\ Service \in Nat \ {0} /\ Late \subseteq 0..(LongOp + Service)

GBs == {"A", "B"}
Peer(g) == IF g = "A" THEN "B" ELSE "A"
Host == "A"               \* hostGb, and gbUno when the link starts
Nobody == "nobody"
Floating == "ff"          \* what a Game Boy reads when no one answers
Never == -1

VARIABLES gb,       \* cc cycleCount, sb, sc, serial serialCounter, at cycleToSerialTransfer,
                    \* lcd cycles to VBlank, extra extraCycles
          uno,      \* gbUno
          running,  \* the Game Boy inside runEmul
          quota,    \* its cyclesToEvent
          frame,    \* "run" inside mgr_runFrame
          modes     \* what the program of each ever writes to SC
cableVars == <<gb, uno, running, quota, frame, modes>>

Least(x, y) == IF x < y THEN x ELSE y
Most(x, y) == IF x < y THEN y ELSE x
duo == Peer(uno)
Waiting(s, g) == s[g].sc = "external"
Clocking(s, g) == s[g].sc = "internal"

CableInit ==
  /\ gb = [g \in GBs |-> [cc |-> 0, sb |-> Floating, sc |-> "off", serial |-> 0,
                          at |-> Never, lcd |-> FrameCycles, extra |-> 0]]
  /\ uno = Host /\ running = Nobody /\ quota = 0 /\ frame = "run"
  /\ modes \in {[g \in GBs |-> {"internal", "external"}],
                [g \in GBs |-> IF g = Host THEN {"internal", "off"} ELSE {"external", "off"}]}

(* ------------------------------ the scheduler --------------------------- *)
RunsFirstStrict(u) == IF gb[u].cc < gb[Peer(u)].cc THEN u ELSE Peer(u)
RunsFirst(u) == IF gb[u].cc <= gb[Peer(u)].cc THEN u ELSE Peer(u)

\* One turn of the loop of mgr_runFrame: a waiting gbUno changes places.
Pick == /\ frame = "run" /\ running = Nobody
        /\ uno' = IF Waiting(gb, uno) THEN duo ELSE uno
        /\ running' = RunsFirst(uno')
        /\ quota' = 0
        /\ UNCHANGED <<gb, frame, modes>>

\* The end of a frame takes the time both have passed off all clocks.
RebasedClocks(s) == LET m == Least(s["A"].cc, s["B"].cc) IN [g \in GBs |-> [s[g] EXCEPT !.cc = @ - m]]
Rebased(s) ==
  LET m == Least(s["A"].cc, s["B"].cc)
  IN [g \in GBs |-> [s[g] EXCEPT !.cc = @ - m, !.at = IF @ = Never THEN Never ELSE @ - m]]

EndFrame == /\ frame = "over"
            /\ gb' = Rebased(gb)
            /\ frame' = "run"
            /\ UNCHANGED <<uno, running, quota, modes>>

(* ----------------------------- the serial port -------------------------- *)
\* A program puts its byte in SB and writes SC.  A counter that is still
\* running is not started again.
WriteSC(s, g, mode) ==
  [s EXCEPT ![g].sb = g, ![g].sc = mode,
            ![g].serial = IF mode # "internal" THEN 0 ELSE IF @ = 0 THEN SerialCycles ELSE @]

\* cyclesToExecute after the write: never more than before.
Shortened(s, g, mode, most) ==
  CASE mode = "internal" -> Least(most, WriteSC(s, g, mode)[g].serial)
    [] mode = "external" /\ (uno = g \/ Waiting(s, Peer(g))) ->
         Least(most, Most(0, s[Peer(g)].cc - s[g].cc))
    [] OTHER -> most

Elapse(s, g, n) == [s EXCEPT ![g].cc = @ + n, ![g].lcd = @ - n, ![g].extra = 0]

Reached(s, g) == s[g].at # Never /\ s[g].cc >= s[g].at

\* The Game Boy that did not clock arrives at the cycle the other stopped at.
Meet(s, g) ==
  LET p == Peer(g)
  IN IF ~Reached(s, g) THEN s
     ELSE [s EXCEPT ![g].at = Never,
                    ![g].sb = IF Waiting(s, g) THEN s[p].sb ELSE @,
                    ![p].sb = IF Waiting(s, g) THEN s[g].sb ELSE Floating,
                    ![g].sc = "off", ![p].sc = "off"]

Expires(s, g, n) == s[g].serial \in 1..n
TooLate(s, g) == s[Peer(g)].cc >= s[g].cc

\* The Game Boy that clocks has sent its byte: the other is behind and will
\* meet it there, or is ahead already and the byte is lost.
Clock(s, g, n) ==
  LET p == Peer(g) IN
  IF ~Expires(s, g, n) THEN [s EXCEPT ![g].serial = Most(0, @ - n)]
  ELSE IF TooLate(s, g) THEN [s EXCEPT ![g].serial = 0, ![g].sb = Floating, ![g].sc = "off"]
  ELSE [s EXCEPT ![g].serial = 0, ![p].at = s[g].cc]

BothWait(s) == \A g \in GBs : Waiting(s, g)
\* How far g may run on before the other has to.
LeashOfBothOnly(s, g) == IF BothWait(s) THEN s[Peer(g)].cc + SerialCycles - s[g].cc ELSE FrameCycles
Leash(s, g) == IF BothWait(s) THEN s[Peer(g)].cc + SerialCycles - s[g].cc
               ELSE IF g = duo THEN s[Peer(g)].cc - s[g].cc
               ELSE FrameCycles

(* ------------------------- one turn of runEmul -------------------------- *)
\* If a turn ends with an interrupt, serial or of another device, one more opcode
\* runs, which may be the one that writes SC, and the interrupt is served; their
\* cycles pass in the next turn.
LateOpcode(s, g, more) ==
  {s} \cup IF more > 0 THEN {WriteSC(s, g, mode) : mode \in modes[g]} ELSE {}

\* n cycles pass over the two Game Boys as s has them: they may meet, and g may
\* have sent its byte.
TurnEnds(g, s, n, ran, met, sent) ==
  LET linked == \/ Reached(ran, g) /\ Waiting(s, g)
                \/ Expires(met, g, n) /\ ~TooLate(met, g)
                \/ Leash(sent, g) <= 0
      vblank == sent[g].lcd <= 0
      events == {Leash(sent, g), sent[g].lcd}
                \cup (IF sent[g].at = Never THEN {} ELSE {sent[g].at - sent[g].cc})
                \cup (IF sent[g].serial = 0 THEN {} ELSE {sent[g].serial})
  IN /\ \E more \in Late : \E s2 \in LateOpcode(sent, g, more) :
          gb' = [s2 EXCEPT ![g].extra = more, ![g].lcd = IF vblank THEN @ + FrameCycles ELSE @]
     /\ running' = IF linked \/ vblank THEN Nobody ELSE g
     /\ quota' = IF linked \/ vblank THEN 0 ELSE CHOOSE e \in events : \A f \in events : e <= f
     /\ frame' = IF vblank /\ g = Host THEN "over" ELSE "run"
     /\ UNCHANGED <<uno, modes>>

\* n cycles have passed and the program wrote SC as s says.
Turn(g, s, n) ==
  \E ran \in {Elapse(s, g, n)} : \E met \in {Meet(ran, g)} : \E sent \in {Clock(met, g, n)} :
    TurnEnds(g, s, n, ran, met, sent)

Left(g) == quota - gb[g].extra
Halt(g) == running = g /\ Turn(g, gb, quota)
Execute(g) ==
  /\ running = g
  /\ IF Left(g) <= 0 THEN Turn(g, gb, gb[g].extra)
     ELSE \E over \in 0..(LongOp - 1) : Turn(g, gb, quota + over)
\* After the write the batch ends as it says, and the write may come as late as
\* the batch's last opcode.
ExecuteAndWrite(g) ==
  /\ running = g /\ Left(g) > 0
  /\ \E mode \in modes[g] :
       \E t \in Most(1, Shortened(gb, g, mode, Left(g)))..(Left(g) + LongOp - 1) :
         Turn(g, WriteSC(gb, g, mode), t + gb[g].extra)

Emulate(g) == Halt(g) \/ Execute(g) \/ ExecuteAndWrite(g)
CableNext == Pick \/ EndFrame \/ \E g \in GBs : Emulate(g)
\* The main loop calls mgr_runFrame for ever, and nothing in it waits.
CableSpec == CableInit /\ [][CableNext]_cableVars /\ WF_cableVars(CableNext)

CableTypeOK ==
  /\ gb \in [GBs -> [cc : Nat, sb : GBs \cup {Floating}, sc : {"off", "external", "internal"},
                     serial : 0..SerialCycles, at : Nat \cup {Never},
                     lcd : Int, extra : 0..(LongOp + Service)]]
  /\ uno \in GBs /\ running \in GBs \cup {Nobody} /\ frame \in {"run", "over"}
  /\ quota \in 0..FrameCycles

\* A call of mgr_runFrame ends, whatever clocks the two programs choose.
FrameEnds == frame = "run" ~> frame = "over"

\* A Game Boy that has sent its byte stands still until the other meets it.
StandsStill == CableTypeOK /\ \A g \in GBs : gb[g].at # Never => gb[g].at = gb[Peer(g)].cc /\ gb[g].cc < gb[g].at

\* One program only clocks, as gbUno, and the other only waits.
FixedRoles == "external" \notin modes[Host] /\ "internal" \notin modes[Peer(Host)]

\* The byte gbUno has sent at this cycle is lost if gbDuo is past it (TooLate).
\* While gbUno clocks and gbDuo waits, that is only because gbDuo could not stop
\* in the middle of an opcode, or before an interrupt was served: it is ahead by
\* no more than the longest opcode and the service take.
LosesByAnOpcode ==
  FixedRoles /\ TooLate(gb, Host) => gb[Peer(Host)].cc <= gb[Host].cc + LongOp + Service
=============================================================================
