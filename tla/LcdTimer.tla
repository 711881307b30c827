------------------------------- MODULE LcdTimer -------------------------------
(***************************************************************************)
(* The clocks of a Game Boy between two batches of opcodes: the LCD        *)
(* controller (updateLCD, checkLYC), the timer (updateTimers) and the      *)
(* frame that goes on while the LCD is off (gameboy.cpp).  The processor   *)
(* runs a batch of quota cycles, in which it may write any registers.  It  *)
(* overshoots it by an opcode or two (the last one, and the one that runs  *)
(* before an interrupt, extraCycles) or ends it early, for an interrupt, a *)
(* HALT or an event of another device.  Then the clocks catch up with all  *)
(* of it at once.                                                          *)
(***************************************************************************)
EXTENDS Integers, FiniteSets, FiniteSetsExt, Functions

CONSTANTS ScanTime, DrawTime, HBlankTime,       \* cycles of modes 2, 3 and 0
          Visible, LastLine,       \* 144 and 153
          Periods, TimaTop,        \* timerPeriods, 0xff
          MaxWait,                 \* the longest batch (the sound asks for an event within 10000 cycles)
          Over,                    \* how far a batch overshoots at most
          MaxOwed                  \* a bound for cycles to the timer's next clock

Line == ScanTime + DrawTime + HBlankTime
Frame == Line * (LastLine + 1)

ASSUME ClockAssumption ==
  /\ ScanTime \in Nat \ {0} /\ DrawTime \in Nat \ {0} /\ HBlankTime \in Nat \ {0}
  /\ Visible \in Nat \ {0} /\ LastLine \in Nat /\ Visible < LastLine
  /\ Periods # {} /\ IsFiniteSet(Periods) /\ Periods \subseteq Nat \ {0} /\ TimaTop \in Nat \ {0}
  /\ Over \in Nat /\ MaxOwed \in Nat /\ MaxWait \in Nat \ {0} /\ MaxWait + Over <= Frame

VARIABLES lcd,      \* on, ly, mode, dots scanlineCounter, phase phaseCounter, lyc, match (STAT bit 2)
          timer,    \* on, tima, tma, period, left timerCounter, irqs overflows so far
          quota,    \* cyclesToEvent
          written,  \* history: what was written to in this batch, LCD or timer
          counted,  \* history: cycles since the LCD's lines began to be counted
          exact     \* history: a timer that counts every cycle
clockVars == <<lcd, timer, quota, written, counted, exact>>

(* --------------------------------- the LCD ------------------------------ *)
CheckLYC(l) == [l EXCEPT !.match = l.ly = l.lyc]

Off(l, n) ==
  LET p == l.phase - n
  IN [l EXCEPT !.dots = Line, !.ly = 0, !.mode = 0, !.match = FALSE,
               !.phase = IF p <= 0 THEN p + Frame ELSE p]

\* Line 0 begins while the mode still says VBlank: half of it is line 153.
NextLcdLine(l) ==
  LET y == l.ly + 1
      up == IF y = LastLine THEN [l EXCEPT !.ly = 0, !.dots = @ + Line]
            ELSE IF y < Visible THEN [l EXCEPT !.ly = y, !.mode = 2, !.dots = @ + ScanTime]
            ELSE [l EXCEPT !.ly = y, !.dots = @ + Line,
                           !.mode = IF y = Visible THEN 1 ELSE @]
  IN CheckLYC(up)

NextModeRestarted(l) ==
  CASE l.mode = 2 -> [l EXCEPT !.mode = 3, !.dots = DrawTime]
    [] l.mode = 3 -> [l EXCEPT !.mode = 0, !.dots = HBlankTime]
    [] l.mode = 1 /\ l.ly = 0 -> [l EXCEPT !.mode = 2, !.dots = ScanTime]
    [] OTHER -> NextLcdLine(l)
NextMode(l) ==
  CASE l.mode = 2 -> [l EXCEPT !.mode = 3, !.dots = @ + DrawTime]
    [] l.mode = 3 -> [l EXCEPT !.mode = 0, !.dots = @ + HBlankTime]
    [] l.mode = 1 /\ l.ly = 0 -> [l EXCEPT !.mode = 2, !.dots = @ + ScanTime]
    [] OTHER -> NextLcdLine(l)

Passed(l, n) == [l EXCEPT !.dots = @ - n]
\* updateLCD: at most one mode ends, however many cycles have passed.
UpdateLCD(l, n) == IF ~l.on THEN Off(l, n)
                   ELSE IF l.dots - n > 0 THEN Passed(l, n)
                   ELSE NextMode(Passed(l, n))
LcdEvents(l) == IF l.on THEN {l.dots} ELSE {}

(* -------------------------------- the timer ----------------------------- *)
UpdateTimers(t, n) ==
  LET left == t.left - n
      clocks == IF left > 0 THEN 0 ELSE (-left) \div t.period + 1
      sum == t.tima + clocks
  IN IF ~t.on THEN t
     ELSE [t EXCEPT !.left = left + t.period * clocks,
                    !.tima = IF sum > TimaTop THEN t.tma ELSE sum,
                    !.irqs = IF sum > TimaTop THEN 1 - @ ELSE @]
NoTimerEvents(t) == {}
TimerEvents(t) == IF t.on THEN {t.left + t.period * (TimaTop - t.tima)} ELSE {}

\* The reference: one cycle after another.
EveryCycle(t, n) ==
  LET after[i \in 0..n] == IF i = 0 THEN {t} ELSE {UpdateTimers(u, 1) : u \in after[i - 1]}
  IN CHOOSE u \in after[n] : TRUE
\* Cycles that were taken back are counted again before the next clock.
SetBack(t, n) == IF t.on THEN [t EXCEPT !.left = @ + n] ELSE t

(* ------------------------------ the program ----------------------------- *)
WriteRegister(l, t, reg, v) ==
  CASE reg = "LCDC" -> <<IF v = 1 THEN [l EXCEPT !.on = TRUE]
                         ELSE [l EXCEPT !.on = FALSE, !.ly = 0, !.mode = 0], t>>
    [] reg = "LYC"  -> <<CheckLYC([l EXCEPT !.lyc = v]), t>>
    [] reg = "TIMA" -> <<l, [t EXCEPT !.tima = v]>>
    [] reg = "TMA"  -> <<l, [t EXCEPT !.tma = v]>>
    [] reg = "TAC"  -> <<l, [t EXCEPT !.on = v # 0, !.period = IF v = 0 THEN @ ELSE v]>>
Values(reg) == CASE reg = "LCDC" -> {0, 1}
                 [] reg = "LYC" -> {1, LastLine}
                 [] reg = "TAC" -> {0} \cup Periods
                 [] OTHER -> {TimaTop - 1, TimaTop}
Registers == {"LCDC", "LYC", "TIMA", "TMA", "TAC"}

ClockInit ==
  /\ lcd = [on |-> TRUE, ly |-> 0, mode |-> 0, dots |-> Line, phase |-> Line * LastLine,
            lyc |-> 0, match |-> FALSE]
  /\ timer = [on |-> FALSE, tima |-> 0, tma |-> 0, period |-> Max(Periods), left |-> 0, irqs |-> 0]
  /\ quota = 0 /\ written = {} /\ counted = 0 /\ exact = timer

\* The clocks after n cycles of a batch.
CatchUp(n) ==
  /\ lcd' = UpdateLCD(lcd, n)
  /\ timer' = UpdateTimers(timer, n)
  /\ quota' = Min({MaxWait} \cup LcdEvents(lcd') \cup TimerEvents(timer'))
  /\ written' = {}
  /\ counted' = IF lcd.on THEN (counted + n) % Frame ELSE 0

\* How long a batch may take: there is nothing to run but an opcode that ran
\* before an interrupt where the LCD, switched on in a long batch, is behind.
Lengths == 0..((IF quota > 0 THEN quota ELSE 0) + Over)

Batch == \E n \in Lengths :
  /\ CatchUp(n)
  /\ exact' = IF "timer" \in written THEN timer' ELSE EveryCycle(exact, n)

\* A halted processor sleeps until the event, and back to one that is past.
SleepBack == /\ quota < 0 /\ written = {} /\ timer.left - quota <= MaxOwed
             /\ CatchUp(quota)
             /\ exact' = SetBack(exact, -quota)

\* A write does not end the batch: the clocks count all of it as if the
\* register had been so from the start.  An LCD that is off at the end of a
\* batch starts with a whole line; one that was switched off in this batch
\* with what was left of its mode, as if its line had begun as much earlier.
WriteClocks == \E reg \in Registers : \E v \in Values(reg) :
  /\ lcd' = WriteRegister(lcd, timer, reg, v)[1]
  /\ timer' = WriteRegister(lcd, timer, reg, v)[2]
  /\ written' = written \cup {IF reg \in {"LCDC", "LYC"} THEN "lcd" ELSE "timer"}
  /\ counted' = IF lcd'.on /\ ~lcd.on THEN (Line - lcd.dots) % Frame ELSE counted
  /\ exact' = IF reg \in {"LCDC", "LYC"} THEN exact ELSE timer'
  /\ UNCHANGED quota

ClockNext == Batch \/ SleepBack \/ WriteClocks
ClockSpec == ClockInit /\ [][ClockNext]_clockVars

(* ------------------------------- properties ----------------------------- *)
LcdTypeOK ==
  /\ lcd \in [on : BOOLEAN, ly : 0..(LastLine - 1), mode : 0..3, dots : Int, phase : 1..Frame,
              lyc : 0..LastLine, match : BOOLEAN]
  /\ timer \in [on : BOOLEAN, tima : 0..TimaTop, tma : 0..TimaTop, period : Periods,
                left : Int, irqs : 0..1]

\* The cycle of the frame at which the present mode of an LCD ends.
EndsAt(l) == LET y == IF l.mode = 1 /\ l.ly = 0 THEN LastLine ELSE l.ly
             IN y * Line + CASE l.mode = 2 -> ScanTime [] l.mode = 3 -> ScanTime + DrawTime
                             [] OTHER -> Line

\* Batches that end late or early never make the picture late: whatever was
\* overshot, each mode still ends at its own cycle of the frame, which begins
\* where the LCD is switched on: with the batch that did, and if it also
\* switched it off as much earlier as the mode then was old.
NoDrift == lcd.on => (counted + lcd.dots) % Frame = EndsAt(lcd) % Frame

\* In batches that leave the timer alone, TIMA and its interrupts are those
\* of a timer that counts every cycle, unless a batch can overshoot by a whole
\* period: the clocks between an overflow and the end of the batch are dropped.
TimerExact == timer.period > Over /\ "timer" \notin written => timer = exact

\* Once a line has ended since the LCD was switched on, STAT tells whether
\* this line is the one the program asked for.
MatchTold == lcd.on /\ lcd.ly # 0 => lcd.match = (lcd.ly = lcd.lyc)
\* The LCD keeps the time and tells the program the truth about its line.
LcdOnTime == LcdTypeOK /\ NoDrift /\ MatchTold

(* Every mode of the LCD ends at its cycle of the frame, the program is told *)
(* the truth about its line, and TIMA is that of a timer that counts every   *)
(* cycle, however far the batches overshoot, however early they end and      *)
(* however far a halted processor sets the clocks back (gameboy.cpp:451-461  *)
(* and 638-777).  Not so, and left out of it: an LCD switched off and on     *)
(* within a batch goes on with what was left of its mode, so that its first  *)
(* line is short, and only from there on keeps the time; a write to LCDC or  *)
(* the timer counts from the start of its batch; and a timer whose period is *)
(* no longer than an overshoot loses clocks.                                 *)
ClocksOnTime == LcdOnTime /\ TimerExact
=============================================================================
