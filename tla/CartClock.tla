------------------------------- MODULE CartClock -------------------------------
(***************************************************************************)
(* The real-time clocks of MBC3 and HuC3 cartridges (rtc.cpp and the clock *)
(* parts of mbc.cpp): the clock does not tick, it is brought up to the     *)
(* host's time, in seconds, whenever the game looks at it or changes it,   *)
(* and the save file keeps it over a power-off: as it was last saved, or,  *)
(* with autosave on, last written by the game.  The game has its save file *)
(* (SaveFile models one that has not).  The host's clock may also be set   *)
(* back; a game is then assumed to look at its clock soon.                 *)
(***************************************************************************)
EXTENDS Integers, FiniteSets

CONSTANTS Chips,         \* "MBC3", "HUC3"
          Steps,         \* seconds of the host between two accesses
          StepBack,      \* seconds the host's clock may be set back
          Written,       \* values a game writes to a clock register
          MaxAccesses    \* steps of a behaviour

\* Time passes forward, and a register is a byte.
ASSUME ConstantsAssumption == /\ Chips \subseteq {"MBC3", "HUC3"} /\ Steps \subseteq Nat
                              /\ StepBack \in Nat /\ Written \subseteq 0..255

VARIABLES chip,
          now,           \* getTime()
          clock,         \* gbClock
          latched,       \* rtcLatched
          latchState,    \* rtcLatchState
          huc3,          \* HuC3Shift and HuC3Value
          autosave,      \* autoSavingEnabled
          file,          \* the clock at the end of the save file
          lived,         \* history: seconds the clock should have counted, of its
                         \* wrap-around
          filed,          \* history: the same of the clock in the file
          unsaved,       \* history: a register was written and not saved since
          accesses
registers == <<latched, latchState, huc3>>
saved == <<file, filed, unsaved>>
vars == <<chip, now, clock, registers, autosave, saved, lived, accesses>>

Day == 86400
Registers == <<"s", "m", "h", "dLow", "ctrl">>
Wrap == IF chip = "MBC3" THEN 512 * Day ELSE 366 * Day
Halted(c) == (c.ctrl \div 64) % 2 = 1
\* Mutant: a register takes any value.
Unclamped(v, maximum) == v
Clamp(v, maximum) == IF v > maximum THEN maximum ELSE v

Init == /\ chip \in Chips
        /\ now = 1000000
        /\ clock = [last |-> now, s |-> 0, m |-> 0, h |-> 0, d |-> 0, ctrl |-> 0, y |-> 0, latch |-> << >>]
        /\ latched = FALSE /\ latchState = 0
        /\ huc3 = [shift |-> 0, value |-> 0]
        /\ autosave \in BOOLEAN /\ file = clock
        /\ lived = 0 /\ filed = 0 /\ unsaved = FALSE /\ accesses = 0

AdvanceMbc3(c, elapsed) ==
  IF Halted(c) THEN [c EXCEPT !.ctrl = (IF @ >= 192 THEN 192 ELSE 64) + (c.d \div 256)]
  ELSE LET total == c.s + 60 * c.m + 3600 * c.h + elapsed
           days == c.d + (total \div Day)
           carry == c.ctrl >= 128 \/ days > 511
       IN [c EXCEPT !.s = total % 60, !.m = (total \div 60) % 60, !.h = (total \div 3600) % 24,
                    !.d = days % 512,
                    !.ctrl = (IF carry THEN 128 ELSE 0) + ((days % 512) \div 256)]

AdvanceHuc3(c, elapsed) ==
  LET minutes == c.m + (elapsed \div 60)
      days == c.d + (minutes \div 1440)
  IN [c EXCEPT !.m = minutes % 1440, !.d = days % 365, !.y = @ + (days \div 365)]

\* Mutant: a halted clock keeps its old baseline and catches up when it runs.
UpdateRunning(c, time) ==
  IF c.last <= 0 \/ time < c.last THEN [c EXCEPT !.last = time]
  ELSE IF chip = "MBC3" /\ Halted(c) THEN c
  ELSE [(IF chip = "MBC3" THEN AdvanceMbc3(c, time - c.last) ELSE AdvanceHuc3(c, time - c.last))
        EXCEPT !.last = time]
UpdateClockFromHost(c, time) ==
  IF c.last <= 0 \/ time < c.last THEN [c EXCEPT !.last = time]
  ELSE [(IF chip = "MBC3" THEN AdvanceMbc3(c, time - c.last) ELSE AdvanceHuc3(c, time - c.last))
        EXCEPT !.last = time]
Updated == UpdateClockFromHost(clock, now)

Seconds(c) == IF chip = "MBC3" THEN c.s + 60 * c.m + 3600 * c.h + Day * c.d
              ELSE (60 * c.m + Day * c.d + 365 * Day * c.y) % Wrap
Accessed == accesses < MaxAccesses /\ accesses' = accesses + 1

Tick(dt) == /\ Accessed
            /\ now' = now + dt
            /\ lived' = IF chip = "MBC3" /\ Halted(clock) THEN lived ELSE (lived + dt) % Wrap
            /\ filed' = IF chip = "MBC3" /\ Halted(file) THEN filed ELSE (filed + dt) % Wrap
            /\ UNCHANGED <<chip, clock, registers, autosave, file, unsaved>>

\* The clock c goes to the file, and has then counted the given seconds.
SaveClock(c, seconds) == file' = c /\ filed' = seconds /\ unsaved' = FALSE

\* The host's clock is set back just behind an access and noticed at the next,
\* and not to 1970.
HostSetBack(dt) == /\ Accessed /\ clock.last = now /\ dt < now
                   /\ now' = now - dt
                   /\ clock' = UpdateClockFromHost(clock, now')
                   /\ SaveClock(clock', lived)           \* from the menu
                   /\ UNCHANGED <<chip, registers, autosave, lived>>

\* m3r: a latched clock is not brought up to date.
ReadRegister == /\ chip = "MBC3" /\ Accessed
                /\ clock' = IF latched THEN clock ELSE Updated
                /\ UNCHANGED <<chip, now, registers, autosave, saved, lived>>

\* m3w at 6000-7FFF: a 0 and then a 1 take the snapshot.
WriteLatch(v) ==
  /\ chip = "MBC3" /\ Accessed
  /\ latchState' = v
  /\ IF latchState = 0 /\ v = 1
     THEN /\ clock' = [Updated EXCEPT !.latch = <<Updated.s, Updated.m, Updated.h, Updated.d % 256, Updated.ctrl>>]
          /\ latched' = TRUE
     ELSE UNCHANGED <<clock, latched>>
  /\ UNCHANGED <<chip, now, huc3, autosave, saved, lived>>

\* m3w at A000-BFFF with a clock register selected; writeClockStruct saves it
\* when it has changed and autosave is on.
Put(c, r, v) ==
  CASE r = "s" -> [c EXCEPT !.s = Clamp(v, 59)]
    [] r = "m" -> [c EXCEPT !.m = Clamp(v, 59)]
    [] r = "h" -> [c EXCEPT !.h = Clamp(v, 23)]
    [] r = "dLow" -> [c EXCEPT !.d = 256 * (@ \div 256) + v]
    [] r = "ctrl" -> LET kept == (IF v >= 128 THEN 128 ELSE 0) + (IF (v \div 64) % 2 = 1 THEN 64 ELSE 0) + (v % 2)
                     IN IF c.ctrl = kept THEN c
                        ELSE [c EXCEPT !.ctrl = kept, !.d = (@ % 256) + 256 * (v % 2)]
WriteClockStruct(seconds) ==
  IF autosave THEN SaveClock(clock', seconds) ELSE unsaved' = TRUE /\ UNCHANGED <<file, filed>>
WriteRegister(r, v) ==
  /\ chip = "MBC3" /\ Accessed
  /\ clock' = Put(Updated, r, v)
  /\ IF clock' = Updated THEN UNCHANGED <<lived, saved>>
     ELSE lived' = Seconds(clock') /\ WriteClockStruct(Seconds(clock'))
  /\ UNCHANGED <<chip, now, registers, autosave>>

\* handleHuC3Command: command 4x starts over and latches, 1x hands out a digit.
Digit(shift) == CASE shift \in {0, 4, 8} -> (clock.m \div 2^shift) % 16
                  [] shift \in {12, 16, 20} -> (clock.d \div 2^(shift - 12)) % 16
                  [] shift = 24 -> clock.y % 16
                  [] OTHER -> huc3.value
HuC3Latch(restart) == /\ chip = "HUC3" /\ Accessed
                      /\ clock' = Updated
                      /\ huc3' = [huc3 EXCEPT !.shift = IF restart THEN 0 ELSE @]
                      /\ UNCHANGED <<chip, now, latched, latchState, autosave, saved, lived>>
HuC3ReadDigit == /\ chip = "HUC3" /\ Accessed
                 /\ huc3' = IF huc3.shift > 24 THEN huc3
                            ELSE [shift |-> huc3.shift + 4, value |-> Digit(huc3.shift)]
                 /\ UNCHANGED <<chip, now, clock, latched, latchState, autosave, saved, lived>>
HuC3Status == /\ chip = "HUC3" /\ Accessed
              /\ huc3' = [huc3 EXCEPT !.value = 1]
              /\ UNCHANGED <<chip, now, clock, latched, latchState, autosave, saved, lived>>

\* saveGame; setAutoSaveFunc, which saves when autosave goes on, and writes no
\* clock when it goes off; a power-off and loadSave, in which the host's time
\* goes on and what was not saved is gone.
SaveGame == /\ Accessed
            /\ clock' = Updated /\ SaveClock(Updated, lived)
            /\ UNCHANGED <<chip, now, registers, autosave, lived>>
SetAutoSave == /\ Accessed
               /\ autosave' = ~autosave
               /\ IF autosave THEN UNCHANGED <<clock, saved>>
                  ELSE clock' = Updated /\ SaveClock(Updated, lived)
               /\ UNCHANGED <<chip, now, registers, lived>>
PowerCycle == /\ Accessed
              /\ clock' = IF file.last <= 0 \/ file.last > now THEN [file EXCEPT !.last = now] ELSE file
              /\ latched' = FALSE /\ latchState' = 0
              /\ huc3' = [shift |-> 0, value |-> 0]
              /\ lived' = filed /\ unsaved' = FALSE
              /\ UNCHANGED <<chip, now, autosave, file, filed>>

Next == \/ \E dt \in Steps : Tick(dt)
        \/ HostSetBack(StepBack)
        \/ ReadRegister \/ \E v \in {0, 1} : WriteLatch(v)
        \/ \E i \in DOMAIN Registers, v \in Written : WriteRegister(Registers[i], v)
        \/ \E restart \in BOOLEAN : HuC3Latch(restart)
        \/ HuC3ReadDigit \/ HuC3Status
        \/ SaveGame \/ SetAutoSave \/ PowerCycle
Spec == Init /\ [][Next]_vars
-----------------------------------------------------------------------------
TypeOK == /\ clock.s \in 0..59 /\ clock.h \in 0..23 /\ clock.d \in 0..511
          /\ clock.last \in Nat /\ lived \in 0..(Wrap - 1) /\ filed \in 0..(Wrap - 1)
          /\ autosave \in BOOLEAN /\ unsaved \in BOOLEAN
          /\ huc3.value \in 0..15 /\ huc3.shift \in 0..28

Caught(c) == Seconds(UpdateClockFromHost(c, now))

(* Whenever it is looked at, the MBC3's clock shows every second of host     *)
(* time that passed while it was running and none while it was halted:       *)
(* across accesses at any moment, latches, register writes, carries of the   *)
(* day counter, a host clock set back and power-offs.  So does the clock the *)
(* save file would bring back, which is behind only by the registers written *)
(* with autosave off and not saved since (mbc.cpp:282-288 and 548-569,       *)
(* rtc.cpp:15-43, gameboy.cpp:981-989 and 1012-1026).                        *)
ClockKeepsHostTime ==
  TypeOK /\ (chip = "MBC3" => /\ Caught(clock) = lived /\ Caught(file) = filed
                              /\ ~unsaved => filed = lived)
=============================================================================
