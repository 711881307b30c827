-------------------------- MODULE Cartridge_proofs --------------------------
(***************************************************************************)
(* Proofs about the cartridge: its clock, the banks of its ROM, the        *)
(* registers of its mapper and its EEPROM.                                 *)
(*                                                                         *)
(* The clock of an MBC3 shows every second of host time it ran, for any    *)
(* steps of the host's clock, any set-back, any value written to a         *)
(* register and any number of accesses. The clock a game would see now     *)
(* shows the seconds lived; the one it would see had the console been      *)
(* switched off and on again shows those of the registers last saved,      *)
(* which are the same unless a register was written with autosave off and  *)
(* not saved since. Bringing a clock up to date does not change what it    *)
(* shows now (ShowsAgain), and a later look shows as many seconds more as  *)
(* have passed (ShowsLater), because carrying seconds into minutes, hours  *)
(* and days keeps their sum (Digits, DaysWrap). Unless something is        *)
(* unsaved, the clock and its copy in the file are halted together.        *)
(*                                                                         *)
(* The windows show the banks the mapper selected and a code that is off   *)
(* has left no byte, for a ROM, a cache and a list of codes of any size.   *)
(* Sound says what every operation on the cache and the codes keeps: the   *)
(* table and the slots are each other's inverse, the queue holds what is   *)
(* loaded, once each, bank 0 is never in it (InOrder), and every byte that *)
(* a lone code is for is the ROM's or the code's, the latter only where    *)
(* the code has noted the bank with the ROM's byte (CheatsOk).  Operations *)
(* that work through the banks or the codes one by one are computed by     *)
(* functions over the steps taken so far, and keep what each step keeps by *)
(* induction over them (ApplyAllStays and its like).                       *)
(*                                                                         *)
(* The mapper shows banks of the cartridge, keeps a closed RAM as it is    *)
(* and a game of an MMM01 inside its block, for any size of ROM and RAM.   *)
(* Each mapper is one lemma; MapperInv ties the RAM's enable bit to the    *)
(* latest write to its register, and a mapped MMM01's windows to its       *)
(* block, whose bits no write of the game changes (ChipWrite).             *)
(*                                                                         *)
(* The EEPROM holds what the commands clocked in to the end wrote, for any *)
(* number of words and any commands of whole bits.  Clocked says what the  *)
(* chip has made of a command's first bits: phase, shift register and      *)
(* counter follow from how many have come, and a word being read is split  *)
(* between the bits the game saw and those still in the output register.   *)
(* ChipSaved says the same of a save state, so that loading one is safe.   *)
(***************************************************************************)
EXTENDS CartClock, RomBanks, Mappers, Mbc7Eeprom, BasicLemmas, SequenceTheorems, TLAPS

Controls == {0, 1, 64, 65, 128, 129, 192, 193}
Latches == {<< >>} \cup (Int \X Int \X Int \X Int \X Int)
\* The ranges of a clock's fields.  Steps that only set a field leave them
\* unexpanded.
Count == Nat
SecondRange == 0..59
MinuteRange == 0..1439
HourRange == 0..23
ByteRange == 0..255
DayRange == 0..511
ClockType == [last : Count, s : SecondRange, m : MinuteRange, h : HourRange, d : DayRange,
              ctrl : Controls, y : Count, latch : Latches]

Huc3Type == [shift : {0, 4, 8, 12, 16, 20, 24, 28}, value : 0..15]

\* What is always so of a clock at time t: an MBC3 has minutes of the hour, and
\* no clock was set in the future.
Good(c, t) == /\ c \in ClockType
              /\ chip = "MBC3" => c.m < 60
              /\ c.last > 0 /\ c.last <= t

TypeInv ==
  /\ chip \in {"MBC3", "HUC3"} /\ now \in Nat /\ now > 0
  /\ Good(clock, now) /\ Good(file, now)
  /\ lived \in Nat /\ lived < Wrap /\ filed \in Nat /\ filed < Wrap
  /\ autosave \in BOOLEAN /\ unsaved \in BOOLEAN
  /\ huc3 \in Huc3Type

\* What was saved shows what was lived.
Agree == ~unsaved => filed = lived /\ (Halted(clock) <=> Halted(file))
KeepsTime == Caught(clock) = lived /\ Caught(file) = filed /\ Agree

IInv == TypeInv /\ (chip = "MBC3" => KeepsTime)

(* ------------------------------ arithmetic ------------------------------ *)
Lap == 44236800         \* 512 days
LEMMA LapIs == Lap = 512 * Day
BY DEF Lap, Day

LEMMA MinutesOfHours == ASSUME NEW t \in Nat PROVE (t \div 60) \div 60 = t \div 3600
OBVIOUS

LEMMA HoursOfDays == ASSUME NEW t \in Nat PROVE (t \div 3600) \div 24 = t \div 86400
OBVIOUS

\* Seconds, minutes and hours are the digits of the time of day.
LEMMA Digits ==
  ASSUME NEW t \in Nat
  PROVE  (t % 60) + 60 * ((t \div 60) % 60) + 3600 * ((t \div 3600) % 24) = t % 86400
<1>1. t = 60 * (t \div 60) + (t % 60) /\ t \div 60 \in Nat
  OBVIOUS
<1>2. t \div 60 = 60 * ((t \div 60) \div 60) + ((t \div 60) % 60)
  BY <1>1
<1>3. t \div 3600 \in Nat /\ t \div 3600 = 24 * ((t \div 3600) \div 24) + ((t \div 3600) % 24)
  OBVIOUS
<1>4. t = 86400 * (t \div 86400) + (t % 86400)
  OBVIOUS
<1> QED BY <1>1, <1>2, <1>3, <1>4, MinutesOfHours, HoursOfDays

LEMMA RestOfLap == ASSUME NEW i \in Nat, NEW w \in Nat, w < 44236800
                   PROVE  (44236800 * i + w) % 44236800 = w
OBVIOUS

\* The day counter wraps with the seconds.
LEMMA DaysWrap ==
  ASSUME NEW q \in Nat, NEW r \in Nat, r < 86400
  PROVE  r + 86400 * (q % 512) = (86400 * q + r) % 44236800
<1> DEFINE i == q \div 512  u == q % 512
<1>1. i \in Nat /\ u \in Nat /\ u < 512 /\ q = 512 * i + u
  OBVIOUS
<1> HIDE DEF i, u
<1>2. 86400 * q + r = 44236800 * i + (r + 86400 * u)
  BY <1>1
<1>3. r + 86400 * u \in Nat /\ r + 86400 * u < 44236800
  BY <1>1
<1>4. (44236800 * i + (r + 86400 * u)) % 44236800 = r + 86400 * u
  BY <1>1, <1>3, RestOfLap
<1> QED BY <1>2, <1>4 DEF u

LEMMA LapRestOfSum == ASSUME NEW a \in Nat, NEW b \in Nat
                   PROVE  ((a % 44236800) + b) % 44236800 = (a + b) % 44236800
OBVIOUS

(* ------------------------- bringing it up to date ----------------------- *)
LEMMA Fields ==
  ASSUME NEW c \in ClockType
  PROVE  /\ c.last \in Nat /\ c.s \in 0..59 /\ c.m \in Nat /\ c.m < 1440 /\ c.h \in 0..23
         /\ c.d \in 0..511 /\ c.ctrl \in Controls /\ c.y \in Nat /\ c.latch \in Latches
<1>1. \A x \in MinuteRange : x \in Nat /\ x < 1440
  BY DEF MinuteRange
<1>2. c.m \in MinuteRange
  BY DEF ClockType
<1> QED BY <1>1, <1>2 DEF ClockType, Count, SecondRange, HourRange, DayRange

LEMMA HaltedControls == ASSUME NEW c \in ClockType PROVE Halted(c) <=> c.ctrl \in {64, 65, 192, 193}
<1>1. c.ctrl \in Controls
  BY Fields
<1> QED BY <1>1 DEF Controls, Halted

LEMMA SetLast ==
  ASSUME NEW c \in ClockType, NEW t \in Nat, NEW a, a = [c EXCEPT !.last = t]
  PROVE  /\ a \in ClockType /\ a.last = t /\ a.s = c.s /\ a.m = c.m /\ a.h = c.h /\ a.d = c.d
         /\ a.ctrl = c.ctrl
<1>1. t \in Count
  BY DEF Count
<1> QED BY <1>1 DEF ClockType

LEMMA SecondsRange ==
  ASSUME chip = "MBC3", NEW c \in ClockType, c.m < 60
  PROVE  /\ Seconds(c) = c.s + 60 * c.m + 3600 * c.h + 86400 * c.d
         /\ Seconds(c) \in Nat /\ Seconds(c) < 44236800
<1>1. c.s \in 0..59 /\ c.m \in 0..59 /\ c.h \in 0..23 /\ c.d \in 0..511
  BY Fields
<1>2. Seconds(c) = c.s + 60 * c.m + 3600 * c.h + 86400 * c.d
  BY DEF Seconds, Day
<1> DEFINE s == c.s  m == c.m  h == c.h  d == c.d
<1>3. Seconds(c) = s + 60 * m + 3600 * h + 86400 * d
  BY <1>2
<1>4. s \in 0..59 /\ m \in 0..59 /\ h \in 0..23 /\ d \in 0..511
  BY <1>1
<1> HIDE DEF s, m, h, d
<1>5. Seconds(c) \in Nat /\ Seconds(c) < 44236800
  BY <1>3, <1>4
<1> QED BY <1>2, <1>5

LEMMA HaltedAdvances ==
  ASSUME chip = "MBC3", NEW c \in ClockType, c.m < 60, Halted(c), NEW e \in Nat,
         NEW a, a = AdvanceMbc3(c, e)
  PROVE  a \in ClockType /\ a.m < 60 /\ a.last = c.last /\ Halted(a) /\ Seconds(a) = Seconds(c)
<1> DEFINE k == (IF c.ctrl >= 192 THEN 192 ELSE 64) + (c.d \div 256)
<1>1. /\ c.s \in 0..59 /\ c.m \in Nat /\ c.h \in 0..23 /\ c.d \in 0..511
  BY Fields
<1>2. c.d \div 256 \in 0..1
  BY <1>1
<1>3. k \in {64, 65, 192, 193}
  BY <1>2
<1>4. a = [c EXCEPT !.ctrl = k]
  BY DEF AdvanceMbc3
<1> HIDE DEF k
<1>5. k \in Controls
  BY <1>3 DEF Controls
<1>6. a \in ClockType
  BY <1>4, <1>5 DEF ClockType
<1>7. a.s = c.s /\ a.m = c.m /\ a.h = c.h /\ a.d = c.d /\ a.ctrl = k /\ a.last = c.last
  BY <1>4 DEF ClockType
<1>8. Halted(a)
  BY <1>3, <1>6, <1>7, HaltedControls
<1>9. Seconds(a) = Seconds(c)
  BY <1>7 DEF Seconds
<1> QED BY <1>6, <1>7, <1>8, <1>9

\* The time of day, the day and the control bits a running clock moves on to.
LEMMA RunningAdvances ==
  ASSUME chip = "MBC3", NEW c \in ClockType, c.m < 60, ~Halted(c), NEW e \in Nat,
         NEW a, a = AdvanceMbc3(c, e)
  PROVE  /\ a \in ClockType /\ a.m < 60 /\ a.last = c.last /\ ~Halted(a)
         /\ Seconds(a) = (Seconds(c) + e) % Lap
<1> DEFINE t == c.s + 60 * c.m + 3600 * c.h + e
           u == t \div 86400  r == t % 86400  q == c.d + u
           s == t % 60  m == (t \div 60) % 60  h == (t \div 3600) % 24  d == q % 512
           k == (IF c.ctrl >= 128 \/ q > 511 THEN 128 ELSE 0) + (d \div 256)
<1>1. c.s \in Nat /\ c.m \in Nat /\ c.h \in Nat /\ c.d \in Nat
  BY Fields
<1>2. t \in Nat
  BY <1>1
<1>3. a = [c EXCEPT !.s = s, !.m = m, !.h = h, !.d = d, !.ctrl = k]
  BY DEF AdvanceMbc3, Day
<1>4. Seconds(c) + e = 86400 * c.d + t
  BY <1>1, SecondsRange
<1> HIDE DEF t
<1>5. u \in Nat /\ r \in Nat /\ r < 86400 /\ t = 86400 * u + r
  BY <1>2
<1>6. s \in 0..59 /\ m \in 0..59 /\ h \in 0..23
  BY <1>2
<1>7. s + 60 * m + 3600 * h = r
  BY <1>2, Digits
<1> HIDE DEF u, r, s, m, h
<1>8. q \in Nat /\ 86400 * q + r = 86400 * c.d + t
  BY <1>1, <1>5
<1> HIDE DEF q
<1>9. d \in 0..511 /\ r + 86400 * d = (86400 * q + r) % 44236800
  BY <1>5, <1>8, DaysWrap
<1> HIDE DEF d
<1>10. d \div 256 \in 0..1
  BY <1>9
<1>11. k \in {0, 1, 128, 129}
  BY <1>10
<1> HIDE DEF k
<1>12. /\ s \in SecondRange /\ m \in MinuteRange /\ h \in HourRange /\ d \in DayRange
       /\ k \in Controls
  BY <1>6, <1>9, <1>11 DEF SecondRange, MinuteRange, HourRange, DayRange, Controls
<1>13. /\ a \in ClockType /\ a.s = s /\ a.m = m /\ a.h = h /\ a.d = d /\ a.ctrl = k
       /\ a.last = c.last
  BY <1>3, <1>12 DEF ClockType
<1>14. a.m < 60
  BY <1>6, <1>13
<1>15. ~Halted(a)
  BY <1>11, <1>13, HaltedControls
<1>16. Seconds(a) = s + 60 * m + 3600 * h + 86400 * d
  BY <1>13, <1>14, SecondsRange
<1>17. Seconds(a) = (Seconds(c) + e) % 44236800
  BY <1>4, <1>6, <1>7, <1>8, <1>9, <1>16
<1> QED BY <1>13, <1>14, <1>15, <1>17 DEF Lap

LEMMA Huc3Advances ==
  ASSUME NEW c \in ClockType, NEW e \in Nat, NEW a, a = AdvanceHuc3(c, e)
  PROVE  a \in ClockType /\ a.last = c.last
<1> DEFINE minutes == c.m + (e \div 60)
           days == c.d + (minutes \div 1440)
           m == minutes % 1440  d == days % 365  y == c.y + (days \div 365)
<1>1. c.m \in Nat /\ c.d \in Nat /\ c.y \in Nat
  BY Fields
<1>2. minutes \in Nat
  BY <1>1
<1>3. a = [c EXCEPT !.m = m, !.d = d, !.y = y]
  BY DEF AdvanceHuc3, ClockType
<1> HIDE DEF minutes
<1>4. minutes \div 1440 \in Nat /\ m \in MinuteRange
  BY <1>2 DEF MinuteRange
<1>5. days \in Nat
  BY <1>1, <1>4
<1> HIDE DEF days
<1>6. days \div 365 \in Nat /\ d \in DayRange
  BY <1>5 DEF DayRange
<1>7. y \in Count
  BY <1>1, <1>6 DEF Count
<1> HIDE DEF m, d, y
<1>8. a = [last |-> c.last, s |-> c.s, m |-> m, h |-> c.h, d |-> d, ctrl |-> c.ctrl, y |-> y,
           latch |-> c.latch]
  BY <1>3 DEF ClockType
<1>9. /\ c.last \in Count /\ c.s \in SecondRange /\ c.h \in HourRange /\ c.ctrl \in Controls
      /\ c.latch \in Latches
  BY DEF ClockType
<1> QED BY <1>4, <1>6, <1>7, <1>8, <1>9 DEF ClockType

LEMMA UpdatesType ==
  ASSUME chip \in {"MBC3", "HUC3"}, NEW c \in ClockType, chip = "MBC3" => c.m < 60,
         NEW t \in Nat, NEW u, u = UpdateClockFromHost(c, t)
  PROVE  /\ u \in ClockType /\ u.last = t
         /\ chip = "MBC3" => u.m < 60 /\ (Halted(u) <=> Halted(c))
<1>1. c.last \in Nat
  BY Fields
<1>2. CASE c.last <= 0 \/ t < c.last
  <2>1. u = [c EXCEPT !.last = t]
    BY <1>2 DEF UpdateClockFromHost
  <2>2. u \in ClockType /\ u.last = t /\ u.m = c.m /\ u.ctrl = c.ctrl
    BY <2>1, SetLast
  <2> QED BY <2>2 DEF Halted
<1>3. CASE ~(c.last <= 0 \/ t < c.last)
  <2> DEFINE e == t - c.last
             a == IF chip = "MBC3" THEN AdvanceMbc3(c, e) ELSE AdvanceHuc3(c, e)
  <2>1. e \in Nat
    BY <1>1, <1>3
  <2>2. u = [a EXCEPT !.last = t]
    BY <1>3 DEF UpdateClockFromHost
  <2> HIDE DEF e
  <2>3. /\ a \in ClockType
        /\ chip = "MBC3" => a.m < 60 /\ (Halted(a) <=> Halted(c))
    <3>1. CASE chip = "MBC3" /\ Halted(c)
      BY <2>1, <3>1, HaltedAdvances
    <3>2. CASE chip = "MBC3" /\ ~Halted(c)
      BY <2>1, <3>2, RunningAdvances
    <3>3. CASE chip = "HUC3"
      BY <2>1, <3>3, Huc3Advances
    <3> QED BY <3>1, <3>2, <3>3
  <2> HIDE DEF a
  <2>4. u \in ClockType /\ u.last = t /\ u.m = a.m /\ u.ctrl = a.ctrl
    BY <2>2, <2>3, SetLast
  <2> QED BY <2>3, <2>4 DEF Halted
<1> QED BY <1>2, <1>3

\* What a game would see at time t on a clock that was left as c.
Shown(c, t) == Seconds(UpdateClockFromHost(c, t))

LEMMA Shows ==
  ASSUME chip = "MBC3", NEW c \in ClockType, c.m < 60, c.last > 0, NEW t \in Nat
  PROVE  Shown(c, t) = IF Halted(c) \/ t < c.last THEN Seconds(c)
                       ELSE (Seconds(c) + (t - c.last)) % 44236800
<1> DEFINE u == UpdateClockFromHost(c, t)
<1>1. c.last \in Nat
  BY Fields
<1>2. CASE t < c.last
  <2>1. u = [c EXCEPT !.last = t]
    BY <1>2 DEF UpdateClockFromHost
  <2> HIDE DEF u
  <2>2. u.s = c.s /\ u.m = c.m /\ u.h = c.h /\ u.d = c.d
    BY <2>1, SetLast
  <2>3. Seconds(u) = Seconds(c)
    BY <2>2 DEF Seconds
  <2> QED BY <1>2, <2>3 DEF Shown, u
<1>3. CASE ~(t < c.last)
  <2> DEFINE e == t - c.last
             a == AdvanceMbc3(c, e)
  <2>1. e \in Nat
    BY <1>1, <1>3
  <2>2. u = [a EXCEPT !.last = t]
    BY <1>1, <1>3 DEF UpdateClockFromHost
  <2> HIDE DEF e, u
  <2>3. a \in ClockType /\ Seconds(a) = IF Halted(c) THEN Seconds(c) ELSE (Seconds(c) + e) % 44236800
    <3>1. CASE Halted(c)
      BY <2>1, <3>1, HaltedAdvances
    <3>2. CASE ~Halted(c)
      BY <2>1, <3>2, RunningAdvances DEF Lap
    <3> QED BY <3>1, <3>2
  <2> HIDE DEF a
  <2>4. u.s = a.s /\ u.m = a.m /\ u.h = a.h /\ u.d = a.d
    BY <2>2, <2>3, SetLast
  <2>5. Seconds(u) = Seconds(a)
    BY <2>4 DEF Seconds
  <2> QED BY <1>3, <2>3, <2>5 DEF Shown, u, e
<1> QED BY <1>2, <1>3

\* A clock just brought up to date shows what it did, and what it holds.
LEMMA ShowsAgain ==
  ASSUME chip = "MBC3", NEW c \in ClockType, c.m < 60, NEW t \in Nat, t > 0, c.last = t
  PROVE  Shown(c, t) = Seconds(c)
<1>1. Shown(c, t) = IF Halted(c) \/ t < c.last THEN Seconds(c)
                    ELSE (Seconds(c) + (t - c.last)) % 44236800
  BY Shows
<1>2. Seconds(c) \in Nat /\ Seconds(c) < 44236800
  BY SecondsRange
<1>3. ~(t < c.last) /\ t - c.last = 0
  OBVIOUS
<1> DEFINE x == Seconds(c)
<1>4. (x + 0) % 44236800 = x
  <2> HIDE DEF x
  <2>1. x \in Nat /\ x < 44236800
    BY <1>2 DEF x
  <2> QED BY <2>1
<1> QED BY <1>1, <1>3, <1>4

\* A clock left alone shows as much more as time goes on.
LEMMA ShowsLater ==
  ASSUME chip = "MBC3", NEW c \in ClockType, c.m < 60, c.last > 0, NEW t \in Nat, c.last <= t,
         NEW dt \in Nat
  PROVE  Shown(c, t + dt) = IF Halted(c) THEN Shown(c, t) ELSE (Shown(c, t) + dt) % 44236800
<1>1. c.last \in Nat
  BY Fields
<1> DEFINE x == Seconds(c)  e == t - c.last
<1>2. x \in Nat /\ e \in Nat
  BY <1>1, SecondsRange
<1>3. ~(t < c.last) /\ ~(t + dt < c.last) /\ (t + dt) - c.last = e + dt
  BY <1>1
<1> HIDE DEF x, e
<1>4. Shown(c, t) = IF Halted(c) THEN x ELSE (x + e) % 44236800
  BY <1>3, Shows DEF x, e
<1>5. Shown(c, t + dt) = IF Halted(c) THEN x ELSE (x + (e + dt)) % 44236800
  BY <1>3, Shows DEF x, e
<1>6. (((x + e) % 44236800) + dt) % 44236800 = ((x + e) + dt) % 44236800
  BY <1>2, LapRestOfSum
<1>7. (x + e) + dt = x + (e + dt)
  BY <1>2
<1> QED BY <1>4, <1>5, <1>6, <1>7

(* ------------------------------ the invariant --------------------------- *)
LEMMA WrapIs == /\ Wrap \in Nat /\ Wrap > 0
                /\ chip = "MBC3" => Wrap = 44236800
BY DEF Wrap, Day

LEMMA Looks ==
  ASSUME IInv, NEW u, u = Updated
  PROVE  /\ Good(u, now) /\ u.last = now
         /\ chip = "MBC3" => /\ Seconds(u) = lived /\ Shown(u, now) = lived
                             /\ (Halted(u) <=> Halted(clock))
<1>1. u = UpdateClockFromHost(clock, now)
  BY DEF Updated
<1>2. /\ chip \in {"MBC3", "HUC3"} /\ clock \in ClockType /\ now \in Nat /\ now > 0
      /\ chip = "MBC3" => clock.m < 60
  BY DEF IInv, TypeInv, Good
<1>3. /\ u \in ClockType /\ u.last = now
      /\ chip = "MBC3" => u.m < 60 /\ (Halted(u) <=> Halted(clock))
  BY <1>1, <1>2, UpdatesType
<1>4. Good(u, now)
  BY <1>2, <1>3 DEF Good
<1>5. ASSUME chip = "MBC3"
      PROVE  /\ Seconds(u) = lived /\ Shown(u, now) = lived /\ (Halted(u) <=> Halted(clock))
  <2>1. Caught(clock) = lived
    BY <1>5 DEF IInv, KeepsTime
  <2>2. Seconds(u) = lived
    BY <2>1, <1>1 DEF Caught
  <2>3. Shown(u, now) = Seconds(u)
    BY <1>2, <1>3, <1>5, ShowsAgain
  <2> QED BY <1>3, <1>5, <2>1, <2>2, <2>3
<1> QED BY <1>3, <1>4, <1>5

LEMMA Establish ==
  ASSUME chip \in {"MBC3", "HUC3"}, chip' = chip, now' \in Nat, now' > 0,
         Good(clock', now'), Good(file', now'), lived' \in Nat, lived' < Wrap, huc3' \in Huc3Type,
         filed' \in Nat, filed' < Wrap, autosave' \in BOOLEAN, unsaved' \in BOOLEAN,
         chip = "MBC3" => /\ Shown(clock', now') = lived' /\ Shown(file', now') = filed'
                          /\ ~unsaved' => /\ filed' = lived'
                                          /\ (Halted(clock') <=> Halted(file'))
  PROVE  IInv'
<1>1. Good(clock, now)' /\ Good(file, now)'
  BY DEF Good
<1>2. Wrap' = Wrap
  BY DEF Wrap
<1>3. TypeInv'
  BY <1>1, <1>2 DEF TypeInv
<1>4. Caught(clock)' = Shown(clock', now') /\ Caught(file)' = Shown(file', now')
  BY DEF Caught, Shown, Seconds, UpdateClockFromHost, AdvanceMbc3, AdvanceHuc3,
     Halted, Wrap
<1>5. Halted(clock)' = Halted(clock') /\ Halted(file)' = Halted(file')
  BY DEF Halted
<1> QED BY <1>3, <1>4, <1>5 DEF IInv, KeepsTime, Agree

LEMMA InvFacts ==
  ASSUME IInv
  PROVE  /\ chip \in {"MBC3", "HUC3"} /\ now \in Nat /\ now > 0
         /\ Good(clock, now) /\ Good(file, now) /\ lived \in Nat /\ lived < Wrap /\ huc3 \in Huc3Type
         /\ filed \in Nat /\ filed < Wrap /\ autosave \in BOOLEAN /\ unsaved \in BOOLEAN
         /\ chip = "MBC3" => /\ Shown(clock, now) = lived /\ Shown(file, now) = filed
                             /\ ~unsaved => filed = lived /\ (Halted(clock) <=> Halted(file))
BY DEF IInv, TypeInv, KeepsTime, Agree, Caught, Shown

LEMMA InitInv == Init => IInv
<1> SUFFICES ASSUME Init PROVE IInv
  OBVIOUS
<1>1. /\ chip \in {"MBC3", "HUC3"} /\ now = 1000000 /\ lived = 0 /\ file = clock
      /\ filed = 0 /\ autosave \in BOOLEAN /\ unsaved = FALSE /\ huc3 \in Huc3Type
  BY ConstantsAssumption DEF Init, Huc3Type
<1>2. 0 \in SecondRange /\ 0 \in MinuteRange /\ 0 \in HourRange /\ 0 \in DayRange /\ 0 \in Controls
      /\ 0 \in Count /\ now \in Count /\ << >> \in Latches
  BY <1>1
  DEF SecondRange, MinuteRange, HourRange, DayRange, Controls, Count, Latches
<1>3. /\ clock \in ClockType /\ clock.last = now /\ clock.s = 0 /\ clock.m = 0 /\ clock.h = 0
      /\ clock.d = 0
  BY <1>2 DEF Init, ClockType
<1>4. now \in Nat /\ now > 0
  BY <1>1
<1>5. Good(clock, now) /\ Good(file, now)
  <2>1. Good(clock, now)
    BY <1>3, <1>4 DEF Good
  <2> QED BY <1>1, <2>1, SMT
<1>6. lived < Wrap /\ filed < Wrap /\ lived \in Nat /\ filed \in Nat /\ unsaved \in BOOLEAN
  <2>1. lived = 0 /\ filed = 0 /\ unsaved = FALSE
    BY <1>1
  <2>2. 0 < Wrap
    BY WrapIs
  <2>3. lived < Wrap /\ filed < Wrap /\ lived \in Nat /\ filed \in Nat
    BY <2>1, <2>2, SMT
  <2>4. unsaved \in BOOLEAN
    BY <2>1
  <2> QED BY <2>3, <2>4, Zenon
<1>7. ASSUME chip = "MBC3" PROVE Caught(clock) = lived
  <2>1. Seconds(clock) = 0
    BY <1>3, <1>7 DEF Seconds, Day
  <2>2. clock.m < 60
    BY <1>3
  <2>3. Shown(clock, now) = Seconds(clock)
    BY <1>3, <1>4, <1>7, <2>2, ShowsAgain
  <2> QED BY <1>1, <2>1, <2>3 DEF Caught, Shown
<1>8. TypeInv
  BY <1>1, <1>4, <1>5, <1>6, SMT DEF TypeInv
<1>9. chip = "MBC3" => KeepsTime
  <2>1. filed = lived /\ (Halted(clock) <=> Halted(file)) /\ Caught(file) = Caught(clock)
    BY <1>1, SMT
  <2>2. Agree
    BY <2>1 DEF Agree
  <2> QED BY <1>1, <1>7, <2>1, <2>2, SMT DEF KeepsTime
<1> QED BY <1>8, <1>9 DEF IInv

LEMMA TickStep == ASSUME IInv, NEW dt \in Nat, Tick(dt) PROVE IInv'
<1>1. /\ chip' = chip /\ clock' = clock /\ file' = file /\ huc3' = huc3 /\ now' = now + dt
      /\ lived' = IF chip = "MBC3" /\ Halted(clock) THEN lived ELSE (lived + dt) % Wrap
      /\ filed' = IF chip = "MBC3" /\ Halted(file) THEN filed ELSE (filed + dt) % Wrap
      /\ autosave' = autosave /\ unsaved' = unsaved
  BY DEF Tick, registers
<1>2. /\ chip \in {"MBC3", "HUC3"} /\ now \in Nat /\ now > 0
      /\ Good(clock, now) /\ Good(file, now) /\ lived \in Nat /\ lived < Wrap /\ huc3 \in Huc3Type
      /\ filed \in Nat /\ filed < Wrap /\ autosave \in BOOLEAN /\ unsaved \in BOOLEAN
  BY InvFacts
<1>3. now + dt \in Nat /\ now + dt > 0
  BY <1>2
<1>4. /\ clock \in ClockType /\ clock.last > 0 /\ clock.last <= now
      /\ file \in ClockType /\ file.last > 0 /\ file.last <= now
      /\ chip = "MBC3" => clock.m < 60 /\ file.m < 60
  BY <1>2 DEF Good
<1>5. clock.last \in Nat /\ file.last \in Nat
  BY <1>4, Fields
<1>6. Good(clock, now + dt) /\ Good(file, now + dt)
  BY <1>2, <1>4, <1>5 DEF Good
<1>7. lived' \in Nat /\ lived' < Wrap /\ filed' \in Nat /\ filed' < Wrap
  <2>1. /\ (lived + dt) % Wrap \in Nat /\ (lived + dt) % Wrap < Wrap
        /\ (filed + dt) % Wrap \in Nat /\ (filed + dt) % Wrap < Wrap
    BY <1>2, WrapIs
  <2> QED BY <1>1, <1>2, <2>1
<1>8. ASSUME chip = "MBC3"
      PROVE  /\ Shown(clock, now + dt) = lived' /\ Shown(file, now + dt) = filed'
             /\ ~unsaved => filed' = lived' /\ (Halted(clock) <=> Halted(file))
  <2>1. /\ Shown(clock, now) = lived /\ Shown(file, now) = filed
        /\ ~unsaved => filed = lived /\ (Halted(clock) <=> Halted(file))
    BY <1>8, InvFacts
  <2>2. Shown(clock, now + dt) = IF Halted(clock) THEN lived ELSE (lived + dt) % 44236800
    BY <1>2, <1>4, <1>8, <2>1, ShowsLater
  <2>3. Shown(file, now + dt) = IF Halted(file) THEN filed ELSE (filed + dt) % 44236800
    BY <1>2, <1>4, <1>8, <2>1, ShowsLater
  <2> QED BY <1>1, <1>8, <2>1, <2>2, <2>3, WrapIs
<1> QED BY <1>1, <1>2, <1>3, <1>6, <1>7, <1>8, Establish

LEMMA HostSetBackStep == ASSUME IInv, NEW dt \in Nat, HostSetBack(dt) PROVE IInv'
<1>1. /\ chip' = chip /\ clock' = UpdateClockFromHost(clock, now') /\ file' = clock' /\ huc3' = huc3
      /\ now' = now - dt /\ lived' = lived /\ clock.last = now /\ dt < now
      /\ filed' = lived /\ unsaved' = FALSE /\ autosave' = autosave
  BY DEF HostSetBack, SaveClock, registers
<1>2. /\ chip \in {"MBC3", "HUC3"} /\ now \in Nat /\ now > 0
      /\ Good(clock, now) /\ lived \in Nat /\ lived < Wrap /\ huc3 \in Huc3Type
      /\ autosave \in BOOLEAN
  BY InvFacts
<1> DEFINE t == now'
<1>3. t \in Nat /\ t > 0 /\ t <= now /\ now' = t
  BY <1>1, <1>2
<1>4. clock \in ClockType /\ (chip = "MBC3" => clock.m < 60)
  BY <1>2 DEF Good
<1> DEFINE u == clock'
<1>5. u = UpdateClockFromHost(clock, t)
  BY <1>1
<1> HIDE DEF t, u
<1>6. /\ u \in ClockType /\ u.last = t
      /\ chip = "MBC3" => u.m < 60
  BY <1>2, <1>3, <1>4, <1>5, UpdatesType
<1>7. Good(u, t)
  BY <1>3, <1>6 DEF Good
<1>8. ASSUME chip = "MBC3" PROVE Shown(u, t) = lived
  <2>1. Shown(clock, now) = lived
    BY <1>8, InvFacts
  <2>2. Seconds(clock) = lived
    BY <1>1, <1>2, <1>4, <1>8, <2>1, ShowsAgain
  <2>3. Shown(clock, t) = lived
    <3>1. CASE t < now
      BY <1>1, <1>2, <1>3, <1>4, <1>8, <2>2, <3>1, Shows
    <3>2. CASE t = now
      BY <2>1, <3>2
    <3> QED BY <1>2, <1>3, <3>1, <3>2
  <2>4. Seconds(u) = lived
    BY <1>5, <2>3 DEF Shown
  <2> QED BY <1>3, <1>6, <1>8, <2>4, ShowsAgain
<1>9. clock' = u /\ file' = u
  BY <1>1 DEF u
<1> QED BY <1>1, <1>2, <1>3, <1>7, <1>8, <1>9, Establish

\* A step at the same time of a clock that shows what it did, and of its copy.
LEMMA SameTime ==
  ASSUME IInv, chip' = chip, now' = now, UNCHANGED saved, lived' = lived, huc3' \in Huc3Type,
         autosave' = autosave, Good(clock', now),
         chip = "MBC3" => Shown(clock', now) = lived /\ (Halted(clock') <=> Halted(clock))
  PROVE  IInv'
BY InvFacts, Establish DEF saved

LEMMA ReadRegisterStep == ASSUME IInv, ReadRegister PROVE IInv'
<1>1. /\ chip' = chip /\ now' = now /\ UNCHANGED saved /\ lived' = lived /\ huc3' = huc3
      /\ autosave' = autosave /\ (clock' = clock \/ clock' = Updated)
  BY DEF ReadRegister, registers
<1> QED BY <1>1, InvFacts, Looks, SameTime

LEMMA WriteLatchStep == ASSUME IInv, NEW v \in {0, 1}, WriteLatch(v) PROVE IInv'
<1> DEFINE u == Updated
           l == <<u.s, u.m, u.h, u.d % 256, u.ctrl>>
<1>1. /\ chip' = chip /\ now' = now /\ UNCHANGED saved /\ lived' = lived /\ huc3' = huc3
      /\ autosave' = autosave
      /\ clock' = clock \/ clock' = [u EXCEPT !.latch = l]
  BY DEF WriteLatch
<1>2. /\ Good(u, now) /\ u.last = now
      /\ chip = "MBC3" => Seconds(u) = lived /\ (Halted(u) <=> Halted(clock))
  BY Looks
<1> HIDE DEF u
<1>3. CASE clock' = clock
  BY <1>1, <1>3, InvFacts, SameTime
<1>4. CASE clock' = [u EXCEPT !.latch = l]
  <2> DEFINE w == clock'
  <2>1. u \in ClockType /\ (chip = "MBC3" => u.m < 60) /\ now \in Nat /\ now > 0
    BY <1>2, InvFacts DEF Good
  <2>2. u.s \in Int /\ u.m \in Int /\ u.h \in Int /\ u.d \in Int
    BY <2>1, Fields
  <2>3. u.ctrl \in Int
    BY <2>1, Fields DEF Controls
  <2>4. l \in Latches
    BY <2>2, <2>3 DEF Latches
  <2> HIDE DEF l
  <2>5. w = [u EXCEPT !.latch = l]
    BY <1>4
  <2> HIDE DEF w
  <2>6. /\ w \in ClockType /\ w.last = u.last /\ w.s = u.s /\ w.m = u.m /\ w.h = u.h /\ w.d = u.d
        /\ w.ctrl = u.ctrl
    BY <2>1, <2>4, <2>5 DEF ClockType
  <2>7. Good(w, now)
    BY <1>2, <2>1, <2>6 DEF Good
  <2>8. Halted(w) <=> Halted(u)
    BY <2>6 DEF Halted
  <2>9. ASSUME chip = "MBC3" PROVE Shown(w, now) = lived /\ (Halted(w) <=> Halted(clock))
    <3>1. Seconds(w) = Seconds(u)
      BY <2>6, <2>9 DEF Seconds
    <3>2. Shown(w, now) = Seconds(w)
      BY <1>2, <2>1, <2>6, <2>9, ShowsAgain
    <3> QED BY <1>2, <2>8, <2>9, <3>1, <3>2
  <2> QED BY <1>1, <2>7, <2>9, InvFacts, SameTime DEF w
<1> QED BY <1>1, <1>3, <1>4

\* A clock of an MBC3, which holds minutes of the hour.
Mbc3Type(c) == c \in ClockType /\ c.m < 60

LEMMA PutType ==
  ASSUME NEW c, Mbc3Type(c), NEW r \in {"s", "m", "h", "dLow", "ctrl"}, NEW v \in ByteRange,
         NEW w, w = Put(c, r, v)
  PROVE  Mbc3Type(w) /\ w.last = c.last
<1> USE DEF Mbc3Type
<1>1. c.d \in 0..511 /\ c.m \in Nat /\ v \in 0..255
  BY Fields DEF ByteRange
<1>2. CASE r = "s"
  <2>1. Clamp(v, 59) \in SecondRange
    BY <1>1 DEF Clamp, SecondRange
  <2> QED BY <1>2, <2>1 DEF Put, ClockType
<1>3. CASE r = "m"
  <2> DEFINE x == Clamp(v, 59)
  <2>1. x \in Nat /\ x < 60 /\ x \in MinuteRange
    BY <1>1 DEF Clamp, MinuteRange
  <2>2. w = [c EXCEPT !.m = x]
    BY <1>3 DEF Put
  <2> HIDE DEF x
  <2>3. w \in ClockType /\ w.m = x /\ w.last = c.last
    BY <2>1, <2>2 DEF ClockType
  <2> QED BY <2>1, <2>3
<1>4. CASE r = "h"
  <2>1. Clamp(v, 23) \in HourRange
    BY <1>1 DEF Clamp, HourRange
  <2> QED BY <1>4, <2>1 DEF Put, ClockType
<1>5. CASE r = "dLow"
  <2> DEFINE x == 256 * (c.d \div 256) + v
  <2>1. x \in DayRange
    BY <1>1 DEF DayRange
  <2>2. w = [c EXCEPT !.d = x]
    BY <1>5 DEF Put
  <2> HIDE DEF x
  <2> QED BY <2>1, <2>2 DEF ClockType
<1>6. CASE r = "ctrl"
  <2> DEFINE kept == (IF v >= 128 THEN 128 ELSE 0) + (IF (v \div 64) % 2 = 1 THEN 64 ELSE 0) + (v % 2)
             x == (c.d % 256) + 256 * (v % 2)
  <2>1. v % 2 \in 0..1
    BY <1>1
  <2>2. x \in DayRange
    BY <1>1, <2>1 DEF DayRange
  <2>3. kept \in Controls
    BY <1>1, <2>1 DEF Controls
  <2>4. w = c \/ w = [c EXCEPT !.ctrl = kept, !.d = x]
    BY <1>6 DEF Put
  <2> HIDE DEF kept, x
  <2> QED BY <2>2, <2>3, <2>4 DEF ClockType
<1> QED BY <1>2, <1>3, <1>4, <1>5, <1>6

LEMMA WriteRegisterStep ==
  ASSUME IInv, NEW r \in {"s", "m", "h", "dLow", "ctrl"}, NEW v \in Written, WriteRegister(r, v)
  PROVE  IInv'
<1> DEFINE u == Updated  w == clock'
<1>1. /\ chip = "MBC3" /\ chip' = chip /\ now' = now /\ huc3' = huc3 /\ w = Put(u, r, v)
      /\ autosave' = autosave
      /\ w = u => lived' = lived /\ UNCHANGED saved
      /\ w # u => /\ lived' = Seconds(clock')
                  /\ \/ file' = w /\ filed' = Seconds(clock') /\ unsaved' = FALSE
                     \/ file' = file /\ filed' = filed /\ unsaved' = TRUE
  BY DEF WriteRegister, WriteClockStruct, SaveClock, registers
<1>2. Good(u, now) /\ u.last = now /\ Shown(u, now) = lived /\ (Halted(u) <=> Halted(clock))
  BY <1>1, Looks
<1> HIDE DEF u
<1>3. now \in Nat /\ now > 0 /\ huc3 \in Huc3Type /\ v \in ByteRange
  BY InvFacts, ConstantsAssumption DEF ByteRange
<1>4. u \in ClockType /\ u.m < 60
  BY <1>1, <1>2 DEF Good
<1> HIDE DEF w
<1>5. w \in ClockType /\ w.m < 60 /\ w.last = now
  <2>1. w = Put(u, r, v)
    BY <1>1
  <2>2. Mbc3Type(u)
    BY <1>4 DEF Mbc3Type
  <2>3. Mbc3Type(w) /\ w.last = u.last
    BY <1>3, <2>1, <2>2, PutType
  <2> QED BY <1>2, <2>3 DEF Mbc3Type
<1>6. Good(w, now)
  BY <1>3, <1>5 DEF Good
<1>7. CASE w = u
  BY <1>1, <1>2, <1>3, <1>7, InvFacts, SameTime DEF w
<1>8. CASE w # u
  <2>1. Seconds(w) \in Nat /\ Seconds(w) < Wrap
    BY <1>1, <1>5, SecondsRange, WrapIs
  <2>2. Shown(w, now) = Seconds(w)
    BY <1>1, <1>3, <1>5, ShowsAgain
  <2>3. /\ clock' = w /\ lived' = Seconds(w)
        /\ \/ file' = w /\ filed' = Seconds(w) /\ unsaved' = FALSE
           \/ file' = file /\ filed' = filed /\ unsaved' = TRUE
    BY <1>1, <1>8 DEF w
  <2> QED BY <1>1, <1>3, <1>6, <2>1, <2>2, <2>3, InvFacts, Establish
<1> QED BY <1>7, <1>8

LEMMA HuC3LatchStep == ASSUME IInv, NEW restart \in BOOLEAN, HuC3Latch(restart) PROVE IInv'
<1>1. /\ chip = "HUC3" /\ chip' = chip /\ now' = now /\ UNCHANGED saved /\ lived' = lived
      /\ autosave' = autosave
      /\ clock' = Updated
      /\ huc3' = [huc3 EXCEPT !.shift = IF restart THEN 0 ELSE @]
  BY DEF HuC3Latch
<1>2. huc3' \in Huc3Type
  BY <1>1, InvFacts DEF Huc3Type
<1> QED BY <1>1, <1>2, Looks, SameTime

LEMMA HuC3ReadDigitStep == ASSUME IInv, HuC3ReadDigit PROVE IInv'
<1>1. /\ chip = "HUC3" /\ chip' = chip /\ now' = now /\ UNCHANGED saved /\ lived' = lived
      /\ autosave' = autosave
      /\ clock' = clock
      /\ huc3' = IF huc3.shift > 24 THEN huc3
                 ELSE [shift |-> huc3.shift + 4, value |-> Digit(huc3.shift)]
  BY DEF HuC3ReadDigit
<1>2. clock.m \in Nat /\ clock.d \in Nat /\ clock.y \in Nat
  BY InvFacts, Fields DEF Good
<1>3. huc3.shift \in {0, 4, 8, 12, 16, 20, 24, 28} /\ huc3.value \in 0..15
  BY InvFacts DEF Huc3Type
<1>4. Digit(huc3.shift) \in 0..15
  <2>1. \A x \in Nat : x % 16 \in 0..15
    OBVIOUS
  <2>2. \A x \in Nat : x \div (2^0) \in Nat /\ x \div (2^4) \in Nat /\ x \div (2^8) \in Nat
    OBVIOUS
  <2>3. /\ 12 - 12 = 0 /\ 16 - 12 = 4 /\ 20 - 12 = 8
    OBVIOUS
  <2>4. CASE huc3.shift \in {0, 4, 8}
    <3> DEFINE x == clock.m \div 2^huc3.shift
    <3>1. x \in Nat
      BY <1>2, <2>2, <2>4
    <3>2. Digit(huc3.shift) = x % 16
      BY <2>4 DEF Digit
    <3> QED BY <2>1, <3>1, <3>2
  <2>5. CASE huc3.shift \in {12, 16, 20}
    BY <1>2, <2>1, <2>2, <2>3, <2>5 DEF Digit
  <2>6. CASE huc3.shift = 24
    BY <1>2, <2>1, <2>6 DEF Digit
  <2>7. CASE huc3.shift = 28
    BY <1>3, <2>7 DEF Digit
  <2> QED BY <1>3, <2>4, <2>5, <2>6, <2>7
<1>5. huc3' \in Huc3Type
  <2> DEFINE x == Digit(huc3.shift)
  <2>1. x \in 0..15
    BY <1>4
  <2> HIDE DEF x
  <2>2. CASE huc3.shift > 24
    BY <1>1, <2>2, InvFacts
  <2>3. CASE ~(huc3.shift > 24)
    <3>1. huc3.shift + 4 \in {0, 4, 8, 12, 16, 20, 24, 28}
      BY <1>3, <2>3
    <3>2. huc3' = [shift |-> huc3.shift + 4, value |-> x]
      BY <1>1, <2>3 DEF x
    <3> QED BY <2>1, <3>1, <3>2 DEF Huc3Type
  <2> QED BY <2>2, <2>3
<1> QED BY <1>1, <1>5, InvFacts, SameTime

LEMMA HuC3StatusStep == ASSUME IInv, HuC3Status PROVE IInv'
<1>1. /\ chip = "HUC3" /\ chip' = chip /\ now' = now /\ UNCHANGED saved /\ lived' = lived
      /\ autosave' = autosave
      /\ clock' = clock /\ huc3' = [huc3 EXCEPT !.value = 1]
  BY DEF HuC3Status
<1>2. huc3' \in Huc3Type
  BY <1>1, InvFacts DEF Huc3Type
<1> QED BY <1>1, <1>2, InvFacts, SameTime

LEMMA SaveGameStep == ASSUME IInv, SaveGame PROVE IInv'
<1> DEFINE u == Updated
<1>1. /\ chip' = chip /\ now' = now /\ lived' = lived /\ huc3' = huc3 /\ clock' = u /\ file' = u
      /\ filed' = lived /\ unsaved' = FALSE /\ autosave' = autosave
  BY DEF SaveGame, SaveClock, registers
<1>2. Good(u, now) /\ (chip = "MBC3" => Shown(u, now) = lived)
  BY Looks
<1> HIDE DEF u
<1> QED BY <1>1, <1>2, InvFacts, Establish

\* Autosave goes off and nothing is written, or on and everything is saved.
LEMMA SetAutoSaveStep == ASSUME IInv, SetAutoSave PROVE IInv'
<1> DEFINE u == Updated
<1>1. /\ chip' = chip /\ now' = now /\ lived' = lived /\ huc3' = huc3
      /\ autosave' = ~autosave
      /\ \/ clock' = clock /\ file' = file /\ filed' = filed /\ unsaved' = unsaved
         \/ clock' = u /\ file' = u /\ filed' = lived /\ unsaved' = FALSE
  BY DEF SetAutoSave, SaveClock, registers, saved
<1>2. Good(u, now) /\ (chip = "MBC3" => Shown(u, now) = lived)
  BY Looks
<1> HIDE DEF u
<1>3. CASE clock' = u /\ file' = u /\ filed' = lived /\ unsaved' = FALSE
  BY <1>1, <1>2, <1>3, InvFacts, Establish
<1>4. CASE clock' = clock /\ file' = file /\ filed' = filed /\ unsaved' = unsaved
  BY <1>1, <1>4, InvFacts, Establish
<1> QED BY <1>1, <1>3, <1>4

LEMMA PowerCycleStep == ASSUME IInv, PowerCycle PROVE IInv'
<1>1. file.last > 0 /\ file.last <= now /\ file.last \in Nat /\ now \in Nat
  BY InvFacts, Fields DEF Good
<1>2. /\ chip' = chip /\ now' = now /\ lived' = filed /\ file' = file
      /\ clock' = file /\ huc3' = [shift |-> 0, value |-> 0]
      /\ filed' = filed /\ unsaved' = FALSE /\ autosave' = autosave
  BY <1>1 DEF PowerCycle
<1>3. huc3' \in Huc3Type
  BY <1>2 DEF Huc3Type
<1> QED BY <1>2, <1>3, InvFacts, Establish

LEMMA StutterStep == ASSUME IInv, UNCHANGED vars PROVE IInv'
BY InvFacts, SameTime DEF vars, registers

LEMMA NextInvariant == IInv /\ [Next]_vars => IInv'
<1> SUFFICES ASSUME IInv, [Next]_vars PROVE IInv'
  OBVIOUS
<1>1. ASSUME NEW dt \in Steps, Tick(dt) PROVE IInv'
  BY <1>1, ConstantsAssumption, TickStep
<1>2. CASE HostSetBack(StepBack)
  BY <1>2, ConstantsAssumption, HostSetBackStep
<1>3. CASE ReadRegister
  BY <1>3, ReadRegisterStep
<1>4. ASSUME NEW v \in {0, 1}, WriteLatch(v) PROVE IInv'
  BY <1>4, WriteLatchStep
<1>5. ASSUME NEW i \in DOMAIN Registers, NEW v \in Written, WriteRegister(Registers[i], v)
      PROVE  IInv'
  <2>1. Registers[i] \in {"s", "m", "h", "dLow", "ctrl"}
    BY DEF Registers
  <2> QED BY <1>5, <2>1, WriteRegisterStep
<1>6. ASSUME NEW restart \in BOOLEAN, HuC3Latch(restart) PROVE IInv'
  BY <1>6, HuC3LatchStep
<1>7. CASE HuC3ReadDigit
  BY <1>7, HuC3ReadDigitStep
<1>8. CASE HuC3Status
  BY <1>8, HuC3StatusStep
<1>9. CASE SaveGame
  BY <1>9, SaveGameStep
<1>10. CASE PowerCycle
  BY <1>10, PowerCycleStep
<1>11. CASE SetAutoSave
  BY <1>11, SetAutoSaveStep
<1>12. CASE UNCHANGED vars
  BY <1>12, StutterStep
<1> QED BY <1>1, <1>2, <1>3, <1>4, <1>5, <1>6, <1>7, <1>8, <1>9, <1>10, <1>11, <1>12 DEF Next

(* The invariant holds in every state: the clock and its copy in the save   *)
(* file are in range, and show the seconds lived and those of what was      *)
(* saved (rtc.cpp:15-43).                                                   *)
THEOREM InvariantHolds == Spec => []IInv
<1> QED BY InitInv, NextInvariant, PTL DEF Spec

(* Whenever it is looked at, the MBC3's clock shows every second of host    *)
(* time it ran and none while it was halted, across latches, register       *)
(* writes, carries, a host clock set back, saves and power-offs.  The clock *)
(* in the save file does the same from what was last saved in it, which is  *)
(* all but the registers written with autosave off and not saved since      *)
(* (mbc.cpp:282-288 and 548-569, rtc.cpp:15-43, gameboy.cpp:981-989).       *)
THEOREM ClockAlwaysKeepsTime == Spec => []ClockKeepsHostTime
<1>1. IInv => ClockKeepsHostTime
  <2> SUFFICES ASSUME IInv PROVE ClockKeepsHostTime
    OBVIOUS
  <2>1. /\ clock \in ClockType /\ lived \in Nat /\ lived < Wrap /\ huc3 \in Huc3Type
        /\ filed \in Nat /\ filed < Wrap /\ autosave \in BOOLEAN /\ unsaved \in BOOLEAN
    BY InvFacts DEF Good
  <2>2. lived \in 0..(Wrap - 1) /\ filed \in 0..(Wrap - 1)
    <3>1. Wrap \in Nat
      BY WrapIs
    <3> HIDE DEF Wrap
    <3> QED BY <2>1, <3>1
  <2>3. huc3.value \in 0..15 /\ huc3.shift \in 0..28
    BY <2>1 DEF Huc3Type
  <2>4. TypeOK
    BY <2>1, <2>2, <2>3, Fields DEF TypeOK
  <2> QED BY <2>4 DEF ClockKeepsHostTime, IInv, KeepsTime, Agree
<1> QED BY <1>1, InvariantHolds, PTL

-----------------------------------------------------------------------------
(* The banks of the ROM and the codes.                                     *)

\* What the assumption says of each code.
LEMMA CodesAreCodes ==
  /\ Len(Codes) \in Nat /\ CodeIds = 1..Len(Codes)
  /\ \A i \in CodeIds : /\ Codes[i].half \in 0..1 /\ Codes[i].cell \in Cells
                        /\ Codes[i].data \in Byte
<1> DEFINE Code == [half : 0..1, cell : Cells, anyByte : BOOLEAN, compare : Byte, data : Byte]
<1>1. Codes \in Seq(Code)
  BY CodesAssumption
<1>2. ASSUME NEW i \in CodeIds PROVE Codes[i].half \in 0..1 /\ Codes[i].cell \in Cells /\ Codes[i].data \in Byte
  <2>1. Codes[i] \in Code
    <3> HIDE DEF Code
    <3> QED BY <1>1 DEF CodeIds
  <2> QED BY <2>1
<1>3. Len(Codes) \in Nat /\ CodeIds = 1..Len(Codes)
  <2> HIDE DEF Code
  <2> QED BY <1>1 DEF CodeIds
<1> QED BY <1>2, <1>3

(* What each code's step keeps is kept by applying them all to a bank; so   *)
(* for the other operations that go through a list.                         *)
LEMMA ApplyAllStays ==
  ASSUME NEW S, NEW s \in S, NEW bank, \A x \in S, i \in CodeIds : ApplyCode(x, i, bank) \in S
  PROVE  ApplyGGCheatsToBank(s, bank) \in S
<1> DEFINE n == Len(Codes)
           Step(x, i) == ApplyCode(x, i, bank)
           Cycle(f) == [i \in 0..n |-> IF i = 0 THEN s ELSE Step(f[i - 1], i)]
           F == [i \in 1..n |-> [x \in S |-> Step(x, i)]]
           after == CHOOSE f : f = Cycle(f)
<1>0. n \in Nat /\ \A x \in S, i \in 1..n : Step(x, i) \in S
  BY CodesAreCodes
<1>n. n \in Nat
  BY <1>0
<1>1. ApplyGGCheatsToBank(s, bank) = after[n]
  BY DEF ApplyGGCheatsToBank
<1> HIDE DEF n, Step
<1>2. F \in [1..n -> [S -> S]]
  BY <1>0
<1>3. PICK g \in [0..n -> S] : g[0] = s /\ \A i \in 1..n : g[i] = F[i][g[i - 1]]
  <2> HIDE DEF F
  <2> QED BY <1>n, <1>2, InTurn
<1>4. g = Cycle(g)
  <2>1. ASSUME NEW i \in 1..n PROVE g[i] = Step(g[i - 1], i)
    <3>1. i - 1 \in 0..n
      BY <1>0
    <3> QED BY <1>3, <3>1
  <2>2. ASSUME NEW i \in 0..n PROVE g[i] = Cycle(g)[i]
    <3>1. CASE i = 0
      BY <1>3, <3>1
    <3>2. CASE i \in 1..n
      BY <2>1, <3>2, <1>0
    <3> QED BY <3>1, <3>2, <1>0
  <2> QED BY <2>2
<1>5. after = Cycle(after)
  <2> HIDE DEF Cycle
  <2> QED BY <1>4
<1> HIDE DEF after
<1> DEFINE T == {i \in Nat : i <= n => after[i] \in S}
<1>6. 0 \in T
  BY <1>0, <1>5
<1>7. ASSUME NEW i \in Nat, i \in T PROVE i + 1 \in T
  <2>1. CASE i + 1 <= n
    <3>1. i + 1 \in 0..n /\ i + 1 # 0 /\ (i + 1) - 1 = i /\ i + 1 \in 1..n /\ after[i] \in S
      BY <1>7, <2>1, <1>0
    <3>2. after[i + 1] = Step(after[i], i + 1)
      BY <1>5, <3>1
    <3> QED BY <1>0, <3>1, <3>2
  <2> QED BY <2>1
<1> HIDE DEF T
<1>8. n \in T
  BY <1>0, <1>6, <1>7, Induction
<1> QED BY <1>0, <1>1, <1>8 DEF T
KeptByApplying(S) == \A x \in S, b \in Banks : ApplyToLoaded(x, b) \in S
LEMMA AllLoadedStays ==
  ASSUME NEW S, NEW s \in S, numRomBanks \in Nat, KeptByApplying(S)
  PROVE  ApplyToAllLoaded(s) \in S
<1> DEFINE n == numRomBanks
           Step(x, i) == ApplyToLoaded(x, i - 1)
           Cycle(f) == [i \in 0..n |-> IF i = 0 THEN s ELSE Step(f[i - 1], i)]
           F == [i \in 1..n |-> [x \in S |-> Step(x, i)]]
           after == CHOOSE f : f = Cycle(f)
<1>0. n \in Nat /\ \A x \in S, i \in 1..n : Step(x, i) \in S
  BY DEF Banks, KeptByApplying
<1>n. n \in Nat
  BY <1>0
<1>1. ApplyToAllLoaded(s) = after[n]
  BY DEF ApplyToAllLoaded
<1> HIDE DEF n, Step
<1>2. F \in [1..n -> [S -> S]]
  BY <1>0
<1>3. PICK g \in [0..n -> S] : g[0] = s /\ \A i \in 1..n : g[i] = F[i][g[i - 1]]
  <2> HIDE DEF F
  <2> QED BY <1>n, <1>2, InTurn
<1>4. g = Cycle(g)
  <2>1. ASSUME NEW i \in 1..n PROVE g[i] = Step(g[i - 1], i)
    <3>1. i - 1 \in 0..n
      BY <1>0
    <3> QED BY <1>3, <3>1
  <2>2. ASSUME NEW i \in 0..n PROVE g[i] = Cycle(g)[i]
    <3>1. CASE i = 0
      BY <1>3, <3>1
    <3>2. CASE i \in 1..n
      BY <2>1, <3>2, <1>0
    <3> QED BY <3>1, <3>2, <1>0
  <2> QED BY <2>2
<1>5. after = Cycle(after)
  <2> HIDE DEF Cycle
  <2> QED BY <1>4
<1> HIDE DEF after
<1> DEFINE T == {i \in Nat : i <= n => after[i] \in S}
<1>6. 0 \in T
  BY <1>0, <1>5
<1>7. ASSUME NEW i \in Nat, i \in T PROVE i + 1 \in T
  <2>1. CASE i + 1 <= n
    <3>1. i + 1 \in 0..n /\ i + 1 # 0 /\ (i + 1) - 1 = i /\ i + 1 \in 1..n /\ after[i] \in S
      BY <1>7, <2>1, <1>0
    <3>2. after[i + 1] = Step(after[i], i + 1)
      BY <1>5, <3>1
    <3> QED BY <1>0, <3>1, <3>2
  <2> QED BY <2>1
<1> HIDE DEF T
<1>8. n \in T
  BY <1>0, <1>6, <1>7, Induction
<1> QED BY <1>0, <1>1, <1>8 DEF T
LEMMA UnloadedStays ==
  ASSUME NEW S, NEW s \in S, \A x \in S, i \in CodeIds : ToggleOff(x, i) \in S
  PROVE  Unloaded(s) \in S
<1> DEFINE n == Len(Codes)
           Step(x, i) == ToggleOff(x, i)
           Cycle(f) == [i \in 0..n |-> IF i = 0 THEN s ELSE Step(f[i - 1], i)]
           F == [i \in 1..n |-> [x \in S |-> Step(x, i)]]
           after == CHOOSE f : f = Cycle(f)
<1>0. n \in Nat /\ \A x \in S, i \in 1..n : Step(x, i) \in S
  BY CodesAreCodes
<1>n. n \in Nat
  BY <1>0
<1>1. Unloaded(s) = after[n]
  BY DEF Unloaded
<1> HIDE DEF n, Step
<1>2. F \in [1..n -> [S -> S]]
  BY <1>0
<1>3. PICK g \in [0..n -> S] : g[0] = s /\ \A i \in 1..n : g[i] = F[i][g[i - 1]]
  <2> HIDE DEF F
  <2> QED BY <1>n, <1>2, InTurn
<1>4. g = Cycle(g)
  <2>1. ASSUME NEW i \in 1..n PROVE g[i] = Step(g[i - 1], i)
    <3>1. i - 1 \in 0..n
      BY <1>0
    <3> QED BY <1>3, <3>1
  <2>2. ASSUME NEW i \in 0..n PROVE g[i] = Cycle(g)[i]
    <3>1. CASE i = 0
      BY <1>3, <3>1
    <3>2. CASE i \in 1..n
      BY <2>1, <3>2, <1>0
    <3> QED BY <3>1, <3>2, <1>0
  <2> QED BY <2>2
<1>5. after = Cycle(after)
  <2> HIDE DEF Cycle
  <2> QED BY <1>4
<1> HIDE DEF after
<1> DEFINE T == {i \in Nat : i <= n => after[i] \in S}
<1>6. 0 \in T
  BY <1>0, <1>5
<1>7. ASSUME NEW i \in Nat, i \in T PROVE i + 1 \in T
  <2>1. CASE i + 1 <= n
    <3>1. i + 1 \in 0..n /\ i + 1 # 0 /\ (i + 1) - 1 = i /\ i + 1 \in 1..n /\ after[i] \in S
      BY <1>7, <2>1, <1>0
    <3>2. after[i + 1] = Step(after[i], i + 1)
      BY <1>5, <3>1
    <3> QED BY <1>0, <3>1, <3>2
  <2> QED BY <2>1
<1> HIDE DEF T
<1>8. n \in T
  BY <1>0, <1>6, <1>7, Induction
<1> QED BY <1>0, <1>1, <1>8 DEF T
KeptByToggling(S, flags) == \A x \in S, i \in CodeIds : ToggleCheat(x, i, flags[i]) \in S
LEMMA LoadedStays ==
  ASSUME NEW S, NEW s \in S, NEW flags, KeptByToggling(S, flags)
  PROVE  Loaded(s, flags) \in S
<1> DEFINE n == Len(Codes)
           Step(x, i) == ToggleCheat(x, i, flags[i])
           Cycle(f) == [i \in 0..n |-> IF i = 0 THEN s ELSE Step(f[i - 1], i)]
           F == [i \in 1..n |-> [x \in S |-> Step(x, i)]]
           after == CHOOSE f : f = Cycle(f)
<1>0. n \in Nat /\ \A x \in S, i \in 1..n : Step(x, i) \in S
  BY CodesAreCodes DEF KeptByToggling
<1>n. n \in Nat
  BY <1>0
<1>1. Loaded(s, flags) = after[n]
  BY DEF Loaded
<1> HIDE DEF n, Step
<1>2. F \in [1..n -> [S -> S]]
  BY <1>0
<1>3. PICK g \in [0..n -> S] : g[0] = s /\ \A i \in 1..n : g[i] = F[i][g[i - 1]]
  <2> HIDE DEF F
  <2> QED BY <1>n, <1>2, InTurn
<1>4. g = Cycle(g)
  <2>1. ASSUME NEW i \in 1..n PROVE g[i] = Step(g[i - 1], i)
    <3>1. i - 1 \in 0..n
      BY <1>0
    <3> QED BY <1>3, <3>1
  <2>2. ASSUME NEW i \in 0..n PROVE g[i] = Cycle(g)[i]
    <3>1. CASE i = 0
      BY <1>3, <3>1
    <3>2. CASE i \in 1..n
      BY <2>1, <3>2, <1>0
    <3> QED BY <3>1, <3>2, <1>0
  <2> QED BY <2>2
<1>5. after = Cycle(after)
  <2> HIDE DEF Cycle
  <2> QED BY <1>4
<1> HIDE DEF after
<1> DEFINE T == {i \in Nat : i <= n => after[i] \in S}
<1>6. 0 \in T
  BY <1>0, <1>5
<1>7. ASSUME NEW i \in Nat, i \in T PROVE i + 1 \in T
  <2>1. CASE i + 1 <= n
    <3>1. i + 1 \in 0..n /\ i + 1 # 0 /\ (i + 1) - 1 = i /\ i + 1 \in 1..n /\ after[i] \in S
      BY <1>7, <2>1, <1>0
    <3>2. after[i + 1] = Step(after[i], i + 1)
      BY <1>5, <3>1
    <3> QED BY <1>0, <3>1, <3>2
  <2> QED BY <2>1
<1> HIDE DEF T
<1>8. n \in T
  BY <1>0, <1>6, <1>7, Induction
<1> QED BY <1>0, <1>1, <1>8 DEF T

(* ------------------------------ the invariant --------------------------- *)
Loads == -1..(NumLoadedRomBanks - 1)
SlotSet == [bank : Banks, cells : [Cells -> Byte]]
Patch == [bank : Banks, value : Byte]
States == [ids : [Banks -> Loads], slots : [Slots -> SlotSet], queue : Seq(Banks \ {0}),
           enabled : [CodeIds -> BOOLEAN], patched : [CodeIds -> Seq(Patch)]]
Meant(i, bank) == Covers(Codes[i], bank)
CellOf(s, t, i) == s.slots[t].cells[Codes[i].cell]

\* The table, the slots and the queue tell the same.
InOrder(s) ==
  /\ s.ids[0] = 0
  /\ \A t \in Slots : s.ids[s.slots[t].bank] = t
  /\ \A b \in Banks : s.ids[b] # -1 => s.slots[s.ids[b]].bank = b
  /\ \A i, j \in 1..Len(s.queue) : s.queue[i] = s.queue[j] => i = j
  /\ \A i \in 1..Len(s.queue) : s.ids[s.queue[i]] # -1
  /\ \A b \in Banks \ {0} : s.ids[b] # -1 => \E i \in 1..Len(s.queue) : s.queue[i] = b
  /\ Len(s.queue) = NumLoadedRomBanks - 1
  /\ numRomBanks <= MaxLoadedRomBanks => \A b \in Banks : s.ids[b] # -1

\* What the codes have noted, what lone codes may have left, and the bytes no
\* code is for.
PatchesOk(s) ==
  \A i \in CodeIds : \A p \in ToSet(s.patched[i]) :
    Meant(i, p.bank) /\ (Alone(i) => p.value = Original[p.bank][Codes[i].cell])
CodesOk(s) ==
  \A i \in CodeIds, t \in Slots :
    Alone(i) /\ Meant(i, s.slots[t].bank) =>
      \/ CellOf(s, t, i) = Original[s.slots[t].bank][Codes[i].cell]
      \/ s.enabled[i] /\ CellOf(s, t, i) = Codes[i].data /\ PatchedIn(s, i, s.slots[t].bank)
RestOk(s) ==
  \A t \in Slots, c \in Cells :
    \/ \E i \in CodeIds : Codes[i].cell = c /\ Meant(i, s.slots[t].bank)
    \/ s.slots[t].cells[c] = Original[s.slots[t].bank][c]
CheatsOk(s) == PatchesOk(s) /\ CodesOk(s) /\ RestOk(s)
\* States that differ from s in bytes and codes only.
Alike(s, x) == x.ids = s.ids /\ x.queue = s.queue /\ \A t \in Slots : x.slots[t].bank = s.slots[t].bank
Clean(s) == {x \in States : Alike(s, x) /\ CheatsOk(x)}

\* The smallest sizes: two banks, two slots.
LEMMA SizesOk ==
  ASSUME numRomBanks \in RomSizes
  PROVE  /\ numRomBanks \in Nat /\ NumLoadedRomBanks \in Nat /\ numRomBanks >= 2 /\ NumLoadedRomBanks >= 2
         /\ NumLoadedRomBanks <= numRomBanks /\ 0 \in Banks /\ 0 \in Slots /\ 1 \in Banks /\ 1 \in Slots /\ Slots \subseteq Banks
         /\ \A b \in Banks : Original[b] \in [Cells -> Byte]
<1>1. /\ numRomBanks \in 2..MaxRomBanks /\ MaxRomBanks \in Nat
      /\ MaxLoadedRomBanks \in Nat /\ MaxLoadedRomBanks >= 2
  BY RomAssumption
<1>2. /\ NumLoadedRomBanks \in Nat /\ NumLoadedRomBanks >= 2 /\ NumLoadedRomBanks <= numRomBanks
  BY <1>1 DEF NumLoadedRomBanks
<1>3. Banks \subseteq 0..(MaxRomBanks - 1)
  BY <1>1 DEF Banks
<1>4. \A b \in Banks : Original[b] \in [Cells -> Byte]
  BY <1>3, RomAssumption
<1>5. 0 \in Banks /\ 0 \in Slots /\ 1 \in Banks /\ 1 \in Slots /\ Slots \subseteq Banks
  BY <1>1, <1>2 DEF Banks, Slots
<1> QED BY <1>1, <1>2, <1>4, <1>5

\* A lone code shares no byte of a bank with another.
LEMMA Exclusive ==
  ASSUME NEW i \in CodeIds, NEW j \in CodeIds, i # j, Alone(i) \/ Alone(j), NEW b, Meant(i, b), Meant(j, b)
  PROVE  Codes[i].cell # Codes[j].cell
<1>1. Codes[i].half \in 0..1 /\ Codes[j].half \in 0..1
  BY CodesAreCodes
<1>2. Codes[i].half = Codes[j].half
  BY <1>1 DEF Meant, Covers
<1> QED BY <1>2 DEF Alone

\* What a code that applies does to the state, field by field.
Applied(x, i, bank) ==
  LET slot == x.ids[bank]
      cell == Codes[i].cell
      byte == x.slots[slot].cells[cell]
  IN [x EXCEPT !.slots = [x.slots EXCEPT ![slot].cells[cell] = Codes[i].data],
               !.patched = [x.patched EXCEPT ![i] = Append(x.patched[i], [bank |-> bank, value |-> byte])]]

\* A code either changes nothing, or was on, meant for the bank and new to it.
LEMMA ApplyCodeApplied ==
  ASSUME numRomBanks \in RomSizes, NEW x \in States, NEW i \in CodeIds, NEW bank \in Banks
  PROVE  \/ ApplyCode(x, i, bank) = x
         \/ /\ ApplyCode(x, i, bank) = Applied(x, i, bank)
            /\ x.enabled[i] /\ Meant(i, bank) /\ ~PatchedIn(x, i, bank)
<1> DEFINE byte == x.slots[x.ids[bank]].cells[Codes[i].cell]
           new == [x EXCEPT !.slots[x.ids[bank]].cells[Codes[i].cell] = Codes[i].data,
                            !.patched[i] = Append(@, [bank |-> bank, value |-> byte])]
<1>1. \/ ApplyCode(x, i, bank) = x
      \/ /\ ApplyCode(x, i, bank) = new
         /\ x.enabled[i] /\ Meant(i, bank) /\ ~PatchedIn(x, i, bank)
  BY DEF ApplyCode, Meant
<1>2. new = Applied(x, i, bank)
  BY Zenon DEF Applied
<1> QED BY <1>1, <1>2

\* A state's fields.
LEMMA StateFields ==
  ASSUME NEW x \in States
  PROVE  /\ x.ids \in [Banks -> Loads] /\ x.slots \in [Slots -> SlotSet] /\ x.queue \in Seq(Banks \ {0})
         /\ x.enabled \in [CodeIds -> BOOLEAN] /\ x.patched \in [CodeIds -> Seq(Patch)]
         /\ \A t \in Slots : x.slots[t].bank \in Banks /\ x.slots[t].cells \in [Cells -> Byte]
<1> DEFINE A == [Banks -> Loads]
           B == [Slots -> SlotSet]
           C == Seq(Banks \ {0})
           D == [CodeIds -> BOOLEAN]
           E == [CodeIds -> Seq(Patch)]
<1>1. x \in [ids : A, slots : B, queue : C, enabled : D, patched : E]
  BY DEF States
<1>2. x.ids \in A /\ x.slots \in B /\ x.queue \in C /\ x.enabled \in D /\ x.patched \in E
  <2> HIDE DEF A, B, C, D, E
  <2> QED BY <1>1
<1>3. ASSUME NEW t \in Slots PROVE x.slots[t].bank \in Banks /\ x.slots[t].cells \in [Cells -> Byte]
  <2>1. x.slots[t] \in SlotSet
    BY <1>2
  <2> QED BY <2>1 DEF SlotSet
<1> QED BY <1>2, <1>3

\* The fields of the state after a code applied.
LEMMA AppliedFields ==
  ASSUME numRomBanks \in RomSizes, NEW x \in States, NEW i \in CodeIds, NEW bank \in Banks, x.ids[bank] # -1
  PROVE  LET y == Applied(x, i, bank)
             slot == x.ids[bank]
             cell == Codes[i].cell
             byte == x.slots[slot].cells[cell]
         IN /\ y \in States /\ slot \in Slots /\ byte \in Byte
            /\ y.ids = x.ids /\ y.queue = x.queue /\ y.enabled = x.enabled
            /\ \A t \in Slots : y.slots[t].bank = x.slots[t].bank
            /\ \A t \in Slots, c \in Cells :
                 y.slots[t].cells[c] = IF t = slot /\ c = cell THEN Codes[i].data ELSE x.slots[t].cells[c]
            /\ \A j \in CodeIds : \A p : p \in ToSet(y.patched[j]) <=>
                 p \in ToSet(x.patched[j]) \/ (j = i /\ p = [bank |-> bank, value |-> byte])
<1> DEFINE y == Applied(x, i, bank)
           slot == x.ids[bank]
           cell == Codes[i].cell
           byte == x.slots[slot].cells[cell]
           ns == [x.slots EXCEPT ![slot].cells[cell] = Codes[i].data]
           p0 == [bank |-> bank, value |-> byte]
           np == [x.patched EXCEPT ![i] = Append(x.patched[i], p0)]
<1>0. Codes[i].half \in 0..1 /\ cell \in Cells /\ Codes[i].data \in Byte
  BY CodesAreCodes
<1>1. slot \in Slots
  <2>1. x.ids[bank] \in Loads /\ NumLoadedRomBanks \in Nat
    BY StateFields, SizesOk
  <2> QED BY <2>1 DEF Loads, Slots
<1>2. byte \in Byte
  <2>1. x.slots[slot].cells \in [Cells -> Byte]
    BY <1>1, StateFields
  <2> HIDE DEF slot, cell
  <2> QED BY <2>1, <1>0
<1>3. x.slots \in [Slots -> SlotSet] /\ x.patched \in [CodeIds -> Seq(Patch)] /\ x.patched[i] \in Seq(Patch)
  BY StateFields
<1>4. ns \in [Slots -> SlotSet] /\ (\A t \in Slots : ns[t].bank = x.slots[t].bank)
      /\ (\A t \in Slots, c \in Cells : ns[t].cells[c] = IF t = slot /\ c = cell THEN Codes[i].data ELSE x.slots[t].cells[c])
  <2> HIDE DEF slot, cell
  <2> QED BY <1>0, <1>1, <1>3 DEF SlotSet
<1>5. p0 \in Patch
  <2> HIDE DEF byte
  <2> QED BY <1>2 DEF Patch
<1>6. np \in [CodeIds -> Seq(Patch)]
  <2> HIDE DEF p0
  <2> QED BY <1>3, <1>5
<1>7. ASSUME NEW j \in CodeIds, NEW p
      PROVE  p \in ToSet(np[j]) <=> p \in ToSet(x.patched[j]) \/ (j = i /\ p = p0)
  <2>1. CASE j # i
    <3>1. np[j] = x.patched[j]
      BY <2>1, <1>3
    <3> QED BY <2>1, <3>1
  <2>2. CASE j = i
    <3> DEFINE q == x.patched[i]
    <3>1. np[j] = Append(q, p0)
      BY <2>2, <1>3
    <3>2. q \in Seq(Patch) /\ Len(Append(q, p0)) = Len(q) + 1 /\ Append(q, p0)[Len(q) + 1] = p0
          /\ \A k \in 1..Len(q) : Append(q, p0)[k] = q[k]
      BY <1>3, <1>5
    <3>3. DOMAIN q = 1..Len(q) /\ DOMAIN Append(q, p0) = 1..(Len(q) + 1) /\ Len(q) \in Nat
      <4> HIDE DEF p0
      <4> QED BY <3>2, <1>5
    <3>4. p \in ToSet(Append(q, p0)) <=> p \in ToSet(q) \/ p = p0
      <4> HIDE DEF p0, q
      <4> QED BY <3>2, <3>3 DEF ToSet
    <3> QED BY <2>2, <3>1, <3>4
  <2> QED BY <2>1, <2>2
<1>8. y = [x EXCEPT !.slots = ns, !.patched = np]
  BY Zenon DEF Applied
<1> HIDE DEF ns, np, y
<1>9. /\ y \in States /\ y.slots = ns /\ y.patched = np
      /\ y.ids = x.ids /\ y.queue = x.queue /\ y.enabled = x.enabled
  <2> DEFINE A == [Banks -> Loads]
             B == [Slots -> SlotSet]
             C == Seq(Banks \ {0})
             D == [CodeIds -> BOOLEAN]
             E == [CodeIds -> Seq(Patch)]
  <2>1. x \in [ids : A, slots : B, queue : C, enabled : D, patched : E] /\ ns \in B /\ np \in E
    BY <1>4, <1>6 DEF States
  <2>2. y \in [ids : A, slots : B, queue : C, enabled : D, patched : E]
    <3> HIDE DEF A, B, C, D, E
    <3> QED BY <1>8, <2>1, Zenon
  <2>3. /\ y.slots = ns /\ y.patched = np
        /\ y.ids = x.ids /\ y.queue = x.queue /\ y.enabled = x.enabled
    <3> HIDE DEF A, B, C, D, E
    <3> QED BY <1>8, <2>1
  <2> QED BY <2>2, <2>3 DEF States
<1>10. \A j \in CodeIds : \A p : p \in ToSet(y.patched[j]) <=> p \in ToSet(x.patched[j]) \/ (j = i /\ p = p0)
  BY <1>7, <1>9
<1> QED BY <1>1, <1>2, <1>4, <1>9, <1>10 DEF y

(* ------------------------------ the codes ------------------------------- *)
LEMMA ApplyCodeClean ==
  ASSUME numRomBanks \in RomSizes, NEW s \in States, InOrder(s), NEW x \in Clean(s),
         NEW i \in CodeIds, NEW bank \in Banks, s.ids[bank] # -1
  PROVE  ApplyCode(x, i, bank) \in Clean(s)
<1>1. x \in States /\ Alike(s, x) /\ PatchesOk(x) /\ CodesOk(x) /\ RestOk(x)
  BY DEF Clean, CheatsOk
<1>2. \/ ApplyCode(x, i, bank) = x
      \/ /\ ApplyCode(x, i, bank) = Applied(x, i, bank)
         /\ x.enabled[i] /\ Meant(i, bank) /\ ~PatchedIn(x, i, bank)
  BY <1>1, ApplyCodeApplied
<1>3. CASE ApplyCode(x, i, bank) = x
  BY <1>3
<1>4. CASE /\ ApplyCode(x, i, bank) = Applied(x, i, bank)
           /\ x.enabled[i] /\ Meant(i, bank) /\ ~PatchedIn(x, i, bank)
  <2> DEFINE y == Applied(x, i, bank)
             slot == x.ids[bank]
             cell == Codes[i].cell
             byte == x.slots[slot].cells[cell]
             p0 == [bank |-> bank, value |-> byte]
  <2>0. x.ids[bank] # -1 /\ x.slots[slot].bank = bank
    <3>1. x.ids = s.ids
      BY <1>1 DEF Alike
    <3>2. s.slots[slot].bank = bank /\ slot \in Loads /\ slot # -1
      BY <3>1, StateFields DEF InOrder
    <3>3. slot \in Slots
      <4> HIDE DEF slot
      <4> QED BY <3>2, SizesOk DEF Slots, Loads
    <3> QED BY <1>1, <3>1, <3>2, <3>3 DEF Alike
  <2>1. /\ y \in States /\ slot \in Slots /\ byte \in Byte
        /\ y.ids = x.ids /\ y.queue = x.queue /\ y.enabled = x.enabled
        /\ \A t \in Slots : y.slots[t].bank = x.slots[t].bank
    BY <1>1, <2>0, AppliedFields
  <2>2. \A t \in Slots, c \in Cells :
          y.slots[t].cells[c] = IF t = slot /\ c = cell THEN Codes[i].data ELSE x.slots[t].cells[c]
    BY <1>1, <2>0, AppliedFields
  <2>3. \A j \in CodeIds : \A p : p \in ToSet(y.patched[j]) <=> p \in ToSet(x.patched[j]) \/ (j = i /\ p = p0)
    BY <1>1, <2>0, AppliedFields
  <2> HIDE DEF y
  <2>4. \A j \in CodeIds, b \in Banks : PatchedIn(x, j, b) => PatchedIn(y, j, b)
    BY <2>3 DEF PatchedIn
  <2>5. PatchedIn(y, i, bank)
    <3>1. p0 \in ToSet(y.patched[i]) /\ p0.bank = bank
      BY <2>3
    <3> HIDE DEF p0
    <3> QED BY <3>1 DEF PatchedIn
  <2>6. Alike(s, y)
    BY <1>1, <2>1 DEF Alike
  <2>7. PatchesOk(y)
    <3> SUFFICES ASSUME NEW j \in CodeIds, NEW p \in ToSet(y.patched[j])
                 PROVE  Meant(j, p.bank) /\ (Alone(j) => p.value = Original[p.bank][Codes[j].cell])
      BY DEF PatchesOk
    <3>1. CASE p \in ToSet(x.patched[j])
      BY <3>1, <1>1 DEF PatchesOk
    <3>2. CASE j = i /\ p = p0
      <4>1. Alone(i) => byte = Original[bank][cell]
        BY <1>1, <1>4, <2>0, <2>1 DEF CodesOk, CellOf
      <4> QED BY <3>2, <4>1, <1>4
    <3> QED BY <2>3, <3>1, <3>2
  <2>8. CodesOk(y)
    <3> SUFFICES ASSUME NEW j \in CodeIds, NEW t \in Slots, Alone(j), Meant(j, y.slots[t].bank)
                 PROVE  \/ CellOf(y, t, j) = Original[y.slots[t].bank][Codes[j].cell]
                        \/ y.enabled[j] /\ CellOf(y, t, j) = Codes[j].data /\ PatchedIn(y, j, y.slots[t].bank)
      BY DEF CodesOk
    <3>0. Codes[j].cell \in Cells /\ y.slots[t].bank = x.slots[t].bank /\ x.slots[t].bank \in Banks
      BY <1>1, <2>1, CodesAreCodes, StateFields
    <3>1. CASE j = i /\ t = slot
      <4>1. CellOf(y, t, j) = Codes[i].data
        BY <3>0, <3>1, <2>2 DEF CellOf
      <4> QED BY <3>0, <3>1, <4>1, <2>0, <2>1, <2>5, <1>4
    <3>2. CASE ~(j = i /\ t = slot)
      <4>1. CellOf(y, t, j) = CellOf(x, t, j)
        <5>1. t = slot => Codes[j].cell # cell
          <6>1. ASSUME t = slot, j # i PROVE Codes[j].cell # Codes[i].cell
            <7>1. Meant(j, bank)
              BY <2>0, <2>1, <6>1
            <7> QED BY <6>1, <7>1, <1>4, Exclusive
          <6> QED BY <3>2, <6>1
        <5> QED BY <3>0, <5>1, <2>2 DEF CellOf
      <4> QED BY <1>1, <2>1, <2>4, <3>0, <4>1 DEF CodesOk
    <3> QED BY <3>1, <3>2
  <2>9. RestOk(y)
    <3> SUFFICES ASSUME NEW t \in Slots, NEW c \in Cells,
                        ~ \E j \in CodeIds : Codes[j].cell = c /\ Meant(j, y.slots[t].bank)
                 PROVE  y.slots[t].cells[c] = Original[y.slots[t].bank][c]
      BY DEF RestOk
    <3>1. ~(t = slot /\ c = cell)
      BY <1>4, <2>0, <2>1
    <3> QED BY <3>1, <1>1, <2>1, <2>2 DEF RestOk
  <2> QED BY <1>4, <2>1, <2>6, <2>7, <2>8, <2>9 DEF Clean, CheatsOk, y
<1> QED BY <1>2, <1>3, <1>4

\* A bank with an entry in the table has a slot.
LEMMA LoadedSlot ==
  ASSUME numRomBanks \in RomSizes, NEW s \in States, NEW b \in Banks, s.ids[b] # -1
  PROVE  s.ids[b] \in Slots
<1> DEFINE slot == s.ids[b]
<1>1. slot \in Loads /\ slot # -1 /\ NumLoadedRomBanks \in Nat
  BY StateFields, SizesOk
<1> HIDE DEF slot
<1>2. slot \in Slots
  BY <1>1 DEF Slots, Loads
<1> QED BY <1>2 DEF slot

LEMMA AlikeStays ==
  ASSUME numRomBanks \in RomSizes, NEW s \in States, NEW x, Alike(s, x), InOrder(s)
  PROVE  InOrder(x)
<1>1. x.ids = s.ids /\ x.queue = s.queue /\ \A t \in Slots : x.slots[t].bank = s.slots[t].bank
  BY DEF Alike
<1>2. ASSUME NEW b \in Banks, x.ids[b] # -1 PROVE x.slots[x.ids[b]].bank = b
  <2>1. s.ids[b] \in Slots
    BY <1>1, <1>2, LoadedSlot
  <2> QED BY <1>1, <1>2, <2>1 DEF InOrder
<1>3. \A t \in Slots : x.ids[x.slots[t].bank] = t
  BY <1>1 DEF InOrder
<1> QED BY <1>1, <1>2, <1>3 DEF InOrder

LEMMA ApplyCheatsClean ==
  ASSUME numRomBanks \in RomSizes, NEW s \in States, InOrder(s), NEW x \in Clean(s),
         NEW bank \in Banks, s.ids[bank] # -1
  PROVE  ApplyGGCheatsToBank(x, bank) \in Clean(s)
<1> DEFINE S == Clean(s)
<1>1. \A y \in S, i \in CodeIds : ApplyCode(y, i, bank) \in S
  BY ApplyCodeClean
<1> HIDE DEF S
<1>2. x \in S
  BY DEF S
<1>3. ApplyGGCheatsToBank(x, bank) \in S
  BY <1>1, <1>2, ApplyAllStays
<1> QED BY <1>3 DEF S

LEMMA AllLoadedClean ==
  ASSUME numRomBanks \in RomSizes, NEW s \in States, InOrder(s), NEW x \in Clean(s)
  PROVE  ApplyToAllLoaded(x) \in Clean(s)
<1> DEFINE S == Clean(s)
<1>1. KeptByApplying(S)
  <2>1. ASSUME NEW y \in S, NEW b \in Banks PROVE ApplyToLoaded(y, b) \in S
    <3>1. y.ids = s.ids
      BY DEF Clean, Alike
    <3>2. s.ids[b] # -1 => ApplyGGCheatsToBank(y, b) \in S
      BY ApplyCheatsClean
    <3> QED BY <3>1, <3>2 DEF ApplyToLoaded
  <2> QED BY <2>1 DEF KeptByApplying
<1>2. numRomBanks \in Nat
  BY SizesOk
<1> HIDE DEF S
<1>3. x \in S
  BY DEF S
<1>4. ApplyToAllLoaded(x) \in S
  BY <1>1, <1>2, <1>3, AllLoadedStays
<1> QED BY <1>4 DEF S

\* Switching a code off gives every loaded bank it patched the ROM's byte back,
\* and touches no byte of another lone code.
LEMMA ToggleOffClean ==
  ASSUME numRomBanks \in RomSizes, NEW s \in States, InOrder(s), NEW x \in Clean(s), NEW i \in CodeIds
  PROVE  ToggleOff(x, i) \in Clean(s)
<1> DEFINE ps == ToSet(x.patched[i])
           cell == Codes[i].cell
           Hit(t) == \E p \in ps : x.ids[p.bank] = t
           Back(t) == (CHOOSE p \in ps : x.ids[p.bank] = t).value
           New(t) == IF Hit(t) THEN [x.slots[t] EXCEPT !.cells[cell] = Back(t)] ELSE x.slots[t]
           ns == [t \in Slots |-> New(t)]
           np == [x.patched EXCEPT ![i] = << >>]
           ne == [x.enabled EXCEPT ![i] = FALSE]
           y == UnapplyGGCheat(x, i)
           z == ToggleOff(x, i)
<1>1. x \in States /\ Alike(s, x) /\ PatchesOk(x) /\ CodesOk(x) /\ RestOk(x) /\ InOrder(x)
  BY AlikeStays DEF Clean, CheatsOk
<1>2. /\ x.ids \in [Banks -> Loads] /\ x.slots \in [Slots -> SlotSet] /\ x.queue \in Seq(Banks \ {0})
      /\ x.enabled \in [CodeIds -> BOOLEAN] /\ x.patched \in [CodeIds -> Seq(Patch)]
  BY <1>1, StateFields
<1>3. cell \in Cells /\ \A j \in CodeIds : Codes[j].cell \in Cells
  BY CodesAreCodes
<1>4. \A p \in ps : p.bank \in Banks /\ p.value \in Byte /\ Meant(i, p.bank)
                    /\ (Alone(i) => p.value = Original[p.bank][cell])
  <2>1. x.patched[i] \in Seq(Patch)
    BY <1>2
  <2>2. \A p \in ps : p \in Patch
    BY <2>1 DEF ToSet
  <2> QED BY <1>1, <2>2 DEF PatchesOk, Patch
<1>5. ASSUME NEW t \in Slots, Hit(t)
      PROVE  /\ Back(t) \in Byte /\ Meant(i, x.slots[t].bank)
             /\ Alone(i) => Back(t) = Original[x.slots[t].bank][cell]
  <2>1. PICK p \in ps : x.ids[p.bank] = t /\ p = CHOOSE q \in ps : x.ids[q.bank] = t
    BY <1>5
  <2>2. x.slots[t].bank = p.bank
    <3>1. t # -1
      BY SizesOk DEF Slots
    <3> QED BY <1>1, <1>4, <2>1, <3>1 DEF InOrder
  <2> QED BY <1>4, <2>1, <2>2
<1>6. ASSUME NEW t \in Slots
      PROVE  /\ New(t) \in SlotSet /\ New(t).bank = x.slots[t].bank
             /\ \A c \in Cells : New(t).cells[c] = IF Hit(t) /\ c = cell THEN Back(t) ELSE x.slots[t].cells[c]
  <2>1. x.slots[t] \in SlotSet
    BY <1>2
  <2>2. CASE Hit(t)
    <3> DEFINE v == Back(t)
    <3>1. v \in Byte
      BY <1>5, <2>2
    <3>2. New(t) = [x.slots[t] EXCEPT !.cells[cell] = v]
      BY <2>2
    <3> HIDE DEF v, Hit, New, cell
    <3>3. /\ New(t) \in SlotSet /\ New(t).bank = x.slots[t].bank
          /\ \A c \in Cells : New(t).cells[c] = IF c = cell THEN v ELSE x.slots[t].cells[c]
      BY <1>3, <2>1, <3>1, <3>2 DEF SlotSet
    <3> QED BY <2>2, <3>3 DEF v
  <2>3. CASE ~Hit(t)
    BY <2>1, <2>3
  <2> QED BY <2>2, <2>3
<1>7. ns \in [Slots -> SlotSet] /\ np \in [CodeIds -> Seq(Patch)] /\ ne \in [CodeIds -> BOOLEAN]
  <2>1. ns \in [Slots -> SlotSet]
    <3> HIDE DEF New
    <3> QED BY <1>6
  <2>2. np \in [CodeIds -> Seq(Patch)] /\ ne \in [CodeIds -> BOOLEAN]
    BY <1>2
  <2> QED BY <2>1, <2>2
<1>8. y = [x EXCEPT !.patched = np, !.slots = ns]
  <2>1. DOMAIN x.slots = Slots
    BY <1>2
  <2> QED BY <2>1, Zenon DEF UnapplyGGCheat, Restored
<1>9. z = [y EXCEPT !.enabled[i] = FALSE]
  BY DEF ToggleOff
<1> HIDE DEF ns, np, y, z
<1>10. z \in States /\ z.ids = x.ids /\ z.queue = x.queue /\ z.slots = ns /\ z.patched = np /\ z.enabled = ne
  <2> DEFINE A == [Banks -> Loads]
             B == [Slots -> SlotSet]
             C == Seq(Banks \ {0})
             D == [CodeIds -> BOOLEAN]
             E == [CodeIds -> Seq(Patch)]
  <2>1. x \in [ids : A, slots : B, queue : C, enabled : D, patched : E] /\ ns \in B /\ np \in E /\ ne \in D
    BY <1>1, <1>7 DEF States
  <2>2. /\ y.slots = ns /\ y.patched = np /\ y.ids = x.ids /\ y.queue = x.queue /\ y.enabled = x.enabled
    <3> HIDE DEF A, B, C, D, E
    <3> QED BY <1>8, <2>1
  <2>3. y \in [ids : A, slots : B, queue : C, enabled : D, patched : E]
    <3> HIDE DEF A, B, C, D, E
    <3> QED BY <1>8, <2>1, Zenon
  <2>4. z = [y EXCEPT !.enabled = [y.enabled EXCEPT ![i] = FALSE]]
    BY <1>9, Zenon
  <2>5. z = [y EXCEPT !.enabled = ne]
    BY <2>2, <2>4
  <2> HIDE DEF ne
  <2>6. z \in [ids : A, slots : B, queue : C, enabled : D, patched : E]
    <3> HIDE DEF A, B, C, D, E
    <3> QED BY <2>1, <2>3, <2>5, Zenon
  <2>7. z.slots = y.slots /\ z.patched = y.patched /\ z.ids = y.ids /\ z.queue = y.queue /\ z.enabled = ne
    <3> HIDE DEF A, B, C, D, E
    <3> QED BY <2>3, <2>5
  <2> QED BY <2>2, <2>6, <2>7 DEF States
<1>11. \A t \in Slots : /\ z.slots[t].bank = x.slots[t].bank
                        /\ \A c \in Cells : z.slots[t].cells[c] = IF Hit(t) /\ c = cell THEN Back(t) ELSE x.slots[t].cells[c]
  <2> HIDE DEF New, Hit
  <2> QED BY <1>6, <1>10 DEF ns
<1>12. Alike(s, z)
  BY <1>1, <1>10, <1>11 DEF Alike
<1>13. \A j \in CodeIds : j # i => z.patched[j] = x.patched[j] /\ z.enabled[j] = x.enabled[j]
  BY <1>2, <1>10 DEF np
<1>14. z.patched[i] = << >>
  BY <1>2, <1>10 DEF np
<1> HIDE DEF Hit, Back, ps, ne
<1>15. PatchesOk(z)
  <2> SUFFICES ASSUME NEW j \in CodeIds, NEW p \in ToSet(z.patched[j])
               PROVE  Meant(j, p.bank) /\ (Alone(j) => p.value = Original[p.bank][Codes[j].cell])
    BY DEF PatchesOk
  <2>1. j # i
    BY <1>14 DEF ToSet
  <2> QED BY <1>1, <1>13, <2>1 DEF PatchesOk
<1>16. CodesOk(z)
  <2> SUFFICES ASSUME NEW j \in CodeIds, NEW t \in Slots, Alone(j), Meant(j, z.slots[t].bank)
               PROVE  \/ CellOf(z, t, j) = Original[z.slots[t].bank][Codes[j].cell]
                      \/ z.enabled[j] /\ CellOf(z, t, j) = Codes[j].data /\ PatchedIn(z, j, z.slots[t].bank)
    BY DEF CodesOk
  <2>1. z.slots[t].bank = x.slots[t].bank /\ Codes[j].cell \in Cells
    BY <1>3, <1>11
  <2>2. CASE Hit(t) /\ j = i
    BY <1>5, <1>11, <2>1, <2>2 DEF CellOf
  <2>3. CASE ~Hit(t) /\ j = i
    <3>1. ~PatchedIn(x, i, x.slots[t].bank)
      <4>1. x.ids[x.slots[t].bank] = t
        BY <1>1 DEF InOrder
      <4> QED BY <2>3, <4>1 DEF PatchedIn, Hit, ps
    <3>2. CellOf(z, t, j) = CellOf(x, t, j)
      BY <1>11, <2>1, <2>3 DEF CellOf
    <3> QED BY <1>1, <2>1, <2>3, <3>1, <3>2 DEF CodesOk
  <2>4. CASE j # i
    <3>1. Hit(t) => Codes[j].cell # cell
      BY <1>5, <2>1, <2>4, Exclusive
    <3>2. CellOf(z, t, j) = CellOf(x, t, j)
      BY <1>11, <2>1, <3>1 DEF CellOf
    <3> QED BY <1>1, <1>13, <2>1, <2>4, <3>2 DEF CodesOk, PatchedIn
  <2> QED BY <2>2, <2>3, <2>4
<1>17. RestOk(z)
  <2> SUFFICES ASSUME NEW t \in Slots, NEW c \in Cells,
                      ~ \E j \in CodeIds : Codes[j].cell = c /\ Meant(j, z.slots[t].bank)
               PROVE  z.slots[t].cells[c] = Original[z.slots[t].bank][c]
    BY DEF RestOk
  <2>1. ~(Hit(t) /\ c = cell)
    BY <1>5, <1>11
  <2> QED BY <2>1, <1>1, <1>11 DEF RestOk
<1> QED BY <1>10, <1>12, <1>15, <1>16, <1>17 DEF Clean, CheatsOk, z

\* Switching a code on, either way, and the whole list.
LEMMA ToggleOnClean ==
  ASSUME numRomBanks \in RomSizes, NEW s \in States, InOrder(s), NEW x \in Clean(s), NEW i \in CodeIds
  PROVE  ToggleOn(x, i) \in Clean(s)
<1> DEFINE ne == [x.enabled EXCEPT ![i] = TRUE]
           y == [x EXCEPT !.enabled[i] = TRUE]
<1>1. x \in States /\ Alike(s, x) /\ PatchesOk(x) /\ CodesOk(x) /\ RestOk(x)
  BY DEF Clean, CheatsOk
<1>2. x.enabled \in [CodeIds -> BOOLEAN]
  BY <1>1, StateFields
<1>3. y \in States /\ y.ids = x.ids /\ y.queue = x.queue /\ y.slots = x.slots /\ y.patched = x.patched /\ y.enabled = ne
  <2> DEFINE A == [Banks -> Loads]
             B == [Slots -> SlotSet]
             C == Seq(Banks \ {0})
             D == [CodeIds -> BOOLEAN]
             E == [CodeIds -> Seq(Patch)]
  <2>1. x \in [ids : A, slots : B, queue : C, enabled : D, patched : E] /\ ne \in D
    BY <1>1, <1>2 DEF States
  <2>2. y = [x EXCEPT !.enabled = ne]
    BY Zenon
  <2> HIDE DEF A, B, C, D, E, ne, y
  <2>3. y \in [ids : A, slots : B, queue : C, enabled : D, patched : E]
    BY <2>1, <2>2, Zenon
  <2>4. y.ids = x.ids /\ y.queue = x.queue /\ y.slots = x.slots /\ y.patched = x.patched /\ y.enabled = ne
    BY <2>1, <2>2
  <2> QED BY <2>3, <2>4 DEF States, A, B, C, D, E
<1>4. \A j \in CodeIds : x.enabled[j] => y.enabled[j]
  BY <1>2, <1>3, Zenon
<1> HIDE DEF y, ne
<1>5. Alike(s, y) /\ PatchesOk(y) /\ RestOk(y)
  BY <1>1, <1>3 DEF Alike, PatchesOk, RestOk
<1>6. CodesOk(y)
  BY <1>1, <1>3, <1>4 DEF CodesOk, CellOf, PatchedIn
<1>7. y \in Clean(s)
  BY <1>3, <1>5, <1>6 DEF Clean, CheatsOk
<1> QED BY <1>7, AllLoadedClean DEF ToggleOn, y

LEMMA ToggleCheatClean ==
  ASSUME numRomBanks \in RomSizes, NEW s \in States, InOrder(s), NEW x \in Clean(s), NEW i \in CodeIds, NEW on
  PROVE  ToggleCheat(x, i, on) \in Clean(s)
BY ToggleOnClean, ToggleOffClean DEF ToggleCheat

LEMMA LoadCheatsClean ==
  ASSUME numRomBanks \in RomSizes, NEW s \in States, InOrder(s), NEW x \in Clean(s), NEW flags
  PROVE  Loaded(Unloaded(x), flags) \in Clean(s)
<1> DEFINE S == Clean(s)
<1>1. \A y \in S, i \in CodeIds : ToggleOff(y, i) \in S
  BY ToggleOffClean
<1>2. KeptByToggling(S, flags)
  BY ToggleCheatClean DEF KeptByToggling
<1> HIDE DEF S
<1>3. x \in S
  BY DEF S
<1>4. Unloaded(x) \in S
  BY <1>1, <1>3, UnloadedStays
<1>5. Loaded(Unloaded(x), flags) \in S
  BY <1>2, <1>4, LoadedStays
<1> QED BY <1>5 DEF S

\* A bank that is loaded anew takes the slot of the one loaded longest ago.
(* ------------------------------ the cache ------------------------------- *)
LEMMA EvictedInOrder ==
  ASSUME numRomBanks \in RomSizes, NEW s \in States, InOrder(s), CheatsOk(s), NEW bank \in Banks, s.ids[bank] = -1
  PROVE  LET y == Evicted(s, bank)
             slot == y.ids[bank]
         IN /\ y \in States /\ InOrder(y) /\ CheatsOk(y)
            /\ slot \in Slots /\ numRomBanks > MaxLoadedRomBanks
            /\ \A b \in Banks : s.ids[b] # -1 => s.ids[b] = slot \/ y.ids[b] = s.ids[b]
<1> DEFINE q == s.queue
           out == Last(q)
           slot == s.ids[out]
           ni == [s.ids EXCEPT ![out] = -1, ![bank] = slot]
           ns == [s.slots EXCEPT ![slot] = Fresh(bank)]
           nq == <<bank>> \o Front(q)
           y == Evicted(s, bank)
           L == NumLoadedRomBanks - 1
<1>1. L \in Nat /\ L >= 1 /\ 0 \in Banks /\ 0 \in Slots /\ Slots \subseteq Nat /\ numRomBanks \in Nat
      /\ \A b \in Banks : Original[b] \in [Cells -> Byte]
  BY SizesOk DEF Slots
<1>2. /\ s.ids \in [Banks -> Loads] /\ s.slots \in [Slots -> SlotSet] /\ q \in Seq(Banks \ {0})
      /\ s.enabled \in [CodeIds -> BOOLEAN] /\ s.patched \in [CodeIds -> Seq(Patch)]
  BY StateFields
<1>3. Len(q) = L
  BY DEF InOrder
<1>4. out = q[L] /\ out \in Banks \ {0}
  BY <1>1, <1>2, <1>3 DEF Last
<1>5. s.ids[out] # -1 /\ slot \in Slots /\ s.slots[slot].bank = out
  <2>1. s.ids[out] # -1
    BY <1>1, <1>3, <1>4 DEF InOrder
  <2> QED BY <1>4, <2>1, LoadedSlot DEF InOrder
<1>6. slot # 0 /\ bank # 0 /\ bank # out /\ slot # -1
  <2>1. s.ids[0] = 0
    BY DEF InOrder
  <2>2. slot # 0
    <3>1. s.slots[0].bank = 0
      BY <1>1, <2>1 DEF InOrder
    <3> QED BY <1>4, <1>5, <3>1
  <2> QED BY <2>1, <2>2, <1>5
<1>7. numRomBanks > MaxLoadedRomBanks
  BY <1>1, RomAssumption DEF InOrder
<1>8. ni \in [Banks -> Loads] /\ ni[bank] = slot /\ ni[out] = -1 /\ \A b \in Banks : b # bank /\ b # out => ni[b] = s.ids[b]
  <2>1. slot \in Loads /\ -1 \in Loads
    <3>1. slot \in Nat /\ slot <= L
      <4> HIDE DEF slot
      <4> QED BY <1>1, <1>5 DEF Slots
    <3> HIDE DEF slot
    <3> QED BY <3>1, <1>1 DEF Loads
  <2> HIDE DEF slot, out
  <2> QED BY <1>2, <1>4, <1>6, <2>1
<1>9. Fresh(bank) \in SlotSet /\ Fresh(bank).bank = bank /\ Fresh(bank).cells = Original[bank]
  BY <1>1 DEF Fresh, SlotSet
<1>10. ns \in [Slots -> SlotSet] /\ ns[slot] = Fresh(bank) /\ \A t \in Slots : t # slot => ns[t] = s.slots[t]
  <2> HIDE DEF slot
  <2> QED BY <1>2, <1>5, <1>9
<1>11. /\ nq \in Seq(Banks \ {0}) /\ Len(nq) = L /\ nq[1] = bank
       /\ \A k \in 2..L : nq[k] = q[k - 1]
  <2>1. bank \in Banks \ {0}
    BY <1>6
  <2>2. Front(q) \in Seq(Banks \ {0}) /\ Len(Front(q)) = L - 1 /\ \A k \in 1..(L - 1) : Front(q)[k] = q[k]
    <3> DEFINE U == Banks \ {0}
    <3>1. q \in Seq(U) /\ q # << >>
      BY <1>1, <1>2, <1>3
    <3> HIDE DEF U, q, L
    <3>2. Front(q) = SubSeq(q, 1, L - 1)
      BY <1>3 DEF Front
    <3>3. \A k \in 1..(L - 1) : q[k] \in U
      BY <3>1, <1>1, <1>3
    <3>4. Front(q) = [k \in 1..(L - 1) |-> q[k]]
      BY <3>1, <3>2, <1>1, <1>3
    <3> QED BY <3>3, <3>4, <1>1 DEF U
  <2> DEFINE U == Banks \ {0}
             f == Front(q)
  <2>3. bank \in U /\ f \in Seq(U) /\ Len(f) = L - 1 /\ \A k \in 1..(L - 1) : f[k] = q[k]
    BY <2>1, <2>2
  <2> HIDE DEF U, f, q, L
  <2>4. <<bank>> \in Seq(U) /\ Len(<<bank>>) = 1 /\ <<bank>>[1] = bank
    BY <2>3
  <2>5. <<bank>> \o f \in Seq(U) /\ Len(<<bank>> \o f) = L
    BY <2>3, <2>4, <1>1
  <2>6. (<<bank>> \o f)[1] = bank
    BY <2>3, <2>4
  <2>7. ASSUME NEW k \in 2..L PROVE (<<bank>> \o f)[k] = q[k - 1]
    <3>1. k - 1 \in 1..(L - 1)
      BY <1>1
    <3>2. (<<bank>> \o f)[k] = f[k - 1]
      BY <2>3, <2>4, <1>1
    <3> QED BY <2>3, <3>1, <3>2
  <2> QED BY <2>5, <2>6, <2>7 DEF U, f
<1>12. y = [s EXCEPT !.ids = ni, !.slots = ns, !.queue = nq]
  BY Zenon DEF Evicted
<1> HIDE DEF ni, ns, nq, y
<1>13. y \in States /\ y.ids = ni /\ y.slots = ns /\ y.queue = nq /\ y.enabled = s.enabled /\ y.patched = s.patched
  <2> DEFINE A == [Banks -> Loads]
             B == [Slots -> SlotSet]
             C == Seq(Banks \ {0})
             D == [CodeIds -> BOOLEAN]
             E == [CodeIds -> Seq(Patch)]
  <2>1. s \in [ids : A, slots : B, queue : C, enabled : D, patched : E] /\ ni \in A /\ ns \in B /\ nq \in C
    BY <1>8, <1>10, <1>11 DEF States
  <2> HIDE DEF A, B, C, D, E
  <2>2. y \in [ids : A, slots : B, queue : C, enabled : D, patched : E]
    BY <2>1, <1>12, Zenon
  <2>3. y.ids = ni /\ y.slots = ns /\ y.queue = nq /\ y.enabled = s.enabled /\ y.patched = s.patched
    BY <2>1, <1>12
  <2> QED BY <2>2, <2>3 DEF States, A, B, C, D, E
<1> HIDE DEF slot, out, q
<1>14. InOrder(y)
  <2>1. ni[0] = 0
    BY <1>1, <1>4, <1>6, <1>8 DEF InOrder
  <2>2. ASSUME NEW t \in Slots PROVE ni[ns[t].bank] = t
    <3>1. CASE t = slot
      BY <3>1, <1>8, <1>9, <1>10
    <3>2. CASE t # slot
      <4>1. ns[t].bank = s.slots[t].bank /\ s.slots[t].bank \in Banks /\ s.ids[s.slots[t].bank] = t
        BY <3>2, <1>10, StateFields DEF InOrder
      <4>2. s.slots[t].bank # bank /\ s.slots[t].bank # out
        <5>1. t # -1
          BY <1>1
        <5> QED BY <4>1, <3>2, <5>1 DEF slot
      <4> QED BY <4>1, <4>2, <1>8
    <3> QED BY <3>1, <3>2
  <2>3. ASSUME NEW b \in Banks, ni[b] # -1 PROVE ns[ni[b]].bank = b
    <3>1. CASE b = bank
      BY <3>1, <1>8, <1>9, <1>10
    <3>2. CASE b # bank
      <4>1. b # out /\ ni[b] = s.ids[b]
        BY <3>2, <2>3, <1>8
      <4>2. s.ids[b] \in Slots /\ s.slots[s.ids[b]].bank = b
        BY <4>1, <2>3, LoadedSlot DEF InOrder
      <4>3. s.ids[b] # slot
        BY <4>1, <4>2, <1>5
      <4> QED BY <4>1, <4>2, <4>3, <1>10
    <3> QED BY <3>1, <3>2
  <2>4. ASSUME NEW i \in 1..L PROVE ni[nq[i]] # -1
    <3>1. CASE i = 1
      BY <3>1, <1>6, <1>8, <1>11
    <3>2. CASE i \in 2..L
      <4>1. nq[i] = q[i - 1] /\ i - 1 \in 1..L /\ i - 1 # L
        BY <3>2, <1>1, <1>11
      <4>2. q[i - 1] \in Banks /\ s.ids[q[i - 1]] # -1 /\ q[i - 1] # out
        <5>1. q[i - 1] # q[L]
          BY <4>1, <1>1, <1>3 DEF InOrder, q
        <5>2. q[i - 1] \in Banks
          BY <4>1, <1>2, <1>3
        <5> QED BY <5>1, <5>2, <4>1, <1>3, <1>4 DEF InOrder, q
      <4> QED BY <4>1, <4>2, <1>8, <1>6
    <3> QED BY <3>1, <3>2, <1>1
  <2>5. ASSUME NEW i \in 1..L, NEW j \in 1..L, nq[i] = nq[j] PROVE i = j
    <3>1. ASSUME NEW k \in 2..L PROVE nq[k] # bank
      <4>1. nq[k] = q[k - 1] /\ k - 1 \in 1..L
        BY <1>1, <1>11
      <4>2. s.ids[q[k - 1]] # -1
        BY <4>1, <1>3 DEF InOrder, q
      <4> QED BY <4>1, <4>2
    <3>2. CASE i = 1 \/ j = 1
      BY <3>1, <3>2, <2>5, <1>1, <1>11
    <3>3. CASE i \in 2..L /\ j \in 2..L
      <4>1. q[i - 1] = q[j - 1] /\ i - 1 \in 1..L /\ j - 1 \in 1..L
        BY <3>3, <2>5, <1>1, <1>11
      <4>2. i - 1 = j - 1
        BY <4>1, <1>3 DEF InOrder, q
      <4> QED BY <4>2
    <3> QED BY <3>2, <3>3, <1>1
  <2>6. ASSUME NEW b \in Banks \ {0}, ni[b] # -1 PROVE \E i \in 1..L : nq[i] = b
    <3>1. CASE b = bank
      BY <3>1, <1>1, <1>11
    <3>2. CASE b # bank
      <4>1. b # out /\ s.ids[b] # -1
        BY <3>2, <2>6, <1>8
      <4>2. PICK i \in 1..L : q[i] = b
        BY <4>1, <1>3 DEF InOrder, q
      <4>3. i # L /\ i + 1 \in 2..L /\ (i + 1) - 1 = i
        BY <4>1, <4>2, <1>1, <1>4
      <4>4. nq[i + 1] = b
        BY <4>2, <4>3, <1>11
      <4> QED BY <4>3, <4>4, <1>1
    <3> QED BY <3>1, <3>2
  <2> QED BY <2>1, <2>2, <2>3, <2>4, <2>5, <2>6, <1>7, <1>1, <1>11, <1>13, RomAssumption DEF InOrder
<1>15. CheatsOk(y)
  <2>1. PatchesOk(y)
    BY <1>13 DEF CheatsOk, PatchesOk
  <2>2. CodesOk(y)
    <3> SUFFICES ASSUME NEW j \in CodeIds, NEW t \in Slots, Alone(j), Meant(j, y.slots[t].bank)
                 PROVE  \/ CellOf(y, t, j) = Original[y.slots[t].bank][Codes[j].cell]
                        \/ y.enabled[j] /\ CellOf(y, t, j) = Codes[j].data /\ PatchedIn(y, j, y.slots[t].bank)
      BY DEF CodesOk
    <3>1. CASE t = slot
      BY <3>1, <1>9, <1>10, <1>13 DEF CellOf
    <3>2. CASE t # slot
      <4>1. y.slots[t] = s.slots[t]
        BY <3>2, <1>10, <1>13
      <4> QED BY <4>1, <1>13 DEF CheatsOk, CodesOk, CellOf, PatchedIn
    <3> QED BY <3>1, <3>2
  <2>3. RestOk(y)
    <3> SUFFICES ASSUME NEW t \in Slots, NEW c \in Cells,
                        ~ \E j \in CodeIds : Codes[j].cell = c /\ Meant(j, y.slots[t].bank)
                 PROVE  y.slots[t].cells[c] = Original[y.slots[t].bank][c]
      BY DEF RestOk
    <3>1. CASE t = slot
      BY <3>1, <1>9, <1>10, <1>13
    <3>2. CASE t # slot
      <4>1. y.slots[t] = s.slots[t]
        BY <3>2, <1>10, <1>13
      <4> QED BY <4>1 DEF CheatsOk, RestOk
    <3> QED BY <3>1, <3>2
  <2> QED BY <2>1, <2>2, <2>3 DEF CheatsOk
<1>16. ASSUME NEW b \in Banks, s.ids[b] # -1 PROVE s.ids[b] = slot \/ ni[b] = s.ids[b]
  BY <1>8, <1>16 DEF slot
<1> QED BY <1>5, <1>7, <1>8, <1>13, <1>14, <1>15, <1>16 DEF y

\* What holds of the cache and the codes between any two operations.
Sound(s) == s \in States /\ InOrder(s) /\ CheatsOk(s)

LEMMA SelfClean ==
  ASSUME NEW s, Sound(s)
  PROVE  s \in Clean(s)
BY DEF Sound, Clean, Alike

LEMMA CleanSound ==
  ASSUME numRomBanks \in RomSizes, NEW s, Sound(s), NEW x \in Clean(s)
  PROVE  Sound(x)
BY AlikeStays DEF Sound, Clean

\* Loading a bank moves no other, except that the bank it takes the slot of is
\* gone, and none goes when all fit.
LEMMA LoadSound ==
  ASSUME numRomBanks \in RomSizes, NEW s, Sound(s), NEW bank \in Banks
  PROVE  LET y == LoadRomBank(s, bank)
         IN /\ Sound(y) /\ y.ids[bank] \in Slots /\ y.slots[y.ids[bank]].bank = bank
            /\ \A b \in Banks : s.ids[b] # -1 =>
                 \/ y.ids[b] = s.ids[b]
                 \/ s.ids[b] = y.ids[bank] /\ numRomBanks > MaxLoadedRomBanks
<1> DEFINE y == LoadRomBank(s, bank)
<1>1. CASE s.ids[bank] # -1
  <2>1. y = s
    BY <1>1 DEF LoadRomBank
  <2>2. s.ids[bank] \in Slots /\ s.slots[s.ids[bank]].bank = bank
    BY <1>1, LoadedSlot DEF Sound, InOrder
  <2> QED BY <2>1, <2>2
<1>2. CASE s.ids[bank] = -1
  <2> DEFINE e == Evicted(s, bank)
             slot == e.ids[bank]
  <2>1. /\ Sound(e) /\ slot \in Slots /\ numRomBanks > MaxLoadedRomBanks
        /\ \A b \in Banks : s.ids[b] # -1 => s.ids[b] = slot \/ e.ids[b] = s.ids[b]
    BY <1>2, EvictedInOrder DEF Sound
  <2>2. slot # -1
    <3> HIDE DEF slot
    <3> QED BY <2>1, SizesOk DEF Slots
  <2>3. y = ApplyGGCheatsToBank(e, bank)
    BY <1>2 DEF LoadRomBank
  <2> HIDE DEF y, e
  <2>4. y \in Clean(e)
    BY <2>1, <2>2, <2>3, SelfClean, ApplyCheatsClean DEF Sound
  <2>5. Sound(y) /\ y.ids = e.ids
    BY <2>1, <2>4, CleanSound DEF Clean, Alike
  <2>6. y.slots[y.ids[bank]].bank = bank
    BY <2>2, <2>5 DEF Sound, InOrder
  <2> QED BY <2>1, <2>5, <2>6 DEF y
<1> QED BY <1>1, <1>2

\* The windows show what was asked for.
Windows == /\ asked \in Banks \X Banks /\ memory \in Slots \X Slots
           /\ ShowsAsked(2)
           /\ ShowsAsked(1) \/ (multicart /\ numRomBanks > MaxLoadedRomBanks /\ memory[1] = memory[2])
           /\ multicart \/ (asked[1] = 0 /\ memory[1] = 0)
BankInv == multicart \in BOOLEAN /\ numRomBanks \in RomSizes /\ Sound(State) /\ Windows

(* ------------------------- every step keeps it -------------------------- *)
LEMMA InitBankInv == BankInit => BankInv
<1> SUFFICES ASSUME BankInit PROVE BankInv
  OBVIOUS
<1> DEFINE L == NumLoadedRomBanks
<1>1. multicart \in BOOLEAN /\ numRomBanks \in RomSizes
  BY DEF BankInit
<1>2. /\ numRomBanks \in Nat /\ L \in Nat /\ numRomBanks >= 2 /\ L >= 2
      /\ L <= numRomBanks /\ 0 \in Banks /\ 0 \in Slots /\ 1 \in Banks /\ 1 \in Slots /\ Slots \subseteq Banks
      /\ \A b \in Banks : Original[b] \in [Cells -> Byte]
  BY <1>1, SizesOk
<1>3. /\ bankSlotIDs = [b \in Banks |-> IF b < L THEN b ELSE -1]
      /\ slots = [s \in Slots |-> Fresh(s)]
      /\ lastBanksUsed = [i \in 1..(L - 1) |-> i]
      /\ asked = <<0, 1>> /\ memory = <<0, 1>>
      /\ enabled = [i \in CodeIds |-> FALSE]
      /\ patched = [i \in CodeIds |-> << >>]
  BY DEF BankInit
<1> HIDE DEF L
<1>4. /\ State.ids = bankSlotIDs /\ State.slots = slots /\ State.queue = lastBanksUsed
      /\ State.enabled = enabled /\ State.patched = patched
  BY DEF State
<1>5. bankSlotIDs \in [Banks -> Loads]
  BY <1>2, <1>3 DEF Banks, Loads, L
<1>6. slots \in [Slots -> SlotSet] /\ \A t \in Slots : slots[t].bank = t /\ slots[t].cells = Original[t]
  BY <1>2, <1>3 DEF Fresh, SlotSet
<1>7. lastBanksUsed \in Seq(Banks \ {0}) /\ Len(lastBanksUsed) = L - 1 /\ \A i \in 1..(L - 1) : lastBanksUsed[i] = i
  <2>1. L - 1 \in Nat /\ \A i \in 1..(L - 1) : i \in Banks \ {0}
    BY <1>2 DEF Banks
  <2> QED BY <1>3, <2>1
<1>8. enabled \in [CodeIds -> BOOLEAN] /\ patched \in [CodeIds -> Seq(Patch)] /\ \A i \in CodeIds : ToSet(patched[i]) = {}
  <2>1. ToSet(<< >>) = {}
    BY DEF ToSet
  <2> QED BY <1>3, <2>1
<1>9. State \in States
  BY <1>5, <1>6, <1>7, <1>8 DEF State, States
<1>10. InOrder(State)
  <2>1. \A b \in Banks : bankSlotIDs[b] = IF b < L THEN b ELSE -1
    BY <1>3
  <2>2. \A t \in Slots : t \in Banks /\ t < L
    BY <1>2 DEF Slots, L
  <2>3. \A t \in Slots : bankSlotIDs[slots[t].bank] = t
    BY <1>6, <2>1, <2>2
  <2>4. ASSUME NEW b \in Banks, bankSlotIDs[b] # -1 PROVE bankSlotIDs[b] = b /\ b \in Slots
    BY <2>1, <2>4, <1>2 DEF Banks, Slots, L
  <2>5. \A b \in Banks : bankSlotIDs[b] # -1 => slots[bankSlotIDs[b]].bank = b
    BY <1>6, <2>4
  <2>6. \A i \in 1..(L - 1) : bankSlotIDs[lastBanksUsed[i]] # -1
    BY <1>2, <1>7, <2>1 DEF Banks
  <2>7. ASSUME NEW b \in Banks \ {0}, bankSlotIDs[b] # -1 PROVE \E i \in 1..(L - 1) : lastBanksUsed[i] = b
    <3>1. b \in 1..(L - 1)
      BY <2>4, <2>7, <1>2 DEF Slots, L
    <3> QED BY <3>1, <1>7
  <2>8. numRomBanks <= MaxLoadedRomBanks => \A b \in Banks : bankSlotIDs[b] # -1
    BY <2>1, <1>2 DEF Banks, L, NumLoadedRomBanks
  <2>9. bankSlotIDs[0] = 0
    BY <1>2, <2>1
  <2> QED BY <1>4, <1>7, <2>3, <2>5, <2>6, <2>7, <2>8, <2>9 DEF InOrder, L
<1>11. CheatsOk(State)
  BY <1>4, <1>6, <1>8, CodesAreCodes
  DEF CheatsOk, PatchesOk, CodesOk, RestOk, CellOf
<1>12. Windows
  BY <1>2, <1>3, <1>6 DEF Windows, ShowsAsked
<1> QED BY <1>1, <1>9, <1>10, <1>11, <1>12 DEF BankInv, Sound

\* What a step makes of the cache and the codes is what its operation gave.
LEMMA BecomesSound ==
  ASSUME NEW y, Sound(y), Becomes(y), numRomBanks' = numRomBanks
  PROVE  Sound(State)' /\ State' = y
<1>1. State' = y
  <2>1. y \in States
    BY DEF Sound
  <2>2. y = [ids |-> y.ids, slots |-> y.slots, queue |-> y.queue, enabled |-> y.enabled, patched |-> y.patched]
    BY <2>1 DEF States
  <2> QED BY <2>2 DEF State, Becomes
<1>2. Banks' = Banks /\ NumLoadedRomBanks' = NumLoadedRomBanks
  BY DEF Banks, NumLoadedRomBanks
<1>3. Slots' = Slots /\ Loads' = Loads
  BY <1>2 DEF Slots, Loads
<1>4. States' = States
  BY <1>2, <1>3 DEF States, SlotSet, Patch
<1>5. InOrder(State)' = InOrder(y)
  BY <1>1, <1>2, <1>3 DEF InOrder
<1>6. CheatsOk(State)' = CheatsOk(y)
  BY <1>1, <1>2, <1>3
  DEF CheatsOk, PatchesOk, CodesOk, RestOk, CellOf, PatchedIn, Meant
<1> QED BY <1>1, <1>4, <1>5, <1>6 DEF Sound

LEMMA NextBankInv == BankInv /\ [BankNext]_bankVars => BankInv'
<1> SUFFICES ASSUME BankInv, [BankNext]_bankVars PROVE BankInv'
  OBVIOUS
<1>1. multicart \in BOOLEAN /\ numRomBanks \in RomSizes /\ Sound(State) /\ Windows
  BY DEF BankInv
<1>2. asked \in Banks \X Banks /\ memory \in Slots \X Slots
  BY <1>1 DEF Windows
<1>a. numRomBanks' = numRomBanks => Banks' = Banks /\ Slots' = Slots
  BY DEF Banks, Slots, NumLoadedRomBanks
<1>b. State.ids = bankSlotIDs /\ State.slots = slots
  BY DEF State
<1>3. ASSUME NEW bank \in Banks, SelectBank(bank) PROVE BankInv'
  <2> DEFINE y == LoadRomBank(State, bank)
  <2>1. ~multicart /\ multicart' = multicart /\ numRomBanks' = numRomBanks /\ asked' = [asked EXCEPT ![2] = bank]
        /\ Becomes(y) /\ memory' = [memory EXCEPT ![2] = y.ids[bank]]
    BY <1>3 DEF SelectBank
  <2>2. Sound(y) /\ y.ids[bank] \in Slots /\ y.slots[y.ids[bank]].bank = bank
    BY <1>1, LoadSound
  <2>3. Sound(State)' /\ slots' = y.slots
    BY <2>1, <2>2, BecomesSound DEF Becomes
  <2>4. y.slots[0].bank = 0
    BY <1>1, <2>2, SizesOk DEF Sound, InOrder
  <2>5. asked[1] = 0 /\ memory[1] = 0
    BY <1>1, <2>1 DEF Windows
  <2> DEFINE m == y.ids[bank]
  <2>6. memory' = <<0, m>> /\ asked' = <<0, bank>>
    <3> HIDE DEF m
    <3> QED BY <1>2, <2>1, <2>5 DEF m
  <2>7. Windows'
    <3>1. 0 \in Banks /\ 0 \in Slots
      BY <1>1, SizesOk
    <3> HIDE DEF m, y
    <3>2. y.slots[m].bank = bank /\ m \in Slots
      BY <2>2 DEF m
    <3> QED BY <1>a, <2>1, <2>3, <2>4, <2>6, <3>1, <3>2 DEF Windows, ShowsAsked
  <2> QED BY <1>1, <2>1, <2>3, <2>7 DEF BankInv
<1>4. ASSUME NEW low \in Banks, NEW high \in Banks, RefreshMmm01Banks(low, high) PROVE BankInv'
  <2> DEFINE s == LoadRomBank(State, low)
             t == LoadRomBank(s, high)
             l == s.ids[low]
             u == t.ids[high]
  <2>1. multicart /\ multicart' = multicart /\ numRomBanks' = numRomBanks /\ asked' = <<low, high>>
        /\ Becomes(t) /\ memory' = <<l, u>>
    BY <1>4 DEF RefreshMmm01Banks
  <2>2. Sound(s) /\ l \in Slots
    BY <1>1, LoadSound
  <2>3. l # -1
    <3> HIDE DEF l
    <3> QED BY <1>1, <2>2, SizesOk DEF Slots
  <2> HIDE DEF s
  <2>4. /\ Sound(t) /\ u \in Slots /\ t.slots[u].bank = high
        /\ t.ids[low] = l \/ (l = u /\ numRomBanks > MaxLoadedRomBanks)
    BY <1>1, <2>2, <2>3, LoadSound
  <2>5. Sound(State)' /\ slots' = t.slots
    BY <2>1, <2>4, BecomesSound DEF Becomes
  <2>6. t.ids[low] = l => t.slots[l].bank = low
    BY <2>3, <2>4 DEF Sound, InOrder
  <2> HIDE DEF t, l, u
  <2>7. Windows'
    BY <1>a, <2>1, <2>2, <2>4, <2>5, <2>6 DEF Windows, ShowsAsked
  <2> QED BY <1>1, <2>1, <2>5, <2>7 DEF BankInv
\* The codes change no slot's bank.
<1>5. ASSUME NEW y \in Clean(State), Becomes(y), UNCHANGED <<multicart, numRomBanks, asked, memory>> PROVE BankInv'
  <2>1. Sound(y) /\ \A t \in Slots : y.slots[t].bank = slots[t].bank
    BY <1>1, <1>b, CleanSound DEF Clean, Alike
  <2>2. Sound(State)' /\ slots' = y.slots
    BY <1>5, <2>1, BecomesSound DEF Becomes
  <2>3. memory[1] \in Slots /\ memory[2] \in Slots
    BY <1>2
  <2>4. Windows'
    BY <1>1, <1>a, <1>5, <2>1, <2>2, <2>3 DEF Windows, ShowsAsked
  <2> QED BY <1>1, <1>5, <2>2, <2>4 DEF BankInv
<1>6. State \in Clean(State)
  BY <1>1, SelfClean
<1>7. ASSUME NEW i \in CodeIds, Toggle(i) PROVE BankInv'
  <2>1. ToggleCheat(State, i, ~enabled[i]) \in Clean(State)
    BY <1>1, <1>6, ToggleCheatClean DEF Sound
  <2> QED BY <1>5, <1>7, <2>1 DEF Toggle
<1>8. ASSUME NEW flags \in [CodeIds -> BOOLEAN], LoadCheats(flags) PROVE BankInv'
  <2>1. Loaded(Unloaded(State), flags) \in Clean(State)
    BY <1>1, <1>6, LoadCheatsClean DEF Sound
  <2> QED BY <1>5, <1>8, <2>1 DEF LoadCheats
<1>9. CASE UNCHANGED bankVars
  <2>1. Becomes(State) /\ UNCHANGED <<multicart, numRomBanks, asked, memory>>
    BY <1>9 DEF bankVars, cache, cheats, Becomes, State
  <2> QED BY <1>5, <1>6, <2>1
<1> QED BY <1>3, <1>4, <1>7, <1>8, <1>9 DEF BankNext

(* In every state the windows show the banks the mapper selected, except the *)
(* lower window of an MMM01 whose ROM has more banks than the cache has      *)
(* slots, when it shows the upper one's (romfile.cpp:183-206,                *)
(* mmu.cpp:26-39, 56-74).                                                    *)
THEOREM MappedAlwaysAsAsked == BankSpec => []MappedIsAsked
<1>1. BankInv => MappedIsAsked
  <2> SUFFICES ASSUME BankInv PROVE MappedIsAsked
    OBVIOUS
  <2>1. numRomBanks \in RomSizes /\ State \in States /\ InOrder(State) /\ Windows
    BY DEF BankInv, Sound
  <2>2. /\ bankSlotIDs \in [Banks -> Loads] /\ slots \in [Slots -> SlotSet] /\ lastBanksUsed \in Seq(Banks \ {0})
    BY <2>1, StateFields DEF State
  <2>3. BankTypeOK
    <3>1. \A i \in DOMAIN lastBanksUsed : lastBanksUsed[i] \in Banks \ {0}
      BY <2>2
    <3> QED BY <2>1, <2>2, <3>1 DEF BankTypeOK, Windows, Loads, SlotSet
  <2>4. \A b \in Banks : bankSlotIDs[b] # -1 => slots[bankSlotIDs[b]].bank = b
    BY <2>1 DEF InOrder, State
  <2>5. ToSet(lastBanksUsed) = {b \in Banks \ {0} : bankSlotIDs[b] # -1}
    <3>1. DOMAIN lastBanksUsed = 1..Len(lastBanksUsed)
      BY <2>2
    <3>2. \A i \in 1..Len(lastBanksUsed) : lastBanksUsed[i] \in Banks \ {0} /\ bankSlotIDs[lastBanksUsed[i]] # -1
      BY <2>1, <2>2 DEF InOrder, State
    <3>3. \A b \in Banks \ {0} : bankSlotIDs[b] # -1 => \E i \in 1..Len(lastBanksUsed) : lastBanksUsed[i] = b
      BY <2>1 DEF InOrder, State
    <3> QED BY <3>1, <3>2, <3>3 DEF ToSet
  <2> QED BY <2>1, <2>3, <2>4, <2>5 DEF MappedIsAsked, Windows
<1> QED BY <1>1, InitBankInv, NextBankInv, PTL DEF BankSpec

(* In every state each byte of a loaded bank that only lone codes are for is *)
(* the ROM's or that of a code that is on (cheats.cpp:133-181).              *)
THEOREM CheatOffAlwaysMeansOff == BankSpec => []CheatOffMeansOff
<1>1. BankInv => CheatOffMeansOff
  <2> SUFFICES ASSUME BankInv, NEW t \in Slots, NEW c \in Cells,
                      \A i \in CodeIds : Codes[i].cell = c /\ Covers(Codes[i], slots[t].bank) => Alone(i)
               PROVE  \/ slots[t].cells[c] = Original[slots[t].bank][c]
                      \/ \E i \in CodeIds : /\ Codes[i].cell = c /\ Covers(Codes[i], slots[t].bank)
                                            /\ enabled[i] /\ slots[t].cells[c] = Codes[i].data
    BY DEF CheatOffMeansOff
  <2>1. CodesOk(State) /\ RestOk(State) /\ State.slots = slots /\ State.enabled = enabled
    BY DEF BankInv, Sound, CheatsOk, State
  <2> QED BY <2>1 DEF CodesOk, RestOk, CellOf, Meant
<1> QED BY <1>1, InitBankInv, NextBankInv, PTL DEF BankSpec

(* Together: every byte the processor sees is the one it asked for           *)
(* (romfile.cpp:183-206, mmu.cpp:26-74, cheats.cpp:133-181).                 *)
THEOREM BanksAlwaysAsAsked == BankSpec => []BanksAsAsked
BY MappedAlwaysAsAsked, CheatOffAlwaysMeansOff, PTL DEF BanksAsAsked
-----------------------------------------------------------------------------
(* The mappers.                                                            *)

\* A bank's number gives its bits back.
LEMMA LowNumber ==
  ASSUME NEW l \in SUBSET (0..4)
  PROVE  Number(l) \in 0..31 /\ Bits(Number(l)) = l
<1> DEFINE b0 == IF 0 \in l THEN 1 ELSE 0
           b1 == IF 1 \in l THEN 2 ELSE 0
           b2 == IF 2 \in l THEN 4 ELSE 0
           b3 == IF 3 \in l THEN 8 ELSE 0
           b4 == IF 4 \in l THEN 16 ELSE 0
           n == b0 + b1 + b2 + b3 + b4
<1>1. Number(l) = n
  BY DEF Number, Weights
<1>2. n \in 0..31
  OBVIOUS
<1>3. /\ (n \div 1) % 2 = 1 <=> 0 \in l
      /\ (n \div 2) % 2 = 1 <=> 1 \in l
      /\ (n \div 4) % 2 = 1 <=> 2 \in l
      /\ (n \div 8) % 2 = 1 <=> 3 \in l
      /\ (n \div 16) % 2 = 1 <=> 4 \in l
      /\ ~((n \div 32) % 2 = 1)
      /\ ~((n \div 64) % 2 = 1)
  OBVIOUS
<1> HIDE DEF n
<1>4. ASSUME NEW i \in 0..6 PROVE (n \div Weights[i + 1]) % 2 = 1 <=> i \in l
  <2>1. i = 0 \/ i = 1 \/ i = 2 \/ i = 3 \/ i = 4 \/ i = 5 \/ i = 6
    OBVIOUS
  <2>2. 5 \notin l /\ 6 \notin l
    OBVIOUS
  <2> QED BY <1>3, <2>1, <2>2 DEF Weights
<1>5. Bits(n) = l
  <2>1. \A i \in Bits(n) : i \in l
    BY <1>4 DEF Bits
  <2>2. \A i \in l : i \in 0..6
    OBVIOUS
  <2>3. \A i \in l : i \in Bits(n)
    BY <1>4, <2>2 DEF Bits
  <2> QED BY <2>1, <2>3
<1> QED BY <1>1, <1>2, <1>5

LEMMA PairNumber ==
  ASSUME NEW p \in SUBSET (0..1)
  PROVE  Number(p) \in 0..3 /\ Bits(Number(p)) = p
<1>1. p \in SUBSET (0..4) /\ 2 \notin p /\ 3 \notin p /\ 4 \notin p
  OBVIOUS
<1>2. Number(p) \in 0..3
  BY <1>1 DEF Number, Weights
<1> QED BY <1>1, <1>2, LowNumber

LEMMA BankParts ==
  ASSUME NEW h \in 0..3, NEW m \in 0..3, NEW l \in 0..31
  PROVE  LET b == 128 * h + 32 * m + l
         IN b \in 0..511 /\ b \div 128 = h /\ (b \div 32) % 4 = m /\ b % 32 = l
OBVIOUS

\* A bank behind the end of the ROM is one of the ROM that shows itself there.
LEMMA WrappedBank ==
  ASSUME NEW b \in 0..511, romBanks \in Nat \ {0}
  PROVE  /\ NormalizeBank(b) \in 0..(romBanks - 1)
         /\ \E k \in 0..((511 - NormalizeBank(b)) \div romBanks) : NormalizeBank(b) + k * romBanks = b
<1> DEFINE d == romBanks
<1>1. PICK q \in Int, r \in Nat : b \div d = q /\ b % d = r /\ r < d /\ b = d * q + r
  BY Division
<1>2. q >= 0
  BY <1>1
<1>3. NormalizeBank(b) = r
  BY <1>1 DEF NormalizeBank
<1>4. PICK p \in Int, s \in Nat : (511 - r) \div d = p /\ (511 - r) % d = s /\ s < d /\ 511 - r = d * p + s
  BY <1>1, Division
<1>5. q <= p
  BY <1>1, <1>4
<1>6. q \in 0..p /\ r + q * d = b
  BY <1>1, <1>2, <1>4, <1>5
<1>7. r \in 0..(d - 1) /\ q \in 0..((511 - r) \div d) /\ r + q * d = b
  BY <1>1, <1>4, <1>6
<1>8. \E k \in 0..((511 - r) \div d) : r + k * d = b
  <2> HIDE DEF d
  <2> QED BY <1>7
<1> QED BY <1>3, <1>7, <1>8

(* ------------------------ the block of an MMM01 ------------------------- *)
ChipFields == {"mapped", "ramEnabled", "multiplex", "modeLocked", "romBank", "ramBank", "romMask", "ramMask", "mode"}
ChipOk(m) == /\ DOMAIN m = ChipFields
             /\ m.romBank \in SUBSET (0..6) /\ m.ramBank \in SUBSET (0..6)
             /\ m.romMask \in SUBSET (1..4) /\ m.ramMask \in SUBSET (0..1)

\* A bank put together from the bits of the block is inside of it, also when
\* the ROM is so small that the number wraps.
LEMMA InsideBanks ==
  ASSUME romBanks \in Nat \ {0}, NEW m, ChipOk(m),
         NEW h \in SUBSET (0..1), h = Field(m.ramBank, 4, 5),
         NEW mid \in SUBSET (0..1), (IF m.multiplex THEN mid \cap m.ramMask = m.ramBank \cap m.ramMask ELSE mid = Field(m.romBank, 5, 6)),
         NEW l \in SUBSET (0..4), l \cap m.romMask = m.romBank \cap m.romMask
  PROVE  LET b == NormalizeBank(128 * Number(h) + 32 * Number(mid) + Number(l))
         IN b \in 0..(romBanks - 1) /\ ShownInside(b, m)
<1> DEFINE H == Number(h)
           M == Number(mid)
           L == Number(l)
           b == 128 * H + 32 * M + L
<1>1. H \in 0..3 /\ M \in 0..3 /\ L \in 0..31 /\ Bits(H) = h /\ Bits(M) = mid /\ Bits(L) = l
  BY PairNumber, LowNumber
<1> HIDE DEF H, M, L
<1>2. b \in 0..511 /\ b \div 128 = H /\ (b \div 32) % 4 = M /\ b % 32 = L
  BY <1>1, BankParts
<1> HIDE DEF b
<1>3. Inside(b, m)
  <2>1. /\ Block(m).high = Field(m.ramBank, 4, 5) /\ Block(m).low = m.romBank \cap m.romMask
        /\ Block(m).middle = IF m.multiplex THEN m.ramBank \cap m.ramMask ELSE Field(m.romBank, 5, 6)
    BY DEF Block
  <2>2. Bits(b \div 128) = h /\ Bits((b \div 32) % 4) = mid /\ Bits(b % 32) = l
    BY <1>1, <1>2
  <2> QED BY <2>1, <2>2 DEF Inside
<1>4. PICK k \in 0..((511 - NormalizeBank(b)) \div romBanks) : NormalizeBank(b) + k * romBanks = b
  BY <1>2, WrappedBank
<1>5. NormalizeBank(b) \in 0..(romBanks - 1)
  BY <1>2, WrappedBank
<1>6. ShownInside(NormalizeBank(b), m)
  BY <1>3, <1>4 DEF ShownInside
<1> QED BY <1>5, <1>6 DEF b, H, M, L

LEMMA InsideRam ==
  ASSUME NEW r \in SUBSET (0..1), NEW l \in SUBSET (0..1)
  PROVE  LET n == 4 * Number(r) + Number(l) IN n \in 0..15 /\ Bits(n \div 4) = r /\ Bits(n % 4) = l
<1> DEFINE R == Number(r)
           L == Number(l)
<1>1. R \in 0..3 /\ L \in 0..3 /\ Bits(R) = r /\ Bits(L) = l
  BY PairNumber
<1> HIDE DEF R, L
<1>2. 4 * R + L \in 0..15 /\ (4 * R + L) \div 4 = R /\ (4 * R + L) % 4 = L
  BY <1>1
<1> QED BY <1>1, <1>2 DEF R, L

\* Once a game is mapped, what the chip maps lies inside its block.
LEMMA MappingInside ==
  ASSUME romBanks \in Nat \ {0, 1}, NEW m, ChipOk(m)
  PROVE  LET to == Mapping(m)
         IN /\ to.lower \in 0..(romBanks - 1) /\ to.upper \in 0..(romBanks - 1) /\ to.ram \in 0..15
            /\ m.mapped => /\ ShownInside(to.lower, m) /\ ShownInside(to.upper, m)
                           /\ RamInside(to.ram, m)
<1> DEFINE low == m.romBank \cap 0..4
           mid == Field(m.romBank, 5, 6)
           ramLow == m.ramBank \cap 0..1
           switch == IF low \subseteq m.romMask THEN low \cup {0} ELSE low
           seen == IF m.mode THEN ramLow ELSE ramLow \cap m.ramMask
           high == Field(m.ramBank, 4, 5)
           block == Field(m.ramBank, 2, 3)
           to == Mapping(m)
<1>1. /\ m.romBank \in SUBSET (0..6) /\ m.ramBank \in SUBSET (0..6)
      /\ m.romMask \in SUBSET (1..4) /\ m.ramMask \in SUBSET (0..1)
  BY DEF ChipOk
<1>2. mid \in SUBSET (0..1) /\ high \in SUBSET (0..1) /\ block \in SUBSET (0..1)
  BY <1>1 DEF Field
<1>3. ramLow \in SUBSET (0..1) /\ seen \in SUBSET (0..1)
  BY <1>1
<1>4. /\ low \in SUBSET (0..4) /\ switch \in SUBSET (0..4) /\ low \cap m.romMask \in SUBSET (0..4)
      /\ low \cap m.romMask = m.romBank \cap m.romMask
      /\ switch \cap m.romMask = m.romBank \cap m.romMask
      /\ (low \cap m.romMask) \cap m.romMask = m.romBank \cap m.romMask
  BY <1>1
<1>5. /\ ramLow \cap m.ramMask = m.ramBank \cap m.ramMask /\ seen \cap m.ramMask = m.ramBank \cap m.ramMask
  BY <1>1
<1>6. CASE ~m.mapped
  <2>1. to = [lower |-> NormalizeBank(romBanks - 2), upper |-> NormalizeBank(romBanks - 1), ram |-> 0]
    BY <1>6 DEF Mapping
  <2>2. NormalizeBank(romBanks - 2) \in 0..(romBanks - 1) /\ NormalizeBank(romBanks - 1) \in 0..(romBanks - 1)
    BY DEF NormalizeBank
  <2> QED BY <1>6, <2>1, <2>2
<1> DEFINE Bank(middle, l) == NormalizeBank(128 * Number(high) + 32 * Number(middle) + Number(l))
           Ram(l) == 4 * Number(block) + Number(l)
<1> HIDE DEF low, mid, ramLow, switch, seen, high, block
<1>7. CASE m.mapped /\ m.multiplex
  <2>1. to = [lower |-> Bank(seen, low \cap m.romMask), upper |-> Bank(ramLow, switch), ram |-> Ram(mid)]
    BY <1>7 DEF Mapping, low, mid, ramLow, switch, seen, high, block
  <2>2. Bank(seen, low \cap m.romMask) \in 0..(romBanks - 1) /\ ShownInside(Bank(seen, low \cap m.romMask), m)
    <3> DEFINE l == low \cap m.romMask
    <3>1. l \in SUBSET (0..4) /\ l \cap m.romMask = m.romBank \cap m.romMask
      BY <1>4
    <3> HIDE DEF l
    <3>2. Bank(seen, l) \in 0..(romBanks - 1) /\ ShownInside(Bank(seen, l), m)
      BY <1>2, <1>3, <1>5, <1>7, <3>1, InsideBanks DEF high
    <3> QED BY <3>2 DEF l
  <2>3. Bank(ramLow, switch) \in 0..(romBanks - 1) /\ ShownInside(Bank(ramLow, switch), m)
    BY <1>2, <1>3, <1>4, <1>5, <1>7, InsideBanks DEF high
  <2>4. Ram(mid) \in 0..15 /\ Bits(Ram(mid) \div 4) = block /\ Bits(Ram(mid) % 4) = mid
    BY <1>2, InsideRam
  <2> HIDE DEF Bank, Ram, to
  <2>5. Block(m).ram = block /\ Block(m).ramLow = mid
    BY <1>7 DEF Block, block, mid
  <2>6. RamInside(Ram(mid), m)
    BY <1>2, <1>7, <2>4, <2>5 DEF RamInside
  <2> QED BY <2>1, <2>2, <2>3, <2>4, <2>6 DEF to
<1>8. CASE m.mapped /\ ~m.multiplex
  <2>1. to = [lower |-> Bank(mid, low \cap m.romMask), upper |-> Bank(mid, switch), ram |-> Ram(seen)]
    BY <1>8 DEF Mapping, low, mid, ramLow, switch, seen, high, block
  <2>2. Bank(mid, low \cap m.romMask) \in 0..(romBanks - 1) /\ ShownInside(Bank(mid, low \cap m.romMask), m)
    <3> DEFINE l == low \cap m.romMask
    <3>1. l \in SUBSET (0..4) /\ l \cap m.romMask = m.romBank \cap m.romMask
      BY <1>4
    <3> HIDE DEF l
    <3>2. Bank(mid, l) \in 0..(romBanks - 1) /\ ShownInside(Bank(mid, l), m)
      BY <1>2, <1>8, <3>1, InsideBanks DEF high, mid
    <3> QED BY <3>2 DEF l
  <2>3. Bank(mid, switch) \in 0..(romBanks - 1) /\ ShownInside(Bank(mid, switch), m)
    BY <1>2, <1>4, <1>8, InsideBanks DEF high, mid
  <2>4. Ram(seen) \in 0..15 /\ Bits(Ram(seen) \div 4) = block /\ Bits(Ram(seen) % 4) = seen
    BY <1>2, <1>3, InsideRam
  <2> HIDE DEF Bank, Ram, to
  <2>5. Block(m).ram = block /\ Block(m).ramLow = m.ramBank \cap m.ramMask
    BY <1>8 DEF Block, block
  <2>6. RamInside(Ram(seen), m)
    BY <1>5, <1>8, <2>4, <2>5 DEF RamInside
  <2> QED BY <2>1, <2>2, <2>3, <2>4, <2>6 DEF to
<1> HIDE DEF to
<1> QED BY <1>6, <1>7, <1>8 DEF to

\* A write keeps the bits the block is made of, once a game is mapped.
LEMMA ChipWrite ==
  ASSUME NEW m, ChipOk(m), NEW addr, NEW value
  PROVE  LET n == Mmm01Write(m, addr, value)
         IN /\ ChipOk(n)
            /\ Area(addr) \in {0, 1} => n.ramEnabled = Enables(value)
            /\ Area(addr) \notin {0, 1} => n.ramEnabled = m.ramEnabled
            /\ m.mapped => /\ n.mapped
                           /\ n.romMask = m.romMask /\ n.ramMask = m.ramMask
                           /\ n.multiplex = m.multiplex
                           /\ n.romBank \cap m.romMask = m.romBank \cap m.romMask
                           /\ n.romBank \cap 5..6 = m.romBank \cap 5..6
                           /\ n.ramBank \cap m.ramMask = m.ramBank \cap m.ramMask
                           /\ n.ramBank \cap 2..6 = m.ramBank \cap 2..6
<1> DEFINE v == Bits(value)
           free == ~m.mapped
           low == Kept(m.romBank \cap 0..4, v \cap 0..4, m.romMask)
           ram == Kept(m.ramBank \cap 0..1, v \cap 0..1, m.ramMask)
           rb == low \cup ((IF free THEN v ELSE m.romBank) \cap 5..6)
           ab == ram \cup ((IF free THEN v ELSE m.ramBank) \cap 2..6)
           am == IF free THEN Field(v, 4, 5) ELSE m.ramMask
           rm == IF free THEN Field(v, 1, 5) \ {0} ELSE m.romMask
           mx == IF free THEN 6 \in v ELSE m.multiplex
           n == Mmm01Write(m, addr, value)
<1>1. /\ m.romBank \in SUBSET (0..6) /\ m.ramBank \in SUBSET (0..6)
      /\ m.romMask \in SUBSET (1..4) /\ m.ramMask \in SUBSET (0..1)
      /\ v \in SUBSET (0..6)
  BY DEF ChipOk, Bits
<1> HIDE DEF v
<1>l. /\ low \in SUBSET (0..4) /\ low \cap m.romMask = m.romBank \cap m.romMask
  BY <1>1 DEF Kept
<1>r. ram \in SUBSET (0..1) /\ ram \cap m.ramMask = m.ramBank \cap m.ramMask
  BY <1>1 DEF Kept
<1>v. v \cap 5..6 \in SUBSET (5..6) /\ v \cap 2..6 \in SUBSET (2..6)
  OBVIOUS
<1>f. Field(v, 4, 5) \in SUBSET (0..1) /\ Field(v, 1, 5) \ {0} \in SUBSET (1..4)
  BY DEF Field
<1> HIDE DEF low, ram
<1>2. /\ rb \in SUBSET (0..6) /\ ab \in SUBSET (0..6)
      /\ rm \in SUBSET (1..4) /\ am \in SUBSET (0..1)
  <2>1. rb \in SUBSET (0..6)
    <3> DEFINE s == IF free THEN v ELSE m.romBank
    <3>1. s \in SUBSET (0..6)
      BY <1>1
    <3> HIDE DEF s
    <3>2. low \cup (s \cap 5..6) \in SUBSET (0..6)
      BY <3>1, <1>l
    <3> QED BY <3>2 DEF s
  <2>2. ab \in SUBSET (0..6)
    <3> DEFINE s == IF free THEN v ELSE m.ramBank
    <3>1. s \in SUBSET (0..6)
      BY <1>1
    <3> HIDE DEF s
    <3>2. ram \cup (s \cap 2..6) \in SUBSET (0..6)
      BY <3>1, <1>r
    <3> QED BY <3>2 DEF s
  <2>3. rm \in SUBSET (1..4) /\ am \in SUBSET (0..1)
    BY <1>1, <1>f
  <2> QED BY <2>1, <2>2, <2>3
<1>3. ~free => /\ rb \cap m.romMask = m.romBank \cap m.romMask
               /\ rb \cap 5..6 = m.romBank \cap 5..6
  <2> SUFFICES ASSUME ~free PROVE rb \cap m.romMask = m.romBank \cap m.romMask /\ rb \cap 5..6 = m.romBank \cap 5..6
    OBVIOUS
  <2>1. rb = low \cup (m.romBank \cap 5..6)
    OBVIOUS
  <2> HIDE DEF rb, free
  <2> QED BY <2>1, <1>1, <1>l
<1>4. ~free => /\ ab \cap m.ramMask = m.ramBank \cap m.ramMask
               /\ ab \cap 2..6 = m.ramBank \cap 2..6
  <2> SUFFICES ASSUME ~free PROVE ab \cap m.ramMask = m.ramBank \cap m.ramMask /\ ab \cap 2..6 = m.ramBank \cap 2..6
    OBVIOUS
  <2>1. ab = ram \cup (m.ramBank \cap 2..6)
    OBVIOUS
  <2> HIDE DEF ab, free
  <2> QED BY <2>1, <1>1, <1>r
<1>5. ~free => am = m.ramMask /\ rm = m.romMask /\ mx = m.multiplex
  OBVIOUS
<1>d. DOMAIN m = ChipFields
  BY DEF ChipOk
<1>6. CASE Area(addr) \in {0, 1}
  <2>1. n = [m EXCEPT !.ramEnabled = Enables(value), !.ramMask = am, !.mapped = m.mapped \/ 6 \in v]
    BY <1>6 DEF Mmm01Write, v, low, ram
  <2> HIDE DEF n, am, free
  <2>2. /\ DOMAIN n = ChipFields /\ n.ramEnabled = Enables(value) /\ n.ramMask = am
        /\ n.romBank = m.romBank /\ n.ramBank = m.ramBank /\ n.romMask = m.romMask
        /\ n.multiplex = m.multiplex /\ n.mapped = (m.mapped \/ 6 \in v)
    BY <2>1, <1>d DEF ChipFields
  <2>3. ChipOk(n)
    BY <2>2, <1>1, <1>2 DEF ChipOk
  <2> QED BY <2>2, <2>3, <1>5, <1>6 DEF n, free
<1>7. CASE Area(addr) \in {2, 3}
  <2>1. n = [m EXCEPT !.romBank = rb]
    BY <1>7 DEF Mmm01Write, v, low, ram
  <2> HIDE DEF n, rb
  <2>2. /\ DOMAIN n = ChipFields /\ n.ramEnabled = m.ramEnabled /\ n.ramMask = m.ramMask
        /\ n.romBank = rb /\ n.ramBank = m.ramBank /\ n.romMask = m.romMask
        /\ n.multiplex = m.multiplex /\ n.mapped = m.mapped
    BY <2>1, <1>d DEF ChipFields
  <2>3. ChipOk(n)
    BY <2>2, <1>1, <1>2 DEF ChipOk
  <2> QED BY <2>2, <2>3, <1>3, <1>7 DEF n
<1>8. CASE Area(addr) \in {4, 5}
  <2> DEFINE ml == IF free THEN 6 \in v ELSE m.modeLocked
  <2>1. n = [m EXCEPT !.ramBank = ab, !.modeLocked = ml]
    BY <1>8 DEF Mmm01Write, v, low, ram
  <2> HIDE DEF n, ab, ml
  <2>2. /\ DOMAIN n = ChipFields /\ n.ramEnabled = m.ramEnabled /\ n.ramMask = m.ramMask
        /\ n.romBank = m.romBank /\ n.ramBank = ab /\ n.romMask = m.romMask
        /\ n.multiplex = m.multiplex /\ n.mapped = m.mapped
    BY <2>1, <1>d DEF ChipFields
  <2>3. ChipOk(n)
    BY <2>2, <1>1, <1>2 DEF ChipOk
  <2> QED BY <2>2, <2>3, <1>4, <1>8 DEF n
<1>9. CASE Area(addr) \notin {0, 1, 2, 3, 4, 5}
  <2> DEFINE mo == IF m.modeLocked THEN m.mode ELSE 0 \in v
  <2>1. n = [m EXCEPT !.mode = mo, !.romMask = rm, !.multiplex = mx]
    BY <1>9 DEF Mmm01Write, v, low, ram
  <2> HIDE DEF n, rm, mx, mo, free
  <2>2. /\ DOMAIN n = ChipFields /\ n.ramEnabled = m.ramEnabled /\ n.ramMask = m.ramMask
        /\ n.romBank = m.romBank /\ n.ramBank = m.ramBank /\ n.romMask = rm
        /\ n.multiplex = mx /\ n.mapped = m.mapped
    BY <2>1, <1>d DEF ChipFields
  <2>3. ChipOk(n)
    BY <2>2, <1>1, <1>2 DEF ChipOk
  <2> QED BY <2>2, <2>3, <1>5, <1>9 DEF n, free
<1> HIDE DEF n
<1> QED BY <1>6, <1>7, <1>8, <1>9 DEF n

LEMMA SameBlock ==
  ASSUME NEW m, NEW n,
         n.romMask = m.romMask, n.ramMask = m.ramMask, n.multiplex = m.multiplex,
         n.romBank \cap m.romMask = m.romBank \cap m.romMask,
         n.romBank \cap 5..6 = m.romBank \cap 5..6,
         n.ramBank \cap m.ramMask = m.ramBank \cap m.ramMask,
         n.ramBank \cap 2..6 = m.ramBank \cap 2..6
  PROVE  /\ Block(n) = Block(m)
         /\ \A b : (ShownInside(b, n) <=> ShownInside(b, m)) /\ (RamInside(b, n) <=> RamInside(b, m))
<1>1. n.ramBank \cap 4..5 = m.ramBank \cap 4..5 /\ n.ramBank \cap 2..3 = m.ramBank \cap 2..3
  OBVIOUS
<1>2. /\ Field(n.ramBank, 4, 5) = Field(m.ramBank, 4, 5)
      /\ Field(n.ramBank, 2, 3) = Field(m.ramBank, 2, 3)
      /\ Field(n.romBank, 5, 6) = Field(m.romBank, 5, 6)
  BY <1>1 DEF Field
<1>3. Block(n) = Block(m)
  BY <1>2 DEF Block
<1>4. ASSUME NEW b PROVE Inside(b, n) <=> Inside(b, m)
  BY <1>3 DEF Inside
<1>5. ASSUME NEW b PROVE RamInside(b, n) <=> RamInside(b, m)
  BY <1>3 DEF RamInside
<1> QED BY <1>3, <1>4, <1>5 DEF ShownInside

(* ------------------------------ the invariant --------------------------- *)
RegFields == {"romBank", "ramBank", "ramEnabled", "memoryModel", "huC3Mode", "irMode",
              "camRegisters", "mbc7Ram", "latchReady", "latched", "rumble"}
RegOk(r) == DOMAIN r = RegFields /\ r.romBank \in 0..(romBanks - 1) /\ r.ramBank \in 0..15

AlwaysOpen == {"MBC0", "HUC1", "MBC_POCKET_CAM"}
\* The banks mapped are banks of the ROM; the RAM is open only if the latest
\* write to the enable register opened it; a mapped game sees its block.
MapperInv ==
  /\ mbc \in Kinds /\ romBanks \in BankCounts
  /\ RegOk(reg) /\ ChipOk(mmm01)
  /\ lower \in 0..(romBanks - 1) /\ upper \in 0..(romBanks - 1)
  /\ mbc \notin AlwaysOpen /\ reg.ramEnabled => opened
  /\ mbc = "MMM01" /\ mmm01.ramEnabled => opened
  /\ mmm01.mapped => /\ mbc = "MMM01"
                     /\ ShownInside(lower, mmm01) /\ ShownInside(upper, mmm01)
                     /\ RamInside(reg.ramBank, mmm01)

(* ------------------------ the mappers, one by one ----------------------- *)
\* What every step of a mapper other than the MMM01 keeps, and what those with
\* an enable register do to the RAM.
BankSwitch == /\ RegOk(reg') /\ upper' \in 0..(romBanks - 1)
              /\ mmm01' = mmm01 /\ lower' = lower
Gated(addr, v) ==
  /\ externRam' # externRam => reg.ramEnabled
  /\ reg'.ramEnabled => IF Area(addr) \in {0, 1} THEN Enables(v) ELSE reg.ramEnabled

LEMMA RomSwitched ==
  ASSUME MapperInv, NEW bank \in Int, NEW addr, NEW v, Area(addr) \notin {0, 1}, RefreshRomBank(bank)
  PROVE  BankSwitch /\ Gated(addr, v)
<1>1. romBanks \in Nat \ {0, 1}
  BY MapperAssumption DEF MapperInv
<1>2. NormalizeBank(bank) \in 0..(romBanks - 1)
  BY <1>1 DEF NormalizeBank
<1>3. /\ DOMAIN reg = RegFields /\ reg.ramBank \in 0..15
      /\ reg' = [reg EXCEPT !.romBank = NormalizeBank(bank)] /\ upper' = NormalizeBank(bank)
      /\ mmm01' = mmm01 /\ lower' = lower /\ externRam' = externRam
  BY DEF MapperInv, RegOk, RefreshRomBank
<1>4. /\ DOMAIN reg' = RegFields /\ reg'.romBank = NormalizeBank(bank)
      /\ reg'.ramBank = reg.ramBank /\ reg'.ramEnabled = reg.ramEnabled
  BY <1>3 DEF RegFields
<1> QED BY <1>2, <1>3, <1>4 DEF BankSwitch, Gated, RegOk

LEMMA RegistersSet ==
  ASSUME MapperInv, NEW r, RegOk(r), NEW addr, NEW v, SetRegisters(r)
  PROVE  /\ BankSwitch
         /\ r.ramEnabled = reg.ramEnabled /\ Area(addr) \notin {0, 1} => Gated(addr, v)
         /\ r.ramEnabled = Enables(v) /\ Area(addr) \in {0, 1} => Gated(addr, v)
BY DEF MapperInv, SetRegisters, BankSwitch, Gated

LEMMA RamSwitched ==
  ASSUME MapperInv, NEW bank \in 0..15, NEW addr, NEW v, Area(addr) \notin {0, 1}, RefreshRamBank(bank)
  PROVE  BankSwitch /\ Gated(addr, v)
<1> DEFINE r == [reg EXCEPT !.ramBank = bank]
<1>1. RegOk(r) /\ r.ramEnabled = reg.ramEnabled
  BY DEF MapperInv, RegOk, RegFields
<1>2. SetRegisters(r)
  BY DEF RefreshRamBank
<1> HIDE DEF r
<1> QED BY <1>1, <1>2, RegistersSet

LEMMA RamEnabled ==
  ASSUME MapperInv, NEW addr, NEW v, EnableRam(addr, v)
  PROVE  BankSwitch /\ Gated(addr, v)
<1> DEFINE r == [reg EXCEPT !.ramEnabled = Enables(v)]
<1>1. RegOk(r) /\ r.ramEnabled = Enables(v)
  BY DEF MapperInv, RegOk, RegFields
<1>2. SetRegisters(r) /\ Area(addr) \in {0, 1}
  BY DEF EnableRam
<1> HIDE DEF r
<1> QED BY <1>1, <1>2, RegistersSet

LEMMA NothingDone ==
  ASSUME MapperInv, NEW addr, NEW v, Area(addr) \notin {0, 1}, Nothing
  PROVE  BankSwitch /\ Gated(addr, v)
BY DEF MapperInv, Nothing, BankSwitch, Gated

LEMMA RamAccess ==
  ASSUME MapperInv, NEW addr, NEW v, NEW open, RamArea(addr, open)
  PROVE  BankSwitch /\ ((open => reg.ramEnabled) => Gated(addr, v))
BY DEF MapperInv, RamArea, WriteSram, Nothing, BankSwitch, Gated

LEMMA M0Step ==
  ASSUME MapperInv, NEW addr, M0w(addr)
  PROVE  mbc = "MBC0" /\ BankSwitch
<1>1. CASE Ignored(addr, 0..7)
  BY <1>1 DEF Ignored, M0w, MapperInv, BankSwitch, Nothing
<1>2. CASE RamArea(addr, TRUE)
  BY <1>2, RamAccess DEF M0w
<1> QED BY <1>1, <1>2 DEF M0w

LEMMA M1Step ==
  ASSUME MapperInv, NEW addr \in Nat, NEW v \in Nat, NEW rockmanMapper \in BOOLEAN,
         M1w(addr, v, rockmanMapper)
  PROVE  mbc = "MBC1" /\ BankSwitch /\ Gated(addr, v)
<1>1. mbc = "MBC1" /\ reg.romBank \in Nat
  BY MapperAssumption DEF M1w, MapperInv, RegOk
<1>2. CASE EnableRam(addr, v)
  BY <1>1, <1>2, RamEnabled
<1>3. CASE Area(addr) \in {2, 3} /\ RefreshRomBank(NonZero(M1Bank(v % 32, rockmanMapper)))
  <2> DEFINE bank == NonZero(M1Bank(v % 32, rockmanMapper))
  <2>1. bank \in Int
    BY <1>1 DEF NonZero, M1Bank
  <2>2. RefreshRomBank(bank) /\ Area(addr) \notin {0, 1}
    BY <1>3
  <2> HIDE DEF bank
  <2> QED BY <1>1, <2>1, <2>2, RomSwitched
<1>4. CASE Area(addr) \in {4, 5} /\ RefreshRomBank(NonZero((reg.romBank % 32) + 32 * (v % 4)))
  <2> DEFINE bank == NonZero((reg.romBank % 32) + 32 * (v % 4))
  <2>1. bank \in Int
    BY <1>1 DEF NonZero
  <2>2. RefreshRomBank(bank) /\ Area(addr) \notin {0, 1}
    BY <1>4
  <2> HIDE DEF bank
  <2> QED BY <1>1, <2>1, <2>2, RomSwitched
<1>5. CASE Area(addr) \in {4, 5} /\ RefreshRamBank(v % 4)
  <2>1. v % 4 \in 0..15
    OBVIOUS
  <2> QED BY <1>1, <1>5, <2>1, RamSwitched
<1>6. CASE Area(addr) \in {6, 7} /\ SetRegisters([reg EXCEPT !.memoryModel = v % 2])
  <2> DEFINE r == [reg EXCEPT !.memoryModel = v % 2]
  <2>1. RegOk(r) /\ r.ramEnabled = reg.ramEnabled
    BY DEF MapperInv, RegOk, RegFields
  <2>2. SetRegisters(r)
    BY <1>6
  <2> HIDE DEF r
  <2> QED BY <1>1, <1>6, <2>1, <2>2, RegistersSet
<1>7. CASE RamArea(addr, reg.ramEnabled)
  BY <1>1, <1>7, RamAccess
<1> QED BY <1>2, <1>3, <1>4, <1>5, <1>6, <1>7 DEF M1w

LEMMA M2Step ==
  ASSUME MapperInv, NEW addr \in Nat, NEW v \in Nat, M2w(addr, v)
  PROVE  mbc = "MBC2" /\ BankSwitch /\ Gated(addr, v)
<1>1. mbc = "MBC2"
  BY DEF M2w
<1>2. CASE EnableRam(addr, v)
  BY <1>1, <1>2, RamEnabled
<1>3. CASE Area(addr) \in {2, 3} /\ RefreshRomBank(NonZero(v))
  BY <1>1, <1>3, RomSwitched DEF NonZero
<1>4. CASE Ignored(addr, 4..7)
  BY <1>1, <1>4, NothingDone DEF Ignored
<1>5. CASE RamArea(addr, reg.ramEnabled /\ addr < \hA200)
  <2> DEFINE open == reg.ramEnabled /\ addr < \hA200
  <2>1. open => reg.ramEnabled
    OBVIOUS
  <2>2. RamArea(addr, open)
    BY <1>5
  <2> HIDE DEF open
  <2> QED BY <1>1, <1>5, <2>1, <2>2, RamAccess
<1> QED BY <1>2, <1>3, <1>4, <1>5 DEF M2w

LEMMA M3Step ==
  ASSUME MapperInv, NEW addr \in Nat, NEW v \in Nat, M3w(addr, v)
  PROVE  mbc = "MBC3" /\ BankSwitch /\ Gated(addr, v)
<1>1. mbc = "MBC3"
  BY DEF M3w
<1>2. CASE EnableRam(addr, v)
  BY <1>1, <1>2, RamEnabled
<1>3. CASE Area(addr) \in {2, 3} /\ RefreshRomBank(NonZero(v % 128))
  <2> DEFINE bank == NonZero(v % 128)
  <2>1. bank \in Int
    BY DEF NonZero
  <2>2. RefreshRomBank(bank) /\ Area(addr) \notin {0, 1}
    BY <1>3
  <2> HIDE DEF bank
  <2> QED BY <1>1, <2>1, <2>2, RomSwitched
<1>4. CASE Area(addr) \in {4, 5} /\ IF v \in 0..3 \cup 8..12 THEN RefreshRamBank(v) ELSE Nothing
  <2>1. CASE v \in 0..3 \cup 8..12
    <3>1. v \in 0..15
      BY <2>1
    <3> QED BY <1>1, <1>4, <2>1, <3>1, RamSwitched
  <2>2. CASE v \notin 0..3 \cup 8..12
    BY <1>1, <1>4, <2>2, NothingDone
  <2> QED BY <2>1, <2>2
<1>5. CASE Ignored(addr, 6..7)
  BY <1>1, <1>5, NothingDone DEF Ignored
<1>6. CASE RamArea(addr, reg.ramEnabled /\ reg.ramBank \notin 8..12)
  <2> DEFINE open == reg.ramEnabled /\ reg.ramBank \notin 8..12
  <2>1. open => reg.ramEnabled
    OBVIOUS
  <2>2. RamArea(addr, open)
    BY <1>6
  <2> HIDE DEF open
  <2> QED BY <1>1, <1>6, <2>1, <2>2, RamAccess
<1> QED BY <1>2, <1>3, <1>4, <1>5, <1>6 DEF M3w

LEMMA M5Step ==
  ASSUME MapperInv, NEW addr \in Nat, NEW v \in Nat, NEW hasRumble \in BOOLEAN, M5w(addr, v, hasRumble)
  PROVE  mbc = "MBC5" /\ BankSwitch /\ Gated(addr, v)
<1>1. mbc = "MBC5" /\ reg.romBank \in Nat
  BY MapperAssumption DEF M5w, MapperInv, RegOk
<1>2. CASE EnableRam(addr, v)
  BY <1>1, <1>2, RamEnabled
<1>3. CASE Area(addr) = 2 /\ RefreshRomBank(256 * (reg.romBank \div 256) + v)
  <2> DEFINE bank == 256 * (reg.romBank \div 256) + v
  <2>1. bank \in Int
    BY <1>1
  <2>2. RefreshRomBank(bank) /\ Area(addr) \notin {0, 1}
    BY <1>3
  <2> HIDE DEF bank
  <2> QED BY <1>1, <2>1, <2>2, RomSwitched
<1>4. CASE Area(addr) = 3 /\ RefreshRomBank((reg.romBank % 256) + 256 * (v % 2))
  <2> DEFINE bank == (reg.romBank % 256) + 256 * (v % 2)
  <2>1. bank \in Int
    BY <1>1
  <2>2. RefreshRomBank(bank) /\ Area(addr) \notin {0, 1}
    BY <1>4
  <2> HIDE DEF bank
  <2> QED BY <1>1, <2>1, <2>2, RomSwitched
<1>5. CASE /\ Area(addr) \in {4, 5}
           /\ SetRegisters([reg EXCEPT !.ramBank = IF hasRumble THEN v % 8 ELSE v % 16,
                                       !.rumble = IF hasRumble THEN (v \div 8) % 2 ELSE @])
  <2> DEFINE bank == IF hasRumble THEN v % 8 ELSE v % 16
             motor == IF hasRumble THEN (v \div 8) % 2 ELSE reg.rumble
             r == [reg EXCEPT !.ramBank = bank, !.rumble = motor]
  <2>1. bank \in 0..15
    OBVIOUS
  <2> HIDE DEF bank, motor
  <2>2. RegOk(r) /\ r.ramEnabled = reg.ramEnabled
    BY <2>1 DEF MapperInv, RegOk, RegFields
  <2>3. SetRegisters(r)
    BY <1>5 DEF bank, motor
  <2> HIDE DEF r
  <2> QED BY <1>1, <1>5, <2>2, <2>3, RegistersSet
<1>6. CASE Ignored(addr, 6..7)
  BY <1>1, <1>6, NothingDone DEF Ignored
<1>7. CASE RamArea(addr, reg.ramEnabled)
  BY <1>1, <1>7, RamAccess
<1> QED BY <1>2, <1>3, <1>4, <1>5, <1>6, <1>7 DEF M5w

LEMMA M7Step ==
  ASSUME MapperInv, NEW addr \in Nat, NEW v \in Nat, M7w(addr, v)
  PROVE  mbc = "MBC7" /\ BankSwitch /\ Gated(addr, v)
<1>1. mbc = "MBC7"
  BY DEF M7w
<1>2. CASE EnableRam(addr, v)
  BY <1>1, <1>2, RamEnabled
<1>3. CASE Area(addr) \in {2, 3} /\ RefreshRomBank(v % 128)
  BY <1>1, <1>3, RomSwitched
<1>4. CASE Area(addr) \in {4, 5} /\ SetRegisters([reg EXCEPT !.mbc7Ram = (v = \h40)])
  <2> DEFINE r == [reg EXCEPT !.mbc7Ram = (v = \h40)]
  <2>1. RegOk(r) /\ r.ramEnabled = reg.ramEnabled
    BY DEF MapperInv, RegOk, RegFields
  <2>2. SetRegisters(r)
    BY <1>4
  <2> HIDE DEF r
  <2> QED BY <1>1, <1>4, <2>1, <2>2, RegistersSet
<1>5. CASE Ignored(addr, 6..7)
  BY <1>1, <1>5, NothingDone DEF Ignored
<1>6. CASE Area(addr) \in {10, 11} /\ SetRegisters([reg EXCEPT !.latched = FALSE, !.latchReady = TRUE])
  <2> DEFINE r == [reg EXCEPT !.latched = FALSE, !.latchReady = TRUE]
  <2>1. RegOk(r) /\ r.ramEnabled = reg.ramEnabled
    BY DEF MapperInv, RegOk, RegFields
  <2>2. SetRegisters(r)
    BY <1>6
  <2> HIDE DEF r
  <2> QED BY <1>1, <1>6, <2>1, <2>2, RegistersSet
<1>7. CASE Area(addr) \in {10, 11} /\ SetRegisters([reg EXCEPT !.latched = TRUE, !.latchReady = FALSE])
  <2> DEFINE r == [reg EXCEPT !.latched = TRUE, !.latchReady = FALSE]
  <2>1. RegOk(r) /\ r.ramEnabled = reg.ramEnabled
    BY DEF MapperInv, RegOk, RegFields
  <2>2. SetRegisters(r)
    BY <1>7
  <2> HIDE DEF r
  <2> QED BY <1>1, <1>7, <2>1, <2>2, RegistersSet
<1>8. CASE Area(addr) \in {10, 11} /\ Nothing
  BY <1>1, <1>8, NothingDone
<1> QED BY <1>2, <1>3, <1>4, <1>5, <1>6, <1>7, <1>8 DEF M7w

LEMMA H1Step ==
  ASSUME MapperInv, NEW addr \in Nat, NEW v \in Nat, H1w(addr, v)
  PROVE  mbc = "HUC1" /\ BankSwitch
<1>1. mbc = "HUC1"
  BY DEF H1w
<1>2. CASE SetRegisters([reg EXCEPT !.irMode = (v = 14), !.ramEnabled = (v # 14)])
  <2> DEFINE r == [reg EXCEPT !.irMode = (v = 14), !.ramEnabled = (v # 14)]
  <2>1. RegOk(r)
    BY DEF MapperInv, RegOk, RegFields
  <2>2. SetRegisters(r)
    BY <1>2
  <2> HIDE DEF r
  <2> QED BY <1>1, <1>2, <2>1, <2>2, RegistersSet
<1>3. CASE Area(addr) \in {2, 3} /\ RefreshRomBank(v % 64)
  BY <1>1, <1>3, RomSwitched
<1>4. CASE Area(addr) \in {4, 5} /\ RefreshRamBank(v % 4)
  <2>1. v % 4 \in 0..15
    OBVIOUS
  <2> QED BY <1>1, <1>4, <2>1, RamSwitched
<1>5. CASE Ignored(addr, 6..7)
  BY <1>1, <1>5, NothingDone DEF Ignored
<1>6. CASE RamArea(addr, ~reg.irMode)
  BY <1>1, <1>6, RamAccess
<1> QED BY <1>2, <1>3, <1>4, <1>5, <1>6 DEF H1w

LEMMA H3Step ==
  ASSUME MapperInv, NEW addr \in Nat, NEW v \in Nat, H3w(addr, v)
  PROVE  mbc = "HUC3" /\ BankSwitch /\ Gated(addr, v)
<1>1. mbc = "HUC3"
  BY DEF H3w
<1>2. CASE Area(addr) \in {0, 1} /\ SetRegisters([reg EXCEPT !.ramEnabled = Enables(v), !.huC3Mode = v])
  <2> DEFINE r == [reg EXCEPT !.ramEnabled = Enables(v), !.huC3Mode = v]
  <2>1. RegOk(r) /\ r.ramEnabled = Enables(v)
    BY DEF MapperInv, RegOk, RegFields
  <2>2. SetRegisters(r)
    BY <1>2
  <2> HIDE DEF r
  <2> QED BY <1>1, <1>2, <2>1, <2>2, RegistersSet
<1>3. CASE Area(addr) \in {2, 3} /\ RefreshRomBank(NonZero(v))
  BY <1>1, <1>3, RomSwitched DEF NonZero
<1>4. CASE Area(addr) \in {4, 5} /\ RefreshRamBank(v % 16)
  <2>1. v % 16 \in 0..15
    OBVIOUS
  <2> QED BY <1>1, <1>4, <2>1, RamSwitched
<1>5. CASE Ignored(addr, 6..7)
  BY <1>1, <1>5, NothingDone DEF Ignored
<1>6. CASE RamArea(addr, reg.huC3Mode \notin 11..14 /\ reg.ramEnabled)
  <2> DEFINE open == reg.huC3Mode \notin 11..14 /\ reg.ramEnabled
  <2>1. open => reg.ramEnabled
    OBVIOUS
  <2>2. RamArea(addr, open)
    BY <1>6
  <2> HIDE DEF open
  <2> QED BY <1>1, <1>6, <2>1, <2>2, RamAccess
<1> QED BY <1>2, <1>3, <1>4, <1>5, <1>6 DEF H3w

LEMMA CamStep ==
  ASSUME MapperInv, NEW addr \in Nat, NEW v \in Nat, Camw(addr, v)
  PROVE  mbc = "MBC_POCKET_CAM" /\ BankSwitch
<1>1. mbc = "MBC_POCKET_CAM"
  BY DEF Camw
<1>2. CASE EnableRam(addr, v)
  BY <1>1, <1>2, RamEnabled
<1>3. CASE Area(addr) \in {2, 3} /\ RefreshRomBank(NonZero(v % 128))
  <2> DEFINE bank == NonZero(v % 128)
  <2>1. bank \in Int
    BY DEF NonZero
  <2>2. RefreshRomBank(bank) /\ Area(addr) \notin {0, 1}
    BY <1>3
  <2> HIDE DEF bank
  <2> QED BY <1>1, <2>1, <2>2, RomSwitched
<1>4. CASE v < 16 /\ SetRegisters([reg EXCEPT !.ramBank = v, !.camRegisters = FALSE, !.ramEnabled = TRUE])
  <2> DEFINE r == [reg EXCEPT !.ramBank = v, !.camRegisters = FALSE, !.ramEnabled = TRUE]
  <2>1. v \in 0..15
    BY <1>4
  <2>2. RegOk(r)
    BY <2>1 DEF MapperInv, RegOk, RegFields
  <2>3. SetRegisters(r)
    BY <1>4
  <2> HIDE DEF r
  <2> QED BY <1>1, <1>4, <2>2, <2>3, RegistersSet
<1>5. CASE SetRegisters([reg EXCEPT !.camRegisters = TRUE, !.ramEnabled = FALSE])
  <2> DEFINE r == [reg EXCEPT !.camRegisters = TRUE, !.ramEnabled = FALSE]
  <2>1. RegOk(r)
    BY DEF MapperInv, RegOk, RegFields
  <2>2. SetRegisters(r)
    BY <1>5
  <2> HIDE DEF r
  <2> QED BY <1>1, <1>5, <2>1, <2>2, RegistersSet
<1>6. CASE Ignored(addr, 6..7)
  BY <1>1, <1>6, NothingDone DEF Ignored
<1>7. CASE RamArea(addr, reg.ramEnabled /\ ~reg.camRegisters)
  BY <1>1, <1>7, RamAccess
<1>8. CASE UNCHANGED <<reg, mmm01, lower, upper>>
  BY <1>1, <1>8 DEF MapperInv, BankSwitch
<1> QED BY <1>2, <1>3, <1>4, <1>5, <1>6, <1>7, <1>8 DEF Camw

LEMMA Mmm01Step ==
  ASSUME MapperInv, NEW addr \in Nat, NEW v \in Nat, Mmm01w(addr, v)
  PROVE  /\ mbc = "MMM01"
         /\ RegOk(reg') /\ lower' \in 0..(romBanks - 1) /\ upper' \in 0..(romBanks - 1)
         /\ ChipOk(mmm01') /\ (externRam' # externRam => reg.ramEnabled)
         /\ reg'.ramEnabled => IF Area(addr) \in {0, 1} THEN Enables(v) ELSE reg.ramEnabled \/ mmm01.ramEnabled
         /\ mmm01'.ramEnabled => IF Area(addr) \in {0, 1} THEN Enables(v) ELSE mmm01.ramEnabled
         /\ mmm01.mapped => /\ mmm01'.mapped /\ Block(mmm01') = Block(mmm01)
                            /\ ShownInside(lower', mmm01) /\ ShownInside(upper', mmm01)
                            /\ RamInside(reg'.ramBank, mmm01)
         /\ mmm01'.mapped => /\ ShownInside(lower', mmm01') /\ ShownInside(upper', mmm01')
                             /\ RamInside(reg'.ramBank, mmm01')
<1>1. mbc = "MMM01" /\ ChipOk(mmm01) /\ RegOk(reg) /\ romBanks \in Nat \ {0, 1}
  BY MapperAssumption DEF Mmm01w, MapperInv
<1>2. CASE RamArea(addr, reg.ramEnabled)
  <2>1. BankSwitch /\ Gated(addr, v)
    BY <1>2, RamAccess
  <2>2. UNCHANGED <<reg, mmm01, lower, upper>> /\ Area(addr) \notin {0, 1}
    BY <1>2 DEF RamArea, WriteSram, Nothing
  <2>3. /\ RegOk(reg') /\ lower' = lower /\ upper' = upper /\ mmm01' = mmm01 /\ reg' = reg
        /\ externRam' # externRam => reg.ramEnabled
    BY <2>1, <2>2 DEF BankSwitch, Gated
  <2>4. /\ lower \in 0..(romBanks - 1) /\ upper \in 0..(romBanks - 1)
        /\ mmm01.mapped => /\ ShownInside(lower, mmm01) /\ ShownInside(upper, mmm01)
                           /\ RamInside(reg.ramBank, mmm01)
    BY DEF MapperInv
  <2> QED BY <1>1, <2>2, <2>3, <2>4
<1>3. CASE /\ Area(addr) \in 0..7
           /\ mmm01' = Mmm01Write(mmm01, addr, v)
           /\ LET to == Mapping(mmm01')
              IN /\ lower' = to.lower /\ upper' = to.upper
                 /\ reg' = [reg EXCEPT !.romBank = to.upper, !.ramBank = to.ram, !.ramEnabled = mmm01'.ramEnabled]
           /\ UNCHANGED externRam
  <2> DEFINE n == Mmm01Write(mmm01, addr, v)
             to == Mapping(n)
             on == n.ramEnabled
  <2>1. /\ mmm01' = n /\ lower' = to.lower /\ upper' = to.upper /\ externRam' = externRam
        /\ reg' = [reg EXCEPT !.romBank = to.upper, !.ramBank = to.ram, !.ramEnabled = on]
    BY <1>3
  <2>2. ChipOk(n)
    BY <1>1, ChipWrite
  <2>3. n.ramEnabled => IF Area(addr) \in {0, 1} THEN Enables(v) ELSE mmm01.ramEnabled
    BY <1>1, ChipWrite
  <2>4. /\ mmm01.mapped => n.mapped /\ Block(n) = Block(mmm01)
        /\ mmm01.mapped => \A b : /\ ShownInside(b, n) <=> ShownInside(b, mmm01)
                                  /\ RamInside(b, n) <=> RamInside(b, mmm01)
    <3> SUFFICES ASSUME mmm01.mapped
                 PROVE  /\ n.mapped /\ Block(n) = Block(mmm01)
                        /\ \A b : /\ ShownInside(b, n) <=> ShownInside(b, mmm01)
                                  /\ RamInside(b, n) <=> RamInside(b, mmm01)
      OBVIOUS
    <3>1. /\ n.mapped
          /\ n.romMask = mmm01.romMask /\ n.ramMask = mmm01.ramMask
          /\ n.multiplex = mmm01.multiplex
          /\ n.romBank \cap mmm01.romMask = mmm01.romBank \cap mmm01.romMask
          /\ n.romBank \cap 5..6 = mmm01.romBank \cap 5..6
          /\ n.ramBank \cap mmm01.ramMask = mmm01.ramBank \cap mmm01.ramMask
          /\ n.ramBank \cap 2..6 = mmm01.ramBank \cap 2..6
      BY <1>1, ChipWrite
    <3> HIDE DEF n
    <3> QED BY <3>1, SameBlock
  <2> HIDE DEF n
  <2>5. /\ to.lower \in 0..(romBanks - 1) /\ to.upper \in 0..(romBanks - 1) /\ to.ram \in 0..15
        /\ n.mapped => /\ ShownInside(to.lower, n) /\ ShownInside(to.upper, n)
                       /\ RamInside(to.ram, n)
    BY <1>1, <2>2, MappingInside
  <2> HIDE DEF to, on
  <2>6. DOMAIN reg' = RegFields /\ reg'.romBank = to.upper /\ reg'.ramBank = to.ram /\ reg'.ramEnabled = on
    BY <1>1, <2>1 DEF RegOk, RegFields
  <2>7. RegOk(reg')
    BY <2>5, <2>6 DEF RegOk
  <2>8. reg'.ramEnabled => IF Area(addr) \in {0, 1} THEN Enables(v) ELSE reg.ramEnabled \/ mmm01.ramEnabled
    BY <2>3, <2>6 DEF on
  <2>9. mmm01'.ramEnabled => IF Area(addr) \in {0, 1} THEN Enables(v) ELSE mmm01.ramEnabled
    BY <2>1, <2>3
  <2>10. mmm01.mapped => /\ mmm01'.mapped /\ Block(mmm01') = Block(mmm01)
                         /\ ShownInside(lower', mmm01) /\ ShownInside(upper', mmm01)
                         /\ RamInside(reg'.ramBank, mmm01)
    BY <2>1, <2>4, <2>5, <2>6
  <2>11. mmm01'.mapped => /\ ShownInside(lower', mmm01') /\ ShownInside(upper', mmm01')
                          /\ RamInside(reg'.ramBank, mmm01')
    BY <2>1, <2>5, <2>6
  <2> QED BY <1>1, <2>1, <2>2, <2>5, <2>7, <2>8, <2>9, <2>10, <2>11
<1> QED BY <1>2, <1>3 DEF Mmm01w

(* ------------------------- every step keeps it -------------------------- *)
CartStep(addr, v) ==
  /\ opened' = IF Area(addr) \in {0, 1} THEN Unlocked(v) ELSE opened
  /\ UNCHANGED <<mbc, romBanks>>
  /\ \/ M0w(addr) \/ M2w(addr, v) \/ M3w(addr, v)
     \/ \E rockmanMapper \in BOOLEAN : M1w(addr, v, rockmanMapper)
     \/ \E hasRumble \in BOOLEAN : M5w(addr, v, hasRumble)
     \/ M7w(addr, v) \/ H1w(addr, v) \/ H3w(addr, v) \/ Camw(addr, v) \/ Mmm01w(addr, v)

StaysInside == mmm01.mapped => /\ mmm01'.mapped /\ Block(mmm01') = Block(mmm01)
                               /\ ShownInside(lower', mmm01) /\ ShownInside(upper', mmm01)
                               /\ RamInside(reg'.ramBank, mmm01)
KeepsClosed == externRam' # externRam /\ mbc \notin AlwaysOpen => opened

LEMMA MapperStarts == MapperInit => MapperInv
<1> SUFFICES ASSUME MapperInit PROVE MapperInv
  OBVIOUS
<1>1. mbc \in Kinds /\ romBanks \in BankCounts /\ romBanks \in Nat \ {0, 1}
  BY MapperAssumption DEF MapperInit
<1>2. 1 % romBanks \in 0..(romBanks - 1) /\ romBanks - 2 \in 0..(romBanks - 1) /\ romBanks - 1 \in 0..(romBanks - 1)
  BY <1>1
<1>3. lower \in 0..(romBanks - 1) /\ upper \in 0..(romBanks - 1)
  BY <1>1, <1>2 DEF MapperInit
<1>4. RegOk(reg) /\ reg.ramEnabled = FALSE
  BY <1>2 DEF MapperInit, RegOk, RegFields
<1>5. ChipOk(mmm01) /\ mmm01.ramEnabled = FALSE /\ mmm01.mapped = FALSE
  BY DEF MapperInit, ChipOk, ChipFields
<1> QED BY <1>1, <1>3, <1>4, <1>5 DEF MapperInv

LEMMA OtherMapper ==
  ASSUME MapperInv, NEW addr, NEW v, BankSwitch, mbc # "MMM01",
         mbc \in AlwaysOpen \/ Gated(addr, v),
         opened' = IF Area(addr) \in {0, 1} THEN Unlocked(v) ELSE opened,
         UNCHANGED <<mbc, romBanks>>
  PROVE  MapperInv' /\ StaysInside /\ KeepsClosed
<1>1. ~mmm01.mapped
  BY DEF MapperInv
<1>2. mbc \notin AlwaysOpen => (reg'.ramEnabled => opened') /\ (externRam' # externRam => opened)
  BY DEF MapperInv, Gated, Unlocked, AlwaysOpen
<1>3. RegOk(reg)' /\ ChipOk(mmm01)' /\ ~(mmm01'.mapped)
  BY <1>1 DEF MapperInv, BankSwitch, RegOk, ChipOk
<1>4. MapperInv'
  BY <1>2, <1>3 DEF MapperInv, BankSwitch
<1> QED BY <1>1, <1>2, <1>4 DEF StaysInside, KeepsClosed

\* What the next state shows, in terms of its banks and its chip.
LEMMA LowerShown ==
  ASSUME romBanks' = romBanks, ShownInside(lower', mmm01')
  PROVE  ShownInside(lower, mmm01)'
<1>1. PICK k \in 0..((511 - lower') \div romBanks) : Inside(lower' + (k * romBanks), mmm01')
  BY DEF ShownInside
<1>2. Inside(lower + (k * romBanks), mmm01)'
  BY <1>1 DEF Inside, Block
<1> QED BY <1>1, <1>2 DEF ShownInside

LEMMA UpperShown ==
  ASSUME romBanks' = romBanks, ShownInside(upper', mmm01')
  PROVE  ShownInside(upper, mmm01)'
<1>1. PICK k \in 0..((511 - upper') \div romBanks) : Inside(upper' + (k * romBanks), mmm01')
  BY DEF ShownInside
<1>2. Inside(upper + (k * romBanks), mmm01)'
  BY <1>1 DEF Inside, Block
<1> QED BY <1>1, <1>2 DEF ShownInside

LEMMA MapperStep ==
  ASSUME MapperInv, [MapperNext]_mapperVars
  PROVE  MapperInv' /\ [StaysInside]_mapperVars /\ [KeepsClosed]_mapperVars
<1>1. CASE UNCHANGED mapperVars
  <2>1. (mmm01.mapped => ShownInside(lower, mmm01))'
    BY <1>1, LowerShown DEF MapperInv, mapperVars
  <2>2. (mmm01.mapped => ShownInside(upper, mmm01))'
    BY <1>1, UpperShown DEF MapperInv, mapperVars
  <2>3. (mmm01.mapped => RamInside(reg.ramBank, mmm01))'
    BY <1>1 DEF MapperInv, mapperVars, RamInside, Block
  <2>4. MapperInv'
    BY <1>1, <2>1, <2>2, <2>3 DEF MapperInv, mapperVars, RegOk, ChipOk
  <2> QED BY <1>1, <2>4
<1>2. CASE MapperNext
  <2>1. PICK addr \in Addresses(mbc), v \in Bytes(mbc) : CartStep(addr, v)
    BY <1>2 DEF MapperNext, CartStep
  <2>2. addr \in Nat /\ v \in Nat
    BY MapperAssumption DEF MapperInv
  <2>3. /\ opened' = IF Area(addr) \in {0, 1} THEN Unlocked(v) ELSE opened
        /\ UNCHANGED <<mbc, romBanks>>
    BY <2>1 DEF CartStep
  <2>4. CASE M0w(addr)
    BY <2>3, <2>4, M0Step, OtherMapper DEF AlwaysOpen
  <2>5. CASE \E rockmanMapper \in BOOLEAN : M1w(addr, v, rockmanMapper)
    BY <2>2, <2>3, <2>5, M1Step, OtherMapper
  <2>6. CASE M2w(addr, v)
    BY <2>2, <2>3, <2>6, M2Step, OtherMapper
  <2>7. CASE M3w(addr, v)
    BY <2>2, <2>3, <2>7, M3Step, OtherMapper
  <2>8. CASE \E hasRumble \in BOOLEAN : M5w(addr, v, hasRumble)
    BY <2>2, <2>3, <2>8, M5Step, OtherMapper
  <2>9. CASE M7w(addr, v)
    BY <2>2, <2>3, <2>9, M7Step, OtherMapper
  <2>10. CASE H1w(addr, v)
    BY <2>2, <2>3, <2>10, H1Step, OtherMapper DEF AlwaysOpen
  <2>11. CASE H3w(addr, v)
    BY <2>2, <2>3, <2>11, H3Step, OtherMapper
  <2>12. CASE Camw(addr, v)
    BY <2>2, <2>3, <2>12, CamStep, OtherMapper DEF AlwaysOpen
  <2>13. CASE Mmm01w(addr, v)
    <3>1. /\ mbc = "MMM01"
          /\ RegOk(reg') /\ lower' \in 0..(romBanks - 1) /\ upper' \in 0..(romBanks - 1)
          /\ ChipOk(mmm01') /\ (externRam' # externRam => reg.ramEnabled)
          /\ reg'.ramEnabled => IF Area(addr) \in {0, 1} THEN Enables(v) ELSE reg.ramEnabled \/ mmm01.ramEnabled
          /\ mmm01'.ramEnabled => IF Area(addr) \in {0, 1} THEN Enables(v) ELSE mmm01.ramEnabled
      BY <2>2, <2>13, Mmm01Step
    <3>2. /\ mmm01.mapped => /\ mmm01'.mapped /\ Block(mmm01') = Block(mmm01)
                             /\ ShownInside(lower', mmm01) /\ ShownInside(upper', mmm01)
                             /\ RamInside(reg'.ramBank, mmm01)
          /\ mmm01'.mapped => /\ ShownInside(lower', mmm01') /\ ShownInside(upper', mmm01')
                              /\ RamInside(reg'.ramBank, mmm01')
      BY <2>2, <2>13, Mmm01Step
    <3>3. StaysInside
      BY <3>2 DEF StaysInside
    <3>4. KeepsClosed
      BY <3>1 DEF KeepsClosed, MapperInv
    <3>5. (reg'.ramEnabled => opened') /\ (mmm01'.ramEnabled => opened')
      BY <2>3, <3>1 DEF MapperInv, Unlocked, AlwaysOpen
    <3>6. mmm01'.mapped => ShownInside(lower, mmm01)' /\ ShownInside(upper, mmm01)'
      BY <2>3, <3>2, LowerShown, UpperShown
    <3>7. mmm01'.mapped => RamInside(reg.ramBank, mmm01)'
      BY <2>3, <3>2 DEF RamInside, Block
    <3>8. RegOk(reg)' /\ ChipOk(mmm01)'
      BY <2>3, <3>1 DEF RegOk, ChipOk
    <3>9. MapperInv'
      BY <2>3, <3>1, <3>5, <3>6, <3>7, <3>8 DEF MapperInv
    <3> QED BY <3>3, <3>4, <3>9
  <2> QED BY <2>1, <2>4, <2>5, <2>6, <2>7, <2>8, <2>9, <2>10, <2>11, <2>12, <2>13 DEF CartStep
<1> QED BY <1>1, <1>2

LEMMA MapperTyped == MapperInv => MapperTypeOK
BY DEF MapperInv, MapperTypeOK, RegOk, ChipOk

(* On every mapper with an enable register the battery RAM changes only      *)
(* while the latest write to that register opened it (mbc.cpp).              *)
THEOREM ClosedRamAlwaysKept == MapperSpec => ClosedRamKept
<1>1. MapperInv /\ [MapperNext]_mapperVars => [externRam' # externRam /\ mbc \notin {"MBC0", "HUC1", "MBC_POCKET_CAM"} => opened]_mapperVars
  BY MapperStep DEF KeepsClosed, AlwaysOpen
<1>2. MapperInv /\ [MapperNext]_mapperVars => MapperInv'
  BY MapperStep
<1> QED BY <1>1, <1>2, MapperStarts, PTL DEF MapperSpec, ClosedRamKept

(* The windows show banks of the cartridge, for a ROM of any size, and a     *)
(* game that an MMM01's menu mapped never sees a bank outside of its block,  *)
(* nor moves the block (mmm01.cpp:43-67, 92-117).                            *)
THEOREM GameAlwaysInside == MapperSpec => GameStaysInside
<1>1. MapperInv /\ [MapperNext]_mapperVars =>
        [mmm01.mapped => /\ mmm01'.mapped /\ Block(mmm01') = Block(mmm01)
                         /\ ShownInside(lower', mmm01) /\ ShownInside(upper', mmm01)
                         /\ RamInside(reg'.ramBank, mmm01)]_mapperVars
  BY MapperStep DEF StaysInside
<1>2. MapperInv /\ [MapperNext]_mapperVars => MapperInv'
  BY MapperStep
<1> QED BY <1>1, <1>2, MapperStarts, MapperTyped, PTL DEF MapperSpec, GameStaysInside

(* Together: closed RAM stays as it is and a mapped game in its block        *)
(* (mbc.cpp, mmm01.cpp:43-117).                                              *)
THEOREM MappersAlwaysGuard == MapperSpec => MapperGuards
BY ClosedRamAlwaysKept, GameAlwaysInside DEF MapperGuards
-----------------------------------------------------------------------------
(* The EEPROM of an MBC7 (mbc7_eeprom.cpp).  First: the numbers that bits    *)
(* make.                                                                     *)
PowerOfTwo == <<1, 2, 4, 8, 16, 32, 64, 128, 256, 512, 1024, 2048, 4096, 8192, 16384, 32768, 65536>>
LEMMA PowerDoubles ==
  \A i \in 1..16 : PowerOfTwo[i] \in Nat /\ PowerOfTwo[i + 1] \in Nat /\ PowerOfTwo[i + 1] = 2 * PowerOfTwo[i]
BY DEF PowerOfTwo

\* There is a function that numbers the beginnings of a sequence in turn.
LEMMA NumberedInTurn ==
  ASSUME NEW n \in Nat, NEW b \in [1..n -> {0, 1}]
  PROVE  \E g \in [0..n -> Nat] : g[0] = 0 /\ \A i \in 1..n : g[i] = 2 * g[i - 1] + b[i]
<1> DEFINE Turns(g, m) == g[0] = 0 /\ \A i \in 1..m : g[i] = 2 * g[i - 1] + b[i]
           T == {m \in Nat : m <= n => \E g \in [0..m -> Nat] : Turns(g, m)}
<1>1. 0 \in T
  <2>1. [i \in 0..0 |-> 0] \in [0..0 -> Nat] /\ Turns([i \in 0..0 |-> 0], 0)
    OBVIOUS
  <2> QED BY <2>1
<1>2. ASSUME NEW m \in Nat, m \in T PROVE m + 1 \in T
  <2> SUFFICES ASSUME m + 1 <= n PROVE \E h \in [0..(m + 1) -> Nat] : Turns(h, m + 1)
    <3> HIDE DEF Turns
    <3> QED OBVIOUS
  <2>1. PICK g \in [0..m -> Nat] : Turns(g, m)
    <3> HIDE DEF Turns
    <3> QED BY <1>2
  <2>2. b[m + 1] \in Nat /\ g[m] \in Nat
    <3>1. b[m + 1] \in {0, 1}
      OBVIOUS
    <3> QED BY <3>1
  <2> DEFINE h == [i \in 0..(m + 1) |-> IF i = m + 1 THEN 2 * g[m] + b[m + 1] ELSE g[i]]
  <2>3. h \in [0..(m + 1) -> Nat] /\ h[0] = 0
    BY <2>1, <2>2
  <2>4. ASSUME NEW i \in 1..(m + 1) PROVE h[i] = 2 * h[i - 1] + b[i]
    <3>1. CASE i = m + 1
      BY <3>1
    <3>2. CASE i \in 1..m
      BY <2>1, <3>2
    <3> QED BY <3>1, <3>2
  <2> HIDE DEF h
  <2> QED BY <2>3, <2>4
<1> HIDE DEF T
<1>3. n \in T
  BY <1>1, <1>2, Induction
<1> QED BY <1>3 DEF T

\* Each bit doubles the number of the bits before it.
LEMMA NumberByBits ==
  ASSUME NEW bits \in Seq({0, 1})
  PROVE  \E g \in [0..Len(bits) -> Nat] :
           /\ g[0] = 0 /\ NumberOf(bits) = g[Len(bits)]
           /\ \A i \in 1..Len(bits) : g[i] = 2 * g[i - 1] + bits[i]
<1> DEFINE n == Len(bits)
           Step(x, i) == 2 * x + bits[i]
           Cycle(f) == [i \in 0..n |-> IF i = 0 THEN 0 ELSE Step(f[i - 1], i)]
           upto == CHOOSE f : f = Cycle(f)
<1>0. n \in Nat /\ \A x \in Nat, i \in 1..n : Step(x, i) \in Nat
  <2>1. n \in Nat /\ \A i \in 1..n : bits[i] \in {0, 1}
    OBVIOUS
  <2> QED BY <2>1
<1>n. n \in Nat
  BY <1>0
<1>1. NumberOf(bits) = upto[n]
  BY DEF NumberOf
<1>2. bits \in [1..n -> {0, 1}]
  OBVIOUS
<1> HIDE DEF n
<1>3. PICK g \in [0..n -> Nat] : g[0] = 0 /\ \A i \in 1..n : g[i] = 2 * g[i - 1] + bits[i]
  BY <1>n, <1>2, NumberedInTurn
<1>4. \A i \in 1..n : g[i] = Step(g[i - 1], i)
  BY <1>3
<1> HIDE DEF Step
<1>5. g = Cycle(g)
  <2> SUFFICES ASSUME NEW i \in 0..n PROVE g[i] = Cycle(g)[i]
    OBVIOUS
  <2>1. CASE i = 0
    BY <1>3, <2>1
  <2>2. CASE i \in 1..n
    BY <1>4, <2>2, <1>0
  <2> QED BY <2>1, <2>2, <1>0
<1>6. upto = Cycle(upto)
  <2> HIDE DEF Cycle
  <2> QED BY <1>5
<1> HIDE DEF upto
<1> DEFINE T == {i \in Nat : i <= n => upto[i] = g[i]}
<1>7. 0 \in T
  BY <1>0, <1>3, <1>6
<1>8. ASSUME NEW i \in Nat, i \in T PROVE i + 1 \in T
  <2>1. CASE i + 1 <= n
    <3>1. i + 1 \in 0..n /\ i + 1 # 0 /\ (i + 1) - 1 = i /\ i + 1 \in 1..n /\ upto[i] = g[i]
      BY <1>8, <2>1, <1>0
    <3>2. upto[i + 1] = Step(upto[i], i + 1) /\ g[i + 1] = Step(g[i], i + 1)
      BY <1>4, <1>6, <3>1
    <3> QED BY <3>1, <3>2
  <2> QED BY <2>1
<1> HIDE DEF T
<1>9. n \in T
  BY <1>0, <1>7, <1>8, Induction
<1>10. upto[n] = g[n]
  BY <1>0, <1>9 DEF T
<1> QED BY <1>1, <1>3, <1>4, <1>10 DEF Step, n

LEMMA NumberTyped == ASSUME NEW bits \in Seq({0, 1}) PROVE NumberOf(bits) \in Nat
<1>1. Len(bits) \in 0..Len(bits)
  OBVIOUS
<1> QED BY <1>1, NumberByBits

LEMMA NumberOfNone == NumberOf(<< >>) = 0
<1>1. << >> \in Seq({0, 1}) /\ Len(<< >>) = 0
  OBVIOUS
<1> QED BY <1>1, NumberByBits

\* One bit more doubles a number and adds the bit.
LEMMA NumberGrows ==
  ASSUME NEW bits \in Seq({0, 1}), NEW x \in {0, 1}
  PROVE  NumberOf(Append(bits, x)) = 2 * NumberOf(bits) + x
<1> DEFINE n == Len(bits)  more == Append(bits, x)
<1>1. /\ n \in Nat /\ more \in Seq({0, 1}) /\ Len(more) = n + 1
      /\ more[n + 1] = x /\ \A i \in 1..n : more[i] = bits[i]
  OBVIOUS
<1>2. PICK g \in [0..n -> Nat] : g[0] = 0 /\ NumberOf(bits) = g[n] /\ \A i \in 1..n : g[i] = 2 * g[i - 1] + bits[i]
  BY NumberByBits
<1> HIDE DEF n, more
<1>3. PICK h \in [0..(n + 1) -> Nat] : /\ h[0] = 0 /\ NumberOf(more) = h[n + 1]
                                       /\ \A i \in 1..(n + 1) : h[i] = 2 * h[i - 1] + more[i]
  <2>1. \E h \in [0..Len(more) -> Nat] : /\ h[0] = 0 /\ NumberOf(more) = h[Len(more)]
                                        /\ \A i \in 1..Len(more) : h[i] = 2 * h[i - 1] + more[i]
    BY <1>1, NumberByBits
  <2> QED BY <1>1, <2>1
<1> DEFINE T == {i \in Nat : i <= n => h[i] = g[i]}
<1>4. 0 \in T
  BY <1>2, <1>3
<1>5. ASSUME NEW i \in Nat, i \in T PROVE i + 1 \in T
  <2>1. CASE i + 1 <= n
    <3>1. i + 1 \in 1..n /\ i + 1 \in 1..(n + 1) /\ (i + 1) - 1 = i /\ h[i] = g[i]
      BY <1>1, <1>5, <2>1
    <3>2. h[i + 1] = 2 * h[i] + more[i + 1] /\ g[i + 1] = 2 * g[i] + bits[i + 1] /\ more[i + 1] = bits[i + 1]
      BY <1>1, <1>2, <1>3, <3>1
    <3> QED BY <3>1, <3>2
  <2> QED BY <2>1
<1> HIDE DEF T
<1>6. n \in T
  BY <1>1, <1>4, <1>5, Induction
<1>7. h[n] = g[n]
  BY <1>1, <1>6 DEF T
<1>8. h[n + 1] = 2 * h[n] + more[n + 1]
  <2>1. n + 1 \in 1..(n + 1) /\ (n + 1) - 1 = n
    BY <1>1
  <2> QED BY <1>3, <2>1
<1> QED BY <1>1, <1>2, <1>3, <1>7, <1>8 DEF n, more

\* A number of n bits is less than 2^n.
LEMMA NumberFits ==
  ASSUME NEW bits \in Seq({0, 1}), Len(bits) <= 16
  PROVE  NumberOf(bits) < PowerOfTwo[Len(bits) + 1]
<1> DEFINE n == Len(bits)
<1>1. n \in Nat /\ n <= 16 /\ \A i \in 1..n : bits[i] \in {0, 1}
  OBVIOUS
<1>2. PICK g \in [0..n -> Nat] : g[0] = 0 /\ NumberOf(bits) = g[n] /\ \A i \in 1..n : g[i] = 2 * g[i - 1] + bits[i]
  BY NumberByBits
<1> HIDE DEF n
<1> DEFINE T == {i \in Nat : i <= n => g[i] < PowerOfTwo[i + 1]}
<1>3. 0 \in T
  BY <1>2 DEF PowerOfTwo
<1>4. ASSUME NEW i \in Nat, i \in T PROVE i + 1 \in T
  <2>1. CASE i + 1 <= n
    <3>1. i + 1 \in 1..n /\ i + 1 \in 1..16 /\ (i + 1) - 1 = i /\ i \in 0..n /\ g[i] \in Nat /\ g[i] < PowerOfTwo[i + 1]
      BY <1>1, <1>2, <1>4, <2>1
    <3>2. g[i + 1] = 2 * g[i] + bits[i + 1] /\ bits[i + 1] <= 1 /\ bits[i + 1] \in Nat
      <4>1. g[i + 1] = 2 * g[(i + 1) - 1] + bits[i + 1]
        BY <1>2, <3>1
      <4>2. bits[i + 1] \in {0, 1}
        BY <1>1, <3>1
      <4> QED BY <3>1, <4>1, <4>2
    <3>3. PowerOfTwo[i + 1] \in Nat /\ PowerOfTwo[(i + 1) + 1] \in Nat /\ PowerOfTwo[(i + 1) + 1] = 2 * PowerOfTwo[i + 1]
      BY <3>1, PowerDoubles
    <3> QED BY <3>1, <3>2, <3>3
  <2> QED BY <2>1
<1> HIDE DEF T
<1>5. n \in T
  BY <1>1, <1>3, <1>4, Induction
<1> QED BY <1>1, <1>2, <1>5 DEF T, n

\* One more bit of a part of a sequence.
LEMMA PartGrows ==
  ASSUME NEW bits \in Seq({0, 1}), NEW i \in Nat, NEW j \in Nat, 1 <= i, i <= j + 1, j + 1 <= Len(bits)
  PROVE  /\ SubSeq(bits, i, j) \in Seq({0, 1}) /\ Len(SubSeq(bits, i, j)) = (j + 1) - i
         /\ SubSeq(bits, i, j + 1) = Append(SubSeq(bits, i, j), bits[j + 1])
         /\ bits[j + 1] \in {0, 1}
         /\ NumberOf(SubSeq(bits, i, j + 1)) = 2 * NumberOf(SubSeq(bits, i, j)) + bits[j + 1]
<1> DEFINE a == SubSeq(bits, i, j)  b == SubSeq(bits, i, j + 1)
<1>1. a \in Seq({0, 1}) /\ Len(a) = (j + 1) - i
  OBVIOUS
<1>2. b \in Seq({0, 1}) /\ Len(b) = (j + 2) - i
  OBVIOUS
<1>3. bits[j + 1] \in {0, 1}
  OBVIOUS
<1>4. b = Append(a, bits[j + 1])
  <2>1. Len(b) = Len(a) + 1
    BY <1>1, <1>2
  <2>2. \A k \in 1..Len(a) : b[k] = a[k]
    BY <1>1, <1>2
  <2>3. b[Len(a) + 1] = bits[j + 1]
    BY <1>1, <1>2
  <2> HIDE DEF a, b
  <2> QED BY <1>1, <1>2, <1>3, <2>1, <2>2, <2>3
<1> HIDE DEF a, b
<1>5. NumberOf(b) = 2 * NumberOf(a) + bits[j + 1]
  BY <1>1, <1>3, <1>4, NumberGrows
<1> QED BY <1>1, <1>3, <1>4, <1>5 DEF a, b

\* A part that has not begun is 0.
LEMMA PartBegins ==
  ASSUME NEW bits \in Seq({0, 1}), NEW i \in Nat
  PROVE  NumberOf(SubSeq(bits, i + 1, i)) = 0
<1>1. SubSeq(bits, i + 1, i) = << >>
  OBVIOUS
<1> QED BY <1>1, NumberOfNone

\* What decodeCommand makes of a command's eleven bits, by their numbers.
LEMMA CodeOfBits ==
  ASSUME NEW b2 \in Nat, NEW b3 \in Nat, NEW b4 \in Nat, NEW b5 \in Nat, NEW lows \in Nat,
         b2 <= 1, b3 <= 1, b4 <= 1, b5 <= 1, lows < 64,
         NEW code \in Int, code = 1024 + 512 * b2 + 256 * b3 + 128 * b4 + 64 * b5 + lows
  PROVE  /\ code % 128 = 64 * b5 + lows
         /\ (code \div 64) % 4 = 2 * b4 + b5
         /\ (code \div 256) % 4 = 2 * b2 + b3
         /\ code \in Nat /\ code < 2048 /\ 64 * b5 + lows \in Nat /\ 64 * b5 + lows < 128
<1>0. code \in Nat /\ code < 2048 /\ 64 * b5 + lows \in Nat /\ 64 * b5 + lows < 128
  OBVIOUS
<1>1. code % 128 = 64 * b5 + lows
  <2>1. PICK h \in Int : h = 8 + 4 * b2 + 2 * b3 + b4
    OBVIOUS
  <2>2. 128 * h <= code /\ code < 128 * h + 128
    BY <2>1
  <2>3. code % 128 = code - 128 * h
    BY <2>2, Quotient
  <2> QED BY <2>1, <2>3
<1>2. (code \div 64) % 4 = 2 * b4 + b5
  <2>1. PICK h \in Int, q \in Int : h = 16 + 8 * b2 + 4 * b3 + 2 * b4 + b5 /\ q = 4 + 2 * b2 + b3
    OBVIOUS
  <2>2. 64 * h <= code /\ code < 64 * h + 64 /\ 4 * q <= h /\ h < 4 * q + 4
    BY <2>1
  <2>3. code \div 64 = h
    BY <2>2, Quotient
  <2>4. h % 4 = h - 4 * q
    BY <2>2, Quotient
  <2> QED BY <2>1, <2>3, <2>4
<1>3. (code \div 256) % 4 = 2 * b2 + b3
  <2>1. PICK h \in Int : h = 4 + 2 * b2 + b3
    OBVIOUS
  <2>2. 256 * h <= code /\ code < 256 * h + 256 /\ 4 * 1 <= h /\ h < 4 * 1 + 4
    BY <2>1
  <2>3. code \div 256 = h
    BY <2>2, Quotient
  <2>4. h % 4 = h - 4 * 1
    BY <2>2, Quotient
  <2> QED BY <2>1, <2>3, <2>4
<1> QED BY <1>0, <1>1, <1>2, <1>3

\* What decodeCommand makes of a command's eleven bits.
LEMMA CodeSplits ==
  ASSUME NEW b \in Seq({0, 1}), Len(b) >= 11, b[1] = 1
  PROVE  /\ NumberOf(SubSeq(b, 1, 11)) % 128 = At(b) /\ At(b) \in Nat /\ At(b) < 128
         /\ (NumberOf(SubSeq(b, 1, 11)) \div 64) % 4 = 2 * b[4] + b[5]
         /\ (NumberOf(SubSeq(b, 1, 11)) \div 256) % 4 = 2 * b[2] + b[3]
<1> DEFINE Part(i, j) == NumberOf(SubSeq(b, i, j))  Bit(i) == b[i]
<1>1. ASSUME NEW i \in Nat, NEW j \in Nat, 1 <= i, i <= j + 1, j <= 10
      PROVE  /\ Part(i, j + 1) = 2 * Part(i, j) + Bit(j + 1)
             /\ Part(i, j) \in Nat /\ Part(i, j + 1) \in Nat /\ Bit(j + 1) \in {0, 1}
  <2>1. /\ SubSeq(b, i, j) \in Seq({0, 1}) /\ b[j + 1] \in {0, 1}
        /\ NumberOf(SubSeq(b, i, j + 1)) = 2 * NumberOf(SubSeq(b, i, j)) + b[j + 1]
    <3>1. j + 1 <= Len(b)
      BY <1>1
    <3> QED BY <1>1, <3>1, PartGrows
  <2>2. NumberOf(SubSeq(b, i, j)) \in Nat
    BY <2>1, NumberTyped
  <2> QED BY <2>1, <2>2
<1>2. Part(1, 0) = 0 /\ Part(5, 4) = 0 /\ Part(6, 5) = 0
  <2>1. Part(1, 0) = 0
    BY PartBegins, 0 + 1 = 1
  <2>2. Part(5, 4) = 0
    BY PartBegins, 4 + 1 = 5
  <2>3. Part(6, 5) = 0
    BY PartBegins, 5 + 1 = 6
  <2> QED BY <2>1, <2>2, <2>3
<1>3. Bit(1) = 1
  OBVIOUS
<1> HIDE DEF Part, Bit
<1>4. /\ Part(1, 1) = 1 /\ Part(1, 2) = 2 + Bit(2) /\ Part(1, 3) = 4 + 2 * Bit(2) + Bit(3)
      /\ Part(1, 4) = 8 + 4 * Bit(2) + 2 * Bit(3) + Bit(4)
      /\ Part(1, 5) = 16 + 8 * Bit(2) + 4 * Bit(3) + 2 * Bit(4) + Bit(5)
      /\ Part(5, 5) = Bit(5)
      /\ Bit(2) \in {0, 1} /\ Bit(3) \in {0, 1} /\ Bit(4) \in {0, 1} /\ Bit(5) \in {0, 1}
  <2>1. /\ Part(1, 0 + 1) = 2 * Part(1, 0) + Bit(0 + 1)
        /\ Part(1, 1 + 1) = 2 * Part(1, 1) + Bit(1 + 1) /\ Bit(1 + 1) \in {0, 1}
        /\ Part(1, 2 + 1) = 2 * Part(1, 2) + Bit(2 + 1) /\ Bit(2 + 1) \in {0, 1}
        /\ Part(1, 3 + 1) = 2 * Part(1, 3) + Bit(3 + 1) /\ Bit(3 + 1) \in {0, 1}
        /\ Part(1, 4 + 1) = 2 * Part(1, 4) + Bit(4 + 1) /\ Bit(4 + 1) \in {0, 1}
        /\ Part(5, 4 + 1) = 2 * Part(5, 4) + Bit(4 + 1)
    BY <1>1
  <2> QED BY <1>2, <1>3, <2>1
<1>5. ASSUME NEW i \in Nat, 1 <= i, i <= 6, NEW j \in Nat, 5 <= j, j <= 10
      PROVE  Part(i, j + 1) - 2 * Part(i, j) = Bit(j + 1) /\ Part(i, j) \in Int /\ Part(i, j + 1) \in Int
  <2>1. i <= j + 1 /\ 1 <= i /\ j <= 10
    BY <1>5
  <2>2. /\ Part(i, j + 1) = 2 * Part(i, j) + Bit(j + 1)
        /\ Part(i, j) \in Nat /\ Part(i, j + 1) \in Nat /\ Bit(j + 1) \in {0, 1}
    BY <1>1, <2>1
  <2>3. Bit(j + 1) \in Int
    BY <2>2
  <2> QED BY <2>2, <2>3
<1>6. ASSUME NEW i \in Nat, 1 <= i, i <= 5 PROVE Part(i, 11) = Part(6, 11) + 64 * Part(i, 5)
  <2>1. ASSUME NEW j \in Nat, 5 <= j, j <= 10, NEW h \in Nat, h = j + 1
        PROVE  /\ Part(i, h) - 2 * Part(i, j) = Part(6, h) - 2 * Part(6, j)
               /\ Part(i, j) \in Int /\ Part(i, h) \in Int /\ Part(6, j) \in Int /\ Part(6, h) \in Int
    <3>1. Part(i, j + 1) - 2 * Part(i, j) = Bit(j + 1) /\ Part(i, j) \in Int /\ Part(i, j + 1) \in Int
      <4>1. i <= 6
        BY <1>6
      <4> QED BY <1>5, <1>6, <2>1, <4>1
    <3>2. Part(6, j + 1) - 2 * Part(6, j) = Bit(j + 1) /\ Part(6, j) \in Int /\ Part(6, j + 1) \in Int
      <4>1. 1 <= 6 /\ 6 <= 6 /\ 6 \in Nat
        OBVIOUS
      <4> QED BY <1>5, <2>1, <4>1
    <3> QED BY <2>1, <3>1, <3>2
  <2>2. /\ Part(i, 6) - 2 * Part(i, 5) = Part(6, 6) - 2 * Part(6, 5)
        /\ Part(i, 7) - 2 * Part(i, 6) = Part(6, 7) - 2 * Part(6, 6)
        /\ Part(i, 8) - 2 * Part(i, 7) = Part(6, 8) - 2 * Part(6, 7)
    BY <2>1
  <2>3. /\ Part(i, 9) - 2 * Part(i, 8) = Part(6, 9) - 2 * Part(6, 8)
        /\ Part(i, 10) - 2 * Part(i, 9) = Part(6, 10) - 2 * Part(6, 9)
        /\ Part(i, 11) - 2 * Part(i, 10) = Part(6, 11) - 2 * Part(6, 10)
    BY <2>1
  <2>4. /\ Part(i, 5) \in Int /\ Part(i, 6) \in Int /\ Part(i, 7) \in Int /\ Part(i, 8) \in Int
        /\ Part(i, 9) \in Int /\ Part(i, 10) \in Int
    BY <2>1
  <2>5. /\ Part(6, 5) \in Int /\ Part(6, 6) \in Int /\ Part(6, 7) \in Int /\ Part(6, 8) \in Int
        /\ Part(6, 9) \in Int /\ Part(6, 10) \in Int
    BY <2>1
  <2>6. Part(i, 11) \in Int /\ Part(6, 11) \in Int
    BY <2>1
  <2> DEFINE x == [n \in 5..11 |-> Part(i, n)]  y == [n \in 5..11 |-> Part(6, n)]
  <2>7. x \in [5..11 -> Int] /\ y \in [5..11 -> Int] /\ y[5] = 0
    <3>1. ASSUME NEW n \in 5..11 PROVE Part(i, n) \in Int /\ Part(6, n) \in Int
      <4>1. CASE n <= 10
        <5>1. n \in Nat /\ 5 <= n /\ n + 1 \in Nat
          OBVIOUS
        <5> QED BY <2>1, <4>1, <5>1
      <4>2. CASE n = 11
        BY <2>6, <4>2
      <4> QED BY <4>1, <4>2
    <3> QED BY <1>2, <3>1
  <2>8. ASSUME NEW j \in Nat, 5 <= j, j <= 10 PROVE x[j + 1] - 2 * x[j] = y[j + 1] - 2 * y[j]
    <3>1. j \in 5..11 /\ j + 1 \in 5..11 /\ j + 1 \in Nat /\ 5 <= j /\ j <= 10
      BY <2>8
    <3>2. Part(i, j + 1) - 2 * Part(i, j) = Part(6, j + 1) - 2 * Part(6, j)
      BY <2>1, <3>1
    <3>3. x[j] = Part(i, j) /\ x[j + 1] = Part(i, j + 1) /\ y[j] = Part(6, j) /\ y[j + 1] = Part(6, j + 1)
      BY <3>1
    <3> QED BY <3>2, <3>3
  <2>9. x[11] = Part(i, 11) /\ x[5] = Part(i, 5) /\ y[11] = Part(6, 11)
    OBVIOUS
  <2> HIDE DEF x, y
  <2>10. x[11] = y[11] + 64 * x[5]
    BY <2>7, <2>8, SixDoublings
  <2> QED BY <2>9, <2>10
<1>7. PICK lows \in Nat : lows = Part(6, 11) /\ lows < 64
  <2>1. SubSeq(b, 6, 11) \in Seq({0, 1}) /\ Len(SubSeq(b, 6, 11)) = 6
    OBVIOUS
  <2> DEFINE s == SubSeq(b, 6, 11)
  <2> HIDE DEF s
  <2>2. NumberOf(s) < PowerOfTwo[6 + 1] /\ NumberOf(s) \in Nat
    <3>1. s \in Seq({0, 1}) /\ Len(s) = 6
      BY <2>1 DEF s
    <3>2. NumberOf(s) < PowerOfTwo[Len(s) + 1]
      <4>1. Len(s) <= 16
        BY <3>1
      <4> QED BY <3>1, <4>1, NumberFits
    <3>3. NumberOf(s) \in Nat
      BY <3>1, NumberTyped
    <3> QED BY <3>1, <3>2, <3>3
  <2>3. PowerOfTwo[6 + 1] = 64
    BY DEF PowerOfTwo
  <2> QED BY <2>2, <2>3 DEF Part, s
<1>8. PICK b2 \in Nat, b3 \in Nat, b4 \in Nat, b5 \in Nat :
        /\ b2 = Bit(2) /\ b3 = Bit(3) /\ b4 = Bit(4) /\ b5 = Bit(5)
        /\ b2 <= 1 /\ b3 <= 1 /\ b4 <= 1 /\ b5 <= 1
  BY <1>4
<1>9. Part(1, 11) = 1024 + 512 * b2 + 256 * b3 + 128 * b4 + 64 * b5 + lows /\ Part(5, 11) = 64 * b5 + lows
  <2>1. Part(1, 11) = lows + 64 * Part(1, 5) /\ Part(5, 11) = lows + 64 * Part(5, 5)
    BY <1>6, <1>7
  <2>2. Part(1, 5) = 16 + 8 * b2 + 4 * b3 + 2 * b4 + b5 /\ Part(5, 5) = b5
    BY <1>4, <1>8
  <2>3. 64 * (16 + 8 * b2 + 4 * b3 + 2 * b4 + b5) = 1024 + 512 * b2 + 256 * b3 + 128 * b4 + 64 * b5
    OBVIOUS
  <2> QED BY <2>1, <2>2, <2>3
<1>10. PICK code \in Int : code = Part(1, 11) /\ code = 1024 + 512 * b2 + 256 * b3 + 128 * b4 + 64 * b5 + lows
  <2>1. 1024 + 512 * b2 + 256 * b3 + 128 * b4 + 64 * b5 + lows \in Int
    OBVIOUS
  <2> QED BY <1>9, <2>1
<1>11. /\ code % 128 = 64 * b5 + lows
       /\ (code \div 64) % 4 = 2 * b4 + b5
       /\ (code \div 256) % 4 = 2 * b2 + b3
       /\ code \in Nat /\ code < 2048 /\ 64 * b5 + lows \in Nat /\ 64 * b5 + lows < 128
  <2> SUFFICES ASSUME b2 <= 1, b3 <= 1, b4 <= 1, b5 <= 1, lows < 64,
                      code = 1024 + 512 * b2 + 256 * b3 + 128 * b4 + 64 * b5 + lows
               PROVE  /\ code % 128 = 64 * b5 + lows
                      /\ (code \div 64) % 4 = 2 * b4 + b5
                      /\ (code \div 256) % 4 = 2 * b2 + b3
                      /\ code \in Nat /\ code < 2048 /\ 64 * b5 + lows \in Nat /\ 64 * b5 + lows < 128
    BY <1>7, <1>8, <1>10
  <2> QED BY CodeOfBits
<1>12. NumberOf(SubSeq(b, 1, 11)) = code /\ At(b) = 64 * b5 + lows /\ b[2] = b2 /\ b[3] = b3 /\ b[4] = b4 /\ b[5] = b5
  BY <1>8, <1>9, <1>10 DEF Part, Bit, At
<1>13. /\ NumberOf(SubSeq(b, 1, 11)) % 128 = At(b)
       /\ (NumberOf(SubSeq(b, 1, 11)) \div 64) % 4 = 2 * b[4] + b[5]
       /\ (NumberOf(SubSeq(b, 1, 11)) \div 256) % 4 = 2 * b[2] + b[3]
  <2>1. At(b) = code % 128 /\ 2 * b[4] + b[5] = (code \div 64) % 4 /\ 2 * b[2] + b[3] = (code \div 256) % 4
    BY <1>11, <1>12
  <2> QED BY <1>12, <2>1
<1>14. At(b) \in Nat /\ At(b) < 128 
  BY <1>11, <1>12
<1>15. NumberOf(SubSeq(b, 1, 11)) \in Nat /\ NumberOf(SubSeq(b, 1, 11)) < 2048
  BY <1>11, <1>12
<1> QED BY <1>13, <1>14, <1>15

\* The powers of two that parts of a command stay below.
LEMMA PowerBounds ==
  ASSUME NEW k \in Nat, 1 <= k, k <= 17
  PROVE  PowerOfTwo[k] \in Nat /\ PowerOfTwo[k] <= 65536 /\ (k <= 16 => PowerOfTwo[k] <= 32768)
<1>1. \A i \in 1..17 : PowerOfTwo[i] \in Nat /\ PowerOfTwo[i] <= 65536 /\ (i <= 16 => PowerOfTwo[i] <= 32768)
  BY DEF PowerOfTwo
<1> QED BY <1>1

\* A part of a command of at most sixteen bits, and one of at most fifteen.
LEMMA PartFits ==
  ASSUME NEW b \in Seq({0, 1}), NEW i \in Nat, NEW j \in Nat, 1 <= i, i <= j + 1, j <= Len(b), j < i + 16
  PROVE  /\ NumberOf(SubSeq(b, i, j)) \in Nat /\ NumberOf(SubSeq(b, i, j)) < 65536
         /\ j < i + 15 => NumberOf(SubSeq(b, i, j)) < 32768
<1> DEFINE s == SubSeq(b, i, j)
<1>1. s \in Seq({0, 1}) /\ Len(s) = (j + 1) - i
  OBVIOUS
<1> HIDE DEF s
<1>2. NumberOf(s) \in Nat /\ NumberOf(s) < PowerOfTwo[Len(s) + 1]
  BY <1>1, NumberTyped, NumberFits
<1>3. PICK k \in Nat : k = Len(s) + 1 /\ 1 <= k /\ k <= 17 /\ (j < i + 15 => k <= 16)
  BY <1>1
<1>4. PowerOfTwo[k] \in Nat /\ PowerOfTwo[k] <= 65536 /\ (k <= 16 => PowerOfTwo[k] <= 32768)
  BY <1>3, PowerBounds
<1>5. NumberOf(s) < PowerOfTwo[k]
  BY <1>2, <1>3
<1> QED BY <1>2, <1>3, <1>4, <1>5 DEF s

LEMMA DataFits ==
  ASSUME NEW b \in Seq({0, 1}), Len(b) >= 27, NEW j \in Nat, 11 <= j, j <= 27
  PROVE  /\ NumberOf(SubSeq(b, 12, j)) \in Nat /\ NumberOf(SubSeq(b, 12, j)) < 65536
         /\ j < 27 => NumberOf(SubSeq(b, 12, j)) < 32768
<1>1. PICK i \in Nat : i = 12
  OBVIOUS
<1>2. 1 <= i /\ i <= j + 1 /\ j <= Len(b) /\ j < i + 16 /\ (j < 27 => j < i + 15)
  BY <1>1
<1>3. /\ NumberOf(SubSeq(b, i, j)) \in Nat /\ NumberOf(SubSeq(b, i, j)) < 65536
      /\ j < 27 => NumberOf(SubSeq(b, i, j)) < 32768
  BY <1>2, PartFits, SMT
<1> QED BY <1>1, <1>3, SMT

-----------------------------------------------------------------------------
(* A command and its bits from the start bit on.                             *)
Skip(c) == IF c[1] = 0 THEN 1 ELSE 0
\* A command has its start bit first, after at most one zero.
LEMMA StartedBits ==
  ASSUME NEW c, SendsCommand(c)
  PROVE  /\ c \in Seq({0, 1}) /\ c # << >> /\ Skip(c) \in {0, 1} /\ (Skip(c) = 1 => c[1] = 0)
         /\ Started(c) \in Seq({0, 1}) /\ Started(c)[1] = 1
         /\ Len(c) = Len(Started(c)) + Skip(c)
         /\ \A i \in Nat : 1 <= i /\ i <= Len(Started(c)) => Started(c)[i] = c[i + Skip(c)] /\ Started(c)[i] \in {0, 1}
<1>1. c \in Seq({0, 1}) /\ c # << >> /\ Started(c)[1] = 1
  BY DEF SendsCommand, IsCommand
<1>2. Len(c) \in Nat /\ Len(c) > 0
  BY <1>1
<1>3. CASE c[1] = 0
  <2>1. Started(c) = Tail(c) /\ Skip(c) = 1
    BY <1>3 DEF Started, Skip
  <2>2. Tail(c) \in Seq({0, 1}) /\ Len(Tail(c)) = Len(c) - 1
    BY <1>1, <1>2
  <2>3. \A i \in Nat : 1 <= i /\ i <= Len(Tail(c)) => Tail(c)[i] = c[i + 1] /\ Tail(c)[i] \in {0, 1}
    BY <1>1, <1>2, <2>2
  <2> QED BY <1>1, <1>2, <1>3, <2>1, <2>2, <2>3
<1>4. CASE c[1] # 0
  <2>1. Started(c) = c /\ Skip(c) = 0
    BY <1>4 DEF Started, Skip
  <2>2. \A i \in Nat : 1 <= i /\ i <= Len(c) => c[i] = c[i + 0] /\ c[i] \in {0, 1}
    BY <1>1, <1>2
  <2> QED BY <1>1, <1>2, <2>1, <2>2
<1> QED BY <1>3, <1>4

\* It has eleven bits, or twenty-seven when it carries or returns a word.
LEMMA CommandLength ==
  ASSUME NEW c, SendsCommand(c)
  PROVE  LET b == Started(c)
         IN /\ Len(b) = 11 \/ Len(b) = 27
            /\ Len(b) = 27 <=> Reads(b) \/ Writes(b) \/ WritesAll(b)
BY DEF SendsCommand, IsCommand

(* What a clocked bit does in each phase.                                    *)
LEMMA ReadBit ==
  ASSUME phase = "READ_DATA", NEW bit, ClockBit(bit)
  PROVE  /\ dataOut' = (output >= 32768) /\ output' = (2 * output) % 65536
         /\ bitCount = 15 => phase' = "COMMAND" /\ shift' = 0 /\ bitCount' = 0
         /\ bitCount # 15 => bitCount' = bitCount + 1 /\ UNCHANGED <<phase, shift>>
         /\ UNCHANGED <<address, writeEnabled, storage, modified>>
BY DEF ClockBit

LEMMA IdleBit ==
  ASSUME phase = "COMMAND", bitCount = 0, ClockBit(0)
  PROVE  UNCHANGED <<phase, shift, output, bitCount, address, writeEnabled, storage, modified>>
BY DEF ClockBit

LEMMA DecodeBit ==
  ASSUME phase = "COMMAND", bitCount = 10, NEW bit, ClockBit(bit)
  PROVE  DecodeCommand((2 * shift + bit) % 65536)
BY DEF ClockBit

LEMMA StoreBit ==
  ASSUME phase \in {"WRITE_DATA", "WRITE_ALL_DATA"}, bitCount = 15, NEW bit, ClockBit(bit)
  PROVE  Store((2 * shift + bit) % 65536)
BY DEF ClockBit

LEMMA ShiftBit ==
  ASSUME NEW bit, ClockBit(bit), bitCount \in Nat,
         \/ phase = "COMMAND" /\ (bitCount > 0 \/ bit = 1) /\ bitCount < 10
         \/ phase \in {"WRITE_DATA", "WRITE_ALL_DATA"} /\ bitCount < 15
  PROVE  /\ shift' = (2 * shift + bit) % 65536 /\ bitCount' = bitCount + 1
         /\ UNCHANGED <<phase, output, address, writeEnabled, dataOut, storage, modified>>
BY DEF ClockBit

\* shift keeps its sixteen bits while fewer have been clocked in.
LEMMA NoOverflow ==
  ASSUME NEW sh \in Nat, sh < 32768, NEW bit \in {0, 1}
  PROVE  (2 * sh + bit) % 65536 = 2 * sh + bit /\ 2 * sh + bit \in Nat /\ 2 * sh + bit < 65536
<1>1. 2 * sh + bit \in Int /\ 65536 * 0 <= 2 * sh + bit /\ 2 * sh + bit < 65536 * 0 + 65536
  OBVIOUS
<1>2. (2 * sh + bit) % 65536 = (2 * sh + bit) - 65536 * 0
  BY <1>1, Quotient
<1> QED BY <1>1, <1>2

(* A bit read: the word is split between the bits seen and the ones left.    *)
LEMMA OneMoreRead ==
  ASSUME NEW w \in Nat, NEW x \in Nat, NEW o \in Nat, o < 65536, NEW p \in Nat,
         w * p = x * 65536 + o, NEW bit \in {0, 1}, bit = 1 <=> o >= 32768,
         NEW m, m = (2 * o) % 65536, NEW q \in Nat, q = w * (2 * p)
  PROVE  m \in Nat /\ m < 65536 /\ q = 131072 * x + 65536 * bit + m
<1>1. 65536 * bit <= 2 * o /\ 2 * o < 65536 * bit + 65536
  OBVIOUS
<1>2. m = 2 * o - 65536 * bit
  BY <1>1, Quotient
<1>3. w * (2 * p) = 2 * (x * 65536 + o)
  <2>1. w * (2 * p) = 2 * (w * p)
    OBVIOUS
  <2> QED BY <2>1
<1>4. m \in Nat /\ m < 65536
  BY <1>1, <1>2
<1>5. 2 * (x * 65536 + o) = 131072 * x + 65536 * bit + m
  BY <1>2
<1>6. q = 131072 * x + 65536 * bit + m
  BY <1>3, <1>5, SMT
<1> QED BY <1>4, <1>6, SMT

\* Sixteen bits read are the word.
LEMMA AllRead ==
  ASSUME NEW w \in Nat, NEW y \in Nat, NEW o \in Nat, o < 65536, w * 65536 = y * 65536 + o
  PROVE  y = w
OBVIOUS

-----------------------------------------------------------------------------
(* What the chip has made of the bits b of a command when j of them have     *)
(* been clocked in: nothing yet, a part of the first eleven, a part of the   *)
(* word it reads or writes, or all of it.                                    *)
Storages == [0..(Words - 1) -> WordRange]
WordOf(words, addr) == IF addr < Words THEN words[addr] ELSE \hFFFF
AtRest(ph, sh, n) == ph = "COMMAND" /\ sh = 0 /\ n = 0
ReadSoFar(o, n, r, w) == r \in Seq({0, 1}) /\ Len(r) = n /\ w * PowerOfTwo[n + 1] = NumberOf(r) * 65536 + o
CodePart(ph, sh, n, b, j, r) ==
  1 <= j /\ j <= 10 /\ ph = "COMMAND" /\ n = j /\ sh = NumberOf(SubSeq(b, 1, j)) /\ r = << >>
DataPart(ph, sh, o, n, at, words, b, j, r) ==
  /\ 11 <= j /\ j < 27 /\ Len(b) = 27 /\ at = At(b) /\ n = j - 11
  /\ \/ Reads(b) /\ ph = "READ_DATA" /\ sh = 0 /\ ReadSoFar(o, n, r, WordOf(words, at))
     \/ Writes(b) /\ ph = "WRITE_DATA" /\ sh = NumberOf(SubSeq(b, 12, j))
     \/ WritesAll(b) /\ ph = "WRITE_ALL_DATA" /\ sh = NumberOf(SubSeq(b, 12, j))
AllTaken(ph, sh, n, words, b, j, r) ==
  j >= 11 /\ j = Len(b) /\ AtRest(ph, sh, n) /\ (Reads(b) => NumberOf(r) = WordOf(words, At(b)))
Clocked(ph, sh, o, n, at, words, b, j, r) ==
  \/ j <= 0 /\ AtRest(ph, sh, n) /\ r = << >>
  \/ CodePart(ph, sh, n, b, j, r)
  \/ DataPart(ph, sh, o, n, at, words, b, j, r)
  \/ AllTaken(ph, sh, n, words, b, j, r)

ChipTyped(ph, sh, o, n, at) ==
  /\ ph \in {"COMMAND", "READ_DATA", "WRITE_DATA", "WRITE_ALL_DATA"}
  /\ sh \in Nat /\ sh < 65536 /\ o \in Nat /\ o < 65536
  /\ n \in Nat /\ n <= 15 /\ at \in Nat /\ at <= 127

\* The storage is what the promise has, and a chip that is not selected is at rest.
ChipOK(ph, sh, o, n, at, en, sel, words, c, k, r, pr) ==
  /\ ChipTyped(ph, sh, o, n, at)
  /\ en \in BOOLEAN /\ sel \in BOOLEAN /\ words \in Storages
  /\ pr = [enabled |-> en, words |-> words]
  /\ k \in Nat
  /\ ~sel => c = << >> /\ k = 0 /\ AtRest(ph, sh, n)
  /\ sel => SendsCommand(c) /\ k <= Len(c) /\ Clocked(ph, sh, o, n, at, words, Started(c), k - Skip(c), r)

ChipNow == ChipOK(phase, shift, output, bitCount, address, writeEnabled, chipSelected, storage,
                  command, sent, read, promise)
ChipSaved ==
  \/ state = << >>
  \/ \E p1, p2, p3, p4, p5, p6, p7, p8, p9, p10, w, g1, g2, g3, g4 :
       /\ state = <<<<p1, p2, p3, p4, p5, p6, p7, p8, p9, p10>>, w, <<g1, g2, g3, g4>>>>
       /\ ChipOK(p1, p2, p3, p4, p5, p6, p7, w, g1, g2, g3, g4)
EepromInv == ChipNow /\ ChipSaved

\* A word, in arithmetic terms.
LEMMA WordsFit == \A w \in WordRange : w \in Nat /\ w < 65536
BY DEF WordRange

LEMMA FitsWord == \A w \in Nat : w < 65536 => w \in WordRange
<1>1. \A n \in Nat, w \in Nat : w <= n => w \in 0..n
  OBVIOUS
<1>2. \A w \in Nat : w < 65536 => w <= 65535
  OBVIOUS
<1>3. ASSUME NEW w \in Nat, w < 65536 PROVE w \in WordRange
  <2>1. PICK n \in Nat : n = 65535 /\ w <= n
    BY <1>2, <1>3
  <2>2. w <= n
    BY <2>1
  <2>4. w \in 0..n
    BY <1>1, <2>2
  <2>3. WordRange = 0..n
    BY <2>1 DEF WordRange
  <2> QED BY <2>3, <2>4
<1> QED BY <1>3

\* A word of any address, of storage or beyond it.
LEMMA TypedWord ==
  ASSUME NEW words \in Storages, NEW addr \in Nat, Words \in 1..128
  PROVE  WordOf(words, addr) \in WordRange
<1>1. \hFFFF \in WordRange
  BY DEF WordRange
<1>2. CASE addr < Words
  <2>1. words[addr] \in WordRange
    BY <1>2 DEF Storages
  <2> QED BY <1>2, <2>1 DEF WordOf
<1>3. CASE ~(addr < Words)
  BY <1>1, <1>3 DEF WordOf
<1> QED BY <1>2, <1>3

(* The start bit, and the bits up to the tenth.                              *)
LEMMA CodeBit ==
  ASSUME NEW b \in Seq({0, 1}), Len(b) >= 11, b[1] = 1, NEW j \in Nat, j < 10, NEW bit, bit = b[j + 1],
         ChipTyped(phase, shift, output, bitCount, address),
         \/ j = 0 /\ AtRest(phase, shift, bitCount) /\ read = << >>
         \/ CodePart(phase, shift, bitCount, b, j, read),
         ClockBit(bit)
  PROVE  /\ CodePart(phase', shift', bitCount', b, j + 1, read)
         /\ ChipTyped(phase', shift', output', bitCount', address')
         /\ UNCHANGED <<writeEnabled, storage, phase, output>>
<1>1. phase = "COMMAND" /\ bitCount = j /\ shift = NumberOf(SubSeq(b, 1, j)) /\ read = << >>
  <2>1. CASE j = 0 /\ AtRest(phase, shift, bitCount) /\ read = << >>
    <3>1. NumberOf(SubSeq(b, 0 + 1, 0)) = 0
      BY PartBegins
    <3>2. NumberOf(SubSeq(b, 1, 0)) = 0
      BY <3>1, 0 + 1 = 1
    <3> QED BY <2>1, <3>2 DEF AtRest
  <2>2. CASE CodePart(phase, shift, bitCount, b, j, read)
    BY <2>2 DEF CodePart
  <2> QED BY <2>1, <2>2
<1>2. bit \in {0, 1} /\ NumberOf(SubSeq(b, 1, j + 1)) = 2 * NumberOf(SubSeq(b, 1, j)) + bit
  <2>1. 1 <= j + 1 /\ j + 1 <= Len(b) /\ 1 \in Nat /\ 1 <= 1
    OBVIOUS
  <2> QED BY <2>1, PartGrows
<1>3. NumberOf(SubSeq(b, 1, j)) \in Nat /\ NumberOf(SubSeq(b, 1, j)) < 32768
  <2>1. 1 <= j + 1 /\ j <= Len(b) /\ 1 \in Nat /\ 1 <= 1 /\ j < 1 + 15 /\ j < 1 + 16
    OBVIOUS
  <2> QED BY <2>1, PartFits
<1>4. bitCount > 0 \/ bit = 1
  BY <1>1
<1>5. /\ shift' = (2 * shift + bit) % 65536 /\ bitCount' = bitCount + 1
      /\ UNCHANGED <<phase, output, address, writeEnabled, dataOut, storage, modified>>
  <2>1. bitCount \in Nat /\ bitCount < 10
    BY <1>1
  <2> QED BY <1>1, <1>4, <2>1, ShiftBit
<1>6. shift' = NumberOf(SubSeq(b, 1, j + 1)) /\ shift' \in Nat /\ shift' < 65536
  <2>1. shift \in Nat /\ shift < 32768
    BY <1>1, <1>3
  <2>2. (2 * shift + bit) % 65536 = 2 * shift + bit /\ 2 * shift + bit \in Nat /\ 2 * shift + bit < 65536
    BY <1>2, <2>1, NoOverflow
  <2> QED BY <1>1, <1>2, <1>5, <2>2
<1>7. CodePart(phase', shift', bitCount', b, j + 1, read)
  BY <1>1, <1>5, <1>6 DEF CodePart
<1>8. ChipTyped(phase', shift', output', bitCount', address')
  BY <1>1, <1>5, <1>6 DEF ChipTyped
<1> QED BY <1>5, <1>7, <1>8

(* A bit of a word to write, but the last.                                   *)
LEMMA ShiftsIn ==
  ASSUME NEW x \in Nat, x < 32768, NEW bit \in {0, 1}, shift = x, bitCount \in Nat, bitCount < 15,
         phase \in {"WRITE_DATA", "WRITE_ALL_DATA"}, ClockBit(bit)
  PROVE  /\ shift' = 2 * x + bit /\ shift' \in Nat /\ shift' < 65536 /\ bitCount' = bitCount + 1
         /\ UNCHANGED <<phase, output, address, writeEnabled, dataOut, storage, modified>>
<1>1. /\ shift' = (2 * shift + bit) % 65536 /\ bitCount' = bitCount + 1
      /\ UNCHANGED <<phase, output, address, writeEnabled, dataOut, storage, modified>>
  BY ShiftBit
<1>2. (2 * x + bit) % 65536 = 2 * x + bit /\ 2 * x + bit \in Nat /\ 2 * x + bit < 65536
  BY NoOverflow
<1> QED BY <1>1, <1>2

LEMMA DataBit ==
  ASSUME NEW b \in Seq({0, 1}), Len(b) >= 27, NEW j \in Nat, 11 <= j, j < 26,
         ChipTyped(phase, shift, output, bitCount, address),
         phase \in {"WRITE_DATA", "WRITE_ALL_DATA"}, bitCount = j - 11, shift = NumberOf(SubSeq(b, 12, j)),
         ClockBit(b[j + 1])
  PROVE  /\ shift' = NumberOf(SubSeq(b, 12, j + 1)) /\ bitCount' = (j + 1) - 11
         /\ ChipTyped(phase', shift', output', bitCount', address')
         /\ UNCHANGED <<phase, output, address, writeEnabled, storage>>
<1>1. b[j + 1] \in {0, 1} /\ NumberOf(SubSeq(b, 12, j + 1)) = 2 * NumberOf(SubSeq(b, 12, j)) + b[j + 1]
  <2>1. 12 <= j + 1 /\ j + 1 <= Len(b) /\ 12 \in Nat /\ 1 <= 12
    OBVIOUS
  <2> QED BY <2>1, PartGrows
<1>2. PICK x \in Nat, bit \in {0, 1} : x = NumberOf(SubSeq(b, 12, j)) /\ x < 32768 /\ bit = b[j + 1]
  <2>1. NumberOf(SubSeq(b, 12, j)) \in Nat /\ NumberOf(SubSeq(b, 12, j)) < 32768
    BY DataFits, SMT
  <2> QED BY <1>1, <2>1
<1>3. bitCount \in Nat /\ bitCount < 15
  OBVIOUS
<1>4. /\ shift' = 2 * x + bit /\ shift' \in Nat /\ shift' < 65536 /\ bitCount' = bitCount + 1
      /\ UNCHANGED <<phase, output, address, writeEnabled, dataOut, storage, modified>>
  <2>1. shift = x /\ ClockBit(bit)
    BY <1>2
  <2> QED BY <1>2, <1>3, <2>1, ShiftsIn, SMT
<1>5. shift' = NumberOf(SubSeq(b, 12, j + 1))
  BY <1>1, <1>2, <1>4, SMT
<1>6. bitCount' = (j + 1) - 11 /\ bitCount' \in Nat /\ bitCount' <= 15
  BY <1>4
<1>7. ChipTyped(phase', shift', output', bitCount', address')
  BY <1>4, <1>6 DEF ChipTyped
<1> QED BY <1>4, <1>5, <1>6, <1>7

(* A bit of the word read.                                                   *)
LEMMA BitOfWord ==
  ASSUME NEW j \in Nat, 11 <= j, j < 27, Words \in 1..128, storage \in Storages,
         NEW r,
         ChipTyped(phase, shift, output, bitCount, address),
         phase = "READ_DATA", shift = 0, bitCount = j - 11,
         ReadSoFar(output, bitCount, read, WordOf(storage, address)),
         NEW bit, ClockBit(bit),
         r = Append(read, IF dataOut' THEN 1 ELSE 0)
  PROVE  /\ ChipTyped(phase', shift', output', bitCount', address')
         /\ UNCHANGED <<writeEnabled, storage, address>>
         /\ j < 26 => /\ phase' = "READ_DATA" /\ shift' = 0 /\ bitCount' = (j + 1) - 11
                      /\ ReadSoFar(output', bitCount', r, WordOf(storage, address))
         /\ j = 26 => AtRest(phase', shift', bitCount') /\ NumberOf(r) = WordOf(storage, address)
<1>1. /\ dataOut' = (output >= 32768) /\ output' = (2 * output) % 65536
      /\ bitCount = 15 => phase' = "COMMAND" /\ shift' = 0 /\ bitCount' = 0
      /\ bitCount # 15 => bitCount' = bitCount + 1 /\ UNCHANGED <<phase, shift>>
      /\ UNCHANGED <<address, writeEnabled, storage, modified>>
  BY ReadBit
<1>2. PICK w \in Nat : w = WordOf(storage, address)
  <2>1. address \in Nat
    BY DEF ChipTyped
  <2>2. WordOf(storage, address) \in WordRange
    BY <2>1, TypedWord
  <2> QED BY <2>2, WordsFit
<1>3. PICK b \in {0, 1} : b = (IF dataOut' THEN 1 ELSE 0) /\ (b = 1 <=> output >= 32768)
  <2> DEFINE high == output >= 32768
  <2>1. dataOut' = high
    BY <1>1
  <2> HIDE DEF high
  <2>2. CASE high
    <3>1. dataOut'
      BY <2>1, <2>2, Zenon
    <3> QED BY <2>2, <3>1 DEF high
  <2>3. CASE ~high
    <3>1. ~dataOut'
      BY <2>1, <2>3, Zenon
    <3> QED BY <2>3, <3>1 DEF high
  <2> QED BY <2>2, <2>3
<1>4. /\ read \in Seq({0, 1}) /\ Len(read) = bitCount
      /\ w * PowerOfTwo[bitCount + 1] = NumberOf(read) * 65536 + output
  BY <1>2 DEF ReadSoFar
<1>5. r \in Seq({0, 1}) /\ Len(r) = bitCount + 1 /\ NumberOf(r) = 2 * NumberOf(read) + b
  <2>1. r = Append(read, b)
    BY <1>3
  <2>2. NumberOf(Append(read, b)) = 2 * NumberOf(read) + b
    BY <1>4, NumberGrows
  <2>3. Append(read, b) \in Seq({0, 1}) /\ Len(Append(read, b)) = Len(read) + 1
    BY <1>4
  <2> QED BY <1>4, <2>1, <2>2, <2>3
<1>6. bitCount \in Nat /\ bitCount <= 15 /\ output \in Nat /\ output < 65536
  BY DEF ChipTyped
<1>7. PICK p \in Nat : p = PowerOfTwo[bitCount + 1] /\ PowerOfTwo[(bitCount + 1) + 1] = 2 * p
  <2>1. bitCount + 1 \in 1..16
    BY <1>6
  <2> QED BY <2>1, PowerDoubles
<1>8. PICK x \in Nat : x = NumberOf(read)
  BY <1>4, NumberTyped
<1>9. w * p = x * 65536 + output
  BY <1>4, <1>7, <1>8, SMT
<1>10. PICK q \in Nat : q = w * (2 * p)
  OBVIOUS
<1>11. output' \in Nat /\ output' < 65536 /\ q = 131072 * x + 65536 * b + output'
  <2>1. output' = (2 * output) % 65536 /\ (b = 1 <=> output >= 32768) /\ output \in Nat /\ output < 65536
    BY <1>1, <1>3, <1>6
  <2> QED BY <1>9, <1>10, <2>1, OneMoreRead, SMT
<1>17. PICK o \in Nat : o = output'
  BY <1>11
<1>18. o < 65536 /\ q = 131072 * x + 65536 * b + o
  BY <1>11, <1>17
<1>15. PICK y \in Nat : y = NumberOf(r) /\ y = 2 * x + b
  BY <1>5, <1>8, SMT
<1>16. q = y * 65536 + o
  BY <1>15, <1>18, SMT
<1>12. ASSUME j < 26
       PROVE  /\ phase' = "READ_DATA" /\ shift' = 0 /\ bitCount' = (j + 1) - 11 /\ bitCount' = bitCount + 1
              /\ ReadSoFar(output', bitCount', r, WordOf(storage, address))
  <2>1. phase' = "READ_DATA" /\ shift' = 0 /\ bitCount' = (j + 1) - 11 /\ bitCount' = bitCount + 1
    BY <1>1, <1>12
  <2>2. w * PowerOfTwo[bitCount' + 1] = NumberOf(r) * 65536 + output'
    <3>1. PowerOfTwo[bitCount' + 1] = 2 * p
      BY <1>7, <2>1
    <3>2. w * PowerOfTwo[bitCount' + 1] = q
      BY <1>10, <3>1
    <3> QED BY <1>15, <1>16, <1>17, <3>2, SMT
  <2> QED BY <1>2, <1>5, <2>1, <2>2 DEF ReadSoFar
<1>13. ASSUME j = 26
       PROVE  AtRest(phase', shift', bitCount') /\ NumberOf(r) = WordOf(storage, address)
  <2>1. AtRest(phase', shift', bitCount') /\ bitCount = 15
    BY <1>1, <1>13 DEF AtRest
  <2>2. 2 * p = 65536
    <3>1. PowerOfTwo[(15 + 1) + 1] = 65536
      BY DEF PowerOfTwo
    <3> QED BY <1>7, <2>1, <3>1, SMT
  <2>3. q = w * 65536
    <3>1. w * (2 * p) = w * 65536
      BY <2>2
    <3> QED BY <1>10, <3>1, SMT
  <2>4. y = w
    <3>1. o < 65536 /\ o >= 0
      BY <1>18
    <3>2. w * 65536 = y * 65536 + o
      BY <1>16, <2>3
    <3> QED BY <3>1, <3>2, AllRead, SMT
  <2> QED BY <1>2, <1>15, <2>1, <2>4
<1>14. ChipTyped(phase', shift', output', bitCount', address')
  <2>1. j < 26 \/ j = 26
    OBVIOUS
  <2>2. /\ phase' \in {"COMMAND", "READ_DATA"} /\ shift' = 0 /\ bitCount' \in Nat /\ bitCount' <= 15
    <3>1. CASE j < 26
      BY <1>6, <1>12, <3>1
    <3>2. CASE j = 26
      BY <1>13, <3>2 DEF AtRest
    <3> QED BY <2>1, <3>1, <3>2
  <2> QED BY <1>1, <1>11, <2>2 DEF ChipTyped
<1> QED BY <1>1, <1>12, <1>13, <1>14

(* What the eleventh bit does, by the command.                               *)
HasBits(code, b2, b3, b4, b5) == (code \div 256) % 4 = 2 * b2 + b3 /\ (code \div 64) % 4 = 2 * b4 + b5
DoneAs(at, b2, b3, b4, b5) ==
  /\ address' = at
  /\ b2 = 1 /\ b3 = 0 =>
       /\ output' = Word(at) /\ phase' = "READ_DATA" /\ shift' = 0 /\ bitCount' = 0
       /\ UNCHANGED <<dataOut, writeEnabled, storage, modified>>
  /\ b2 = 0 /\ b3 = 1 =>
       /\ phase' = "WRITE_DATA" /\ shift' = 0 /\ bitCount' = 0
       /\ UNCHANGED <<output, dataOut, writeEnabled, storage, modified>>
  /\ b2 = 0 /\ b3 = 0 /\ b4 = 0 /\ b5 = 1 =>
       /\ phase' = "WRITE_ALL_DATA" /\ shift' = 0 /\ bitCount' = 0
       /\ UNCHANGED <<output, dataOut, writeEnabled, storage, modified>>
  /\ b2 = 1 /\ b3 = 1 => Erase({at}) /\ BeginCommand(0) /\ UNCHANGED <<output, writeEnabled>>
  /\ b2 = 0 /\ b3 = 0 /\ b4 = 1 /\ b5 = 0 =>
       Erase(0..127) /\ BeginCommand(0) /\ UNCHANGED <<output, writeEnabled>>
  /\ b2 = 0 /\ b3 = 0 /\ b4 = b5 =>
       /\ writeEnabled' = (b4 = 1) /\ BeginCommand(0)
       /\ UNCHANGED <<output, storage, modified>>

LEMMA Decoded ==
  ASSUME NEW code, NEW b2 \in {0, 1}, NEW b3 \in {0, 1}, NEW b4 \in {0, 1}, NEW b5 \in {0, 1},
         HasBits(code, b2, b3, b4, b5),
         DecodeCommand(code)
  PROVE  DoneAs(code % 128, b2, b3, b4, b5)
<1> DEFINE operation == (code \div 256) % 4  special == (code \div 64) % 4
<1>1. operation = 2 * b2 + b3 /\ special = 2 * b4 + b5
  BY DEF HasBits
<1>2. /\ address' = code % 128
      /\ \/ /\ operation = 2
            /\ output' = Word(code % 128) /\ phase' = "READ_DATA" /\ shift' = 0 /\ bitCount' = 0
            /\ UNCHANGED <<dataOut, writeEnabled, storage, modified>>
         \/ /\ operation = 1 \/ (operation = 0 /\ special = 1)
            /\ phase' = IF operation = 1 THEN "WRITE_DATA" ELSE "WRITE_ALL_DATA"
            /\ shift' = 0 /\ bitCount' = 0
            /\ UNCHANGED <<output, dataOut, writeEnabled, storage, modified>>
         \/ /\ operation = 3 \/ (operation = 0 /\ special = 2)
            /\ Erase(IF operation = 3 THEN {code % 128} ELSE 0..127)
            /\ BeginCommand(0)
            /\ UNCHANGED <<output, writeEnabled>>
         \/ /\ operation = 0 /\ special \in {0, 3}
            /\ writeEnabled' = (special = 3)
            /\ BeginCommand(0)
            /\ UNCHANGED <<output, storage, modified>>
  BY DEF DecodeCommand
<1> HIDE DEF operation, special
<1>3. CASE b2 = 1 /\ b3 = 0
  <2>1. operation = 2
    BY <1>1, <1>3
  <2> QED BY <1>2, <1>3, <2>1 DEF DoneAs
<1>4. CASE b2 = 0 /\ b3 = 1
  <2>1. operation = 1
    BY <1>1, <1>4
  <2> QED BY <1>2, <1>4, <2>1 DEF DoneAs
<1>5. CASE b2 = 1 /\ b3 = 1
  <2>1. operation = 3
    BY <1>1, <1>5
  <2>2. (IF operation = 3 THEN {code % 128} ELSE 0..127) = {code % 128}
    BY <2>1
  <2> QED BY <1>2, <1>5, <2>1, <2>2 DEF DoneAs
<1>6. CASE b2 = 0 /\ b3 = 0 /\ b4 = 0 /\ b5 = 1
  <2>1. operation = 0 /\ special = 1
    BY <1>1, <1>6
  <2> QED BY <1>2, <1>6, <2>1 DEF DoneAs
<1>7. CASE b2 = 0 /\ b3 = 0 /\ b4 = 1 /\ b5 = 0
  <2>1. operation = 0 /\ special = 2
    BY <1>1, <1>7
  <2>2. (IF operation = 3 THEN {code % 128} ELSE 0..127) = 0..127
    BY <2>1
  <2> QED BY <1>2, <1>7, <2>1, <2>2 DEF DoneAs
<1>8. CASE b2 = 0 /\ b3 = 0 /\ b4 = b5
  <2>1. operation = 0 /\ special = 3 * b4
    BY <1>1, <1>8
  <2>2. special \in {0, 3} /\ (special = 3 <=> b4 = 1) /\ special # 1 /\ special # 2
    BY <2>1
  <2>3. writeEnabled' = (special = 3) /\ BeginCommand(0) /\ UNCHANGED <<output, storage, modified>>
    BY <1>2, <2>1, <2>2
  <2>4. writeEnabled' = (b4 = 1)
    BY <2>2, <2>3
  <2>5. address' = code % 128
    BY <1>2
  <2> QED BY <1>8, <2>3, <2>4, <2>5 DEF DoneAs
<1> QED BY <1>3, <1>4, <1>5, <1>6, <1>7, <1>8

(* What the promise of each command is.                                      *)
Filled(v) == [w \in 0..(Words - 1) |-> v]
WithWord(words, a, v) == [w \in 0..(Words - 1) |-> IF w = a THEN v ELSE words[w]]
LEMMA Obeyed ==
  ASSUME NEW sends, NEW b, b = Started(sends),
         b[2] \in {0, 1}, b[3] \in {0, 1}, b[4] \in {0, 1}, b[5] \in {0, 1},
         NEW en \in BOOLEAN, NEW words \in Storages, NEW p, p = [enabled |-> en, words |-> words]
  PROVE  /\ Reads(b) => Obey(p, sends) = p
         /\ Writes(b) => Obey(p, sends) =
              [enabled |-> en, words |-> IF en THEN WithWord(words, At(b), Data(b)) ELSE words]
         /\ b[2] = 1 /\ b[3] = 1 => Obey(p, sends) =
              [enabled |-> en, words |-> IF en THEN WithWord(words, At(b), \hFFFF) ELSE words]
         /\ WritesAll(b) => Obey(p, sends) = [enabled |-> en, words |-> IF en THEN Filled(Data(b)) ELSE words]
         /\ b[2] = 0 /\ b[3] = 0 /\ b[4] = 1 /\ b[5] = 0 =>
              Obey(p, sends) = [enabled |-> en, words |-> IF en THEN Filled(\hFFFF) ELSE words]
         /\ b[2] = 0 /\ b[3] = 0 /\ b[4] = b[5] =>
              Obey(p, sends) = [enabled |-> (b[4] = 1), words |-> words]
<1> DEFINE Stores(ws) == IF p.enabled THEN [p EXCEPT !.words = ws] ELSE p
           Only(v) == [w \in 0..(Words - 1) |-> IF w = At(b) THEN v ELSE p.words[w]]
<1>1. Obey(p, sends) =
        CASE Reads(b) -> p
          [] Writes(b) -> Stores(Only(Data(b)))
          [] b[2] = 1 /\ b[3] = 1 -> Stores(Only(\hFFFF))
          [] WritesAll(b) -> Stores(Filled(Data(b)))
          [] b[2] = 0 /\ b[3] = 0 /\ b[4] = 1 /\ b[5] = 0 -> Stores(Filled(\hFFFF))
          [] b[2] = 0 /\ b[3] = 0 /\ b[4] = b[5] -> [p EXCEPT !.enabled = (b[4] = 1)]
  BY DEF Obey, Filled
<1>2. ASSUME NEW ws PROVE Stores(ws) = [enabled |-> en, words |-> IF en THEN ws ELSE words]
  <2>1. p.enabled = en
    OBVIOUS
  <2>2. CASE en
    BY <2>1, <2>2
  <2>3. CASE ~en
    BY <2>1, <2>3
  <2> QED BY <2>2, <2>3
<1>3. [p EXCEPT !.enabled = (b[4] = 1)] = [enabled |-> (b[4] = 1), words |-> words]
  OBVIOUS
<1>4. \A v : Only(v) = WithWord(words, At(b), v)
  BY DEF WithWord
<1> HIDE DEF Stores, Only
<1>5. ASSUME Reads(b) PROVE Obey(p, sends) = p
  BY <1>1, <1>5 DEF Reads, Writes, WritesAll
<1>6. ASSUME Writes(b) PROVE Obey(p, sends) = Stores(Only(Data(b)))
  BY <1>1, <1>6 DEF Reads, Writes, WritesAll
<1>7. ASSUME b[2] = 1 /\ b[3] = 1 PROVE Obey(p, sends) = Stores(Only(\hFFFF))
  BY <1>1, <1>7 DEF Reads, Writes, WritesAll
<1>8. ASSUME WritesAll(b) PROVE Obey(p, sends) = Stores(Filled(Data(b)))
  BY <1>1, <1>8 DEF Reads, Writes, WritesAll
<1>9. ASSUME b[2] = 0 /\ b[3] = 0 /\ b[4] = 1 /\ b[5] = 0 PROVE Obey(p, sends) = Stores(Filled(\hFFFF))
  BY <1>1, <1>9 DEF Reads, Writes, WritesAll
<1>10. ASSUME b[2] = 0 /\ b[3] = 0 /\ b[4] = b[5] PROVE Obey(p, sends) = [enabled |-> (b[4] = 1), words |-> words]
  BY <1>1, <1>3, <1>10 DEF Reads, Writes, WritesAll
<1>11. ASSUME Writes(b)
       PROVE  Obey(p, sends) = [enabled |-> en, words |-> IF en THEN WithWord(words, At(b), Data(b)) ELSE words]
  <2>1. Obey(p, sends) = Stores(WithWord(words, At(b), Data(b)))
    BY <1>4, <1>6, <1>11
  <2> QED BY <1>2, <2>1
<1>12. ASSUME b[2] = 1 /\ b[3] = 1
       PROVE  Obey(p, sends) = [enabled |-> en, words |-> IF en THEN WithWord(words, At(b), \hFFFF) ELSE words]
  <2>1. Obey(p, sends) = Stores(WithWord(words, At(b), \hFFFF))
    BY <1>4, <1>7, <1>12
  <2> QED BY <1>2, <2>1
<1>13. ASSUME WritesAll(b)
       PROVE  Obey(p, sends) = [enabled |-> en, words |-> IF en THEN Filled(Data(b)) ELSE words]
  BY <1>2, <1>8, <1>13
<1>14. ASSUME b[2] = 0 /\ b[3] = 0 /\ b[4] = 1 /\ b[5] = 0
       PROVE  Obey(p, sends) = [enabled |-> en, words |-> IF en THEN Filled(\hFFFF) ELSE words]
  BY <1>2, <1>9, <1>14
<1> QED BY <1>5, <1>10, <1>11, <1>12, <1>13, <1>14

\* Storing and filling give a storage.
LEMMA StoragesStay ==
  ASSUME NEW words \in Storages, NEW v \in WordRange, NEW a
  PROVE  WithWord(words, a, v) \in Storages /\ Filled(v) \in Storages
BY DEF Storages, WithWord, Filled

\* The function the chip writes for one word, and for all of them.
LEMMA StoredOne ==
  ASSUME storage \in Storages, writeEnabled \in BOOLEAN, NEW a, NEW v,
         storage' = [w \in 0..(Words - 1) |-> IF w \in {a} /\ writeEnabled THEN v ELSE storage[w]]
  PROVE  storage' = IF writeEnabled THEN WithWord(storage, a, v) ELSE storage
<1>1. storage = [w \in 0..(Words - 1) |-> storage[w]]
  BY DEF Storages
<1>2. CASE ~writeEnabled
  BY <1>1, <1>2
<1>3. CASE writeEnabled
  BY <1>3 DEF WithWord
<1> QED BY <1>2, <1>3

LEMMA StoredAll ==
  ASSUME Words \in 1..128, storage \in Storages, writeEnabled \in BOOLEAN, NEW v,
         storage' = [w \in 0..(Words - 1) |-> IF w \in 0..127 /\ writeEnabled THEN v ELSE storage[w]]
  PROVE  storage' = IF writeEnabled THEN Filled(v) ELSE storage
<1>1. storage = [w \in 0..(Words - 1) |-> storage[w]]
  BY DEF Storages
<1>2. CASE ~writeEnabled
  BY <1>1, <1>2
<1>3. CASE writeEnabled
  <2>1. \A w \in 0..(Words - 1) : w \in 0..127
    OBVIOUS
  <2> QED BY <1>3, <2>1 DEF Filled
<1> QED BY <1>2, <1>3

IsSentAs(b) == b = Started(command)
(* The eleventh bit: a command without data is obeyed, one with data begins. *)
LEMMA LastOfCode ==
  ASSUME Words \in 1..128, storage \in Storages, writeEnabled \in BOOLEAN,
         NEW b \in Seq({0, 1}), Len(b) >= 11, b[1] = 1, IsSentAs(b), Len(b) = 11 \/ Len(b) = 27,
         Len(b) = 27 <=> Reads(b) \/ Writes(b) \/ WritesAll(b),
         ChipTyped(phase, shift, output, bitCount, address),
         CodePart(phase, shift, bitCount, b, 10, read),
         promise = [enabled |-> writeEnabled, words |-> storage],
         ClockBit(b[11])
  PROVE  /\ ChipTyped(phase', shift', output', bitCount', address')
         /\ Len(b) = 27 => /\ DataPart(phase', shift', output', bitCount', address', storage, b, 11, read)
                           /\ UNCHANGED <<writeEnabled, storage>>
         /\ Len(b) = 11 => /\ AllTaken(phase', shift', bitCount', storage', b, 11, read)
                           /\ storage' \in Storages /\ writeEnabled' \in BOOLEAN
                           /\ Obey(promise, command) = [enabled |-> writeEnabled', words |-> storage']
<1> DEFINE code == NumberOf(SubSeq(b, 1, 11))
<1>1. phase = "COMMAND" /\ bitCount = 10 /\ shift = NumberOf(SubSeq(b, 1, 10)) /\ read = << >>
  BY DEF CodePart
<1>2. b[11] \in {0, 1} /\ code = 2 * NumberOf(SubSeq(b, 1, 10)) + b[11]
  <2>1. 1 <= 10 + 1 /\ 10 + 1 <= Len(b) /\ 1 \in Nat /\ 10 \in Nat /\ 1 <= 1 /\ 10 + 1 = 11
    OBVIOUS
  <2>2. b[10 + 1] \in {0, 1} /\ NumberOf(SubSeq(b, 1, 10 + 1)) = 2 * NumberOf(SubSeq(b, 1, 10)) + b[10 + 1]
    BY <2>1, PartGrows, SMT
  <2> QED BY <2>1, <2>2
<1>3. DecodeCommand(code)
  <2>1. PICK x \in Nat, bit \in {0, 1} : x = shift /\ bit = b[11] /\ x < 32768
    <3>1. 1 <= 10 + 1 /\ 10 <= Len(b) /\ 1 \in Nat /\ 10 \in Nat /\ 1 <= 1 /\ 10 < 1 + 15 /\ 10 < 1 + 16
      OBVIOUS
    <3>2. NumberOf(SubSeq(b, 1, 10)) \in Nat /\ NumberOf(SubSeq(b, 1, 10)) < 32768
      BY <3>1, PartFits, SMT
    <3> QED BY <1>1, <1>2, <3>2
  <2>2. (2 * x + bit) % 65536 = 2 * x + bit
    BY <2>1, NoOverflow, SMT
  <2>3. DecodeCommand((2 * shift + b[11]) % 65536)
    BY <1>1, DecodeBit
  <2>4. (2 * shift + b[11]) % 65536 = code
    BY <1>1, <1>2, <2>1, <2>2, SMT
  <2> QED BY <2>3, <2>4
<1>4. /\ code % 128 = At(b) /\ At(b) \in Nat /\ At(b) < 128
      /\ (code \div 64) % 4 = 2 * b[4] + b[5] /\ (code \div 256) % 4 = 2 * b[2] + b[3]
  BY CodeSplits
<1>5. b[2] \in {0, 1} /\ b[3] \in {0, 1} /\ b[4] \in {0, 1} /\ b[5] \in {0, 1}
  OBVIOUS
<1> HIDE DEF code
<1>6. /\ address' = At(b)
      /\ Reads(b) =>
           /\ output' = Word(At(b)) /\ phase' = "READ_DATA" /\ shift' = 0 /\ bitCount' = 0
           /\ UNCHANGED <<dataOut, writeEnabled, storage, modified>>
      /\ Writes(b) =>
           /\ phase' = "WRITE_DATA" /\ shift' = 0 /\ bitCount' = 0
           /\ UNCHANGED <<output, dataOut, writeEnabled, storage, modified>>
      /\ WritesAll(b) =>
           /\ phase' = "WRITE_ALL_DATA" /\ shift' = 0 /\ bitCount' = 0
           /\ UNCHANGED <<output, dataOut, writeEnabled, storage, modified>>
      /\ b[2] = 1 /\ b[3] = 1 => Erase({At(b)}) /\ BeginCommand(0) /\ UNCHANGED <<output, writeEnabled>>
      /\ b[2] = 0 /\ b[3] = 0 /\ b[4] = 1 /\ b[5] = 0 =>
           Erase(0..127) /\ BeginCommand(0) /\ UNCHANGED <<output, writeEnabled>>
      /\ b[2] = 0 /\ b[3] = 0 /\ b[4] = b[5] =>
           /\ writeEnabled' = (b[4] = 1) /\ BeginCommand(0)
           /\ UNCHANGED <<output, storage, modified>>
  <2>1. PICK b2 \in {0, 1}, b3 \in {0, 1}, b4 \in {0, 1}, b5 \in {0, 1} :
          b2 = b[2] /\ b3 = b[3] /\ b4 = b[4] /\ b5 = b[5]
    BY <1>5
  <2>2. (code \div 256) % 4 = 2 * b2 + b3 /\ (code \div 64) % 4 = 2 * b4 + b5
    BY <1>4, <2>1
  <2>3. DoneAs(code % 128, b2, b3, b4, b5)
    <3>1. HasBits(code, b2, b3, b4, b5)
      BY <2>2 DEF HasBits
    <3> QED BY <1>3, <3>1, Decoded
  <2> QED BY <1>4, <2>1, <2>3 DEF Reads, Writes, WritesAll, DoneAs
<1>7. output \in Nat /\ output < 65536 /\ address' \in Nat /\ address' <= 127
  BY <1>4, <1>6 DEF ChipTyped
<1>8. CASE Reads(b) \/ Writes(b) \/ WritesAll(b)
  <2>1. Len(b) = 27 /\ shift' = 0 /\ bitCount' = 0 /\ UNCHANGED <<writeEnabled, storage>> /\ 0 = 11 - 11
    BY <1>6, <1>8
  <2>2. NumberOf(SubSeq(b, 12, 11)) = 0
    <3>1. NumberOf(SubSeq(b, 11 + 1, 11)) = 0
      BY PartBegins
    <3> QED BY <3>1, 11 + 1 = 12
  <2>3. CASE Reads(b)
    <3>1. output' = WordOf(storage, At(b)) /\ phase' = "READ_DATA"
      BY <1>6, <2>3 DEF Word, WordOf
    <3>2. WordOf(storage, At(b)) \in Nat /\ WordOf(storage, At(b)) < 65536
      <4>1. At(b) \in Nat
        BY <1>4
      <4>2. WordOf(storage, At(b)) \in WordRange
        BY <4>1, TypedWord, Zenon
      <4> QED BY <4>2, WordsFit
    <3>3. ReadSoFar(output', bitCount', read, WordOf(storage, At(b)))
      <4>1. PowerOfTwo[0 + 1] = 1
        BY DEF PowerOfTwo
      <4>2. PICK w \in Nat : w = WordOf(storage, At(b)) /\ w * 1 = 0 * 65536 + w
        BY <3>2
      <4>3. read = << >> /\ << >> \in Seq({0, 1}) /\ Len(<< >>) = 0
        BY <1>1
      <4> QED BY <2>1, <3>1, <4>1, <4>2, <4>3, NumberOfNone DEF ReadSoFar
    <3>4. DataPart(phase', shift', output', bitCount', address', storage, b, 11, read)
      BY <1>6, <2>1, <2>3, <3>1, <3>3 DEF DataPart
    <3>5. ChipTyped(phase', shift', output', bitCount', address')
      BY <1>7, <2>1, <3>1, <3>2 DEF ChipTyped
    <3> QED BY <2>1, <3>4, <3>5
  <2>4. CASE Writes(b)
    <3>1. phase' = "WRITE_DATA" /\ output' = output
      BY <1>6, <2>4
    <3>2. DataPart(phase', shift', output', bitCount', address', storage, b, 11, read)
      BY <1>6, <2>1, <2>2, <2>4, <3>1 DEF DataPart
    <3>3. ChipTyped(phase', shift', output', bitCount', address')
      BY <1>7, <2>1, <3>1 DEF ChipTyped
    <3> QED BY <2>1, <3>2, <3>3
  <2>5. CASE WritesAll(b)
    <3>1. phase' = "WRITE_ALL_DATA" /\ output' = output
      BY <1>6, <2>5
    <3>2. DataPart(phase', shift', output', bitCount', address', storage, b, 11, read)
      BY <1>6, <2>1, <2>2, <2>5, <3>1 DEF DataPart
    <3>3. ChipTyped(phase', shift', output', bitCount', address')
      BY <1>7, <2>1, <3>1 DEF ChipTyped
    <3> QED BY <2>1, <3>2, <3>3
  <2> QED BY <1>8, <2>3, <2>4, <2>5
<1>9. CASE ~(Reads(b) \/ Writes(b) \/ WritesAll(b))
  <2>1. Len(b) = 11 /\ Len(b) # 27 /\ ~Reads(b)
    BY <1>9
  <2>2. ASSUME BeginCommand(0), UNCHANGED output
        PROVE  /\ ChipTyped(phase', shift', output', bitCount', address')
               /\ AllTaken(phase', shift', bitCount', storage', b, 11, read)
    <3>1. phase' = "COMMAND" /\ shift' = 0 /\ bitCount' = 0
      BY <2>2 DEF BeginCommand
    <3> QED BY <1>7, <2>1, <2>2, <3>1 DEF ChipTyped, AllTaken, AtRest
  <2>3. \hFFFF \in WordRange
    BY DEF WordRange
  <2>4. \/ b[2] = 1 /\ b[3] = 1
        \/ b[2] = 0 /\ b[3] = 0 /\ b[4] = 1 /\ b[5] = 0
        \/ b[2] = 0 /\ b[3] = 0 /\ b[4] = b[5]
    BY <1>5, <1>9 DEF Reads, Writes, WritesAll
  <2>5. CASE b[2] = 1 /\ b[3] = 1
    <3>1. Erase({At(b)}) /\ BeginCommand(0) /\ UNCHANGED <<output, writeEnabled>>
      BY <1>6, <2>5
    <3>2. storage' = IF writeEnabled THEN WithWord(storage, At(b), \hFFFF) ELSE storage
      <4>1. storage' = [w \in 0..(Words - 1) |-> IF w \in {At(b)} /\ writeEnabled THEN \hFFFF ELSE storage[w]]
        BY <3>1 DEF Erase
      <4> QED BY <4>1, StoredOne
    <3>3. Obey(promise, command) =
            [enabled |-> writeEnabled, words |-> IF writeEnabled THEN WithWord(storage, At(b), \hFFFF) ELSE storage]
      BY <1>5, <2>5, Obeyed DEF IsSentAs
    <3>4. storage' \in Storages
      BY <2>3, <3>2, StoragesStay
    <3> QED BY <2>1, <2>2, <3>1, <3>2, <3>3, <3>4
  <2>6. CASE b[2] = 0 /\ b[3] = 0 /\ b[4] = 1 /\ b[5] = 0
    <3>1. Erase(0..127) /\ BeginCommand(0) /\ UNCHANGED <<output, writeEnabled>>
      BY <1>6, <2>6
    <3>2. storage' = IF writeEnabled THEN Filled(\hFFFF) ELSE storage
      <4>1. PICK v : v = \hFFFF
        OBVIOUS
      <4>2. storage' = [w \in 0..(Words - 1) |-> IF w \in 0..127 /\ writeEnabled THEN v ELSE storage[w]]
        BY <3>1, <4>1 DEF Erase
      <4>3. storage' = IF writeEnabled THEN Filled(v) ELSE storage
        BY <4>2, StoredAll, Zenon
      <4> QED BY <4>1, <4>3
    <3>3. Obey(promise, command) =
            [enabled |-> writeEnabled, words |-> IF writeEnabled THEN Filled(\hFFFF) ELSE storage]
      BY <1>5, <2>6, Obeyed DEF IsSentAs
    <3>4. storage' \in Storages
      BY <2>3, <3>2, StoragesStay
    <3> QED BY <2>1, <2>2, <3>1, <3>2, <3>3, <3>4
  <2>7. CASE b[2] = 0 /\ b[3] = 0 /\ b[4] = b[5]
    <3>1. writeEnabled' = (b[4] = 1) /\ BeginCommand(0) /\ UNCHANGED <<output, storage, modified>>
      BY <1>6, <2>7
    <3>2. Obey(promise, command) = [enabled |-> (b[4] = 1), words |-> storage]
      BY <1>5, <2>7, Obeyed DEF IsSentAs
    <3>3. writeEnabled' \in BOOLEAN
      BY <3>1
    <3>4. Obey(promise, command) = [enabled |-> writeEnabled', words |-> storage']
      BY <3>1, <3>2
    <3> QED BY <2>1, <2>2, <3>1, <3>3, <3>4
  <2> QED BY <2>4, <2>5, <2>6, <2>7
<1> QED BY <1>8, <1>9

(* The last bit of a word to write: it is stored, if writes are enabled.     *)
LEMMA LastOfData ==
  ASSUME Words \in 1..128, storage \in Storages, writeEnabled \in BOOLEAN,
         NEW b \in Seq({0, 1}), Len(b) >= 27, IsSentAs(b),
         b[2] \in {0, 1}, b[3] \in {0, 1}, b[4] \in {0, 1}, b[5] \in {0, 1},
         ChipTyped(phase, shift, output, bitCount, address), address = At(b), bitCount = 15,
         \/ Writes(b) /\ phase = "WRITE_DATA"
         \/ WritesAll(b) /\ phase = "WRITE_ALL_DATA",
         shift = NumberOf(SubSeq(b, 12, 26)),
         promise = [enabled |-> writeEnabled, words |-> storage],
         ClockBit(b[27])
  PROVE  /\ ChipTyped(phase', shift', output', bitCount', address')
         /\ AtRest(phase', shift', bitCount') /\ storage' \in Storages /\ writeEnabled' = writeEnabled
         /\ Obey(promise, command) = [enabled |-> writeEnabled', words |-> storage']
<1>1. b[27] \in {0, 1} /\ Data(b) = 2 * NumberOf(SubSeq(b, 12, 26)) + b[27]
  <2>1. PICK i \in Nat, j \in Nat : i = 12 /\ j = 26
    OBVIOUS
  <2>2. 1 <= i /\ i <= j + 1 /\ j + 1 <= Len(b)
    BY <2>1
  <2>3. b[j + 1] \in {0, 1} /\ NumberOf(SubSeq(b, i, j + 1)) = 2 * NumberOf(SubSeq(b, i, j)) + b[j + 1]
    BY <2>2, PartGrows, SMT
  <2>4. j + 1 = 27
    BY <2>1
  <2> QED BY <2>1, <2>3, <2>4 DEF Data
<1>2. PICK x \in Nat, bit \in {0, 1}, v \in WordRange :
        x = NumberOf(SubSeq(b, 12, 26)) /\ x < 32768 /\ bit = b[27] /\ v = Data(b)
  <2>1. PICK j \in Nat, h \in Nat : j = 26 /\ h = 27
    OBVIOUS
  <2>2. NumberOf(SubSeq(b, 12, j)) \in Nat /\ NumberOf(SubSeq(b, 12, j)) < 32768
    <3>1. 11 <= j /\ j <= 27 /\ j < 27
      BY <2>1
    <3> QED BY <3>1, DataFits, SMT
  <2>3. NumberOf(SubSeq(b, 12, h)) \in Nat /\ NumberOf(SubSeq(b, 12, h)) < 65536
    <3>1. 11 <= h /\ h <= 27
      BY <2>1
    <3> QED BY <3>1, DataFits, SMT
  <2>4. Data(b) \in Nat /\ Data(b) < 65536
    BY <2>1, <2>3 DEF Data
  <2>5. Data(b) \in WordRange
    BY <2>4, FitsWord
  <2> QED BY <1>1, <2>1, <2>2, <2>5
<1>3. Store(v)
  <2>1. (2 * x + bit) % 65536 = 2 * x + bit
    <3>1. x < 32768
      BY <1>2
    <3> QED BY <3>1, NoOverflow, SMT
  <2>2. Store((2 * shift + b[27]) % 65536)
    BY StoreBit, SMT
  <2>3. shift = x /\ v = 2 * x + bit /\ bit = b[27]
    BY <1>1, <1>2
  <2> QED BY <2>1, <2>2, <2>3
<1>4. phase' = "COMMAND" /\ shift' = 0 /\ bitCount' = 0 /\ UNCHANGED <<output, address, writeEnabled>>
  BY <1>3 DEF Store, BeginCommand
<1>5. ChipTyped(phase', shift', output', bitCount', address') /\ AtRest(phase', shift', bitCount')
  BY <1>4 DEF ChipTyped, AtRest
<1>6. PICK a : a = At(b) /\ a = address
  OBVIOUS
<1>7. CASE Writes(b) /\ phase = "WRITE_DATA"
  <2>1. storage' = [w \in 0..(Words - 1) |-> IF w \in {a} /\ writeEnabled THEN v ELSE storage[w]]
    BY <1>3, <1>6, <1>7 DEF Store
  <2>2. storage' = IF writeEnabled THEN WithWord(storage, a, v) ELSE storage
    BY <2>1, StoredOne, Zenon
  <2>3. Obey(promise, command) =
          [enabled |-> writeEnabled, words |-> IF writeEnabled THEN WithWord(storage, At(b), Data(b)) ELSE storage]
    BY <1>7, Obeyed DEF IsSentAs
  <2>4. storage' \in Storages
    BY <2>2, StoragesStay
  <2> QED BY <1>2, <1>4, <1>5, <1>6, <2>2, <2>3, <2>4
<1>8. CASE WritesAll(b) /\ phase = "WRITE_ALL_DATA"
  <2>1. storage' = [w \in 0..(Words - 1) |-> IF w \in 0..127 /\ writeEnabled THEN v ELSE storage[w]]
    <3>1. phase # "WRITE_DATA"
      BY <1>8
    <3> QED BY <1>3, <3>1 DEF Store
  <2>2. storage' = IF writeEnabled THEN Filled(v) ELSE storage
    BY <2>1, StoredAll, Zenon
  <2>3. Obey(promise, command) =
          [enabled |-> writeEnabled, words |-> IF writeEnabled THEN Filled(Data(b)) ELSE storage]
    BY <1>8, Obeyed DEF IsSentAs
  <2>4. storage' \in Storages
    BY <2>2, StoragesStay
  <2> QED BY <1>2, <1>4, <1>5, <2>2, <2>3, <2>4
<1> QED BY <1>7, <1>8

(* A rising edge while the chip is selected and the command goes on.         *)
LEMMA BitTaken ==
  ASSUME Words \in 1..128, ChipNow, chipSelected, BitHigh
  PROVE  ChipNow'
<1> DEFINE c == command  b == Started(command)  j == sent - Skip(command)
<1>1. /\ ChipTyped(phase, shift, output, bitCount, address)
      /\ writeEnabled \in BOOLEAN /\ storage \in Storages
      /\ promise = [enabled |-> writeEnabled, words |-> storage] /\ sent \in Nat
      /\ SendsCommand(command) /\ sent <= Len(command)
      /\ Clocked(phase, shift, output, bitCount, address, storage, b, j, read)
  BY DEF ChipNow, ChipOK
<1>2. /\ chipSelected' = TRUE /\ sent < Len(command) /\ sent' = sent + 1 /\ command' = command
      /\ read' = IF phase = "READ_DATA" THEN Append(read, IF dataOut' THEN 1 ELSE 0) ELSE read
      /\ promise' = IF sent' = Len(command) THEN Obey(promise, command) ELSE promise
      /\ ClockBit(command[sent + 1])
  <2>1. sent < Len(command)
    <3>1. command \in Seq({0, 1}) /\ Len(command) \in Nat
      BY <1>1, StartedBits
    <3> QED BY <1>1, <3>1 DEF BitHigh, Rest
  <2> QED BY <2>1 DEF BitHigh, WritePins
<1>3. /\ b \in Seq({0, 1}) /\ b[1] = 1 /\ Skip(command) \in {0, 1} /\ (Skip(command) = 1 => command[1] = 0)
      /\ Len(command) = Len(b) + Skip(command)
      /\ \A i \in Nat : 1 <= i /\ i <= Len(b) => b[i] = command[i + Skip(command)] /\ b[i] \in {0, 1}
      /\ Len(b) = 11 \/ Len(b) = 27
      /\ Len(b) = 27 <=> Reads(b) \/ Writes(b) \/ WritesAll(b)
  BY <1>1, StartedBits, CommandLength
<1>4. IsSentAs(b)
  BY DEF IsSentAs
<1> HIDE DEF b, c
<1>5. /\ j \in Int /\ j >= -1 /\ j < Len(b) /\ sent' - Skip(command') = j + 1
      /\ sent' \in Nat /\ sent' <= Len(command')
      /\ sent' = Len(command) <=> j + 1 = Len(b)
      /\ Started(command') = b
      /\ j >= 0 => command[sent + 1] = b[j + 1]
      /\ j < 0 => j = -1 /\ command[sent + 1] = 0
  <2>1. j \in Int /\ j >= -1 /\ j < Len(b) /\ sent' - Skip(command') = j + 1 /\ sent' \in Nat /\ sent' <= Len(command')
    BY <1>1, <1>2, <1>3
  <2>2. sent' = Len(command) <=> j + 1 = Len(b)
    BY <1>1, <1>2, <1>3
  <2>3. Started(command') = b
    BY <1>2 DEF b
  <2>4. ASSUME j >= 0 PROVE command[sent + 1] = b[j + 1]
    <3>1. j + 1 \in Nat /\ 1 <= j + 1 /\ j + 1 <= Len(b) /\ (j + 1) + Skip(command) = sent + 1
      <4>1. PICK k \in {0, 1} : k = Skip(command)
        BY <1>3
      <4>2. PICK s \in Nat : s = sent
        BY <1>1
      <4>3. (j + 1) + k = s + 1
        BY <4>1, <4>2
      <4> QED BY <2>1, <2>4, <4>1, <4>2, <4>3
    <3>2. b[j + 1] = command[(j + 1) + Skip(command)]
      BY <1>3, <3>1
    <3> QED BY <3>1, <3>2
  <2>5. ASSUME j < 0 PROVE j = -1 /\ command[sent + 1] = 0
    <3>1. j = -1 /\ sent = 0 /\ Skip(command) = 1
      BY <1>1, <1>3, <2>1, <2>5
    <3> QED BY <1>3, <3>1
  <2> QED BY <2>1, <2>2, <2>3, <2>4, <2>5
<1> HIDE DEF j
<1>6. SUFFICES /\ ChipTyped(phase', shift', output', bitCount', address')
               /\ writeEnabled' \in BOOLEAN /\ storage' \in Storages
               /\ promise' = [enabled |-> writeEnabled', words |-> storage']
               /\ Clocked(phase', shift', output', bitCount', address', storage', b, j + 1, read')
  <2>1. SendsCommand(command')
    BY <1>1, <1>2
  <2> QED BY <1>2, <1>5, <2>1 DEF ChipNow, ChipOK
<1>7. CASE j < 0
  <2>1. AtRest(phase, shift, bitCount) /\ read = << >>
    BY <1>1, <1>5, <1>7 DEF Clocked, CodePart, DataPart, AllTaken
  <2>2. UNCHANGED <<phase, shift, output, bitCount, address, writeEnabled, storage, modified>>
    BY <1>2, <1>5, <1>7, <2>1, IdleBit DEF AtRest
  <2>3. promise' = promise /\ read' = read
    BY <1>2, <1>3, <1>5, <1>7, <2>1 DEF AtRest
  <2>4. Clocked(phase', shift', output', bitCount', address', storage', b, j + 1, read')
    BY <1>5, <1>7, <2>1, <2>2, <2>3 DEF Clocked
  <2> QED BY <1>1, <2>2, <2>3, <2>4
<1>8. CASE j >= 0 /\ j < 10
  <2>1. \/ j = 0 /\ AtRest(phase, shift, bitCount) /\ read = << >>
        \/ CodePart(phase, shift, bitCount, b, j, read)
    BY <1>1, <1>5, <1>8 DEF Clocked, DataPart, AllTaken
  <2>2. phase = "COMMAND"
    BY <2>1 DEF AtRest, CodePart
  <2>3. /\ CodePart(phase', shift', bitCount', b, j + 1, read)
        /\ ChipTyped(phase', shift', output', bitCount', address')
        /\ UNCHANGED <<writeEnabled, storage, phase, output>>
    <3>1. ClockBit(b[j + 1]) /\ j \in Nat /\ Len(b) >= 11
      <4>1. ClockBit(b[j + 1])
        BY <1>2, <1>5, <1>8
      <4>2. j \in Nat
        BY <1>5, <1>8
      <4>3. Len(b) >= 11
        <5>1. PICK n \in {11, 27} : n = Len(b)
          BY <1>3
        <5>2. n >= 11
          OBVIOUS
        <5> QED BY <5>1, <5>2
      <4> QED BY <4>1, <4>2, <4>3
    <3> QED BY <1>1, <1>3, <1>8, <2>1, <3>1, CodeBit
  <2>4. promise' = promise /\ read' = read
    <3>1. j + 1 # Len(b)
      <4>1. PICK n \in {11, 27} : n = Len(b)
        BY <1>3
      <4>2. j + 1 # n
        BY <1>5, <1>8
      <4> QED BY <4>1, <4>2
    <3> QED BY <1>2, <1>5, <2>2, <3>1
  <2> QED BY <1>1, <2>3, <2>4 DEF Clocked
<1>9. CASE j = 10
  <2>1. CodePart(phase, shift, bitCount, b, 10, read)
    BY <1>1, <1>5, <1>9 DEF Clocked, DataPart, AllTaken
  <2>2. phase = "COMMAND"
    BY <2>1 DEF CodePart
  <2>3. read' = read
    BY <1>2, <2>2
  <2>4. /\ ChipTyped(phase', shift', output', bitCount', address')
        /\ Len(b) = 27 => /\ DataPart(phase', shift', output', bitCount', address', storage, b, 11, read)
                          /\ UNCHANGED <<writeEnabled, storage>>
        /\ Len(b) = 11 => /\ AllTaken(phase', shift', bitCount', storage', b, 11, read)
                          /\ storage' \in Storages /\ writeEnabled' \in BOOLEAN
                          /\ Obey(promise, command) = [enabled |-> writeEnabled', words |-> storage']
    <3>1. ClockBit(b[11]) /\ Len(b) >= 11
      BY <1>2, <1>3, <1>5, <1>9
    <3> QED BY <1>1, <1>3, <1>4, <2>1, <3>1, LastOfCode
  <2>5. CASE Len(b) = 27
    <3>1. promise' = promise
      BY <1>2, <1>5, <1>9, <2>5
    <3> QED BY <1>1, <1>9, <2>3, <2>4, <2>5, <3>1 DEF Clocked
  <2>6. CASE Len(b) = 11
    <3>1. promise' = Obey(promise, command)
      BY <1>2, <1>5, <1>9, <2>6
    <3> QED BY <1>9, <2>3, <2>4, <2>6, <3>1 DEF Clocked
  <2> QED BY <1>3, <2>5, <2>6
<1>10. CASE j > 10
  <2>1. DataPart(phase, shift, output, bitCount, address, storage, b, j, read)
    BY <1>1, <1>5, <1>10 DEF Clocked, CodePart, AllTaken
  <2>2. /\ 11 <= j /\ j < 27 /\ j \in Nat /\ Len(b) = 27 /\ Len(b) >= 27 /\ address = At(b) /\ bitCount = j - 11
        /\ ClockBit(b[j + 1])
    BY <1>2, <1>5, <1>10, <2>1 DEF DataPart
  <2>3. CASE Reads(b) /\ phase = "READ_DATA"
    <3>1. shift = 0 /\ ReadSoFar(output, bitCount, read, WordOf(storage, address))
      BY <2>1, <2>3 DEF DataPart
    <3>2. read' = Append(read, IF dataOut' THEN 1 ELSE 0)
      BY <1>2, <2>3
    <3>3. /\ ChipTyped(phase', shift', output', bitCount', address')
          /\ UNCHANGED <<writeEnabled, storage, address>>
          /\ j < 26 => /\ phase' = "READ_DATA" /\ shift' = 0 /\ bitCount' = (j + 1) - 11
                       /\ ReadSoFar(output', bitCount', read', WordOf(storage, address))
          /\ j = 26 => AtRest(phase', shift', bitCount') /\ NumberOf(read') = WordOf(storage, address)
      BY <1>1, <2>2, <2>3, <3>1, <3>2, BitOfWord
    <3>4. CASE j < 26
      <4>1. promise' = promise
        BY <1>2, <1>5, <2>2, <3>4
      <4>2. DataPart(phase', shift', output', bitCount', address', storage', b, j + 1, read')
        BY <2>2, <2>3, <3>3, <3>4 DEF DataPart
      <4> QED BY <1>1, <3>3, <4>1, <4>2 DEF Clocked
    <3>5. CASE j = 26
      <4>1. promise' = Obey(promise, command)
        BY <1>2, <1>5, <2>2, <3>5
      <4>2. Obey(promise, command) = promise
        <5>1. b[2] \in {0, 1} /\ b[3] \in {0, 1} /\ b[4] \in {0, 1} /\ b[5] \in {0, 1}
          BY <1>3, <2>2
        <5> QED BY <1>1, <1>4, <2>3, <5>1, Obeyed DEF IsSentAs
      <4>3. AllTaken(phase', shift', bitCount', storage', b, j + 1, read')
        BY <2>2, <3>3, <3>5 DEF AllTaken
      <4> QED BY <1>1, <3>3, <4>1, <4>2, <4>3 DEF Clocked
    <3>6. j < 26 \/ j = 26
      BY <2>2
    <3> QED BY <3>4, <3>5, <3>6
  <2>4. CASE (Writes(b) /\ phase = "WRITE_DATA") \/ (WritesAll(b) /\ phase = "WRITE_ALL_DATA")
    <3>1. shift = NumberOf(SubSeq(b, 12, j)) /\ ~Reads(b)
      BY <2>1, <2>4 DEF DataPart, Reads, Writes, WritesAll
    <3>2. read' = read
      BY <1>2, <2>4
    <3>3. CASE j < 26
      <4>1. /\ shift' = NumberOf(SubSeq(b, 12, j + 1)) /\ bitCount' = (j + 1) - 11
            /\ ChipTyped(phase', shift', output', bitCount', address')
            /\ UNCHANGED <<phase, output, address, writeEnabled, storage>>
        BY <1>1, <1>3, <2>2, <2>4, <3>1, <3>3, DataBit
      <4>2. promise' = promise
        BY <1>2, <1>5, <2>2, <3>3
      <4>3. DataPart(phase', shift', output', bitCount', address', storage', b, j + 1, read')
        BY <2>2, <2>4, <3>3, <4>1 DEF DataPart
      <4> QED BY <1>1, <4>1, <4>2, <4>3 DEF Clocked
    <3>4. CASE j = 26
      <4>1. promise' = Obey(promise, command)
        BY <1>2, <1>5, <2>2, <3>4
      <4>2. /\ ChipTyped(phase', shift', output', bitCount', address')
            /\ AtRest(phase', shift', bitCount') /\ storage' \in Storages /\ writeEnabled' = writeEnabled
            /\ Obey(promise, command) = [enabled |-> writeEnabled', words |-> storage']
        <5>1. b[2] \in {0, 1} /\ b[3] \in {0, 1} /\ b[4] \in {0, 1} /\ b[5] \in {0, 1}
          BY <1>3, <2>2
        <5>2. bitCount = 15 /\ shift = NumberOf(SubSeq(b, 12, 26)) /\ ClockBit(b[27])
          BY <2>2, <3>1, <3>4
        <5> QED BY <1>1, <1>3, <1>4, <2>2, <2>4, <5>1, <5>2, LastOfData
      <4>3. AllTaken(phase', shift', bitCount', storage', b, j + 1, read')
        BY <2>2, <3>1, <3>4, <4>2 DEF AllTaken
      <4> QED BY <1>1, <4>1, <4>2, <4>3 DEF Clocked
    <3>5. j < 26 \/ j = 26
      BY <2>2
    <3> QED BY <3>3, <3>4, <3>5
  <2>5. \/ Reads(b) /\ phase = "READ_DATA"
        \/ (Writes(b) /\ phase = "WRITE_DATA") \/ (WritesAll(b) /\ phase = "WRITE_ALL_DATA")
    BY <2>1 DEF DataPart
  <2> QED BY <2>3, <2>4, <2>5, Zenon
<1> QED BY <1>5, <1>7, <1>8, <1>9, <1>10

\* EepromInv is an inductive invariant: one lemma for each action that moves the
\* chip, the game or the saved state.
LEMMA WordsTyped == Words \in 1..128
BY EepromAssumption

LEMMA EepromStarts == EepromInit => EepromInv
<1> SUFFICES ASSUME EepromInit PROVE EepromInv
  OBVIOUS
<1>1. storage \in Storages
  <2>1. \A w \in 0..(Words - 1) : w \in Nat /\ w < 65536
    BY WordsTyped
  <2>2. \A w \in 0..(Words - 1) : w \in WordRange
    BY <2>1, FitsWord
  <2> QED BY <2>2 DEF EepromInit, Storages
<1>2. ChipTyped(phase, shift, output, bitCount, address)
  BY DEF EepromInit, ChipTyped
<1>3. ChipNow
  BY <1>1, <1>2 DEF EepromInit, ChipNow, ChipOK, AtRest
<1> QED BY <1>3 DEF EepromInit, EepromInv, ChipSaved

(* What leaves the chip and the game as they are keeps the invariant.        *)
LEMMA StillStays ==
  ASSUME ChipNow, UNCHANGED <<phase, shift, output, bitCount, address, writeEnabled, storage>>,
         UNCHANGED <<chipSelected, command, sent, read, promise>>
  PROVE  ChipNow'
BY DEF ChipNow

\* The first clock of a command may come with the select line, bit and all.
LEMMA SelectStays ==
  ASSUME ChipNow, NEW c \in Commands, NEW edge \in BOOLEAN, Select(c, edge)
  PROVE  ChipNow'
<1>1. SendsCommand(c)
  BY EepromAssumption
<1>2. /\ c \in Seq({0, 1}) /\ c # << >> /\ Skip(c) \in {0, 1} /\ Started(c) \in Seq({0, 1}) /\ Started(c)[1] = 1
      /\ Len(c) = Len(Started(c)) + Skip(c) /\ (Skip(c) = 1 => c[1] = 0)
  BY <1>1, StartedBits
<1>3. Len(c) \in Nat /\ Len(c) >= 1 /\ c[1] \in {0, 1}
  BY <1>2
<1> DEFINE bit == IF edge THEN c[1] ELSE 0
<1>4. /\ BeginCommand(bit) /\ UNCHANGED <<output, address, writeEnabled, storage, modified>>
      /\ chipSelected' = TRUE /\ command' = c /\ sent' = (IF edge THEN 1 ELSE 0) /\ read' = << >> /\ promise' = promise
  <2>1. ~chipSelected /\ (edge => ~clockHigh) /\ WritePins(TRUE, edge, IF edge THEN c[1] ELSE 0)
    BY DEF Select
  <2>2. (IF ~clockHigh /\ edge THEN (IF edge THEN c[1] ELSE 0) ELSE 0) = bit
    BY <2>1
  <2>3. /\ BeginCommand(IF ~clockHigh /\ edge THEN (IF edge THEN c[1] ELSE 0) ELSE 0)
        /\ UNCHANGED <<output, address, writeEnabled, storage, modified>> /\ chipSelected' = TRUE
    BY <2>1 DEF WritePins
  <2> QED BY <2>2, <2>3 DEF Select
<1>5. bit \in {0, 1} /\ phase' = "COMMAND" /\ shift' = bit /\ bitCount' = bit
  BY <1>3, <1>4 DEF BeginCommand
<1>6. ChipTyped(phase', shift', output', bitCount', address')
  <2>1. ChipTyped(phase, shift, output, bitCount, address)
    BY DEF ChipNow, ChipOK
  <2> QED BY <1>4, <1>5, <2>1 DEF ChipTyped
<1>7. Clocked(phase', shift', output', bitCount', address', storage', Started(c), sent' - Skip(c), read')
  <2>1. CASE edge /\ c[1] = 1
    <3>1. Skip(c) = 0 /\ sent' = 1 /\ bit = 1 /\ Started(c) = c /\ sent' - Skip(c) = 1
      BY <1>4, <2>1 DEF Skip, Started
    <3>2. NumberOf(SubSeq(c, 1, 1)) = 1
      <4>1. 1 <= 0 + 1 /\ 0 + 1 <= Len(c) /\ 1 <= 1 /\ 1 \in Nat /\ 0 \in Nat /\ 0 + 1 = 1
        BY <1>3
      <4>2. NumberOf(SubSeq(c, 1, 0 + 1)) = 2 * NumberOf(SubSeq(c, 1, 0)) + c[0 + 1]
        BY <1>2, <4>1, PartGrows, SMT
      <4>3. NumberOf(SubSeq(c, 1, 0)) = 0
        <5>1. NumberOf(SubSeq(c, 0 + 1, 0)) = 0
          BY <1>2, PartBegins
        <5> QED BY <4>1, <5>1
      <4> QED BY <2>1, <4>1, <4>2, <4>3
    <3>3. CodePart(phase', shift', bitCount', c, 1, read')
      BY <1>4, <1>5, <3>1, <3>2 DEF CodePart
    <3> QED BY <3>1, <3>3 DEF Clocked
  <2>2. CASE ~(edge /\ c[1] = 1)
    <3>1. bit = 0 /\ sent' - Skip(c) <= 0
      <4>1. CASE edge
        <5>1. c[1] = 0
          BY <1>3, <2>2, <4>1
        <5> QED BY <1>4, <4>1, <5>1 DEF Skip
      <4>2. CASE ~edge
        <5>1. sent' = 0 /\ Skip(c) \in {0, 1}
          BY <1>2, <1>4, <4>2
        <5> QED BY <4>2, <5>1
      <4> QED BY <4>1, <4>2
    <3> QED BY <1>4, <1>5, <3>1 DEF Clocked, AtRest
  <2> QED BY <2>1, <2>2
<1>8. sent' \in Nat /\ sent' <= Len(c)
  BY <1>3, <1>4
<1>9. /\ writeEnabled' \in BOOLEAN /\ chipSelected' \in BOOLEAN /\ storage' \in Storages
      /\ promise' = [enabled |-> writeEnabled', words |-> storage']
  BY <1>4 DEF ChipNow, ChipOK
<1> HIDE DEF bit
<1> QED BY <1>1, <1>4, <1>6, <1>7, <1>8, <1>9 DEF ChipNow, ChipOK

\* Letting go of the chip forgets what was clocked in and nothing else.
LEMMA ReleaseStays ==
  ASSUME ChipNow, Release
  PROVE  ChipNow'
<1>1. /\ BeginCommand(0) /\ UNCHANGED <<output, address, writeEnabled, storage, modified>>
      /\ chipSelected' = FALSE /\ command' = << >> /\ sent' = 0 /\ promise' = promise
  BY DEF Release, WritePins
<1>2. AtRest(phase', shift', bitCount')
  BY <1>1 DEF BeginCommand, AtRest
<1>3. ChipTyped(phase', shift', output', bitCount', address')
  <2>1. ChipTyped(phase, shift, output, bitCount, address)
    BY DEF ChipNow, ChipOK
  <2> QED BY <1>1, <1>2, <2>1 DEF ChipTyped, AtRest
<1>4. /\ writeEnabled' \in BOOLEAN /\ storage' \in Storages
      /\ promise' = [enabled |-> writeEnabled', words |-> storage']
  BY <1>1 DEF ChipNow, ChipOK
<1> QED BY <1>1, <1>2, <1>3, <1>4 DEF ChipNow, ChipOK

\* A save state holds the chip and what the game had sent, which fit together.
LEMMA SaveStays ==
  ASSUME ChipNow, Save
  PROVE  ChipNow' /\ ChipSaved'
<1>1. state' = <<<<phase, shift, output, bitCount, address, writeEnabled, chipSelected, clockHigh, dataOut, dataIn>>,
                 storage, <<command, sent, read, promise>>>>
  BY DEF Save, pins, game
<1>2. ChipOK(phase, shift, output, bitCount, address, writeEnabled, chipSelected, storage, command, sent, read, promise)
  BY DEF ChipNow
<1>3. ChipSaved'
  BY <1>1, <1>2 DEF ChipSaved
<1>4. ChipNow'
  BY DEF Save, ChipNow, pins, game
<1> QED BY <1>3, <1>4

LEMMA LoadStays ==
  ASSUME ChipSaved, Load
  PROVE  ChipNow' /\ ChipSaved'
<1>1. PICK p1, p2, p3, p4, p5, p6, p7, p8, p9, p10, w, g1, g2, g3, g4 :
        /\ state = <<<<p1, p2, p3, p4, p5, p6, p7, p8, p9, p10>>, w, <<g1, g2, g3, g4>>>>
        /\ ChipOK(p1, p2, p3, p4, p5, p6, p7, w, g1, g2, g3, g4)
  BY DEF ChipSaved, Load
<1>2. /\ phase' = p1 /\ shift' = p2 /\ output' = p3 /\ bitCount' = p4 /\ address' = p5
      /\ writeEnabled' = p6 /\ chipSelected' = p7
      /\ command' = g1 /\ sent' = g2 /\ read' = g3 /\ promise' = g4 /\ storage' = w /\ state' = << >>
  BY <1>1 DEF Load
<1>3. ChipNow'
  BY <1>1, <1>2 DEF ChipNow
<1> QED BY <1>2, <1>3 DEF ChipSaved

LEMMA EepromStays == EepromInv /\ [EepromNext]_eepromVars => EepromInv'
<1> SUFFICES ASSUME EepromInv, [EepromNext]_eepromVars PROVE EepromInv'
  OBVIOUS
<1>0. ChipNow /\ ChipSaved
  BY DEF EepromInv
<1>a. ASSUME state' = state PROVE ChipSaved'
  BY <1>0, <1>a DEF ChipSaved
<1>1. ASSUME NEW c \in Commands, NEW edge \in BOOLEAN, Select(c, edge) PROVE EepromInv'
  <2>1. state' = state
    BY <1>1 DEF Select
  <2> QED BY <1>0, <1>1, <1>a, <2>1, SelectStays DEF EepromInv
<1>2. CASE BitLow
  <2>1. Still /\ UNCHANGED <<chipSelected, command, sent, read, promise, state>>
    BY <1>2 DEF BitLow, WritePins, game
  <2> QED BY <1>0, <1>a, <2>1, StillStays DEF EepromInv, Still
<1>3. CASE BitHigh
  <2>1. chipSelected /\ state' = state
    BY <1>3 DEF BitHigh
  <2> QED BY <1>0, <1>3, <1>a, <2>1, WordsTyped, BitTaken DEF EepromInv
<1>4. CASE Release
  <2>1. state' = state
    BY <1>4 DEF Release
  <2> QED BY <1>0, <1>4, <1>a, <2>1, ReleaseStays DEF EepromInv
<1>5. CASE Glitch
  <2>1. Still /\ chipSelected' = FALSE /\ ~chipSelected /\ UNCHANGED <<command, sent, read, promise, state>>
    BY <1>5 DEF Glitch, WritePins, game
  <2>2. chipSelected \in BOOLEAN
    BY <1>0 DEF ChipNow, ChipOK
  <2> QED BY <1>0, <1>a, <2>1, <2>2, StillStays DEF EepromInv, Still
<1>6. CASE ConsumeModified
  <2>1. UNCHANGED pins /\ UNCHANGED game /\ UNCHANGED storage /\ UNCHANGED state
    BY <1>6 DEF ConsumeModified
  <2>2. UNCHANGED <<phase, shift, output, bitCount, address, writeEnabled, chipSelected, command, sent, read, promise>>
    BY <2>1 DEF pins, game
  <2> QED BY <1>0, <1>a, <2>1, <2>2, StillStays DEF EepromInv
<1>7. CASE Save
  BY <1>0, <1>7, SaveStays DEF EepromInv
<1>8. CASE Load
  BY <1>0, <1>8, LoadStays DEF EepromInv
<1>9. CASE UNCHANGED eepromVars
  <2>1. Still /\ UNCHANGED <<chipSelected, command, sent, read, promise, state>>
    BY <1>9 DEF eepromVars, pins, game, Still
  <2> QED BY <1>0, <1>a, <2>1, StillStays DEF EepromInv, Still
<1> QED BY <1>1, <1>2, <1>3, <1>4, <1>5, <1>6, <1>7, <1>8, <1>9 DEF EepromNext

LEMMA EepromInvHolds == EepromInv => EepromHoldsWrites
<1> SUFFICES ASSUME EepromInv PROVE EepromHoldsWrites
  OBVIOUS
<1>1. /\ ChipTyped(phase, shift, output, bitCount, address)
      /\ storage = promise.words
      /\ ~chipSelected => command = << >>
      /\ chipSelected \in BOOLEAN /\ sent \in Nat
      /\ chipSelected =>
           /\ SendsCommand(command) /\ sent <= Len(command)
           /\ Clocked(phase, shift, output, bitCount, address, storage, Started(command), sent - Skip(command), read)
  <2>1. ChipNow
    BY DEF EepromInv
  <2> QED BY <2>1 DEF ChipNow, ChipOK
<1>2. EepromTypeOK
  <2>1. shift \in WordRange /\ output \in WordRange
    BY <1>1, FitsWord DEF ChipTyped
  <2>3. bitCount \in 0..15 /\ address \in 0..127
    BY <1>1 DEF ChipTyped
  <2>4. phase \in {"COMMAND", "READ_DATA", "WRITE_DATA", "WRITE_ALL_DATA"}
    BY <1>1 DEF ChipTyped
  <2> QED BY <2>1, <2>3, <2>4 DEF EepromTypeOK
<1>3. ASSUME Sending, Rest, Reads(Started(command)) PROVE NumberOf(read) = Word(At(Started(command)))
  <2> DEFINE b == Started(command)  j == sent - Skip(command)
  <2>1. /\ SendsCommand(command) /\ sent <= Len(command)
        /\ Clocked(phase, shift, output, bitCount, address, storage, b, j, read)
    BY <1>1, <1>3 DEF Sending
  <2>2. PICK n \in {11, 27}, k \in {0, 1} : n = Len(b) /\ k = Skip(command) /\ Len(command) = Len(b) + Skip(command)
    BY <2>1, StartedBits, CommandLength
  <2>3. sent >= Len(command)
    BY <1>3 DEF Rest
  <2>4. PICK s \in Nat : s = sent
    BY <1>1
  <2>5. s = n + k
    <3>1. Len(command) = n + k
      BY <2>2
    <3> QED BY <2>1, <2>3, <2>4, <3>1
  <2>6. j = n
    BY <2>2, <2>4, <2>5
  <2> HIDE DEF b, j
  <2>7. AllTaken(phase, shift, bitCount, storage, b, j, read)
    <3>1. j \in Int /\ j > 10 /\ ~(j < n)
      BY <2>2, <2>6
    <3>2. ~CodePart(phase, shift, bitCount, b, j, read)
      BY <3>1 DEF CodePart
    <3>3. ~DataPart(phase, shift, output, bitCount, address, storage, b, j, read)
      <4>1. ASSUME Len(b) = 27 PROVE ~(j < 27)
        BY <2>2, <2>6, <4>1
      <4> QED BY <4>1 DEF DataPart
    <3>4. ~(j <= 0)
      BY <3>1
    <3> QED BY <2>1, <3>2, <3>3, <3>4 DEF Clocked
  <2>8. NumberOf(read) = WordOf(storage, At(b))
    BY <1>3, <2>7 DEF AllTaken, b
  <2> QED BY <2>8 DEF b, Word, WordOf
<1> QED BY <1>1, <1>2, <1>3 DEF EepromHoldsWrites

(* For any number of words the storage holds what the commands clocked in to *)
(* the end wrote, in their order and only while writes were enabled, however *)
(* often the game lets go of the chip midway, clocks it unselected or saves  *)
(* and loads a state between two bits; and a read gives the word its address *)
(* names (mbc7_eeprom.cpp:41-125, 151-175).                                  *)
THEOREM EepromAlwaysHoldsWrites == EepromSpec => []EepromHoldsWrites
<1>1. EepromSpec => []EepromInv
  BY EepromStarts, EepromStays, PTL DEF EepromSpec
<1> QED BY <1>1, EepromInvHolds, PTL
=============================================================================
