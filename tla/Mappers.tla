-------------------------------- MODULE Mappers --------------------------------
(***************************************************************************)
(* The registers of the cartridge mappers (mbc.cpp, mmm01.cpp): what a     *)
(* write below 8000 and at A000-BFFF does, and which ROM and RAM banks the *)
(* processor then sees.  A write is an address of Addresses, which holds   *)
(* one for each register, and a value of Bytes.  The clocks and the MBC7's *)
(* EEPROM, which live behind these registers, have modules of their own.   *)
(***************************************************************************)
EXTENDS Integers, Sequences

CONSTANTS Kinds,        \* the mappers to model: names of RomFile's MBC enum
          BankCounts,   \* ROM sizes, in banks
          RamBanks,     \* number of RAM banks of 8 KiB
          Addresses(_), Bytes(_)   \* where the game writes and what, by mapper

ASSUME MapperAssumption ==
  /\ BankCounts \subseteq Nat \ {0, 1} /\ RamBanks \in Nat
  /\ \A kind \in Kinds : Addresses(kind) \subseteq Nat /\ Bytes(kind) \subseteq Nat

VARIABLES mbc, romBanks,
          reg,          \* the registers of Gameboy, by their names there
          mmm01,        \* Mmm01State, its banks and masks as sets of bits
          lower, upper, \* the banks mapped at 0000-3FFF and 4000-7FFF
          externRam,    \* the banks of RAM that hold something the game wrote
          opened        \* the latest write at 0000-1FFF was one that opens the RAM
mapperVars == <<mbc, romBanks, reg, mmm01, lower, upper, externRam, opened>>

Area(addr) == addr \div 4096
NormalizeBank(bank) == bank % romBanks
NonZero(bank) == IF bank = 0 THEN 1 ELSE bank
Enables(v) == v % 16 = 10
Unlocked(v) == IF mbc = "HUC1" THEN v # 14 ELSE Enables(v)

MapperInit ==
  /\ mbc \in Kinds /\ romBanks \in BankCounts
  /\ reg = [romBank |-> 1 % romBanks, ramBank |-> 0, ramEnabled |-> FALSE, memoryModel |-> 0,
            huC3Mode |-> 0, irMode |-> FALSE, camRegisters |-> FALSE,
            mbc7Ram |-> FALSE, latchReady |-> TRUE, latched |-> FALSE, rumble |-> 0]
  /\ mmm01 = [mapped |-> FALSE, ramEnabled |-> FALSE, multiplex |-> FALSE, modeLocked |-> FALSE,
              romBank |-> {0}, ramBank |-> {}, romMask |-> {}, ramMask |-> {}, mode |-> FALSE]
  /\ lower = IF mbc = "MMM01" THEN romBanks - 2 ELSE 0
  /\ upper = IF mbc = "MMM01" THEN romBanks - 1 ELSE 1 % romBanks
  /\ externRam = {}
  /\ opened = FALSE

\* refreshRomBank and refreshRamBank: an absent RAM bank maps unavailableRam.
RefreshRomBank(bank) == /\ reg' = [reg EXCEPT !.romBank = NormalizeBank(bank)]
                        /\ upper' = NormalizeBank(bank)
                        /\ UNCHANGED <<mmm01, lower, externRam>>
SetRegisters(r) == reg' = r /\ UNCHANGED <<mmm01, lower, upper, externRam>>
RefreshRamBank(bank) == SetRegisters([reg EXCEPT !.ramBank = bank])
Nothing == UNCHANGED <<reg, mmm01, lower, upper, externRam>>

WriteSram == /\ externRam' = externRam \cup ({reg.ramBank} \cap 0..(RamBanks - 1))
             /\ UNCHANGED <<reg, mmm01, lower, upper>>

\* What most mappers do at A000-BFFF, and with their enable register.
\* Mutant: the enable register is not asked.
RamAreaOpen(addr, enabled) == Area(addr) \in {10, 11} /\ WriteSram
RamArea(addr, enabled) == /\ Area(addr) \in {10, 11}
                          /\ IF enabled THEN WriteSram ELSE Nothing
EnableRam(addr, v) == Area(addr) \in {0, 1} /\ SetRegisters([reg EXCEPT !.ramEnabled = Enables(v)])
Ignored(addr, areas) == Area(addr) \in areas /\ Nothing

M0w(addr) == mbc = "MBC0" /\ (Ignored(addr, 0..7) \/ RamArea(addr, TRUE))

\* The board of ROCKMAN 99 numbers its banks differently.
M1Bank(v, rockmanMapper) == IF rockmanMapper THEN (IF v > 15 THEN v - 8 ELSE v)
                                             ELSE 32 * ((reg.romBank \div 32) % 8) + v
M1w(addr, v, rockmanMapper) ==
  /\ mbc = "MBC1"
  /\ \/ EnableRam(addr, v)
     \/ Area(addr) \in {2, 3} /\ RefreshRomBank(NonZero(M1Bank(v % 32, rockmanMapper)))
     \/ /\ Area(addr) \in {4, 5} /\ reg.memoryModel = 0
        /\ RefreshRomBank(NonZero((reg.romBank % 32) + 32 * (v % 4)))
     \/ Area(addr) \in {4, 5} /\ reg.memoryModel = 1 /\ RefreshRamBank(v % 4)
     \/ Area(addr) \in {6, 7} /\ SetRegisters([reg EXCEPT !.memoryModel = v % 2])
     \/ RamArea(addr, reg.ramEnabled)

M2w(addr, v) ==
  /\ mbc = "MBC2"
  /\ \/ EnableRam(addr, v)
     \/ Area(addr) \in {2, 3} /\ RefreshRomBank(NonZero(v))
     \/ Ignored(addr, 4..7)
     \/ RamArea(addr, reg.ramEnabled /\ addr < \hA200)

\* Clock registers 8-C are selected like a bank and kept out of the RAM window.
M3w(addr, v) ==
  /\ mbc = "MBC3"
  /\ \/ EnableRam(addr, v)
     \/ Area(addr) \in {2, 3} /\ RefreshRomBank(NonZero(v % 128))
     \/ /\ Area(addr) \in {4, 5}
        /\ IF v \in 0..3 \cup 8..12 THEN RefreshRamBank(v) ELSE Nothing
     \/ Ignored(addr, 6..7)
     \/ RamArea(addr, reg.ramEnabled /\ reg.ramBank \notin 8..12)

M5w(addr, v, hasRumble) ==
  /\ mbc = "MBC5"
  /\ \/ EnableRam(addr, v)
     \/ Area(addr) = 2 /\ RefreshRomBank(256 * (reg.romBank \div 256) + v)
     \/ Area(addr) = 3 /\ RefreshRomBank((reg.romBank % 256) + 256 * (v % 2))
     \/ /\ Area(addr) \in {4, 5}
        /\ SetRegisters([reg EXCEPT !.ramBank = IF hasRumble THEN v % 8 ELSE v % 16,
                                 !.rumble = IF hasRumble THEN (v \div 8) % 2 ELSE @])
     \/ Ignored(addr, 6..7)
     \/ RamArea(addr, reg.ramEnabled)

\* The sensor is latched by 55 at A000 and then AA at A010.
M7w(addr, v) ==
  /\ mbc = "MBC7"
  /\ \/ EnableRam(addr, v)
     \/ Area(addr) \in {2, 3} /\ RefreshRomBank(v % 128)
     \/ Area(addr) \in {4, 5} /\ SetRegisters([reg EXCEPT !.mbc7Ram = (v = \h40)])
     \/ Ignored(addr, 6..7)
     \/ /\ Area(addr) \in {10, 11}
        /\ LET port == IF reg.ramEnabled /\ reg.mbc7Ram THEN (addr \div 16) % 16 ELSE -1
           IN \/ port = 0 /\ v = \h55 /\ SetRegisters([reg EXCEPT !.latched = FALSE, !.latchReady = TRUE])
              \/ /\ port = 1 /\ v = \hAA /\ reg.latchReady
                 /\ SetRegisters([reg EXCEPT !.latched = TRUE, !.latchReady = FALSE])
              \/ /\ <<port, v>> # <<0, \h55>> /\ ~(port = 1 /\ v = \hAA /\ reg.latchReady)
                 /\ Nothing

H1w(addr, v) ==
  /\ mbc = "HUC1"
  /\ \/ Area(addr) \in {0, 1} /\ SetRegisters([reg EXCEPT !.irMode = (v = 14), !.ramEnabled = (v # 14)])
     \/ Area(addr) \in {2, 3} /\ RefreshRomBank(v % 64)
     \/ Area(addr) \in {4, 5} /\ RefreshRamBank(v % 4)
     \/ Ignored(addr, 6..7)
     \/ RamArea(addr, ~reg.irMode)

H3w(addr, v) ==
  /\ mbc = "HUC3"
  /\ \/ Area(addr) \in {0, 1} /\ SetRegisters([reg EXCEPT !.ramEnabled = Enables(v), !.huC3Mode = v])
     \/ Area(addr) \in {2, 3} /\ RefreshRomBank(NonZero(v))
     \/ Area(addr) \in {4, 5} /\ RefreshRamBank(v % 16)
     \/ Ignored(addr, 6..7)
     \/ RamArea(addr, reg.huC3Mode \notin 11..14 /\ reg.ramEnabled)

\* A capture, bit 0 of camera register 0, copies the picture into the RAM.
Camw(addr, v) ==
  /\ mbc = "MBC_POCKET_CAM"
  /\ \/ EnableRam(addr, v)
     \/ Area(addr) \in {2, 3} /\ RefreshRomBank(NonZero(v % 128))
     \/ Area(addr) \in {4, 5} /\ v < 16
        /\ SetRegisters([reg EXCEPT !.ramBank = v, !.camRegisters = FALSE, !.ramEnabled = TRUE])
     \/ Area(addr) \in {4, 5} /\ v >= 16
        /\ SetRegisters([reg EXCEPT !.camRegisters = TRUE, !.ramEnabled = FALSE])
     \/ Ignored(addr, 6..7)
     \/ RamArea(addr, reg.ramEnabled /\ ~reg.camRegisters)
     \/ /\ Area(addr) \in {10, 11} /\ reg.camRegisters /\ addr % 128 = 0 /\ v % 2 = 1
        /\ externRam' = externRam \cup {0}
        /\ UNCHANGED <<reg, mmm01, lower, upper>>

-----------------------------------------------------------------------------
(* MMM01: a menu in the last two banks sets up the block of banks its game   *)
(* may use and locks it by mapping it; masked bits keep what the menu wrote. *)

Weights == <<1, 2, 4, 8, 16, 32, 64>>
Bits(v) == {i \in 0..6 : (v \div Weights[i + 1]) % 2 = 1}
Number(bits) == LET bit(i) == IF i \in bits THEN Weights[i + 1] ELSE 0
                IN bit(0) + bit(1) + bit(2) + bit(3) + bit(4)
Field(bits, from, to) == {i - from : i \in bits \cap from..to}
\* Mutant: the masked bits change too.
Replaced(old, new, mask) == new
Kept(old, new, mask) == (old \cap mask) \cup (new \ mask)

Mmm01Write(m, addr, value) ==
  LET v == Bits(value)
      free == ~m.mapped
      low == Kept(m.romBank \cap 0..4, v \cap 0..4, m.romMask)
      ram == Kept(m.ramBank \cap 0..1, v \cap 0..1, m.ramMask)
  IN CASE Area(addr) \in {0, 1} ->
            [m EXCEPT !.ramEnabled = Enables(value),
                      !.ramMask = IF free THEN Field(v, 4, 5) ELSE @,
                      !.mapped = @ \/ 6 \in v]
       [] Area(addr) \in {2, 3} ->
            [m EXCEPT !.romBank = low \cup ((IF free THEN v ELSE @) \cap 5..6)]
       [] Area(addr) \in {4, 5} ->
            [m EXCEPT !.ramBank = ram \cup ((IF free THEN v ELSE @) \cap 2..6),
                      !.modeLocked = IF free THEN 6 \in v ELSE @]
       [] OTHER ->
            [m EXCEPT !.mode = IF m.modeLocked THEN @ ELSE 0 \in v,
                      !.romMask = IF free THEN Field(v, 1, 5) \ {0} ELSE @,
                      !.multiplex = IF free THEN 6 \in v ELSE @]

Mapping(m) ==
  LET low == m.romBank \cap 0..4
      mid == Field(m.romBank, 5, 6)
      ramLow == m.ramBank \cap 0..1
      switch == IF low \subseteq m.romMask THEN low \cup {0} ELSE low
      seen == IF m.mode THEN ramLow ELSE ramLow \cap m.ramMask
      Bank(middle, l) == NormalizeBank(128 * Number(Field(m.ramBank, 4, 5)) + 32 * Number(middle) + Number(l))
      Ram(l) == 4 * Number(Field(m.ramBank, 2, 3)) + Number(l)
  IN IF ~m.mapped
     THEN [lower |-> NormalizeBank(romBanks - 2), upper |-> NormalizeBank(romBanks - 1), ram |-> 0]
     ELSE IF m.multiplex
     THEN [lower |-> Bank(seen, low \cap m.romMask), upper |-> Bank(ramLow, switch), ram |-> Ram(mid)]
     ELSE [lower |-> Bank(mid, low \cap m.romMask), upper |-> Bank(mid, switch), ram |-> Ram(seen)]

\* refreshMmm01Banks follows every write: it copies what the mapping says.
Mmm01w(addr, v) ==
  /\ mbc = "MMM01"
  /\ \/ RamArea(addr, reg.ramEnabled)
     \/ /\ Area(addr) \in 0..7
        /\ mmm01' = Mmm01Write(mmm01, addr, v)
        /\ LET to == Mapping(mmm01')
           IN /\ lower' = to.lower /\ upper' = to.upper
              /\ reg' = [reg EXCEPT !.romBank = to.upper, !.ramBank = to.ram, !.ramEnabled = mmm01'.ramEnabled]
        /\ UNCHANGED externRam

MapperNext == \E addr \in Addresses(mbc), v \in Bytes(mbc) :
  /\ opened' = IF Area(addr) \in {0, 1} THEN Unlocked(v) ELSE opened
  /\ UNCHANGED <<mbc, romBanks>>
  /\ \/ M0w(addr) \/ M2w(addr, v) \/ M3w(addr, v)
     \/ \E rockmanMapper \in BOOLEAN : M1w(addr, v, rockmanMapper)
     \/ \E hasRumble \in BOOLEAN : M5w(addr, v, hasRumble)
     \/ M7w(addr, v) \/ H1w(addr, v) \/ H3w(addr, v) \/ Camw(addr, v) \/ Mmm01w(addr, v)
MapperSpec == MapperInit /\ [][MapperNext]_mapperVars
-----------------------------------------------------------------------------
MapperTypeOK ==
  /\ mbc \in Kinds /\ romBanks \in BankCounts
  /\ lower \in 0..(romBanks - 1) /\ upper \in 0..(romBanks - 1)
  /\ reg.romBank \in 0..(romBanks - 1) /\ reg.ramBank \in 0..15
  /\ mmm01.romBank \subseteq 0..6 /\ mmm01.romMask \subseteq 1..4 /\ mmm01.ramMask \subseteq 0..1

\* The bits of the banks' numbers that an MMM01's game cannot choose: the high
\* ones, the masked ones, and the two middle bits of the ROM register.  Those
\* two are ROM bank bits 5-6, or RAM bank bits 0-1 when they are multiplexed;
\* the low RAM register, masked by ramMask, is in the other place.
Block(m) ==
  LET middle == Field(m.romBank, 5, 6)
      masked == m.ramBank \cap m.ramMask
  IN [high |-> Field(m.ramBank, 4, 5), low |-> m.romBank \cap m.romMask, ram |-> Field(m.ramBank, 2, 3),
      middle |-> IF m.multiplex THEN masked ELSE middle,
      ramLow |-> IF m.multiplex THEN middle ELSE masked]
Inside(bank, m) ==
  LET middle == Bits((bank \div 32) % 4)
  IN /\ Bits(bank \div 128) = Block(m).high
     /\ Bits(bank % 32) \cap m.romMask = Block(m).low
     /\ (IF m.multiplex THEN middle \cap m.ramMask ELSE middle) = Block(m).middle
RamInside(bank, m) ==
  /\ Bits(bank \div 4) = Block(m).ram
  /\ Bits(bank % 4) \cap (IF m.multiplex THEN 0..1 ELSE m.ramMask) = Block(m).ramLow
\* A ROM of fewer than 512 banks shows itself again behind its end.
ShownInside(bank, m) == \E k \in 0..((511 - bank) \div romBanks) : Inside(bank + (k * romBanks), m)

(* The banks that are mapped are banks of the cartridge, and once the menu   *)
(* of an MMM01 has mapped a game, no sequence of writes of the game shows it *)
(* a ROM or a RAM bank that differs from the block the menu chose in a bit   *)
(* that is high, masked or of the ROM's middle two, nor moves the block      *)
(* (mmm01.cpp:43-67, 92-117).                                                *)
GameStaysInside ==
  []MapperTypeOK /\
  [][mmm01.mapped => /\ mmm01'.mapped /\ Block(mmm01') = Block(mmm01)
                     /\ ShownInside(lower', mmm01) /\ ShownInside(upper', mmm01)
                     /\ RamInside(reg'.ramBank, mmm01)]_mapperVars

(* The battery RAM of a cartridge with an enable register changes only while *)
(* the latest write to that register opened it: over bank switches, infrared *)
(* and mode changes in between (mbc.cpp).  The camera's bank register opens  *)
(* the RAM too (mbc.cpp:514) and MBC0 and the HuC1 at power-on have it open. *)
ClosedRamKept == [][externRam' # externRam /\ mbc \notin {"MBC0", "HUC1", "MBC_POCKET_CAM"} => opened]_mapperVars

(* Both guards together.                                                     *)
MapperGuards == ClosedRamKept /\ GameStaysInside
=============================================================================
