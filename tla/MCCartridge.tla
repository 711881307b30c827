----------------------------- MODULE MCCartridge -----------------------------
(***************************************************************************)
(* A cartridge for TLC: its mapper, its clock, its serial EEPROM and the   *)
(* cache of its ROM's banks beside each other; a behaviour exercises one.  *)
(***************************************************************************)
EXTENDS CartClock, RomBanks, Mappers, Mbc7Eeprom

VARIABLE part
cartridgeVars == <<part, mapperVars, vars, eepromVars, bankVars>>

Ten == {"MBC0", "MBC1", "MBC2", "MBC3", "MBC5", "MBC7", "HUC1", "HUC3", "MBC_POCKET_CAM", "MMM01"}
CartAddresses(kind) == {0, \h2000, \h4000, \h6000, \hA000} \cup
                       CASE kind = "MBC5" -> {\h3000} [] kind = "MBC7" -> {\hA010}
                         [] kind = "MBC2" -> {\hA200} [] OTHER -> {}
CartBytes(kind) == IF kind = "MMM01" THEN {10, \h41, \h66} ELSE {0, 9, 14, \h22, \h40, \h55, \hAA}

SentBits(n, width) == [i \in 1..width |-> (n \div 2^(width - i)) % 2]
Send(op, special, addr) == <<1>> \o SentBits(op, 2) \o SentBits(64 * special + addr, 8)
EepromCommands ==
  {<<0>> \o Send(0, 3, 0), Send(0, 0, 0), Send(0, 2, 0), Send(3, 0, 1),
   Send(2, 0, 1) \o SentBits(0, 16),
   Send(1, 0, 1) \o SentBits(\hA005, 16), Send(0, 1, 0) \o SentBits(\h1234, 16)}

\* Codes for three bytes and two for a fourth; bank 3 has other bytes.
Code(half, cell, anyByte, compare, data) ==
  [half |-> half, cell |-> cell, anyByte |-> anyByte, compare |-> compare, data |-> data]
FourCodes == <<Code(1, 0, FALSE, 0, 99), Code(1, 1, TRUE, 0, 98), Code(0, 1, TRUE, 0, 97),
               Code(1, 1, TRUE, 0, 96)>>
FourBanks == [bank \in 0..3 |-> [cell \in 0..1 |-> IF bank = 3 THEN 7 ELSE cell]]

CartridgeInit == /\ MapperInit /\ Init /\ EepromInit /\ BankInit
                 /\ part \in {"mapper", "clock", "eeprom", "banks"}
                 /\ part # "mapper" => mbc = "MBC0"
                 /\ part # "clock" => chip = "MBC3" /\ autosave
                 /\ part # "banks" => ~multicart /\ numRomBanks = 4
CartridgeNext == /\ UNCHANGED part
                 /\ \/ part = "mapper" /\ MapperNext /\ UNCHANGED <<vars, eepromVars, bankVars>>
                    \/ part = "clock" /\ Next /\ UNCHANGED <<mapperVars, eepromVars, bankVars>>
                    \/ part = "eeprom" /\ EepromNext /\ UNCHANGED <<mapperVars, vars, bankVars>>
                    \/ part = "banks" /\ BankNext /\ UNCHANGED <<mapperVars, vars, eepromVars>>
CartridgeSpec == CartridgeInit /\ [][CartridgeNext]_cartridgeVars
=============================================================================
