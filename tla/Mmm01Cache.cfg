SPECIFICATION CartridgeSpec
CONSTANTS Chips = {"MBC3", "HUC3"} Steps = {1, 86399} StepBack = 30 Written = {0, 65, 255} MaxAccesses = 6
CONSTANTS RomSizes = {3, 4} MaxRomBanks = 4 MaxLoadedRomBanks = 3 Cells = {0, 1} Byte = {0, 1, 7, 96, 97, 98, 99}
          Original <- FourBanks Codes <- FourCodes MaxToggles = 2
CONSTANTS Words = 2 Commands <- EepromCommands MaxCommands = 3
CONSTANTS Kinds <- Ten BankCounts = {512} RamBanks = 2 Addresses <- CartAddresses Bytes <- CartBytes
INVARIANT Mmm01Mapped
CHECK_DEADLOCK FALSE
