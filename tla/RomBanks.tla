------------------------------- MODULE RomBanks -------------------------------
(***************************************************************************)
(* The cache of ROM banks (romfile.cpp) and the Game Genie codes patched   *)
(* into it (cheats.cpp).  Slot 0 holds bank 0 for good; the other slots    *)
(* hold the banks that were loaded last, in the order of their loading: a  *)
(* bank that is found in the cache keeps its place in the queue.  A bank   *)
(* is the cells that codes can touch; what the ROM holds there is Original.*)
(***************************************************************************)
EXTENDS Integers, Sequences, SequencesExt, FiniteSets

CONSTANTS RomSizes,            \* in banks
          MaxRomBanks, MaxLoadedRomBanks,
          Cells, Byte,
          Original,            \* by bank and cell
          Codes,               \* the codes of the cheat file: half, cell, anyByte, compare, data
          MaxToggles           \* bounds what the cheat menu does

ASSUME RomAssumption ==
  /\ RomSizes \subseteq 2..MaxRomBanks /\ MaxRomBanks \in Nat
  /\ MaxLoadedRomBanks \in Nat /\ MaxLoadedRomBanks >= 2
  /\ Original \in [0..(MaxRomBanks - 1) -> [Cells -> Byte]]
ASSUME CodesAssumption ==
  Codes \in Seq([half : 0..1, cell : Cells, anyByte : BOOLEAN, compare : Byte, data : Byte])

VARIABLES multicart,     \* the cartridge is an MMM01, which maps both windows
          numRomBanks,
          bankSlotIDs,   \* by bank, -1 when it is not loaded
          slots,         \* romBankSlots: by slot, its cells and the bank they were read from
          lastBanksUsed,
          asked,         \* the banks the mapper selected for 0000-3FFF and 4000-7FFF
          memory,        \* the slots mapped there
          enabled,       \* by code
          patched,       \* by code, patchedBanks with patchedValues
          toggles
cache == <<bankSlotIDs, slots, lastBanksUsed>>
cheats == <<enabled, patched>>
bankVars == <<multicart, numRomBanks, cache, asked, memory, cheats, toggles>>

Banks == 0..(numRomBanks - 1)
NumLoadedRomBanks == IF numRomBanks <= MaxLoadedRomBanks THEN numRomBanks ELSE MaxLoadedRomBanks
Slots == 0..(NumLoadedRomBanks - 1)
Fresh(bank) == [bank |-> bank, cells |-> Original[bank]]
CodeIds == DOMAIN Codes

\* loadBanks: as many banks as there are slots, from the first.
BankInit ==
  /\ multicart \in BOOLEAN /\ numRomBanks \in RomSizes
  /\ bankSlotIDs = [b \in Banks |-> IF b < NumLoadedRomBanks THEN b ELSE -1]
  /\ slots = [s \in Slots |-> Fresh(s)]
  /\ lastBanksUsed = [i \in 1..(NumLoadedRomBanks - 1) |-> i]
  /\ asked = <<0, 1>> /\ memory = <<0, 1>>
  /\ enabled = [i \in CodeIds |-> FALSE]
  /\ patched = [i \in CodeIds |-> << >>]
  /\ toggles = 0

\* The cache and the codes' patches as one record, for the operations on them.
State == [ids |-> bankSlotIDs, slots |-> slots, queue |-> lastBanksUsed, enabled |-> enabled, patched |-> patched]
Becomes(s) == /\ bankSlotIDs' = s.ids /\ slots' = s.slots /\ lastBanksUsed' = s.queue
              /\ enabled' = s.enabled /\ patched' = s.patched

PatchedIn(s, i, bank) == \E p \in ToSet(s.patched[i]) : p.bank = bank
Covers(code, bank) == (code.half = 0) = (bank = 0)
ApplyCode(s, i, bank) ==
  LET code == Codes[i]
      slot == s.ids[bank]
      byte == s.slots[slot].cells[code.cell]
  IN IF /\ s.enabled[i] /\ Covers(code, bank)
        /\ code.anyByte \/ byte = code.compare
        /\ ~PatchedIn(s, i, bank)
     THEN [s EXCEPT !.slots[slot].cells[code.cell] = code.data,
                    !.patched[i] = Append(@, [bank |-> bank, value |-> byte])]
     ELSE s
ApplyGGCheatsToBank(s, bank) ==
  LET after[i \in 0..Len(Codes)] == IF i = 0 THEN s ELSE ApplyCode(after[i - 1], i, bank)
  IN after[Len(Codes)]

\* unapplyGGCheat gives the banks that are loaded their bytes back; no bank is
\* listed twice.
Restored(s, i, patches) ==
  [s EXCEPT !.patched[i] = << >>,
            !.slots = [t \in DOMAIN s.slots |->
              IF \E p \in patches : s.ids[p.bank] = t
              THEN [s.slots[t] EXCEPT !.cells[Codes[i].cell] =
                      (CHOOSE p \in patches : s.ids[p.bank] = t).value]
              ELSE s.slots[t]]]
\* Mutant: only the first patched bank gets its byte back.
UnapplyFirst(s, i) == Restored(s, i, IF s.patched[i] = << >> THEN {} ELSE {Head(s.patched[i])})
UnapplyGGCheat(s, i) == Restored(s, i, ToSet(s.patched[i]))

\* toggleCheat: a code that is switched on patches every bank that is loaded.
ApplyToLoaded(s, bank) == IF s.ids[bank] = -1 THEN s ELSE ApplyGGCheatsToBank(s, bank)
ApplyToAllLoaded(s) ==
  LET after[n \in 0..numRomBanks] == IF n = 0 THEN s ELSE ApplyToLoaded(after[n - 1], n - 1)
  IN after[numRomBanks]
ToggleOn(s, i) == ApplyToAllLoaded([s EXCEPT !.enabled[i] = TRUE])
ToggleOff(s, i) == [UnapplyGGCheat(s, i) EXCEPT !.enabled[i] = FALSE]
ToggleCheat(s, i, on) == IF on THEN ToggleOn(s, i) ELSE ToggleOff(s, i)

\* loadRomBank: the bank loaded longest ago makes room.
\* Mutant: the bank that made room is still found in its old slot.
LoadKeepsId(s, bank) ==
  IF s.ids[bank] # -1 THEN s
  ELSE LET slot == s.ids[Last(s.queue)]
       IN ApplyGGCheatsToBank([s EXCEPT !.ids[bank] = slot, !.slots[slot] = Fresh(bank),
                                        !.queue = <<bank>> \o Front(@)], bank)
Evicted(s, bank) ==
  LET out == Last(s.queue)
      slot == s.ids[out]
  IN [s EXCEPT !.ids = [@ EXCEPT ![out] = -1, ![bank] = slot], !.slots[slot] = Fresh(bank),
               !.queue = <<bank>> \o Front(@)]
LoadRomBank(s, bank) == IF s.ids[bank] # -1 THEN s ELSE ApplyGGCheatsToBank(Evicted(s, bank), bank)

\* refreshRomBank: the processor reads the slot until the next selection.
SelectBank(bank) ==
  /\ ~multicart
  /\ LET s == LoadRomBank(State, bank)
     IN Becomes(s) /\ memory' = [memory EXCEPT ![2] = s.ids[bank]]
  /\ asked' = [asked EXCEPT ![2] = bank]
  /\ UNCHANGED <<multicart, numRomBanks, toggles>>

\* refreshMmm01Banks: the lower bank is loaded first and its slot kept.
RefreshMmm01Banks(lower, upper) ==
  /\ multicart
  /\ LET s == LoadRomBank(State, lower)
         t == LoadRomBank(s, upper)
     IN Becomes(t) /\ memory' = <<s.ids[lower], t.ids[upper]>>
  /\ asked' = <<lower, upper>>
  /\ UNCHANGED <<multicart, numRomBanks, toggles>>

Toggle(i) == /\ toggles < MaxToggles /\ toggles' = toggles + 1
             /\ Becomes(ToggleCheat(State, i, ~enabled[i]))
             /\ UNCHANGED <<multicart, numRomBanks, asked, memory>>

\* loadCheats for the same game: the list is dropped and read anew.
Unloaded(s) ==
  LET after[i \in 0..Len(Codes)] == IF i = 0 THEN s ELSE ToggleOff(after[i - 1], i)
  IN after[Len(Codes)]
Loaded(s, flags) ==
  LET after[i \in 0..Len(Codes)] == IF i = 0 THEN s ELSE ToggleCheat(after[i - 1], i, flags[i])
  IN after[Len(Codes)]
LoadCheats(flags) ==
  /\ toggles < MaxToggles /\ toggles' = toggles + 1
  /\ Becomes(Loaded(Unloaded(State), flags))
  /\ UNCHANGED <<multicart, numRomBanks, asked, memory>>

BankNext == \/ \E bank \in Banks : SelectBank(bank)
            \/ \E lower, upper \in Banks : RefreshMmm01Banks(lower, upper)
            \/ \E i \in CodeIds : Toggle(i)
            \/ \E flags \in [CodeIds -> BOOLEAN] : LoadCheats(flags)
BankSpec == BankInit /\ [][BankNext]_bankVars
-----------------------------------------------------------------------------
BankTypeOK == /\ bankSlotIDs \in [Banks -> -1..(NumLoadedRomBanks - 1)]
              /\ slots \in [Slots -> [bank : Banks, cells : [Cells -> Byte]]]
              /\ \A i \in DOMAIN lastBanksUsed : lastBanksUsed[i] \in Banks \ {0}
              /\ memory[1] \in Slots /\ memory[2] \in Slots

\* The window shows the bank its mapper selected.
ShowsAsked(window) == slots[memory[window]].bank = asked[window]

(* The processor sees the banks its mapper selected, and a loaded bank is in *)
(* the slot the table names, over any sequence of loads, evictions and       *)
(* toggled codes: a mapped bank is never the one that makes room, except for *)
(* an MMM01 with more banks than the cache has slots, whose lower window may *)
(* show what is in the upper (romfile.cpp:183-206, mmu.cpp:26-39, 56-74).    *)
MappedIsAsked ==
  /\ BankTypeOK
  /\ ShowsAsked(2)
  /\ ShowsAsked(1) \/ (multicart /\ numRomBanks > MaxLoadedRomBanks /\ memory[1] = memory[2])
  /\ \A b \in Banks : bankSlotIDs[b] # -1 => slots[bankSlotIDs[b]].bank = b
  /\ ToSet(lastBanksUsed) = {b \in Banks \ {0} : bankSlotIDs[b] # -1}

(* The two windows of an MMM01 show the banks its registers name, also when  *)
(* the ROM has more banks than the cache has slots (mmu.cpp:56-74).          *)
Mmm01Mapped == multicart => ShowsAsked(1) /\ ShowsAsked(2)

\* Codes of their own: no other code is for the same byte.
Alone(i) == \A j \in CodeIds : j # i => Codes[j].cell # Codes[i].cell \/ Codes[j].half # Codes[i].half

(* A code that is switched off has left no byte behind in any loaded bank,   *)
(* whether its banks were evicted, loaded again or patched by other codes in *)
(* between, and no bank is patched by a code for another, unless two codes   *)
(* are for the same byte (cheats.cpp:133-181).  Nothing is promised of the   *)
(* codes that are on: a bank that is loaded anew after a code patched it     *)
(* shows the ROM's byte until that code is toggled (cheats.cpp:172).         *)
CheatOffMeansOff ==
  \A s \in Slots, c \in Cells :
    LET meant == {i \in CodeIds : Codes[i].cell = c /\ Covers(Codes[i], slots[s].bank)}
    IN slots[s].cells[c] # Original[slots[s].bank][c] /\ (\A i \in meant : Alone(i)) =>
         \E i \in meant : enabled[i] /\ slots[s].cells[c] = Codes[i].data

(* The processor sees the banks its mapper selected, and in them no byte of  *)
(* a code that is off (romfile.cpp:183-206, mmu.cpp:26-74,                   *)
(* cheats.cpp:133-181).                                                      *)
BanksAsAsked == MappedIsAsked /\ CheatOffMeansOff
=============================================================================
