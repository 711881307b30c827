# GameYob: models, model checking and proofs

GameYob is a Game Boy / Game Boy Color emulator for the Nintendo DS, the 3DS and
SDL.  This directory holds TLA+ modules for its core: the two machines linked
over a radio, the interpreter and the devices of the Game Boy, the host of the
Super Game Boy, the ways of picture and sound to the DS, and the files; the TLC
configurations that check them; and TLAPS proofs of the invariants that carry
the most weight.  Paths below are relative to `src/platform` unless they start
with `docs/`; `ds/nifi.cpp` is short for `ds/arm9/source/nifi.cpp`.

## 1. The system

### 1.1 Components

| Component | State it keeps | Hard behaviour | What makes it correct | Modules | Status |
|---|---|---|---|---|---|
| Wireless lockstep (`ds/nifi.cpp`, `common/gbmanager.cpp`) | frame counters, history of own samples, ring of received samples, pause flags, wait counter | lost, repeated, reordered packets; a menu that skips a call; a wait that must end | both consoles feed both Game Boys the same buttons in the same frame | `NifiLockstep` | modelled, proved |
| Wireless set-up (`ds/nifi.cpp`) | role, status, sequence numbers, retries, second Game Boy | two blocking threads and two interrupts; retries against late acknowledgements | both sides finish; a linked console holds the save its peer sent | `NifiSetup` | modelled, proved |
| Fragmented transfer (`ds/nifi.cpp`, `common/nifi_protocol.cpp`) | fragment being sent, `FragmentSequence`, `fragmentBuffer` | sessions that overlap, `malloc` failing | data arrives whole or not at all | `FragmentTransfer`, `WholeTransfer` | modelled, proved |
| Save file and autosave (`common/gameboy.cpp`, `mmu.cpp`, `mbc.cpp`, `menu.cpp`) | RAM, dirty sectors, autosave counters, border probe's copy, files | two Game Boys, six ways out of a probe, a reset between a write and its sync | the file holds the game's RAM, never a probe's, and what is marked soon enough | `SaveFile` | partly, proved |
| Processor of the Game Boy (`common/gbcpu.cpp`, `gameboy.cpp`) | registers, memory, IME, HALT | batches with registers in locals, the byte after HALT, interrupts between batches | a program sees one instruction after another | `GbOpcodes`, `GbInterpreter`, `GbProcessor` | modelled |
| Timers and LCD (`common/gameboy.cpp`) | counters, LY, STAT, TIMA | batches that overshoot events, end early or go back | every mode ends in its cycle, TIMA counts every cycle (exceptions in 5.11) | `LcdTimer` | modelled, proved |
| Local serial link (`common/gbmanager.cpp`, `gameboy.cpp`, `mmu.cpp`) | SB, SC, serial counters of two Game Boys, who runs | two clocks interleaved by opcodes | they meet at the cycle of the exchange; frames end | `LinkCable` | partly, proved |
| SGB host (`common/sgb_host*.cpp`) | 65C816, SPC700 subset, voices, video memory ports | programs cut by budgets and NMIs, transfers that fail half-way | a program is undisturbed by what interrupts it | `Sgb65816`, `SgbHost`, `SgbHostApu`, `SgbHostPpu` | modelled |
| SGB packets (`common/sgb.cpp`) | bit machine, multi-packet command, attribute map | packets given up, commands cut | a command paints what its bytes ask for | `SgbPackets` | modelled |
| Printer (`common/gbprinter.cpp`) | packet parser, image, status, file number | lost bytes, full card, power-off | an order makes one file, and the parser finds its place again | `GbPrinter` | modelled |
| Mappers, EEPROM, clock (`common/mbc.cpp`, `mmm01.cpp`, `huc1_rules.cpp`, `mbc7_eeprom.cpp`, `rtc.cpp`) | banking registers, EEPROM pins, clock registers | long register protocols, host time that jumps, power-offs | the mapped bank is the one selected; every second is counted; whole commands only | `Mappers`, `Mbc7Eeprom`, `CartClock` | modelled; all three proved |
| ROM bank cache, Game Genie (`common/romfile.cpp`, `mmu.cpp`, `cheats.cpp`) | slots, use order, patches | eviction of patched banks | the processor sees the bank it asked for, without the codes that are off | `RomBanks` | partly, proved |
| Scan lines (`ds/arm9/source/gbgfx.cpp`, `common/gbgfx_rules.h`) | records of changes, DS registers | changes only, and missed HBlanks | a line looks as if drawn in full | `ScanlineReplay` | partly, proved |
| Staged presentation, VBlank queue (`ds/arm9/source/gbgfx*`, `vblank_task_queue.h`) | three buffers, staged and live blocks, tasks | foreground against interrupt, a copy against the beam | a frame is shown whole, no change is forgotten, tasks run in order | `VideoCommit`, `VBlankQueue` | partly, proved |
| Sound (`ds/arm7/source/sound.c`, `ds/arm9/source/dssoundengine.cpp`, the engines of 3DS and SDL) | channels, FIFO, shared words, speakers | two processors, bounded FIFO, aborted waits, time in batches | what sounds is what the registers say; every change reaches the speakers | `SoundChannels`, `SoundHandover` | partly, proved |
| Save states, memory map | - | - | - | with the components they belong to | partly |
| SGB border, menus, configuration, text, GBS, debugger, 3DS wireless, front ends, traces, vendored code | - | user interface and I/O | - | - | not modelled |

`PROJECT.json` lists them all, with what each module leaves out.

### 1.2 How they interact

* The **main loop** runs `mgr_runFrame`, then `mgr_updateVBlank`.  The second
  polls the keys, may open the menu and return, calls `nifiUpdateInput`, and
  runs each Game Boy's `updateVBlank` (border probe, autosave, printer).
* The **packet interrupt** runs between any two steps of the main thread.  It
  shares the receive ring, `nextSequence`, `acknowledgedSequence`,
  `receivedSram`, `fragmentBuffer` and the second Game Boy's RAM with it.
* The **set-up** hands over to the **lockstep** at `nifiStartLink`'s return, and
  moves save data through the **fragmented transfer**.
* The **second Game Boy** `gb2` is made by a local or a wireless link; both
  Game Boys share `probingForBorder`, the autosave option and the suspend file.
* The **interpreter** runs in batches up to the next event; timers, LCD, serial
  port and sound catch up when a batch ends.
* The game's writes to video registers go into a **line's record**; the HBlank
  interrupt replays it, and **presentation** copies tiles and maps in VBlank.
* The **ARM9** leaves sound changes in shared memory and commands in a FIFO; the
  **ARM7** takes them in its FIFO, timer and VBlank handlers.

## 2. Plan

The order was: the link first, because two machines must agree over a medium
that loses packets; the save file, because its errors cost the player data;
the machine itself and the devices with long protocols; the DS side of picture
and sound.  All modules the plan named are written and checked.  The proofs
follow the same order, and stand where section 5 says.

Not proved, though nothing but work stands in the way: the packet machine and
the files of the printer, and that the sound engine's channels agree with the
registers.  Section 5.16 says what is out of the prover's reach and why.

| Module | Composes or implements |
|---|---|
| `NifiLockstep` | main loops, packet interrupts and radio |
| `NifiSetup` | threads, interrupts and radio; ends where the lockstep begins |
| `FragmentTransfer` | implements `WholeTransfer`, the promise of a transfer |
| `SaveFile` | two Game Boys, files and player |
| `GbInterpreter` | batches of `GbOpcodes`; implements `GbProcessor`, one instruction after another |
| `SgbHost` | programs of `Sgb65816` with budgets and NMIs |
| `MCLink` | `FragmentTransfer`, `LinkCable`, `GbPrinter` |
| `MCSgbHost` | `SoundHandover`, `SoundChannels`, `SgbHost`, `SgbHostApu`, `SgbHostPpu` |
| `MCCartridge` | `Mappers`, `CartClock`, `Mbc7Eeprom`, `RomBanks` |
| `MCScreen` | `VideoCommit`, `ScanlineReplay`, `LcdTimer`, `VBlankQueue`, `SgbPackets` |

The last four put components that share no state into one run: the variable
`part` says whose behaviour it is, and the variables of the others stay at
their first values, or 0.  The components with proofs are EXTENDed there, so
that the runs and the theorems speak of the same definitions; the rest are
instances.

## 3. The modules

### 3.1 NifiLockstep

One action `UpdateInput` is one turn of a console's main loop: the rest of
`mgr_updateVBlank` from `nifiUpdateInput` on, and the `mgr_runFrame` after it.
Its disjuncts are the three outcomes of `nifiUpdateInput`:

* `UpdateInputReady`: the peer's buttons are in the ring; both pads are set, the
  pause state saved by `nifiPause` is restored, and the frame runs;
* `UpdateInputMissing`: they are not; the call is counted, a request is sent on
  the first and every tenth wait, and the emulation is paused;
* `GiveUpLink`: the 120th wait; `nifiStop`, and the frame runs alone.

`SampleAndSend` is what all three share, in the code's order: the slot of the
frame before last is released, the own buttons are read (for the client from
the history *before* it is shifted), the history is shifted, the sample is
recorded for requests, the hash is stored.  `OpenTheMenu` is the early return
of `mgr_updateVBlank`, after which the main loop still runs a frame.
`ReceiveInput`, `ReceiveRequest` and `ReceiveHash` are `handlePacketCommand`.

The history variables `applied` (the buttons of each frame run), `stalled`,
`skips` and `desync` hold what the properties speak of.  The state hash is
`applied` itself: emulation is deterministic, so equal input sequences give
equal states, and the model has no hash collisions.

**The radio** is the set of all packets ever sent.  A packet stays in it, so it
can be received again (duplication), at any later time (delay, reordering), or
never (loss).

### 3.2 NifiSetup

Each console has a program counter for its main thread, blocked in a menu, in
`nifiSendPacket` or in `nifiReceiveSram`, and `Receive` is the packet
interrupt, which acknowledges first and handles then, as the code does.
`Exchange` is the order in `nifiStartLink`: the host sends and then receives, the
client receives and then sends.  Failures are actions of their own:
`HandshakeFails`, `SaveNotSent` (no acknowledgement, `nifiStop`), `DriverFails`
(the driver refuses: no `nifiStop`, and only the handshake looks), `SendFails` (no
memory for a copy of the save data: nothing is sent, and the caller goes on),
`DropSave` (no memory for the fragments of a packet that has been acknowledged),
`ReceiveTimesOut`, `StartGb2Fails`, `LinkLost`.  `save` is the RAM of `gb2` by
origin: none, left from before, blank, or the peer's.

`StartsInOrder` has three parts: a packet is sent again at most `Retries` times and
its sender can hear the answer (`SendsAreHeard`); a linked host's client has got the
host's save data (`HostStartsLast`); and a linked client's save data is in the
host's second Game Boy (`ClientStartsStored`).  The last excepts a client that failed to
send, for the driver or for memory (`ds/nifi.cpp:605-608`), and goes on to link; a
host with no memory for what it has acknowledged (`ds/nifi.cpp:377-382`); and a
client that entered the menu with a second Game Boy left over: it may take an old
packet for the host's data and answer before the host has a Game Boy to put it in.

A packet is consumed when received, and sent again by a retry; a lost packet is
one nobody receives.  Save data is one packet; `FragmentTransfer` opens it up.
The mode in which only one console sends a save and the client takes it into its
main Game Boy (the SGB multiplayer link) is not modelled.

### 3.3 WholeTransfer and FragmentTransfer

`WholeTransfer` is the promise: a set of transfers begun, a set of data
received, and only the complete data of a begun transfer is ever received.
`FragmentTransfer` is the protocol: `BeginTransfer`, `NextFragment`,
`SendAgain`, `GiveUp`, `TransferDone` of the sender; `ReceiveFragment`, with one
disjunct per verdict of `FragmentSequence::accept` plus the failing `malloc`, of
the receiver; `Search`, `Join`, `StopLink` for the menus around it.  A
searching client hears every session, a connected one its own.  Fragments and
acknowledgements sent stay available for ever.  The host sends and the client
receives; the other direction is stricter, as a host only ever hears its own
session.

The refinement mapping takes `received` to the data handed on by a client that
was connected and had joined `clean`, holding no fragments of another session.
Without that condition the fragments of a transfer given up mix with those of
the next one of the same size (section 6).

### 3.4 SaveFile

Objects are records, and the methods of `Gameboy` are operators from record to
record, with a second operator for what each makes of the files (`SaveGame` and
`Saved`, `GameboySyncAutosave` and `Synced`, ...).  The actions are the callers:
the guest program (`WriteSram`, `WriteClock`, `CaptureImage`, `BorderFound`),
`UpdateVBlank`, and the player's commands.  `Boot` is `Gameboy::init`: it may
cancel, end, keep or begin a border probe, clears the dirty marks, and resumes a
suspend state.

RAM and files are functions from cells to contents; the cells are the 512-byte
sectors and the clock that ends the file.  The contents tell apart only who
wrote them: the game (`Data`), a probe (`Scratch`), nobody because a read failed
(`Unread`), or nothing because the file is short (`Missing`).  Slot 1 is the
`.sav` file and slot 2 the `.sa2` file of a local link.  There are at most two
objects, `gameboy` and `gb2` (`GbsAssumption`).

Three pieces of state are history: `unmarked` names the sectors that may differ
from the file without a mark (changed with autosave off, by a camera capture, by
a state, or whose mark a reset cleared), `waited` counts the VBlanks for which,
with autosave on, a sector that is not among them has differed from the file
(`Waits` compares RAM and file, not marks), and `adopted` says that a state was
saved of RAM no file was read into.  `AutosaveIsTimely` therefore excepts what
autosave was never told of and what a reset made it forget: such a change may
wait for ever, as `save_exit` shows, until the game writes its sector again.
File writes do not fail in the model: `file_write` returns nothing and the code
has no reaction to a failure.

### 3.5 GbOpcodes, GbProcessor and GbInterpreter

`GbOpcodes` is `runOpcode` and the table behind 0xCB as one operator from
register file and memory to the same, with the cycles each opcode is charged;
recursion-free, on bytes and words.  `GbProcessor` is the abstract machine:
`Instruction` runs one instruction, `Interrupt` is taken between two, and the
byte after a HALT with interrupts off is fetched twice, because the program
counter does not move on.  `GbInterpreter` is `runEmul`: a batch runs opcodes with
the registers in locals until its cycles are used up, something ends it, or the
processor halts (`Opcode`, `End`); then devices may request interrupts, one more
opcode runs (`Check`), and `HandleInterrupts` serves one.  The byte after HALT is
fetched twice by a copy of it in HALT's place, and HALT put back later.  The refinement
maps each opcode to an `Instruction`, the service to an `Interrupt`, and the ends
of batches to stutters.

### 3.6 Sgb65816, SgbHost, SgbHostApu and SgbHostPpu

`Sgb65816` has every opcode and address mode.  `SgbHost` runs programs of it as
`JUMP` and the frames do: with an instruction budget, cut by NMIs, waiting in
WAI.  `SgbHostApu` is the subset of the SPC700 with `SOU_TRN`, `SOUND` and the
voices' BRR samples; `SgbHostPpu` the ports to video memory and the prototype
objects.  They run beside each other as in the code; a program's writes to the
picture ports are those of `SgbHostPpu`.

### 3.7 GbPrinter and SgbPackets

The printer is a machine fed one byte at a time, with the `IdleFrames` after
which it forgets a packet; bytes are lost, changed or given up (`MaxFaults`),
the card is full or the power goes.  `SgbPackets` is fed pulses of P1: games are
sequences of commands, of one packet or several, given up at a bit and begun
again, or suspended.

### 3.8 Mappers, Mbc7Eeprom, CartClock and RomBanks

`Mappers` has one write handler per mapper and the register machine of the
MMM01, whose registers are sets of bits, so that a write mask is `Kept`: the
masked bits of the old value and the others of the new.  `Inside` says which
banks belong to the block an MMM01's menu chose, and `ShownInside` allows for
a ROM of fewer than 512 banks, which shows itself again behind its end.

`Mbc7Eeprom` follows CS, CLK and DI pin by pin, with states between; `CartClock`
lets host time pass, jump back (just behind an access, and not to 1970), and the
console be saved, loaded and switched off.  A register write reaches the file with
autosave on, as `writeClockStruct` asks `autoSavingEnabled`, and otherwise when the
game is saved or autosave goes on (`SetAutoSave`); `filed` is what the clock in the
file has lived, and `unsaved` says that it may differ from `lived`.  The game is
taken to have its save file, the other thing `writeClockStruct` asks.

`RomBanks` is the cache of ROM banks with Game Genie codes patched into the banks
that are loaded.  The cache and the patches are one record, and what the code
does to them (`LoadRomBank`, `ApplyGGCheatsToBank`, `UnapplyGGCheat`) are operators
from record to record; the actions are the callers: `SelectBank` of a mapper that
switches the upper window, `RefreshMmm01Banks` of one that switches both, `Toggle` of
the cheat menu, and `LoadCheats`.  The history variable `asked` holds the banks the
mapper selected.

### 3.9 LinkCable, LcdTimer, SoundChannels and VBlankQueue

`LinkCable` is `mgr_runFrame` with two Game Boys, at opcodes of 1 to `LongOp`
cycles: who is behind runs, the one that has sent a byte stands still, and the
exchange writes both serial registers.  A turn may end with an interrupt, of any
device: one more opcode runs, which may write SC (`LateOpcode`), the interrupt is
served, and their cycles (`Late`, at most `LongOp + Service`) pass in the next turn.

`LcdTimer` runs a batch of at most `MaxWait` cycles up to the next event.  It may
overshoot by `Over`, or end early (an interrupt sets `cyclesToExecute` to -1, a HALT
leaves, another device has its event), down to nothing (`Lengths`); then the clocks
catch up (`Batch`).  Any writes to LCDC, LYC, TIMA, TMA and TAC come between
(`WriteClocks`).  Where the LCD is switched on late in a long batch, its event is
past, and a halted processor takes a batch of so many cycles less than none
(`SleepBack`).  Three history variables hold what the clocks are compared with:
`counted`, the cycles since the LCD's lines began to be counted; `exact`, a timer that
counts every cycle; and `written`, what the batch wrote to.  The lines of an LCD that
is switched off and on within a batch, which keeps the counter of its mode, are
counted as if line 0 had begun as much earlier: that line is short, and the modes
from there on are on time.

`SoundChannels` lets batches of any length pass and has an engine of the DS, the
3DS and SDL each.  `VBlankQueue` has foreground and interrupt on two arrays that take
turns, and callbacks that ask for others (`Follow`).

### 3.10 ScanlineReplay and VideoCommit

`ScanlineReplay` records in `DrawScanlineP2` what changed since the line above,
over what the slot of two frames ago holds, and replays it in `HBlank`.  The
history variables `truth` and `shown` hold every line as a full drawing would
have it.  `MissHBlank` is an interrupt that comes too late, never twice in a row.
Tiles and sprites are values; the frame is published between two pictures.

`VideoCommit` has the beam (`line`), the interrupt, and the foreground with a
program counter: staging (`Present`, `StageFrame`), the commit (`Service`,
`CopyBlock`, `CheckCopy`, `Publish`, `CheckFinal`), which reads the clock before
it publishes and after, and the waits.

### 3.11 SoundHandover

The ARM9 changes shared memory (`Game`, `UpdateSound`, `SgbBuffer`) and has commands
to hand over (`todo`): each is left in `message` for the ARM7's timer, at a cycle
the ARM9 then waits for, or sent through the FIFO (`Synchronize`, `Decide`, `Wait`).
The ARM7 takes them in its FIFO handler (`Receive`) and in two steps in its timer
handler (`TimerCallback`, `Take`), as it clears `cycles` before it reads `message`.
A command carries no value; the ARM7 reads shared memory when it executes it.
`lost` is history: a command refused by a full FIFO, or replaced while taken.

## 4. The runs

Twelve runs; nine pass.  Bounds named `Max...` and `Players` only bound the model;
the others are the code's constants, made small.

| Run | Checks | Shows |
|---|---|---|
| `lockstep` | `LockstepAgreement`, `WaitEnds` | both consoles' buttons free, pause and give-up: equal buttons in equal frames, and every wait ends |
| `lockstep_menu` | `RanWithInput`, `HistoryCovers`, `PendingInputKept` | the menu skips a call: how far a console may run ahead, that the history covers the peer, and that no button is replaced before its frame |
| `setup` | `FreshLinkHoldsPeerSave`, `StartsInOrder`, `SetupEnds` | handshake and exchange under loss, retries and failures |
| `link` | `Assembled`, `DoneMeansDelivered`, `ImplementsWholeTransfer`; `StandsStill`, `LosesByAnOpcode`, `LinkedFramesEnd`; `PrinterInStep`, `FilesAreOrders` | what goes over a cable or the radio: assembly over overlapping sessions, and the refinement; where two Game Boys meet, what loses a byte, and that frames end; what is printed when bytes get lost |
| `save` | `FilesHoldGameData`, `AutosaveTracks`, `AutosaveIsTimely` | what reaches the file, through every way in and out of probe, reset, state and link |
| `save_exit` | `ExitSaves` - violated | a write, Reset, then Exit: the write never reaches the file |
| `cpu` | `ArithmeticRight`, `InterruptsInvisible`, `ImplementsProcessor` | arithmetic against its definition; a batch is one instruction after another, whatever interrupts come |
| `snes` | `ProgramsRight`, `VoicePlays`, `PictureRight`; `SpeakersFollow`, `HandoverEnds`; `ChannelsAgree`, `NotesEndOnTime` | programs of the SGB host with NMIs; samples, ports and objects; every change of sound reaches the speakers; engine and registers agree on what sounds |
| `sgb_audio` | `SgbSourceMixed` - violated | the host's sound is never programmed into its speaker |
| `cartridge` | `ClockKeepsHostTime`, `EepromHoldsWrites`, `BanksAsAsked`, `MapperGuards` | no second lost or counted twice; whole commands only; the bank selected is the one mapped, and a code that is off leaves no byte behind; closed RAM stays as it is, and a game of an MMM01 in its block |
| `mmm01_cache` | `Mmm01Mapped` - violated | with more banks than slots, loading the upper bank of an MMM01 evicts the lower one, and both windows show the upper bank |
| `screen` | `ClocksOnTime`; `ReplayFaithful`; `NoTear`, `SlotsDiffer`, `ChangesQueued`; `TasksRunInOrder`; `AttributesAsAsked` | clocks over batches that overshoot, end early or go back; replayed lines; whole frames on the screen; tasks run once and in order; what SGB commands paint when their packets are cut or given up |

The three violated properties quote a statement of the documentation;
`PROJECT.json` has the quotation and the lines under `findings`.

Two properties put together what modules and proofs keep apart: `BanksAsAsked`
is `MappedIsAsked` (the windows show the banks selected) and `CheatOffMeansOff`;
`MapperGuards` is `ClosedRamKept` and `GameStaysInside`.

### 4.1 Bounds, and why they are enough

* **Lockstep.**  `Lag = 1` for 4, so `History = 3` for 6: the client still plays a
  sample of an earlier frame and a packet still repeats one sample more than
  the lag needs.  `Ring = 4` for 64 is the smallest power of two above it, so
  that indices wrap; `GiveUp = 2` for 120 and `RequestEvery = 1` for 10 make a
  first wait, a second that gives up, and a request in each; `HashEvery` 2 or 4
  for 60.  `MaxFrame` 2 or 3.  The menu's user presses no other key.  What needs
  longer runs is what the proofs cover.
* **Set-up.**  One host and one joiner, `Retries = 1` for 10 and `Patience = 1` for
  300: a first try, a retry and a failure.  `MaxEvents = 3` menus or
  kinds of failure: a session after a failed session.
* **Fragments.**  Transfers of two and three fragments (a first, a middle and a
  last one), two sessions, two searches, one retry.  **Cable:** transfers of 2
  cycles, frames of 4, opcodes of 1 or 2 and a service of 1, so that a transfer
  ends within an opcode and across a frame, and the opcode and service of an
  interrupt outlast it.  **Printer:** images of 2 rows, packets of 4 bytes,
  one fault, eight programs.
* **Save file.**  `Window = 2` for 120 and `ProbeFrames = 2` for 450; one sector
  and two values; six events, with VBlanks not counted, so that any number of
  frames lies between two.  `Players` splits the optional commands into three
  kinds of player.  Permuting the two Game Boys is sound, as no liveness is checked.
* **CPU.**  Every opcode and 0xCB opcode over chosen register files, sums and
  decimals over ten operands, the HALT programs and loops with handlers, in
  batches of 4 and 20 cycles with at most three requests.
* **SGB host.**  A program of additions with NMI budgets that cut it at every
  place, decimal sums, every opcode in four modes; one voice, two programs;
  40 accesses to the ports.  **Handover:** one channel with two values, one
  message waiting for the real 60, two timer ticks, eight kinds of work.
  **Channels:** five sound programs on three engines, with lengths and volumes of 2.
* **Cartridge.**  Ten mappers, 512 banks; steps of a second and of a day less a
  second, and half a minute back; two EEPROM words and three commands; ROMs of
  three and four banks in three slots (all loaded, and one too many), four codes,
  two of them on one cell, two uses of the cheat menu.
* **Screen.**  Modes of one cycle with an overshoot of one, a timer period no
  longer than the overshoot and one that is longer, batches of up to 4 cycles, more
  than a line, so that an LCD switched on in one is behind; at most 2 cycles to the
  timer's next clock (`MaxOwed`), which a halted processor puts off; three lines with two
  register writes of two values; a picture of 5 lines with one safe line, two blocks (one that can be put off), one write, one
  switch of mode.  `Recent = 0` for 2 makes staging begin only in the frame of a
  poll, which is not what the properties are about; `StaleFrames = 2` for 120.
  **Callbacks:** a queue of two for three tasks.  **Packets:** eight games, given up
  at bit 0, 9 or 127, one suspension where nothing is outstanding.

Runs whose bounds stop the model say `CHECK_DEADLOCK FALSE`.  That nothing waits
for ever is checked by the liveness properties instead.

### 4.2 Fairness

* `NifiLockstep`: `WF(UpdateInput(c))`, each console's main loop goes on, a `while`
  loop with no blocking call.
* `NifiSetup`: `WF(Proceed(c))`, the main thread leaves a loop whose exit condition
  holds, as all its loops are bounded by VBlank counts.
* `LinkCable`: `WF` of the loop of `mgr_runFrame`, which does nothing but run.
* `SoundHandover`: `WF(Arm7)` and `WF(Wait)`, the ARM7 takes its interrupts and the
  ARM9's waiting loop runs.

Nothing is assumed of the radio, of the user or of what a game does: `WaitEnds`
and `SetupEnds` hold when every packet is lost, because the code counts.  The
other specifications assume no fairness; `AutosaveIsTimely` is a safety property.

## 5. The proofs

The theorems hold for every value of the constants that satisfies the modules'
assumptions, so for the real lag of 4, ring of 64 and limits of 120, 10 and 60,
for 144 lines, and for every number of frames, sessions, fragments, retries,
sectors and commands.  Each is proved from an inductive invariant, by one lemma
per action; the invariants were first checked as invariants of a run.

**5.1 Lockstep** (`NifiLockstep_proofs`).  `TypeInv` is `TypeOK` with the packets'
types (`NetOK`).  `RanWithInput` is not inductive: whether a console may run
depends on what its ring claims, which depends on what packets claim.  `SkewInv`
follows the claim back: `CallsInOrder` (`nifiFrame` is never ahead of `frame`),
`SentBound`, `PacketBound`, `RingBound` (nothing is tagged with a frame its sender
has not sampled) and `LinkedSkew` (each frame run was covered by the peer).
`HistoryCovers` is arithmetic from there.  `PendingAlwaysKept` needs `WindowInv`:
what the slots hold (`SlotInv`), how far apart samples and frames are
(`SampleSkew`), and that calls keep up with frames (`CallsKeepUp`); it is where
`Ring > History` is needed, which 64 > 6 satisfies amply.
`LockstepAgrees` is about one table `S`: `S[c][t]` is what console `c` pressed for
frame `t`.  Nothing in the program holds it; `AgreeInv` says that there is one with
which the history, the ring for requests, every packet, the receive rings and
the frames run agree, except where a console waited and so sampled again.

**5.2 Set-up** (`NifiSetup_proofs`).  `ConsoleInv` is about each console by itself:
its program counter against role, attachment and save (`TodoInv`, `AttachedInv`,
`RoleInv`, `SaveInv`); `FreshLinkHolds` follows from it.  `LinkStartsInOrder` needs
facts about pairs: who owns a session (`SessionInv`, `OwnerInv`), that sequence
numbers grow (`SequenceInv`), and, for host and client, `ClientOrder`, `HostInv`,
`NewcomerInv` and `AnsweredInv`, which follow an acknowledgement back to the step of
the other console that sent it.  Its exceptions (3.2) are those of the history
variables `faults` and `stale`: what a console failed to send or to take in, and who
entered a menu with a Game Boy left over.

**5.3 Fragments** (`Link_proofs`).  `TransferInv` adds `BufferOK` (the
first `next` places hold fragments that were sent, of the right index and size),
`CleanOK` and `Assembled`.  `StayInv` relates the sender to a client that stayed: an
acknowledgement for the fragment being sent means the client's sequence has
passed it, or the data is delivered.  `Implements` is the refinement:
`StepImplements` maps `BeginTransfer` to `Send`, the last fragment of a clean
connected client to `Deliver`, and every other step to a stutter.

**5.4 Save file** (`SaveFile_proofs`).  `FilesHoldGameData` speaks of the files only
and is not inductive: what the next save writes is in RAM, and a probe runs in
the same RAM.  `IInv` speaks of an object's *own* RAM, which is the RAM set aside
while a probe is active: `GbsOK` (it holds nothing a probe wrote, and nothing
unread), `FileOK`, `StateOK` (the same of files and states), `SettingsOK`.
`AutosaveAlwaysTracks` has `TrackInv`: a sector of the own RAM that is neither dirty
nor unmarked is in the file, for an object that shares its file with no other.
That needs `GbsAssumption`: with two objects a second load can only share slot 2.
`AutosaveStaysTimely` has `TimelyInv` on top of `TrackInv`: what waits has a mark,
its wait is bounded by the frames counted since, a write starts the counter of
what waits, and a probe keeps its counter.  `init` leaves no mark: what it forgets
is in `unmarked`, and the theorem does not speak of it.

**5.5 Presentation** (`Screen_proofs`).  `NeverTears`, `SlotsAlwaysDiffer` and
`ChangesStayQueued` come from one invariant: the buffers' roles (`RolesInv`), what
the ready buffer holds (`ReadyInv`), what of the copy is done at each place of the
commit (`CommitInv`), that what differs between stage and video memory is dirty
(`DirtyInv`) and that the buffer shown agrees with video memory (`ShownInv`).

**5.6 Link cable** (`Link_proofs`).  `AlwaysStandsStill`: a Game Boy that has
sent its byte stands still at the cycle where the other, which is behind, meets
it (`Standing`, `LcdBound`).  `LosesOnlyByAnOpcode`: with the leader clocking, the
waiting one is ahead by at most the opcode it could not stop in and the service of
an interrupt (`Leashed`).

**5.7 Sound** (`SoundHandover_proofs`).  `SpeakersAlwaysFollow`: once every command
has been taken, a speaker plays what the game asked for.  As commands carry no
values, the invariant is that while a speaker is wrong, a command that renews
what is wrong is on its way: in the FIFO, still to be handed over, or being taken
(`Outs`, `ChannelInv`).  Only a mute makes a speaker wrong, and while it is not the
menu's last word an unmute is behind it (`MuteInv`).

**5.8 Scan lines** (`Screen_proofs`).  `ReplayAlwaysFaithful`: a line that was
replayed looks as if drawn in full.  A record tells a line from the line above
(`Tells`, and `First` for the first), because a flag that is down says that the
registers are still those of the line above (`FlagsInv`), the window's row
included (`WindowInv`), and because the hash compared instead of the palette is
the palette's (`HashInv`; a collision of hashes is not modelled).  So the DS
registers match the last line handled (`HostInv`), and after one missed line its
own record, drawn late, brings them there.  `Height` is at most 256, as rows are
kept in a byte (`ConstantsAssumption`).

**5.9 Cartridge clock** (`Cartridge_proofs`).  `ClockAlwaysKeepsTime`: the MBC3
clock shows the seconds it should have lived.  Nothing ticks, so the invariant
(`KeepsTime`) is about what a look would show *now*, at the clock and at its copy in
the save file, and both must be halted together unless a register is unsaved
(`Agree`).  `ShowsLater` says what a later
look shows and `ShowsAgain` that bringing the clock up to date changes nothing;
both rest on the arithmetic of `RunningAdvances`: carrying into minutes, hours and
a day counter that wraps keeps the sum modulo 512 days (`Digits`, `DaysWrap`).

**5.10 Callbacks** (`Screen_proofs`).  `TasksAlwaysInOrder`: `OrderInv` says that what is
due is the rest of the batch followed by the array that is filled.  It holds
because the array that is run is never the one that is filled (`ArraysInv`), so a
callback that asks for others overwrites nothing.  Until something is dropped:
then the program stops.

**5.11 LCD and timers** (`Screen_proofs`).  `ClocksAlwaysOnTime`, for every length of
the modes, number of lines, timer period, longest batch and overshoot, as long
as a batch with its overshoot is no longer than a frame.  `LcdInTime` says that
the cycles counted and those left of the mode add up to its end, modulo the
frame, with the line that belongs to the mode (`LineOfMode`) and the comparison
that was made for it (`LineTold`).  A batch that ends late leaves the mode's
counter short by as much, and the sum stays, also where cycles are taken back.  For
the timer, `UpdateTimers` adds the clocks of a whole batch at once and drops what
is left of them behind an overflow; with a period longer than the overshoot there
is at most one, so that it agrees with `EveryCycle`.  `BatchEndsInTime` says why: no
batch is meant to pass the overflow of a timer that was not written to, and only
the LCD is ever behind, whose event `SleepBack` goes back to.  A timer written to
counts from the start of its batch; the theorem speaks of the others, of periods
longer than an overshoot, and, for an LCD switched off and on within a batch, of
the time from the short line on.

**5.12 ROM banks** (`Cartridge_proofs`).  `MappedAlwaysAsAsked` and
`CheatOffAlwaysMeansOff`, for any ROM, number of slots and list of codes.  `BankInv`
says that slots and numbers are inverse to each other and the order of use lists
every loaded bank but the first, once (`InOrder`), so that the bank that makes
room is neither the one to be mapped nor bank 0, which no order lists; that a
byte is the ROM's, or the code's that is listed with the ROM's byte to put back
(`CheatsOk`); and what the windows show (`Windows`).  The exception for the lower
window of an MMM01 is in the theorem because it is in the code: it is what
`mmm01_cache` shows.  `BanksAlwaysAsAsked` is the two together.
The codes are applied and taken back one after another, by recursive functions
over their positions; `InTurn` of `BasicLemmas` proves of such a function what each
step keeps.

**5.13 Mappers** (`Cartridge_proofs`).  `ClosedRamAlwaysKept` and `GameAlwaysInside`, for
every ROM size, address and byte.  `MapperInv` ties the enable registers to the
history variable `opened`, and an MMM01's present mapping to the block its menu
chose; one lemma per mapper.  `SameBlock` says that a write behind the lock leaves
the block's bits (`ChipWrite` has one case per register), and `MappingInside` that
what the chip computes lies in the block; `WrappedBank` brings it into a ROM that is
smaller.  `MappersAlwaysGuard` is the two together.

**5.14 EEPROM** (`Cartridge_proofs`).  `EepromAlwaysHoldsWrites`, for up to 128 words
(the address has seven bits) and any commands, each of whole bits with at most one
zero before its start bit (`EepromAssumption`); the game may let go of the chip at any
bit.  That the storage is the promise is not inductive: the chip's registers in the
middle of a command must be those that its first bits make.  `Clocked` says so of
the bits clocked in so far: none; one to ten, whose number is in `shift`; eleven,
after which a read's word lies partly in what the game saw and partly in `output`,
and a write's first bits are in `shift`; or all of them, with the chip at rest.
`ChipSaved` says the same of a save state, so that a load cannot split a command.
`NumberByBits` and `CodeSplits` give the fields of a command from its bits, and one
lemma per bit position (`CodeBit`, `LastOfCode`, `DataBit`, `BitOfWord`, `LastOfData`)
what a clock edge does.  A word of sixteen bits is below 65536 only because
its first fifteen are below 32768 (`PartFits`): the shift register loses nothing.

**5.15 Numbers and finite sets** (`BasicLemmas`).  What several proofs rest on:
that a set of natural numbers has a least member (`NatHasLeast`), from which
induction over numbers follows for a predicate given as a set (`Induction`) and for
functions computed step by step (`InTurn`); quotients and remainders (`Division`,
`Quotient`, `SameRest`, `RestOfSum`); and that a finite set of numbers has a largest
member (`FiniteHasLargest`).

**5.16 Only model-checked.**

* Liveness (`WaitEnds`, `SetupEnds`, `LinkedFramesEnd`, `HandoverEnds`): out of the
  prover's reach, with `ENABLED`.
* `ArithmeticRight`, `InterruptsInvisible`, `ImplementsProcessor`, `ProgramsRight`: the
  opcodes use the bit operations of `Bitwise`, which proofs cannot use.
* `VoicePlays`, `AttributesAsAsked`, `PictureRight`: they say what a fold over
  samples or rectangles computes, and the library's folds take
  the operation as a parameter, which the installed provers cannot instantiate.
  Induction over numbers reaches functions the modules define themselves, not those.
* `PrinterInStep`, `FilesAreOrders`, `ChannelsAgree`, `NotesEndOnTime`: not proved.

## 6. Observations

Met while modelling.  No run reports them: either no document says otherwise,
or a model with the bound that shows it is not kept.

**Link and saves**

* A client that declines a host, and a console whose `nifiStartLink` failed,
  keep `isClient`/`isHost`: `nifiIsLinked()` is true of a link that never was.
* A host that gives up leaves its packet handler attached and goes on
  acknowledging `CLIENT` packets; a second `HOST` packet, received while the user
  is asked, replaces `hostId`.
* Save data that arrives while `gb2` is NULL is acknowledged and dropped; the
  client then times out although the host believes it has sent it.
* A driver error ends a send without `nifiStop`, and `nifiSendSram` ignores it, as
  it does a copy of the save data it had no memory for; what a receiver has no
  memory for was acknowledged before (`ds/nifi.cpp:377-382`, `:605-608`).
* Local Link pressed again after Swap Focus loads slot 2 into the Game Boy of
  slot 1: the `.sav` game is unloaded and both objects hold `.sa2`.
* Turning autosave on saves the focused Game Boy only.
* A local link begun during a border probe puts the second Game Boy in a probe
  of its own, whose end the shared `probingForBorder` does not bring.
* Suspend with the focus on the second Game Boy writes the suspend file the
  main Game Boy resumes.
* A game whose save failed to load can be suspended, or saved as a state, and
  its zeroed RAM brought into a later game that does have its file (`adopted`).
* The HuC3 clock drops the seconds below a minute at each update.
* The hash of frame 0 is compared before the first call, and its mismatch logged
  as a desync (`ds/nifi.cpp:330`, `:662`; `docs/features/wireless-link.md:30`).
* A time-out that comes while the user has the game paused leaves it paused
  (`ds/nifi.cpp:906`; `wireless-link.md:44-46`).
* A second Game Boy left over from before takes save data in before
  `nifiStartLink` clears it (`ds/nifi.cpp:337`; `wireless-link.md:32`).
* Fragments of a transfer given up mix with the next of the same size
  (`ds/nifi.cpp:369`).
* A clock register set during a border probe reaches the file with autosave on
  (`writeClockStruct`; against the comment at `common/gameboy.cpp:131-132`).
* 300 VBlanks may be too few for 128 KiB of save data (`ds/nifi.cpp:619`).

**Processor**

* HALT with interrupts off doubles the next byte on a DMG even with nothing
  pending, and is a NOP on a CGB.  The doubled byte is visible to the opcode.
* IF and IE bits 5 to 7 index past `isrVectors`.
* An untaken RET Z, NC or C takes 4 cycles; the comments say 8
  (`common/gbcpu.cpp:1438-1460`).
* ADD HL,SP uses an SP not yet masked within a batch; code running past a bank
  switch goes on in the old bank until a jump.

**SGB host**

* `nmiPending` outlives a fault and is not saved; 8-bit loads clear the hidden high
  byte; the object with the highest index wins; a transfer that fails has already
  copied its earlier blocks.
* A state omits the packet in progress (`docs/guides/user-guide.en.md:20`); an
  ATTR_BLK of the outside paints the corners only; a command given up between
  its packets takes the next command for its continuation.

**Cartridge and printer**

* A write to 0x4000 opens the camera's RAM (`common/mbc.cpp:514`); the RAM of a HuC1 opens with the infra-red off.
* A ROM that is not a power of two loses bank bits.
* An MMM01 with more banks than the cache has slots (a ROM of more than 512 KiB
  on a DS without expansion) can show its upper bank in both windows: run
  `mmm01_cache` (`common/mmu.cpp:58`).
* A Game Genie code is not applied again to a bank reloaded after an eviction
  (`common/cheats.cpp:172`); two codes on one cell switched off in the order they
  were switched on leave the first one's patch; the second Game Boy of a local link shares the cache
  (`common/gbmanager.cpp:151`).
* The printer's left-over `.tmp` file blocks later prints; a status error shows only
  in the next packet.

**Picture**

* Two missed HBlanks in a row leave a part of the picture stale; the last line
  is never made up for.
* Reading `dsFrameCounter` while a VBlank is pending with interrupts off can raise a
  spurious DEADLINE fault.
* A timer with a period no longer than a batch's overshoot loses the clocks
  between an overflow and the end of the batch (`common/gameboy.cpp:747`).
* LYC = 153 never matches; the STAT interrupt of line 0 comes a line early; an LCD
  switched off and on within a batch keeps its counter, so that line 0 is short; one
  switched on late in a long batch counts all of it, and if the processor then
  halts, `cycleCount` goes back (`common/gameboy.cpp:458`).

**Serial link and sound**

* The waiting side may be the first to run a frame, and then its first byte is
  lost, against the comment at `common/gameboy.cpp:544`; two Game Boys both clocking
  make a second exchange; resetting one of a pair leaves `linkedGameboy` NULL on
  one side (`common/gameboy.cpp:198`, `:477`).
* Reading registers back after a state is loaded gives frequency 0x7FF and length
  63 where bits are unreadable, until the game writes them.
* The 3DS engine clears channel 4's bit when NR30 goes off
  (`3ds/soundengine.cpp:668`), and its envelope counter of channel 4 runs without an
  envelope; 3DS and SDL drop what an envelope overshoots; SDL notes never end.
* The ARM7 clears `cycles` before it reads `message` (`ds/arm7/source/sound.c:55-56`),
  so a command may be replaced while it is taken.
* A state that fails to load leaves the sound muted.

## 7. Not modelled

* **Data paths**: what tiles, sprites, waveforms, duty and panning look or sound
  like; the order in which sectors are coalesced; packet encoding and its CRC;
  the bytes of a save state.
* **Modes**: the CGB's double speed in `LcdTimer` and `LinkCable`, DMA and HDMA,
  `interruptWaitMode` and the DMA fault of the renderer, `halfMemoryMode`, GameShark
  codes, a frame published in the middle of a picture, the SGB link type in which
  no second Game Boy exists.
* **Failures**: file writes, as `file_write` returns nothing and the code has no
  reaction (`common/mmu.cpp:704`).
* **Front ends**: menus, configuration, file chooser, text, GBS player, debugger,
  borders, the 3DS link (the same protocol over UDP; the DS sources are the reference
  of the `Nifi` modules), the 3DS and SDL ports but for their sound engines, and the
  diagnostic traces: user interface and I/O.
* `Blip_Buffer` and the other vendored code: third-party.
