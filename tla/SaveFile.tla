------------------------------ MODULE SaveFile ------------------------------
(***************************************************************************)
(* Battery RAM and the file that keeps it (platform/common/gameboy.cpp,    *)
(* mmu.cpp, mbc.cpp, and the commands of menu.cpp and gbmanager.cpp that   *)
(* load, save, reset, link and leave a game).                              *)
(*                                                                         *)
(* Up to two Game Boys run the cartridge, `gameboy` (the focus) and `gb2`  *)
(* (a local link); each has a save slot, and every slot a file.  RAM and   *)
(* file are functions from cells to contents: the cells are the 512-byte   *)
(* sectors autosave tracks, and the clock the file ends with.  The         *)
(* cartridge is SGB-enhanced, so that loading it may first run a border    *)
(* probe: a disposable boot whose writes must never be kept.               *)
(***************************************************************************)
EXTENDS Naturals, FiniteSets

CONSTANTS
    Gbs,          \* Gameboy objects: one, or two with a local link
    Sectors,      \* the sectors of the battery RAM
    Clock,        \* the cell of the real-time clock
    Data, Zero,   \* what a game writes, and a new file holds
    Scratch,      \* what a border probe writes
    Unread,       \* zeroed memory that no file was read into
    Missing,      \* beyond the end of the file
    Cartridges,   \* of "clock" and "camera"
    Window,       \* frames of unbroken writing before autosave syncs (120)
    ProbeFrames,  \* frames before a border probe gives up (450)
    Players,      \* bound: the sets of commands one player uses
    MaxEvents     \* bound: writes of the game plus commands of the player

ASSUME CellsAssumption == Clock \notin Sectors /\ Sectors # {} /\ Gbs # {}
\* At most two: gameboy and gb2 (gbmanager.cpp).
ASSUME GbsAssumption == \A g, h, i \in Gbs : g = h \/ g = i \/ h = i
ASSUME ContentsAssumption ==
    /\ Zero \in Data
    /\ Scratch \notin Data /\ Unread \notin Data /\ Missing \notin Data
    /\ Scratch # Unread /\ Scratch # Missing /\ Unread # Missing
ASSUME LimitsAssumption ==
    Window \in Nat \ {0} /\ ProbeFrames \in Nat \ {0} /\ MaxEvents \in Nat

VARIABLES
    gb,         \* the Game Boys, as records
    focus,      \* gameboy; the other object, if it has a slot, is gb2
    file,       \* the save file of every slot
    autosave,   \* autoSavingEnabled
    probing,    \* probingForBorder
    borders,    \* sgbBordersEnabled
    realSgb,    \* the mode options select a real SGB boot (initGBMode)
    state,      \* the RAM in the save state of the chosen slot, <<>> if none
    suspended,  \* the RAM in the suspend state, <<>> if none
    cartridge,  \* what is on the cartridge besides its RAM
    commands,   \* bound: what the player does besides loading and leaving
    adopted,    \* history: a state was saved of RAM no file was read into
    waited,     \* history: how long each Game Boy's RAM waits, see Waits
    events      \* bound: events so far

fixed == <<cartridge, commands>>
settings == <<autosave, borders, realSgb, fixed>>
vars == <<gb, focus, file, settings, probing, state, suspended, adopted,
          waited, events>>

Cells == Sectors \cup {Clock}
Slots == {1, 2}
NoState == <<>>
NothingRead == [c \in Cells |-> Unread]

\* What a border probe sets aside.  `unmarked` is history, see Empty.
NothingKept == [ram |-> NothingRead, dirty |-> {}, saveModified |-> FALSE,
    autosaveStarted |-> FALSE, frames |-> 0, unmarked |-> {}]

\* A Gameboy without a cartridge: slot 0.  `unmarked` is history: the sectors
\* that may differ from the file without a dirty mark.
Empty == [slot |-> 0, open |-> FALSE, ram |-> NothingRead, dirty |-> {},
    saveModified |-> FALSE, autosaveStarted |-> FALSE, frames |-> 0,
    probeActive |-> FALSE, kept |-> NothingKept, resetting |-> FALSE,
    frameCounter |-> 0, unmarked |-> {}]

Others == Gbs \ {focus}
Loaded(g) == gb[g].slot # 0
Running == {g \in Gbs : Loaded(g)}
Event == events < MaxEvents /\ events' = events + 1

-----------------------------------------------------------------------------
(* The methods of Gameboy: what each makes of the object r and the files.  *)

BeginBorderProbe(r) ==
    IF r.probeActive THEN r ELSE
    [r EXCEPT !.probeActive = TRUE,
        !.kept = [ram |-> r.ram, dirty |-> r.dirty,
            saveModified |-> r.saveModified,
            autosaveStarted |-> r.autosaveStarted,
            frames |-> r.frames, unmarked |-> r.unmarked]]

\* Mutant: the RAM set aside is not put back.
EndBorderProbeKeepingRam(r) ==
    IF ~r.probeActive THEN r ELSE
    [r EXCEPT !.probeActive = FALSE, !.kept = NothingKept,
        !.dirty = r.kept.dirty, !.saveModified = r.kept.saveModified,
        !.autosaveStarted = r.kept.autosaveStarted,
        !.frames = r.kept.frames, !.unmarked = r.kept.unmarked]

EndBorderProbe(r) ==
    IF ~r.probeActive THEN r ELSE
    [r EXCEPT !.probeActive = FALSE, !.kept = NothingKept,
        !.ram = r.kept.ram, !.dirty = r.kept.dirty,
        !.saveModified = r.kept.saveModified,
        !.autosaveStarted = r.kept.autosaveStarted,
        !.frames = r.kept.frames, !.unmarked = r.kept.unmarked]

\* Mutant: saveGame does not ask for a probe.
SavesAnyRam(r) == r.open

\* saveGame writes the whole RAM, and the clock, to the file.
Saves(r) == r.open /\ ~r.probeActive
SaveGame(r) ==
    IF Saves(r) THEN [r EXCEPT !.dirty = {}, !.unmarked = {}] ELSE r
Saved(files, r) ==
    IF Saves(r) THEN [files EXCEPT ![r.slot] = r.ram] ELSE files

\* gameboySyncAutosave writes the dirty sectors, and never the clock.
Syncs(r) == r.open /\ ~r.probeActive /\ r.autosaveStarted
GameboySyncAutosave(r) ==
    IF ~Syncs(r) THEN r ELSE
    [r EXCEPT !.dirty = {}, !.unmarked = @ \ r.dirty,
        !.frames = 0, !.autosaveStarted = FALSE]
Synced(files, r) ==
    IF ~Syncs(r) THEN files ELSE
    [files EXCEPT ![r.slot] =
        [c \in Cells |-> IF c \in r.dirty THEN r.ram[c] ELSE @[c]]]

\* unloadRom leaves an Empty object, and the files as
Unloaded(files, r) == Synced(files, EndBorderProbe(r))

\* loadSave of an Empty object.  A file that is short is extended first; when
\* it cannot be opened, or a read stops early, the game runs without a file,
\* on the cells that were read.
Stored(files, slot) ==
    [c \in Cells |-> IF files[slot][c] = Missing THEN Zero ELSE files[slot][c]]
LoadSave(files, slot) ==
    [Empty EXCEPT !.slot = slot, !.open = TRUE, !.ram = Stored(files, slot)]
LoadSaveFails(files, slot, read) ==
    [Empty EXCEPT !.slot = slot, !.unmarked = Sectors,
        !.ram = [c \in Cells |->
            IF c \in read THEN Stored(files, slot)[c] ELSE Unread]]
Extended(files, slot) == [files EXCEPT ![slot] = Stored(files, slot)]

\* init, on the object and the two globals it changes.  `memory` says whether
\* beginBorderProbe finds the memory for its copy.  initMMU clears the dirty
\* marks; a suspend state replaces the RAM, and is not marked dirty.
Boot(s, memory) ==
    LET cancelled == s.r.probeActive /\ (~s.probing \/ ~borders)
        ended == IF cancelled THEN EndBorderProbe(s.r) ELSE s.r
        probes == /\ s.probing /\ ~cancelled /\ ~realSgb
                  /\ (memory \/ ended.probeActive)
        entered == IF probes THEN BeginBorderProbe(ended)
                             ELSE EndBorderProbe(ended)
        resumes == ~probes /\ s.suspended # NoState
    IN [r |-> [entered EXCEPT !.dirty = {}, !.frameCounter = 0,
                  !.resetting = FALSE,
                  !.ram = IF resumes THEN s.suspended ELSE @,
                  !.unmarked = IF resumes THEN Sectors ELSE @ \cup entered.dirty],
        probing |-> probes,
        suspended |-> IF resumes THEN NoState ELSE s.suspended]

\* updateAutosave, before and after it asks for the marks to be written.
\* `frames` stops at Window: the code only asks whether it has been reached.
Counted(r) ==
    [r EXCEPT !.frames = IF r.autosaveStarted /\ @ < Window THEN @ + 1 ELSE @]
\* Mutant: only a quiet frame asks for a sync.
SyncWhenQuiet(r) == ~r.saveModified

SyncDue(r) == r.frames >= Window \/ ~r.saveModified
UpdateAutosave(r) ==
    LET counted == Counted(r)
        asked == IF SyncDue(counted) THEN GameboySyncAutosave(counted) ELSE counted
        started == asked.saveModified /\ autosave
    IN [asked EXCEPT !.autosaveStarted = started \/ @,
                     !.saveModified = @ /\ ~started]
Autosaved(files, r) ==
    IF SyncDue(Counted(r)) THEN Synced(files, Counted(r)) ELSE files

-----------------------------------------------------------------------------
Init ==
    /\ gb = [g \in Gbs |-> Empty]
    /\ focus \in Gbs
    /\ file \in [Slots -> {[c \in Cells |-> v] : v \in Data \cup {Missing}}]
    /\ autosave \in BOOLEAN /\ borders \in BOOLEAN /\ realSgb \in BOOLEAN
    /\ probing = FALSE
    /\ state = NoState /\ suspended = NoState
    /\ cartridge \in Cartridges /\ commands \in Players
    /\ adopted = FALSE /\ events = 0
    /\ waited = [g \in Gbs |-> 0]

\* loadSave on object g, which then boots with probingForBorder as given.
LoadAndBoot(g, slot, probe, files, others) ==
    \E memory \in BOOLEAN :
        \/ LET b == Boot([r |-> LoadSave(files, slot), probing |-> probe,
                          suspended |-> suspended], memory)
           IN /\ gb' = [others EXCEPT ![g] = b.r]
              /\ probing' = b.probing /\ suspended' = b.suspended
              /\ file' = Extended(files, slot)
        \/ /\ slot = 1
           /\ \E read \in SUBSET Sectors, longer \in BOOLEAN :
                LET b == Boot([r |-> LoadSaveFails(files, slot, read),
                               probing |-> probe, suspended |-> suspended], memory)
                IN /\ gb' = [others EXCEPT ![g] = b.r]
                   /\ probing' = b.probing /\ suspended' = b.suspended
                   /\ file' = IF longer THEN Extended(files, slot) ELSE files

\* mgr_loadRom: a failed loadSave only logs a message.
LoadRom ==
    /\ Event
    /\ Running = {}
    /\ LoadAndBoot(focus, 1, borders, file, gb)
    /\ UNCHANGED <<focus, settings, state, adopted>>

\* localLinkFunc and mgr_startGb2: whatever gb2 held is unloaded, and slot 2
\* loaded into it.  A failed loadSave ends the link.  Once two objects hold
\* one slot, no mark of the one that stays tells what the file holds.
Doubted(r) ==
    [r EXCEPT !.unmarked = Sectors,
              !.kept.unmarked = IF r.probeActive THEN Sectors ELSE @]
LocalLink ==
    /\ Event
    /\ "link" \in commands /\ Loaded(focus)
    /\ \E g \in Others :
        LET files == IF Loaded(g) THEN Unloaded(file, gb[g]) ELSE file
            doubted == [gb EXCEPT ![g] = Empty,
                            ![focus] = IF @.slot = 2 THEN Doubted(@) ELSE @]
        IN \/ LoadAndBoot(g, 2, probing, files, doubted)
           \/ /\ gb' = doubted
              /\ file' \in {files, Extended(files, 2)}
              /\ UNCHANGED <<probing, suspended>>
    /\ UNCHANGED <<focus, settings, state, adopted>>

SwapFocus ==
    /\ Event
    /\ \E g \in Others : Loaded(g) /\ focus' = g
    /\ UNCHANGED <<gb, file, settings, probing, state, suspended, adopted>>

-----------------------------------------------------------------------------
(* The guest program.                                                      *)

Contents(r) == IF r.probeActive THEN {Scratch} ELSE Data

WriteSram(g) ==
    /\ Event
    /\ \E c \in Sectors, v \in Contents(gb[g]) :
        /\ v # gb[g].ram[c]
        /\ gb' = [gb EXCEPT ![g] =
            IF autosave
              THEN [gb[g] EXCEPT !.ram[c] = v, !.saveModified = TRUE,
                                 !.dirty = @ \cup {c}, !.unmarked = @ \ {c}]
              ELSE [gb[g] EXCEPT !.ram[c] = v, !.unmarked = @ \cup {c}]]
    /\ UNCHANGED <<focus, file, settings, probing, state, suspended, adopted>>

\* m3w on a clock register: writeClockStruct goes to the file at once.
WriteClock(g) ==
    /\ Event
    /\ cartridge = "clock"
    /\ \E v \in Contents(gb[g]) :
        /\ v # gb[g].ram[Clock]
        /\ gb' = [gb EXCEPT ![g].ram[Clock] = v,
               ![g].saveModified = @ \/ (autosave /\ gb[g].open)]
        /\ file' = IF autosave /\ gb[g].open
                     THEN [file EXCEPT ![gb[g].slot][Clock] = v] ELSE file
    /\ UNCHANGED <<focus, settings, probing, state, suspended, adopted>>

\* camw: a capture is copied into the RAM without a mark.
CaptureImage(g) ==
    /\ Event
    /\ cartridge = "camera"
    /\ \E c \in Sectors, v \in Contents(gb[g]) :
        gb' = [gb EXCEPT ![g].ram[c] = v, ![g].unmarked = @ \cup {c}]
    /\ UNCHANGED <<focus, file, settings, probing, state, suspended, adopted>>

\* setSgbMap: the probe has its border, and asks for the real boot.
BorderFound ==
    /\ Event
    /\ probing /\ borders
    /\ \E g \in Running : gb[g].probeActive
    /\ probing' = FALSE
    /\ gb' = [gb EXCEPT ![focus].resetting = TRUE]
    /\ UNCHANGED <<focus, file, settings, state, suspended, adopted>>

-----------------------------------------------------------------------------
\* Mutant: one frame more.
GivesUpLate(frame) == frame > ProbeFrames

GivesUp(frame) == frame >= ProbeFrames

\* updateVBlank of object g: a reset asked for, then the probe or autosave.
UpdateVBlank(g) ==
    /\ \E memory \in BOOLEAN :
        LET now == [r |-> gb[g], probing |-> probing, suspended |-> suspended]
            s == IF gb[g].resetting THEN Boot(now, memory) ELSE now
            frame == s.r.frameCounter + 1
            gaveUp == Boot([s EXCEPT !.probing = FALSE], memory)
            ends == ~borders \/ GivesUp(frame)
            left == CASE ~s.probing -> [s EXCEPT !.r = UpdateAutosave(s.r)]
                      [] s.probing /\ ends -> gaveUp
                      [] OTHER -> [s EXCEPT !.r.frameCounter = frame]
        IN /\ gb' = [gb EXCEPT ![g] = left.r]
           /\ probing' = left.probing /\ suspended' = left.suspended
           /\ file' = IF s.probing THEN file ELSE Autosaved(file, s.r)
    /\ UNCHANGED <<focus, settings, state, adopted, events>>

-----------------------------------------------------------------------------
(* The player's commands.                                                  *)

\* setAutoSaveFunc works on the focus alone.
SetAutoSave ==
    /\ Event
    /\ "autosave" \in commands /\ Loaded(focus)
    /\ autosave' = ~autosave
    /\ IF autosave
         THEN /\ gb' = [gb EXCEPT ![focus] = GameboySyncAutosave(@)]
              /\ file' = Synced(file, gb[focus])
         ELSE /\ gb' = [gb EXCEPT ![focus] = SaveGame(@)]
              /\ file' = Saved(file, gb[focus])
    /\ UNCHANGED <<focus, probing, borders, realSgb, fixed, state, suspended, adopted>>

\* The options that decide about probes take effect at the next init or VBlank.
SetBorders ==
    /\ Event
    /\ "borders" \in commands /\ borders' = ~borders
    /\ UNCHANGED <<gb, focus, file, autosave, realSgb, fixed, probing, state, suspended, adopted>>
SetMode ==
    /\ Event
    /\ "mode" \in commands /\ realSgb' = ~realSgb
    /\ UNCHANGED <<gb, focus, file, autosave, borders, fixed, probing, state, suspended, adopted>>

\* The save key of mgr_updateVBlank, dead during a probe.
SaveKey ==
    /\ Event
    /\ Loaded(focus) /\ ~probing /\ ~autosave
    /\ gb' = [gb EXCEPT ![focus] = SaveGame(@)]
    /\ file' = Saved(file, gb[focus])
    /\ UNCHANGED <<focus, settings, probing, state, suspended, adopted>>

\* The reset key, dead during a probe too, leaves the reset to the VBlank.
ResetKey ==
    /\ Event
    /\ "reset" \in commands /\ Loaded(focus) /\ ~probing
    /\ gb' = [gb EXCEPT ![focus].resetting = TRUE]
    /\ UNCHANGED <<focus, file, settings, probing, state, suspended, adopted>>

\* resetFunc, the menu's Reset, runs init at once.
ResetFunc ==
    /\ Event
    /\ "reset" \in commands /\ Loaded(focus)
    /\ \E memory \in BOOLEAN :
        LET b == Boot([r |-> gb[focus], probing |-> probing,
                       suspended |-> suspended], memory)
        IN /\ gb' = [gb EXCEPT ![focus] = b.r]
           /\ probing' = b.probing /\ suspended' = b.suspended
    /\ UNCHANGED <<focus, file, settings, state, adopted>>

HoldsUnread(r) == \E c \in Cells : r.ram[c] = Unread
SaveState ==
    /\ Event
    /\ "state" \in commands /\ Loaded(focus) /\ ~gb[focus].probeActive
    /\ state' = gb[focus].ram
    /\ adopted' = (adopted \/ HoldsUnread(gb[focus]))
    /\ UNCHANGED <<gb, focus, file, settings, probing, suspended>>

\* loadState replaces the RAM, and brings the file along under autosave.
LoadState ==
    /\ Event
    /\ Loaded(focus) /\ ~gb[focus].probeActive /\ state # NoState
    /\ LET r == [gb[focus] EXCEPT !.ram = state, !.unmarked = Sectors]
       IN /\ gb' = [gb EXCEPT ![focus] = IF autosave THEN SaveGame(r) ELSE r]
          /\ file' = IF autosave THEN Saved(file, r) ELSE file
    /\ UNCHANGED <<focus, settings, probing, state, suspended, adopted>>

\* mgr_save: gameboy first, then gb2.  mgr_unloadRom: gb2 first, then gameboy.
\* Both for files and objects rs, whichever objects have a cartridge.
Companion == {g \in Others : Loaded(g)}
SaveAll(files) ==
    LET one == Saved(files, gb[focus])
    IN IF Companion = {} THEN one
       ELSE Saved(one, gb[CHOOSE g \in Companion : TRUE])
UnloadAll(files, rs) ==
    Unloaded(IF Companion = {} THEN files
             ELSE Unloaded(files, rs[CHOOSE g \in Companion : TRUE]), rs[focus])

Leave(files, rs) ==
    /\ file' = UnloadAll(files, rs)
    /\ gb' = [g \in Gbs |-> Empty]
    /\ probing' = FALSE
    /\ UNCHANGED <<focus, settings, state>>
AfterSave == [g \in Gbs |-> SaveGame(gb[g])]

\* exitFunc leaves saving to the unload when autosave is on.
Exit ==
    /\ Event
    /\ Loaded(focus)
    /\ IF autosave THEN Leave(file, gb) ELSE Leave(SaveAll(file), AfterSave)
    /\ UNCHANGED <<suspended, adopted>>
Suspend ==
    /\ Event
    /\ "suspend" \in commands /\ Loaded(focus)
    /\ IF autosave THEN Leave(file, gb) ELSE Leave(SaveAll(file), AfterSave)
    /\ suspended' = IF gb[focus].probeActive THEN suspended ELSE gb[focus].ram
    /\ adopted' = (adopted \/ (~gb[focus].probeActive /\ HoldsUnread(gb[focus])))
ExitNoSave ==
    /\ Event
    /\ Loaded(focus) /\ ~autosave
    /\ Leave(file, gb)
    /\ UNCHANGED <<suspended, adopted>>
\* returnToLauncherFunc: system_cleanup always calls mgr_save.
ReturnToLauncher ==
    /\ Event
    /\ Loaded(focus)
    /\ Leave(SaveAll(file), AfterSave)
    /\ UNCHANGED <<suspended, adopted>>

\* The power goes: what the file system has is all that is left.
PowerOff ==
    /\ Event
    /\ Loaded(focus)
    /\ gb' = [g \in Gbs |-> Empty] /\ probing' = FALSE
    /\ UNCHANGED <<focus, file, settings, state, suspended, adopted>>

Guest ==
    \/ BorderFound
    \/ \E g \in Running : WriteSram(g) \/ WriteClock(g) \/ CaptureImage(g)
Player ==
    \/ LoadRom \/ LocalLink \/ SwapFocus
    \/ SetAutoSave \/ SetBorders \/ SetMode
    \/ SaveKey \/ ResetKey \/ ResetFunc \/ SaveState \/ LoadState
    \/ Exit \/ Suspend \/ ExitNoSave \/ ReturnToLauncher \/ PowerOff

\* History: while object g, alone on its file, has with autosave on a sector
\* that differs from the file and is not in `unmarked`, waited[g] counts its
\* VBlanks, up to Window + 1.
Waits(g) ==
    /\ autosave /\ gb[g].open /\ ~gb[g].probeActive
    /\ \A h \in Gbs \ {g} : gb[h].slot # gb[g].slot
    /\ \E c \in Sectors \ gb[g].unmarked : gb[g].ram[c] # file[gb[g].slot][c]
Waiting(counts) == waited' = [g \in Gbs |-> IF Waits(g)' THEN counts[g] ELSE 0]

Next ==
    \/ (Guest \/ Player) /\ Waiting(waited)
    \/ \E g \in Running :
        /\ UpdateVBlank(g)
        /\ Waiting([waited EXCEPT ![g] = IF @ <= Window THEN @ + 1 ELSE @])

Spec == Init /\ [][Next]_vars

-----------------------------------------------------------------------------
(* Properties.                                                             *)

Contented == [Cells -> Data \cup {Scratch, Unread}]
KeptType == [ram : Contented, dirty : SUBSET Sectors, saveModified : BOOLEAN,
    autosaveStarted : BOOLEAN, frames : 0..Window, unmarked : SUBSET Sectors]
GbType == [slot : {0} \cup Slots, open : BOOLEAN, ram : Contented,
    dirty : SUBSET Sectors, saveModified : BOOLEAN, autosaveStarted : BOOLEAN,
    frames : 0..Window, probeActive : BOOLEAN, kept : KeptType,
    resetting : BOOLEAN, frameCounter : 0..ProbeFrames - 1,
    unmarked : SUBSET Sectors]
FileType == [Slots -> [Cells -> Data \cup {Scratch, Unread, Missing}]]

\* The shape of the state.
TypeOK ==
    /\ gb \in [Gbs -> GbType]
    /\ \A g \in Gbs : gb[g].open => gb[g].slot # 0
    /\ focus \in Gbs
    /\ file \in FileType
    /\ state \in Contented \cup {NoState} /\ suspended \in Contented \cup {NoState}
    /\ autosave \in BOOLEAN /\ borders \in BOOLEAN /\ realSgb \in BOOLEAN
    /\ probing \in BOOLEAN /\ adopted \in BOOLEAN
    /\ waited \in [Gbs -> 0..Window + 1]

\* No sector of a save file ever holds what a border probe wrote, nor memory
\* a failed read left unfilled: saveGame, autosave, states and unloading work
\* on the game's own RAM whichever way a probe is left, and a game whose save
\* could not be read runs without a file.  (A state saved of such a game may
\* bring its RAM into a later one: adopted.)
FilesHoldGameData ==
    \A k \in Slots, c \in Sectors :
        /\ file[k][c] # Scratch
        /\ file[k][c] = Unread => adopted

\* Autosave loses track of nothing but what `unmarked` names: a sector whose
\* RAM differs from the file is dirty, or was changed with autosave off, by a
\* capture or a state, or lost its mark when init cleared the marks.  During
\* a probe it is the RAM set aside that the file is compared with.
AutosaveTracks ==
    \A g \in Running :
        LET r == EndBorderProbe(gb[g])
        IN r.open /\ (\A h \in Gbs \ {g} : gb[h].slot # r.slot) =>
            \A c \in Sectors \ (r.dirty \cup r.unmarked) :
                r.ram[c] = file[r.slot][c]

\* With autosave on, the RAM of a game alone on its file never differs from it
\* for more than Window VBlanks, however the writes, resets, state loads and
\* the switching of the option fall, and even if the game never stops writing.
\* Excepted are the sectors in `unmarked`: those changed without a mark, and
\* those whose mark a reset cleared, which may wait for ever (see ExitSaves)
\* unless the game writes them again.
AutosaveIsTimely == \A g \in Gbs : waited[g] <= Window

\* docs/guides/user-guide.en.md, "Exit saves normally": when the game has
\* been quiet since the last VBlank, leaving by Exit leaves all its RAM in
\* the file.
ExitSaves ==
    [][Exit => \A g \in Running :
        gb[g].open /\ ~gb[g].probeActive /\ ~gb[g].saveModified =>
            \A c \in Sectors : file'[gb[g].slot][c] = gb[g].ram[c]]_vars
=============================================================================
