--------------------------- MODULE SaveFile_proofs --------------------------
(***************************************************************************)
(* Proofs about the save file, for every number of Game Boys, sectors,     *)
(* values and frames, in three parts: every variable keeps its type and no *)
(* sector of a file ever holds what a border probe wrote or a failed read  *)
(* left; autosave loses track of nothing: a sector of a game's RAM that is *)
(* neither dirty nor known to have been changed without a mark is in the   *)
(* file; and none it knows of waits for the file longer than the window.   *)
(***************************************************************************)
EXTENDS SaveFile, TLAPS

\* The RAM that is the game's own: during a probe, the one set aside.
OwnRam(r) == IF r.probeActive THEN r.kept.ram ELSE r.ram

\* RAM that may go to a file: none of it is a probe's and, unless a state of
\* RAM without a file was adopted (real), none of it was never read.
Genuine(ram, real) ==
    \A c \in Sectors : ram[c] # Scratch /\ (ram[c] = Unread => real)

\* What each object, file and state keeps.  A Game Boy without a file may hold
\* memory nobody read, but no probe's.
GbOK(r, real) ==
    /\ r \in GbType
    /\ r.open => r.slot # 0
    /\ Genuine(OwnRam(r), real \/ ~r.open)

FileOK(files, real) ==
    /\ files \in FileType
    /\ \A k \in Slots : Genuine(files[k], real)

StateOK(ram, real) ==
    /\ ram \in Contented \cup {NoState}
    /\ ram # NoState => Genuine(ram, real)

SettingsOK ==
    /\ focus \in Gbs
    /\ autosave \in BOOLEAN /\ borders \in BOOLEAN /\ realSgb \in BOOLEAN
    /\ probing \in BOOLEAN /\ adopted \in BOOLEAN

GbsOK == gb \in [Gbs -> GbType] /\ \A g \in Gbs : GbOK(gb[g], adopted)

IInv ==
    /\ SettingsOK
    /\ GbsOK
    /\ FileOK(file, adopted)
    /\ StateOK(state, adopted)
    /\ StateOK(suspended, adopted)

-----------------------------------------------------------------------------
(* The methods of Gameboy keep an object, and what they write, sound.      *)

\* Contents are told apart, and a cell is a sector or the clock.
LEMMA Told ==
    /\ Sectors \subseteq Cells /\ Clock \in Cells
    /\ Zero # Scratch /\ Zero # Unread /\ Scratch # Unread
    /\ Missing # Scratch /\ Missing # Unread /\ Zero \in Data
    /\ Scratch \notin Data /\ Unread \notin Data /\ Missing \notin Data
  BY CellsAssumption, ContentsAssumption DEF Cells

\* Where the counters begin is within their limits.
LEMMA Limits == 0 \in 0..Window /\ 0 \in 0..ProbeFrames - 1
  BY LimitsAssumption

\* What matters of an object is its type, its file and its own RAM.
LEMMA SameOwnRam ==
    ASSUME NEW r, NEW e, NEW real, GbOK(r, real), e \in GbType,
           e.slot = r.slot, e.open = r.open, OwnRam(e) = OwnRam(r)
    PROVE  GbOK(e, real)
  BY DEF GbOK, Genuine

\* beginBorderProbe sets the RAM aside, or leaves the object alone.
LEMMA BeginProbeOK ==
    ASSUME NEW r, NEW real, GbOK(r, real)
    PROVE  GbOK(BeginBorderProbe(r), real)
  BY DEF GbOK, GbType, KeptType, OwnRam, BeginBorderProbe

\* endBorderProbe leaves no probe, and the RAM set aside.
LEMMA EndProbeOK ==
    ASSUME NEW r, NEW real, GbOK(r, real)
    PROVE  /\ GbOK(EndBorderProbe(r), real)
           /\ ~EndBorderProbe(r).probeActive
  <1> DEFINE e == EndBorderProbe(r)
  <1>1. NothingKept \in KeptType
    BY Told, LimitsAssumption DEF NothingKept, KeptType, Contented, NothingRead
  <1>2. e \in GbType
    BY <1>1 DEF GbOK, GbType, KeptType, EndBorderProbe
  <1>3. e.slot = r.slot /\ e.open = r.open /\ ~e.probeActive /\ e.ram = OwnRam(r)
    BY DEF GbOK, GbType, KeptType, OwnRam, EndBorderProbe
  <1> QED
    BY <1>2, <1>3 DEF GbOK, OwnRam

\* saveGame writes the game's own RAM, of a game that has its file.
LEMMA SaveOK ==
    ASSUME NEW r, NEW real, GbOK(r, real)
    PROVE  /\ GbOK(SaveGame(r), real)
           /\ \A files : FileOK(files, real) => FileOK(Saved(files, r), real)
  <1>1. GbOK(SaveGame(r), real)
    <2> DEFINE e == SaveGame(r)
    <2>0. r \in GbType
      BY DEF GbOK
    <2>1. [[r EXCEPT !.dirty = {}] EXCEPT !.unmarked = {}] \in GbType
      BY <2>0, Limits DEF GbType
    <2>2. e \in GbType
      BY <2>1 DEF SaveGame, GbOK
    <2>3. e.slot = r.slot /\ e.open = r.open /\ OwnRam(e) = OwnRam(r)
      BY DEF GbOK, GbType, SaveGame, OwnRam
    <2> QED
      BY <2>2, <2>3, SameOwnRam
  <1>2. ASSUME NEW files, FileOK(files, real), Saves(r)
        PROVE  FileOK(Saved(files, r), real)
    <2>1. r.slot \in Slots /\ r.ram \in Contented /\ Genuine(r.ram, real)
      BY <1>2 DEF GbOK, GbType, OwnRam, Saves, Slots, Genuine
    <2> QED
      BY <1>2, <2>1 DEF FileOK, FileType, Saved, Contented
  <1>3. ASSUME NEW files, FileOK(files, real), ~Saves(r)
        PROVE  FileOK(Saved(files, r), real)
    BY <1>3 DEF Saved
  <1> QED
    BY <1>1, <1>2, <1>3

\* So does gameboySyncAutosave, sector by sector.
LEMMA SyncOK ==
    ASSUME NEW r, NEW real, GbOK(r, real)
    PROVE  /\ GbOK(GameboySyncAutosave(r), real)
           /\ \A files : FileOK(files, real) => FileOK(Synced(files, r), real)
  <1>1. GbOK(GameboySyncAutosave(r), real)
    <2> DEFINE e == GameboySyncAutosave(r)
    <2>0. r \in GbType
      BY DEF GbOK
    <2>1. [[[[r EXCEPT !.dirty = {}] EXCEPT !.unmarked = @ \ r.dirty]
              EXCEPT !.frames = 0] EXCEPT !.autosaveStarted = FALSE] \in GbType
      BY <2>0, Limits DEF GbType
    <2>2. e \in GbType
      BY <2>1 DEF GameboySyncAutosave, GbOK
    <2>3. e.slot = r.slot /\ e.open = r.open /\ OwnRam(e) = OwnRam(r)
      BY DEF GbOK, GbType, GameboySyncAutosave, OwnRam
    <2> QED
      BY <2>2, <2>3, SameOwnRam
  <1>2. ASSUME NEW files, FileOK(files, real), Syncs(r)
        PROVE  FileOK(Synced(files, r), real)
    <2>1. r.slot \in Slots /\ r.ram \in Contented /\ Genuine(r.ram, real)
      BY <1>2 DEF GbOK, GbType, OwnRam, Syncs, Slots, Genuine
    <2> DEFINE new == [c \in Cells |->
                  IF c \in r.dirty THEN r.ram[c] ELSE files[r.slot][c]]
    <2>2. Synced(files, r) = [files EXCEPT ![r.slot] = new]
      BY <1>2 DEF Synced
    <2>3. /\ new \in [Cells -> Data \cup {Scratch, Unread, Missing}]
          /\ Genuine(new, real)
      BY <1>2, <2>1, Told DEF FileOK, FileType, Contented, Genuine
    <2> QED
      BY <1>2, <2>1, <2>2, <2>3 DEF FileOK, FileType
  <1>3. ASSUME NEW files, FileOK(files, real), ~Syncs(r)
        PROVE  FileOK(Synced(files, r), real)
    BY <1>3 DEF Synced
  <1> QED
    BY <1>1, <1>2, <1>3

\* unloadRom ends a probe before it syncs.
LEMMA UnloadOK ==
    ASSUME NEW r, NEW real, GbOK(r, real), NEW files, FileOK(files, real)
    PROVE  FileOK(Unloaded(files, r), real)
  BY EndProbeOK, SyncOK DEF Unloaded

\* updateAutosave touches marks and counters only.
LEMMA UpdateAutosaveOK ==
    ASSUME NEW r, NEW real, GbOK(r, real), autosave \in BOOLEAN
    PROVE  /\ GbOK(UpdateAutosave(r), real)
           /\ \A files : FileOK(files, real) => FileOK(Autosaved(files, r), real)
  <1> DEFINE counted == Counted(r)
  <1>1. GbOK(counted, real)
    <2>1. counted \in GbType
      BY LimitsAssumption DEF GbOK, GbType, Counted
    <2>2. counted.slot = r.slot /\ counted.open = r.open /\ OwnRam(counted) = OwnRam(r)
      BY DEF GbOK, GbType, Counted, OwnRam
    <2> QED
      BY <2>1, <2>2, SameOwnRam
  <1> DEFINE asked == IF SyncDue(counted) THEN GameboySyncAutosave(counted) ELSE counted
  <1>2. GbOK(asked, real)
    BY <1>1, SyncOK
  <1>3. GbOK(UpdateAutosave(r), real)
    <2> DEFINE e == UpdateAutosave(r)
               started == asked.saveModified /\ autosave
               a == [asked EXCEPT !.autosaveStarted = started \/ @]
               b == [a EXCEPT !.saveModified = @ /\ ~started]
    <2>1. e = b
      BY DEF UpdateAutosave
    <2> HIDE DEF asked, e
    <2>2. asked \in GbType
      BY <1>2 DEF GbOK
    <2>3. a \in GbType /\ OwnRam(a) = OwnRam(asked)
            /\ a.slot = asked.slot /\ a.open = asked.open
      BY <2>2 DEF GbType, OwnRam
    <2>4. b \in GbType /\ OwnRam(b) = OwnRam(asked)
            /\ b.slot = asked.slot /\ b.open = asked.open
      <3> HIDE DEF a
      <3> QED
        BY <2>2, <2>3 DEF GbType, OwnRam
    <2>5. GbOK(b, real)
      <3> HIDE DEF b
      <3> QED
        BY <1>2, <2>4, SameOwnRam
    <2> QED
      BY <2>1, <2>5 DEF e
  <1>4. ASSUME NEW files, FileOK(files, real)
        PROVE  FileOK(Autosaved(files, r), real)
    BY <1>1, <1>4, SyncOK DEF Autosaved
  <1> QED
    BY <1>3, <1>4

\* init: whatever becomes of a probe, and whether or not a suspend state is
\* resumed, what is left is the game's own RAM.
LEMMA BootOK ==
    ASSUME NEW s, NEW memory \in BOOLEAN, NEW real,
           GbOK(s.r, real), s.probing \in BOOLEAN, StateOK(s.suspended, real),
           borders \in BOOLEAN, realSgb \in BOOLEAN
    PROVE  /\ GbOK(Boot(s, memory).r, real)
           /\ Boot(s, memory).probing \in BOOLEAN
           /\ StateOK(Boot(s, memory).suspended, real)
  <1> DEFINE cancelled == s.r.probeActive /\ (~s.probing \/ ~borders)
             ended == IF cancelled THEN EndBorderProbe(s.r) ELSE s.r
             probes == /\ s.probing /\ ~cancelled /\ ~realSgb
                       /\ (memory \/ ended.probeActive)
             entered == IF probes THEN BeginBorderProbe(ended)
                                  ELSE EndBorderProbe(ended)
             resumes == ~probes /\ s.suspended # NoState
             booted == [entered EXCEPT !.dirty = {}, !.frameCounter = 0,
                  !.resetting = FALSE,
                  !.ram = IF resumes THEN s.suspended ELSE @,
                  !.unmarked = IF resumes THEN Sectors ELSE @ \cup entered.dirty]
  <1>1. Boot(s, memory) = [r |-> booted, probing |-> probes,
             suspended |-> IF resumes THEN NoState ELSE s.suspended]
    BY DEF Boot
  <1>2. GbOK(ended, real)
    BY EndProbeOK
  <1>3. GbOK(entered, real) /\ (~probes => ~entered.probeActive)
    BY <1>2, EndProbeOK, BeginProbeOK
  <1>4. probes \in BOOLEAN
    OBVIOUS
  <1> HIDE DEF entered, probes
  <1>5. booted \in GbType
    <2> DEFINE ram == IF resumes THEN s.suspended ELSE entered.ram
               unmarked == IF resumes THEN Sectors
                           ELSE entered.unmarked \cup entered.dirty
    <2>0. entered \in GbType
      BY <1>3 DEF GbOK
    <2>1. ram \in Contented /\ unmarked \in SUBSET Sectors
      BY <1>3 DEF GbOK, GbType, StateOK
    <2>2. booted = [[[[[entered EXCEPT !.dirty = {}]
                      EXCEPT !.frameCounter = 0] EXCEPT !.resetting = FALSE]
                      EXCEPT !.ram = ram] EXCEPT !.unmarked = unmarked]
      BY <1>3 DEF GbOK, GbType
    <2> HIDE DEF ram, unmarked
    <2>3. [[[[[entered EXCEPT !.dirty = {}]
                      EXCEPT !.frameCounter = 0] EXCEPT !.resetting = FALSE]
                      EXCEPT !.ram = ram] EXCEPT !.unmarked = unmarked] \in GbType
      BY <2>0, <2>1, Limits DEF GbType
    <2> HIDE DEF booted
    <2> QED
      BY <2>2, <2>3
  <1>6. booted.slot = entered.slot /\ booted.open = entered.open
    BY <1>3 DEF GbOK, GbType
  <1>7. CASE resumes
    <2>1. OwnRam(booted) = s.suspended
      BY <1>3, <1>7 DEF GbOK, GbType, OwnRam
    <2>2. GbOK(booted, real)
      BY <1>3, <1>5, <1>6, <1>7, <2>1 DEF GbOK, StateOK, Genuine
    <2> QED
      BY <1>1, <1>4, <2>2 DEF StateOK
  <1>8. CASE ~resumes
    <2>1. OwnRam(booted) = OwnRam(entered)
      BY <1>3, <1>8 DEF GbOK, GbType, OwnRam
    <2>2. GbOK(booted, real)
      BY <1>3, <1>5, <1>6, <2>1, SameOwnRam
    <2> QED
      BY <1>1, <1>4, <1>8, <2>2
  <1> QED
    BY <1>7, <1>8

-----------------------------------------------------------------------------
(* Loading.                                                                *)

LEMMA EmptyOK == ASSUME NEW real PROVE GbOK(Empty, real)
  <1>1. NothingRead \in Contented
    BY DEF NothingRead, Contented
  <1>2. Empty \in GbType
    BY <1>1, Limits DEF Empty, GbType, KeptType, NothingKept
  <1>3. ~Empty.open /\ OwnRam(Empty) = NothingRead
    BY DEF Empty, OwnRam
  <1> QED
    BY <1>2, <1>3, Told DEF GbOK, Genuine, NothingRead

\* A file as it is read holds zeroes where it was short.
LEMMA StoredOK ==
    ASSUME NEW real, NEW files, FileOK(files, real), NEW slot \in Slots
    PROVE  /\ Stored(files, slot) \in Contented
           /\ Genuine(Stored(files, slot), real)
           /\ FileOK(Extended(files, slot), real)
  <1>1. /\ Stored(files, slot) \in Contented
        /\ Genuine(Stored(files, slot), real)
    BY Told DEF FileOK, FileType, Stored, Contented, Genuine
  <1> QED
    BY <1>1 DEF FileOK, FileType, Extended, Contented

LEMMA LoadSaveOK ==
    ASSUME NEW real, NEW files, FileOK(files, real), NEW slot \in Slots
    PROVE  /\ GbOK(LoadSave(files, slot), real)
           /\ \A read : GbOK(LoadSaveFails(files, slot, read), real)
  <1> DEFINE stored == Stored(files, slot)
  <1>1. Empty \in GbType /\ ~Empty.probeActive /\ ~Empty.open
    BY EmptyOK DEF GbOK, Empty
  <1>2. stored \in Contented /\ Genuine(stored, real)
    BY StoredOK
  <1>3. GbOK(LoadSave(files, slot), real)
    <2> DEFINE r == LoadSave(files, slot)
               nested == [[[Empty EXCEPT !.slot = slot] EXCEPT !.open = TRUE]
                             EXCEPT !.ram = stored]
    <2> HIDE DEF stored
    <2>1. nested \in GbType
      BY <1>1, <1>2 DEF GbType
    <2>2. nested.slot = slot /\ nested.open /\ OwnRam(nested) = stored
      BY <1>1 DEF GbType, OwnRam
    <2>3. r = nested
      BY DEF LoadSave, stored
    <2> HIDE DEF nested, r
    <2>4. GbOK(nested, real)
      BY <1>2, <2>1, <2>2 DEF GbOK, Slots, Genuine
    <2> QED
      BY <2>3, <2>4 DEF r
  <1>4. ASSUME NEW read
        PROVE  GbOK(LoadSaveFails(files, slot, read), real)
    <2> DEFINE r == LoadSaveFails(files, slot, read)
               ram == [c \in Cells |-> IF c \in read THEN stored[c] ELSE Unread]
               nested == [[[Empty EXCEPT !.slot = slot] EXCEPT !.unmarked = Sectors]
                             EXCEPT !.ram = ram]
    <2>1. ram \in Contented /\ \A c \in Sectors : ram[c] # Scratch
      BY <1>2, Told DEF Contented, Genuine
    <2>2. r = nested
      BY DEF LoadSaveFails
    <2> HIDE DEF ram
    <2>3. nested \in GbType
      BY <1>1, <2>1 DEF GbType
    <2>4. ~nested.open /\ OwnRam(nested) = ram
      BY <1>1 DEF GbType, OwnRam
    <2> HIDE DEF nested, r
    <2>5. GbOK(nested, real)
      BY <2>1, <2>3, <2>4 DEF GbOK, Genuine
    <2> QED
      BY <2>2, <2>5 DEF r
  <1> QED
    BY <1>3, <1>4

-----------------------------------------------------------------------------
(* The steps.                                                              *)

\* One object changes, and stays sound.
LEMMA OneGbOK ==
    ASSUME NEW objects, NEW g \in Gbs, NEW x, NEW real,
           objects \in [Gbs -> GbType], \A h \in Gbs : GbOK(objects[h], real),
           GbOK(x, real)
    PROVE  /\ [objects EXCEPT ![g] = x] \in [Gbs -> GbType]
           /\ \A h \in Gbs : GbOK([objects EXCEPT ![g] = x][h], real)
  <1>1. x \in GbType
    BY DEF GbOK
  <1>2. [objects EXCEPT ![g] = x] \in [Gbs -> GbType]
    BY <1>1
  <1>3. ASSUME NEW h \in Gbs
        PROVE  GbOK([objects EXCEPT ![g] = x][h], real)
    <2>1. CASE h = g
      BY <2>1
    <2>2. CASE h # g
      BY <2>2
    <2> QED
      BY <2>1, <2>2
  <1> QED
    BY <1>2, <1>3

\* A sound object boots among sound ones.
LEMMA BootStepOK ==
    ASSUME IInv, adopted' = adopted, NEW g \in Gbs, NEW others,
           others \in [Gbs -> GbType], \A h \in Gbs : GbOK(others[h], adopted),
           NEW s, NEW memory \in BOOLEAN, GbOK(s.r, adopted),
           s.probing \in BOOLEAN, s.suspended = suspended,
           gb' = [others EXCEPT ![g] = Boot(s, memory).r],
           probing' = Boot(s, memory).probing,
           suspended' = Boot(s, memory).suspended
    PROVE  GbsOK' /\ probing' \in BOOLEAN /\ StateOK(suspended, adopted)'
  <1> DEFINE b == Boot(s, memory)
  <1>1. StateOK(s.suspended, adopted) /\ borders \in BOOLEAN /\ realSgb \in BOOLEAN
    BY DEF IInv, SettingsOK
  <1>2. GbOK(b.r, adopted) /\ b.probing \in BOOLEAN /\ StateOK(b.suspended, adopted)
    BY <1>1, BootOK
  <1>3. gb' = [others EXCEPT ![g] = b.r] /\ probing' = b.probing
            /\ suspended' = b.suspended
    OBVIOUS
  <1> HIDE DEF b
  <1>4. gb' \in [Gbs -> GbType] /\ \A h \in Gbs : GbOK(gb'[h], adopted)
    BY <1>2, <1>3, OneGbOK
  <1> QED
    BY <1>2, <1>3, <1>4 DEF GbsOK

\* Loading a game into one of sound objects leaves all sound.
LEMMA LoadAndBootOK ==
    ASSUME IInv, adopted' = adopted, NEW g \in Gbs, NEW slot \in Slots,
           NEW probe \in BOOLEAN, NEW files, NEW others,
           FileOK(files, adopted), others \in [Gbs -> GbType],
           \A h \in Gbs : GbOK(others[h], adopted),
           LoadAndBoot(g, slot, probe, files, others)
    PROVE  /\ GbsOK' /\ FileOK(file, adopted)' /\ StateOK(suspended, adopted)'
           /\ probing' \in BOOLEAN
  <1> DEFINE s(r) == [r |-> r, probing |-> probe, suspended |-> suspended]
             Into(r, memory) ==
                /\ gb' = [others EXCEPT ![g] = Boot(s(r), memory).r]
                /\ probing' = Boot(s(r), memory).probing
                /\ suspended' = Boot(s(r), memory).suspended
                /\ file' \in {files, Extended(files, slot)}
  <1>1. ASSUME NEW r, NEW memory \in BOOLEAN, GbOK(r, adopted), Into(r, memory)
        PROVE  /\ GbsOK' /\ FileOK(file, adopted)' /\ StateOK(suspended, adopted)'
               /\ probing' \in BOOLEAN
    <2>1. GbOK(s(r).r, adopted) /\ s(r).probing \in BOOLEAN
            /\ s(r).suspended = suspended
      BY <1>1
    <2>2. GbsOK' /\ probing' \in BOOLEAN /\ StateOK(suspended, adopted)'
      <3> HIDE DEF s
      <3> QED
        BY <1>1, <2>1, BootStepOK
    <2>3. FileOK(file', adopted)
      BY <1>1, StoredOK
    <2> QED
      BY <2>2, <2>3
  <1>2. PICK memory \in BOOLEAN :
            \/ Into(LoadSave(files, slot), memory)
            \/ \E read \in SUBSET Sectors :
                  Into(LoadSaveFails(files, slot, read), memory)
    BY DEF LoadAndBoot
  <1>3. CASE Into(LoadSave(files, slot), memory)
    <2> HIDE DEF Into
    <2> QED
      BY <1>1, <1>3, LoadSaveOK
  <1>4. CASE \E read \in SUBSET Sectors :
                 Into(LoadSaveFails(files, slot, read), memory)
    <2> HIDE DEF Into
    <2> QED
      BY <1>1, <1>4, LoadSaveOK
  <1> QED
    BY <1>2, <1>3, <1>4

LEMMA ObjectStepOK ==
    ASSUME IInv, adopted' = adopted, NEW g \in Gbs, NEW x, GbOK(x, adopted),
           gb' = [gb EXCEPT ![g] = x]
    PROVE  GbsOK'
  <1>1. gb' \in [Gbs -> GbType] /\ \A h \in Gbs : GbOK(gb'[h], adopted)
    BY OneGbOK DEF IInv, GbsOK
  <1> QED
    BY <1>1 DEF GbsOK

\* The guest writes to the RAM: during a probe anything, else its own data.
LEMMA RamOK ==
    ASSUME NEW r, NEW x, NEW real, GbOK(r, real), x \in GbType,
           x.slot = r.slot, x.open = r.open, x.probeActive = r.probeActive,
           x.kept = r.kept,
           ~r.probeActive =>
              \A c \in Sectors : x.ram[c] # r.ram[c] => x.ram[c] \in Data
    PROVE  GbOK(x, real)
  <1>1. CASE r.probeActive
    <2>1. OwnRam(x) = OwnRam(r)
      BY <1>1 DEF OwnRam
    <2> QED
      BY <2>1, SameOwnRam
  <1>2. CASE ~r.probeActive
    <2>1. OwnRam(x) = x.ram /\ OwnRam(r) = r.ram
      BY <1>2 DEF OwnRam
    <2> QED
      BY <1>2, <2>1, Told DEF GbOK, Genuine
  <1> QED
    BY <1>1, <1>2 DEF GbOK, GbType

\* A cell of the RAM takes what the guest writes.
LEMMA CellOK ==
    ASSUME NEW r, NEW real, GbOK(r, real), NEW c \in Cells, NEW v \in Contents(r)
    PROVE  /\ GbOK([r EXCEPT !.ram[c] = v], real)
           /\ [r EXCEPT !.ram[c] = v].dirty = r.dirty
  <1> DEFINE ram == [r.ram EXCEPT ![c] = v]
             x == [r EXCEPT !.ram = ram]
  <1>1. ram \in Contented /\ \A d \in Cells : ram[d] # r.ram[d] => ram[d] = v
    BY DEF GbOK, GbType, Contented, Contents
  <1>2. ~r.probeActive => v \in Data
    BY DEF Contents
  <1>3. [r EXCEPT !.ram[c] = v] = x
    OBVIOUS
  <1> HIDE DEF ram
  <1>4. /\ x \in GbType /\ x.slot = r.slot /\ x.open = r.open /\ x.ram = ram
        /\ x.probeActive = r.probeActive /\ x.kept = r.kept /\ x.dirty = r.dirty
    BY <1>1 DEF GbOK, GbType
  <1>5. ~r.probeActive =>
            \A d \in Sectors : x.ram[d] # r.ram[d] => x.ram[d] \in Data
    BY <1>1, <1>2, <1>4, Told
  <1> HIDE DEF x
  <1>6. GbOK(x, real)
    BY <1>4, <1>5, RamOK
  <1> QED
    BY <1>3, <1>4, <1>6

\* Marks and modification flags are not what matters.
LEMMA MarksOK ==
    ASSUME NEW r, NEW real, GbOK(r, real), NEW m \in BOOLEAN,
           NEW d \in SUBSET Sectors
    PROVE  /\ GbOK([r EXCEPT !.saveModified = m], real)
           /\ GbOK([r EXCEPT !.dirty = d], real)
           /\ GbOK([r EXCEPT !.unmarked = d], real)
           /\ GbOK([r EXCEPT !.resetting = m], real)
  <1> DEFINE x == {[r EXCEPT !.saveModified = m], [r EXCEPT !.dirty = d],
                   [r EXCEPT !.unmarked = d], [r EXCEPT !.resetting = m]}
  <1>1. \A e \in x : /\ e \in GbType /\ e.slot = r.slot /\ e.open = r.open
                     /\ OwnRam(e) = OwnRam(r)
    BY DEF GbOK, GbType, OwnRam
  <1> QED
    BY <1>1, SameOwnRam

-----------------------------------------------------------------------------
(* The guest's steps.                                                      *)

LEMMA WriteSramOK ==
    ASSUME IInv, NEW g \in Gbs, WriteSram(g)
    PROVE  IInv'
  <1> DEFINE r == gb[g]
  <1>1. PICK c \in Sectors, v \in Contents(r) :
            gb' = [gb EXCEPT ![g] =
                IF autosave
                  THEN [r EXCEPT !.ram[c] = v, !.saveModified = TRUE,
                                 !.dirty = @ \cup {c}, !.unmarked = @ \ {c}]
                  ELSE [r EXCEPT !.ram[c] = v, !.unmarked = @ \cup {c}]]
    BY DEF WriteSram
  <1> DEFINE x == [r EXCEPT !.ram[c] = v]
             y == [x EXCEPT !.saveModified = TRUE]
             named == [y EXCEPT !.dirty = @ \cup {c}]
             marked == [named EXCEPT !.unmarked = @ \ {c}]
             unmarked == [x EXCEPT !.unmarked = @ \cup {c}]
  <1>2. GbOK(r, adopted)
    BY DEF IInv, GbsOK
  <1>3. GbOK(x, adopted)
    BY <1>2, CellOK, Told
  <1>4. gb' = [gb EXCEPT ![g] = IF autosave THEN marked ELSE unmarked]
    <2>1. marked = [r EXCEPT !.ram[c] = v, !.saveModified = TRUE,
                             !.dirty = @ \cup {c}, !.unmarked = @ \ {c}]
      OBVIOUS
    <2>2. unmarked = [r EXCEPT !.ram[c] = v, !.unmarked = @ \cup {c}]
      OBVIOUS
    <2> HIDE DEF marked, unmarked
    <2> QED
      BY <1>1, <2>1, <2>2
  <1> HIDE DEF x
  <1>5. GbOK(y, adopted)
    BY <1>3, MarksOK
  <1>6. x.unmarked \cup {c} \in SUBSET Sectors /\ y.dirty \cup {c} \in SUBSET Sectors
    BY <1>3, <1>5 DEF GbOK, GbType
  <1>7. GbOK(unmarked, adopted)
    BY <1>3, <1>6, MarksOK
  <1>8. GbOK(marked, adopted)
    <2> HIDE DEF y
    <2>1. GbOK(named, adopted)
      BY <1>5, <1>6, MarksOK
    <2> HIDE DEF named
    <2>2. named.unmarked \ {c} \in SUBSET Sectors
      BY <2>1 DEF GbOK, GbType
    <2> QED
      BY <2>1, <2>2, MarksOK
  <1> HIDE DEF marked, unmarked
  <1>9. GbsOK'
    BY <1>4, <1>7, <1>8, ObjectStepOK DEF WriteSram
  <1> QED
    BY <1>9 DEF WriteSram, IInv, SettingsOK, settings, fixed

LEMMA WriteClockOK ==
    ASSUME IInv, NEW g \in Gbs, WriteClock(g)
    PROVE  IInv'
  <1> DEFINE r == gb[g]
  <1>1. PICK v \in Contents(r) :
            /\ gb' = [gb EXCEPT ![g].ram[Clock] = v,
                   ![g].saveModified = @ \/ (autosave /\ gb[g].open)]
            /\ file' = IF autosave /\ gb[g].open
                         THEN [file EXCEPT ![gb[g].slot][Clock] = v] ELSE file
    BY DEF WriteClock
  <1> DEFINE x == [r EXCEPT !.ram[Clock] = v]
             y == [x EXCEPT !.saveModified = @ \/ (autosave /\ r.open)]
  <1>2. GbOK(r, adopted) /\ gb \in [Gbs -> GbType]
    BY DEF IInv, GbsOK
  <1>3. GbOK(x, adopted)
    BY <1>2, CellOK, Told
  <1>4. gb' = [gb EXCEPT ![g] = y]
    BY <1>1, <1>2
  <1>5. GbOK(y, adopted)
    <2> HIDE DEF x
    <2> QED
      BY <1>3, MarksOK
  <1> HIDE DEF y
  <1>6. GbsOK'
    BY <1>4, <1>5, ObjectStepOK DEF WriteClock
  <1>7. FileOK(file', adopted)
    <2>1. CASE autosave /\ r.open
      <3>1. r.slot \in Slots /\ v \in Data \cup {Scratch}
        BY <1>2, <2>1 DEF GbOK, GbType, Slots, Contents
      <3> DEFINE new == [file[r.slot] EXCEPT ![Clock] = v]
      <3>2. FileOK(file, adopted)
        BY DEF IInv
      <3>3. /\ new \in [Cells -> Data \cup {Scratch, Unread, Missing}]
            /\ Genuine(new, adopted)
        BY <3>1, <3>2, Told, CellsAssumption DEF FileOK, FileType, Genuine
      <3>4. file' = [file EXCEPT ![r.slot] = new]
        BY <1>1, <2>1
      <3> HIDE DEF new
      <3> QED
        BY <3>1, <3>2, <3>3, <3>4 DEF FileOK, FileType
    <2>2. CASE ~(autosave /\ r.open)
      BY <1>1, <2>2 DEF IInv
    <2> QED
      BY <2>1, <2>2
  <1> QED
    BY <1>6, <1>7 DEF WriteClock, IInv, SettingsOK, settings, fixed

LEMMA CaptureImageOK ==
    ASSUME IInv, NEW g \in Gbs, CaptureImage(g)
    PROVE  IInv'
  <1> DEFINE r == gb[g]
  <1>1. PICK c \in Sectors, v \in Contents(r) :
            gb' = [gb EXCEPT ![g].ram[c] = v, ![g].unmarked = @ \cup {c}]
    BY DEF CaptureImage
  <1> DEFINE x == [r EXCEPT !.ram[c] = v]
             y == [x EXCEPT !.unmarked = @ \cup {c}]
  <1>2. GbOK(r, adopted) /\ gb \in [Gbs -> GbType]
    BY DEF IInv, GbsOK
  <1>3. GbOK(x, adopted)
    BY <1>2, CellOK, Told
  <1>4. gb' = [gb EXCEPT ![g] = y]
    BY <1>1, <1>2
  <1>5. GbOK(y, adopted)
    <2> HIDE DEF x
    <2>1. x.unmarked \cup {c} \in SUBSET Sectors
      BY <1>3 DEF GbOK, GbType
    <2> QED
      BY <1>3, <2>1, MarksOK
  <1> HIDE DEF y
  <1>6. GbsOK'
    BY <1>4, <1>5, ObjectStepOK DEF CaptureImage
  <1> QED
    BY <1>6 DEF CaptureImage, IInv, SettingsOK, settings, fixed

\* An object asks for a reset.
LEMMA AskResetOK ==
    ASSUME IInv, adopted' = adopted, gb' = [gb EXCEPT ![focus].resetting = TRUE]
    PROVE  GbsOK'
  <1> DEFINE x == [gb[focus] EXCEPT !.resetting = TRUE]
  <1>1. GbOK(gb[focus], adopted) /\ focus \in Gbs
    BY DEF IInv, GbsOK, SettingsOK
  <1>2. GbOK(x, adopted)
    BY <1>1, MarksOK
  <1>3. gb' = [gb EXCEPT ![focus] = x]
    OBVIOUS
  <1> HIDE DEF x
  <1> QED
    BY <1>1, <1>2, <1>3, ObjectStepOK

LEMMA BorderFoundOK == ASSUME IInv, BorderFound PROVE IInv'
  <1>1. GbsOK'
    BY AskResetOK DEF BorderFound
  <1> QED
    BY <1>1 DEF BorderFound, IInv, SettingsOK, settings, fixed

\* updateVBlank: a reset, the end of a probe, a frame of it, or autosave.
LEMMA UpdateVBlankOK ==
    ASSUME IInv, NEW g \in Gbs, UpdateVBlank(g)
    PROVE  IInv'
  <1> DEFINE now == [r |-> gb[g], probing |-> probing, suspended |-> suspended]
  <1>1. PICK memory \in BOOLEAN :
        LET s == IF gb[g].resetting THEN Boot(now, memory) ELSE now
            frame == s.r.frameCounter + 1
            gaveUp == Boot([s EXCEPT !.probing = FALSE], memory)
            ends == ~borders \/ GivesUp(frame)
            left == CASE ~s.probing -> [s EXCEPT !.r = UpdateAutosave(s.r)]
                      [] s.probing /\ ends -> gaveUp
                      [] OTHER -> [s EXCEPT !.r.frameCounter = frame]
        IN /\ gb' = [gb EXCEPT ![g] = left.r]
           /\ probing' = left.probing /\ suspended' = left.suspended
           /\ file' = IF s.probing THEN file ELSE Autosaved(file, s.r)
    BY DEF UpdateVBlank
  <1> DEFINE s == IF gb[g].resetting THEN Boot(now, memory) ELSE now
             frame == s.r.frameCounter + 1
             gaveUp == Boot([s EXCEPT !.probing = FALSE], memory)
             ends == ~borders \/ GivesUp(frame)
             left == CASE ~s.probing -> [s EXCEPT !.r = UpdateAutosave(s.r)]
                       [] s.probing /\ ends -> gaveUp
                       [] OTHER -> [s EXCEPT !.r.frameCounter = frame]
  <1>2. /\ gb' = [gb EXCEPT ![g] = left.r]
        /\ probing' = left.probing /\ suspended' = left.suspended
        /\ file' = IF s.probing THEN file ELSE Autosaved(file, s.r)
    BY <1>1
  <1>3. /\ GbOK(now.r, adopted) /\ now.probing \in BOOLEAN
        /\ StateOK(now.suspended, adopted)
        /\ autosave \in BOOLEAN /\ borders \in BOOLEAN /\ realSgb \in BOOLEAN
    BY DEF IInv, GbsOK, SettingsOK
  <1>4. /\ GbOK(s.r, adopted) /\ s.probing \in BOOLEAN
        /\ StateOK(s.suspended, adopted)
        /\ s = [r |-> s.r, probing |-> s.probing, suspended |-> s.suspended]
    <2>1. CASE gb[g].resetting
      <3>1. s = Boot(now, memory)
        BY <2>1
      <3>2. Boot(now, memory) = [r |-> Boot(now, memory).r,
                 probing |-> Boot(now, memory).probing,
                 suspended |-> Boot(now, memory).suspended]
        BY DEF Boot
      <3> HIDE DEF now
      <3>3. /\ GbOK(Boot(now, memory).r, adopted)
            /\ Boot(now, memory).probing \in BOOLEAN
            /\ StateOK(Boot(now, memory).suspended, adopted)
        BY <1>3, BootOK
      <3> HIDE DEF s
      <3> QED
        BY <3>1, <3>2, <3>3
    <2>2. CASE ~gb[g].resetting
      BY <1>3, <2>2
    <2> QED
      BY <2>1, <2>2
  <1> HIDE DEF s
  <1>5. GbOK(left.r, adopted) /\ left.probing \in BOOLEAN
            /\ StateOK(left.suspended, adopted)
    <2>1. CASE ~s.probing
      <3>1. left = [s EXCEPT !.r = UpdateAutosave(s.r)]
        BY <2>1
      <3>2. left.r = UpdateAutosave(s.r) /\ left.probing = s.probing
              /\ left.suspended = s.suspended
        BY <1>4, <3>1
      <3> HIDE DEF left
      <3> QED
        BY <1>3, <1>4, <3>2, UpdateAutosaveOK
    <2>2. CASE s.probing /\ ends
      <3> DEFINE t == [s EXCEPT !.probing = FALSE]
      <3>1. left = Boot(t, memory)
        BY <2>2
      <3>2. t.r = s.r /\ t.probing = FALSE /\ t.suspended = s.suspended
        BY <1>4
      <3> HIDE DEF t, left
      <3> QED
        BY <1>3, <1>4, <3>1, <3>2, BootOK
    <2>3. CASE s.probing /\ ~ends
      <3> DEFINE x == [s.r EXCEPT !.frameCounter = frame]
      <3>1. left = [s EXCEPT !.r.frameCounter = frame]
        BY <2>3
      <3>2. [s EXCEPT !.r.frameCounter = frame] = [s EXCEPT !.r = x]
        OBVIOUS
      <3>3. frame \in 0..ProbeFrames - 1
        BY <1>4, <2>3, LimitsAssumption DEF GbOK, GbType, GivesUp
      <3> HIDE DEF frame
      <3>4. x \in GbType /\ x.slot = s.r.slot /\ x.open = s.r.open
              /\ OwnRam(x) = OwnRam(s.r)
        BY <1>4, <3>3 DEF GbOK, GbType, OwnRam
      <3> HIDE DEF x, left
      <3>5. GbOK(x, adopted)
        BY <1>4, <3>4, SameOwnRam
      <3>6. left.r = x /\ left.probing = s.probing /\ left.suspended = s.suspended
        BY <1>4, <3>1, <3>2
      <3> QED
        BY <1>4, <3>5, <3>6
    <2> QED
      BY <1>4, <2>1, <2>2, <2>3
  <1> HIDE DEF left
  <1>6. adopted' = adopted
    BY DEF UpdateVBlank
  <1>7. GbsOK'
    BY <1>2, <1>5, <1>6, ObjectStepOK
  <1>8. FileOK(file', adopted)
    BY <1>2, <1>3, <1>4, UpdateAutosaveOK DEF IInv
  <1> QED
    BY <1>2, <1>5, <1>6, <1>7, <1>8
    DEF UpdateVBlank, IInv, SettingsOK, settings, fixed

-----------------------------------------------------------------------------
(* The player's steps.                                                     *)

LEMMA LoadRomOK == ASSUME IInv, LoadRom PROVE IInv'
  <1>1. LoadAndBoot(focus, 1, borders, file, gb) /\ adopted' = adopted
    BY DEF LoadRom
  <1>2. /\ focus \in Gbs /\ borders \in BOOLEAN /\ FileOK(file, adopted)
        /\ gb \in [Gbs -> GbType] /\ \A h \in Gbs : GbOK(gb[h], adopted)
        /\ 1 \in Slots
    BY DEF IInv, SettingsOK, GbsOK, Slots
  <1>3. /\ GbsOK' /\ FileOK(file, adopted)' /\ StateOK(suspended, adopted)'
        /\ probing' \in BOOLEAN
    BY <1>1, <1>2, LoadAndBootOK
  <1> QED
    BY <1>3 DEF LoadRom, IInv, SettingsOK, settings, fixed

\* The doubts of a Game Boy whose file another one opened concern no RAM.
LEMMA DoubtedOK ==
    ASSUME NEW r, NEW real, GbOK(r, real)
    PROVE  GbOK(Doubted(r), real)
  <1> DEFINE x == [r EXCEPT !.unmarked = Sectors]
             kept == [x.kept EXCEPT !.unmarked = Sectors]
             y == [x EXCEPT !.kept = kept]
  <1>1. GbOK(x, real) /\ x.probeActive = r.probeActive
    <2>1. x.probeActive = r.probeActive
      BY DEF GbOK, GbType
    <2>2. GbOK(x, real)
      BY MarksOK
    <2> QED
      BY <2>1, <2>2
  <1>2. Doubted(r) = IF r.probeActive THEN y ELSE x
    <2>1. [r EXCEPT !.unmarked = Sectors, !.kept.unmarked =
             IF r.probeActive THEN Sectors ELSE @] = Doubted(r)
      BY DEF Doubted
    <2>2. CASE r.probeActive
      BY <2>2 DEF Doubted
    <2>3. CASE ~r.probeActive
      BY <2>3 DEF Doubted, GbOK, GbType, KeptType
    <2> QED
      BY <2>2, <2>3
  <1> HIDE DEF x
  <1>3. kept \in KeptType /\ kept.ram = x.kept.ram
    BY <1>1 DEF GbOK, GbType, KeptType
  <1> HIDE DEF kept
  <1>4. y \in GbType /\ y.slot = x.slot /\ y.open = x.open /\ OwnRam(y) = OwnRam(x)
    BY <1>1, <1>3 DEF GbOK, GbType, OwnRam
  <1> HIDE DEF y
  <1>5. GbOK(y, real)
    BY <1>1, <1>4, SameOwnRam
  <1> QED
    BY <1>1, <1>2, <1>5

LEMMA LocalLinkOK == ASSUME IInv, LocalLink PROVE IInv'
  <1>1. PICK g \in Others :
        LET files == IF Loaded(g) THEN Unloaded(file, gb[g]) ELSE file
            doubted == [gb EXCEPT ![g] = Empty,
                            ![focus] = IF @.slot = 2 THEN Doubted(@) ELSE @]
        IN \/ LoadAndBoot(g, 2, probing, files, doubted)
           \/ /\ gb' = doubted
              /\ file' \in {files, Extended(files, 2)}
              /\ UNCHANGED <<probing, suspended>>
    BY DEF LocalLink
  <1> DEFINE files == IF Loaded(g) THEN Unloaded(file, gb[g]) ELSE file
             emptied == [gb EXCEPT ![g] = Empty]
             x == IF gb[focus].slot = 2 THEN Doubted(gb[focus]) ELSE gb[focus]
             doubted == [emptied EXCEPT ![focus] = x]
  <1>2. /\ g \in Gbs /\ g # focus /\ focus \in Gbs /\ probing \in BOOLEAN
        /\ gb \in [Gbs -> GbType] /\ \A h \in Gbs : GbOK(gb[h], adopted)
        /\ FileOK(file, adopted) /\ StateOK(suspended, adopted)
        /\ 2 \in Slots /\ adopted' = adopted
    BY DEF IInv, SettingsOK, GbsOK, Others, Slots, LocalLink
  <1>3. \/ LoadAndBoot(g, 2, probing, files, doubted)
        \/ /\ gb' = doubted
           /\ file' \in {files, Extended(files, 2)}
           /\ UNCHANGED <<probing, suspended>>
    <2>1. doubted = [gb EXCEPT ![g] = Empty,
                        ![focus] = IF @.slot = 2 THEN Doubted(@) ELSE @]
      BY <1>2
    <2> HIDE DEF doubted
    <2> QED
      BY <1>1, <2>1
  <1>4. FileOK(files, adopted) /\ FileOK(Extended(files, 2), adopted)
    <2>1. FileOK(files, adopted)
      BY <1>2, UnloadOK
    <2> HIDE DEF files
    <2> QED
      BY <1>2, <2>1, StoredOK
  <1>5. doubted \in [Gbs -> GbType] /\ \A h \in Gbs : GbOK(doubted[h], adopted)
    <2>1. emptied \in [Gbs -> GbType] /\ \A h \in Gbs : GbOK(emptied[h], adopted)
      BY <1>2, EmptyOK, OneGbOK
    <2>2. GbOK(x, adopted)
      BY <1>2, DoubtedOK
    <2> HIDE DEF emptied, x
    <2> QED
      BY <1>2, <2>1, <2>2, OneGbOK
  <1> HIDE DEF files, doubted
  <1>6. /\ GbsOK' /\ FileOK(file, adopted)' /\ StateOK(suspended, adopted)'
        /\ probing' \in BOOLEAN
    <2>1. CASE LoadAndBoot(g, 2, probing, files, doubted)
      BY <1>2, <1>4, <1>5, <2>1, LoadAndBootOK
    <2>2. CASE /\ gb' = doubted
               /\ file' \in {files, Extended(files, 2)}
               /\ UNCHANGED <<probing, suspended>>
      BY <1>2, <1>4, <1>5, <2>2 DEF GbsOK
    <2> QED
      BY <1>3, <2>1, <2>2
  <1> QED
    BY <1>6 DEF LocalLink, IInv, SettingsOK, settings, fixed

\* The focus saves: the save key, a state loaded, autosave turned on.
LEMMA SetAutoSaveOK == ASSUME IInv, SetAutoSave PROVE IInv'
  <1> DEFINE r == gb[focus]
  <1>1. GbOK(r, adopted) /\ focus \in Gbs /\ FileOK(file, adopted)
          /\ adopted' = adopted /\ autosave' \in BOOLEAN
    BY DEF IInv, GbsOK, SettingsOK, SetAutoSave
  <1>2. CASE autosave
    <2>1. gb' = [gb EXCEPT ![focus] = GameboySyncAutosave(r)]
            /\ file' = Synced(file, r)
      BY <1>2 DEF SetAutoSave
    <2>2. GbsOK' /\ FileOK(file', adopted)
      BY <1>1, <2>1, SyncOK, ObjectStepOK
    <2> QED
      BY <1>1, <2>2 DEF SetAutoSave, IInv, SettingsOK, fixed
  <1>3. CASE ~autosave
    <2>1. gb' = [gb EXCEPT ![focus] = SaveGame(r)] /\ file' = Saved(file, r)
      BY <1>3 DEF SetAutoSave
    <2>2. GbsOK' /\ FileOK(file', adopted)
      BY <1>1, <2>1, SaveOK, ObjectStepOK
    <2> QED
      BY <1>1, <2>2 DEF SetAutoSave, IInv, SettingsOK, fixed
  <1> QED
    BY <1>2, <1>3

LEMMA SaveKeyOK == ASSUME IInv, SaveKey PROVE IInv'
  <1> DEFINE r == gb[focus]
  <1>1. GbOK(r, adopted) /\ focus \in Gbs /\ FileOK(file, adopted)
          /\ adopted' = adopted
    BY DEF IInv, GbsOK, SettingsOK, SaveKey
  <1>2. gb' = [gb EXCEPT ![focus] = SaveGame(r)] /\ file' = Saved(file, r)
    BY DEF SaveKey
  <1>3. GbsOK' /\ FileOK(file', adopted)
    BY <1>1, <1>2, SaveOK, ObjectStepOK
  <1> QED
    BY <1>3 DEF SaveKey, IInv, SettingsOK, settings, fixed

\* Commands that leave RAM and files alone.
LEMMA OptionOK ==
    ASSUME IInv, SwapFocus \/ SetBorders \/ SetMode
    PROVE  IInv'
  <1>1. CASE SwapFocus
    BY <1>1 DEF SwapFocus, Others, IInv, SettingsOK, GbsOK, settings, fixed
  <1>2. CASE SetBorders
    BY <1>2 DEF SetBorders, IInv, SettingsOK, GbsOK, fixed
  <1>3. CASE SetMode
    BY <1>3 DEF SetMode, IInv, SettingsOK, GbsOK, fixed
  <1> QED
    BY <1>1, <1>2, <1>3

LEMMA ResetKeyOK == ASSUME IInv, ResetKey PROVE IInv'
  <1>1. GbsOK'
    BY AskResetOK DEF ResetKey
  <1> QED
    BY <1>1 DEF ResetKey, IInv, SettingsOK, settings, fixed

LEMMA ResetFuncOK == ASSUME IInv, ResetFunc PROVE IInv'
  <1> DEFINE s == [r |-> gb[focus], probing |-> probing, suspended |-> suspended]
  <1>1. PICK memory \in BOOLEAN :
            /\ gb' = [gb EXCEPT ![focus] = Boot(s, memory).r]
            /\ probing' = Boot(s, memory).probing
            /\ suspended' = Boot(s, memory).suspended
    BY DEF ResetFunc
  <1>2. /\ GbOK(s.r, adopted) /\ s.probing \in BOOLEAN /\ s.suspended = suspended
        /\ focus \in Gbs /\ adopted' = adopted
        /\ gb \in [Gbs -> GbType] /\ \A h \in Gbs : GbOK(gb[h], adopted)
    BY DEF IInv, GbsOK, SettingsOK, ResetFunc
  <1> HIDE DEF s
  <1>3. GbsOK' /\ probing' \in BOOLEAN /\ StateOK(suspended, adopted)'
    BY <1>1, <1>2, BootStepOK
  <1> QED
    BY <1>3 DEF ResetFunc, IInv, SettingsOK, settings, fixed

\* What is sound stays sound once a state of unread RAM is adopted.
LEMMA MoreAdopted ==
    ASSUME IInv, adopted' \in BOOLEAN, adopted => adopted'
    PROVE  /\ \A g \in Gbs : GbOK(gb[g], adopted')
           /\ FileOK(file, adopted')
           /\ StateOK(state, adopted') /\ StateOK(suspended, adopted')
  BY DEF IInv, GbsOK, GbOK, FileOK, StateOK, Genuine

\* A state saved of RAM outside a probe is sound, once adopted.
LEMMA StateOfRamOK ==
    ASSUME NEW r, NEW real, NEW now, GbOK(r, real), ~r.probeActive,
           real => now, HoldsUnread(r) => now
    PROVE  StateOK(r.ram, now)
  <1>1. r.ram \in Contented
    BY DEF GbOK, GbType
  <1>2. Genuine(r.ram, now)
    BY Told DEF GbOK, OwnRam, Genuine, HoldsUnread
  <1> QED
    BY <1>1, <1>2 DEF StateOK

LEMMA SaveStateOK == ASSUME IInv, SaveState PROVE IInv'
  <1>1. /\ state' = gb[focus].ram /\ ~gb[focus].probeActive
        /\ adopted' = (adopted \/ HoldsUnread(gb[focus]))
        /\ UNCHANGED <<gb, focus, file, settings, probing, suspended>>
    BY DEF SaveState
  <1>2. adopted' \in BOOLEAN /\ (adopted => adopted')
          /\ (HoldsUnread(gb[focus]) => adopted')
    BY <1>1, Zenon DEF IInv, SettingsOK, HoldsUnread
  <1>3. GbOK(gb[focus], adopted)
    BY DEF IInv, GbsOK, SettingsOK
  <1>4. StateOK(state', adopted')
    BY <1>1, <1>2, <1>3, StateOfRamOK
  <1> QED
    BY <1>1, <1>2, <1>4, MoreAdopted DEF IInv, SettingsOK, GbsOK, settings, fixed

LEMMA LoadStateOK == ASSUME IInv, LoadState PROVE IInv'
  <1> DEFINE r == gb[focus]
             x == [r EXCEPT !.ram = state]
             y == [x EXCEPT !.unmarked = Sectors]
  <1>1. /\ GbOK(r, adopted) /\ focus \in Gbs /\ FileOK(file, adopted)
        /\ StateOK(state, adopted) /\ state # NoState /\ ~r.probeActive
        /\ adopted' = adopted
    BY DEF IInv, GbsOK, SettingsOK, LoadState
  <1>2. /\ gb' = [gb EXCEPT ![focus] = IF autosave THEN SaveGame(y) ELSE y]
        /\ file' = IF autosave THEN Saved(file, y) ELSE file
    BY DEF LoadState
  <1>3. x \in GbType /\ x.slot = r.slot /\ x.open = r.open /\ OwnRam(x) = state
    BY <1>1 DEF GbOK, GbType, StateOK, OwnRam
  <1> HIDE DEF x
  <1>4. GbOK(x, adopted)
    BY <1>1, <1>3 DEF GbOK, StateOK, Genuine
  <1>5. GbOK(y, adopted)
    BY <1>4, MarksOK
  <1> HIDE DEF y
  <1>6. GbsOK'
    BY <1>1, <1>2, <1>5, SaveOK, ObjectStepOK
  <1>7. FileOK(file', adopted)
    BY <1>1, <1>2, <1>5, SaveOK
  <1> QED
    BY <1>6, <1>7 DEF LoadState, IInv, SettingsOK, settings, fixed

\* Leaving: every object is unloaded into sound files.
LEMMA LeaveOK ==
    ASSUME IInv, adopted' \in BOOLEAN, NEW files, NEW rs,
           FileOK(files, adopted), \A g \in Gbs : GbOK(rs[g], adopted),
           Leave(files, rs)
    PROVE  GbsOK' /\ FileOK(file', adopted) /\ SettingsOK'
  <1>1. focus \in Gbs /\ (Companion # {} => (CHOOSE g \in Companion : TRUE) \in Gbs)
    BY DEF IInv, SettingsOK, Companion, Others
  <1>2. FileOK(UnloadAll(files, rs), adopted)
    BY <1>1, UnloadOK DEF UnloadAll
  <1>3. gb' = [g \in Gbs |-> Empty] /\ GbOK(Empty, adopted')
    BY EmptyOK DEF Leave
  <1>4. GbsOK'
    BY <1>3 DEF GbsOK, GbOK
  <1> QED
    BY <1>2, <1>4 DEF Leave, IInv, SettingsOK, settings, fixed

\* mgr_save leaves objects and files sound.
LEMMA SaveAllOK ==
    ASSUME IInv
    PROVE  /\ FileOK(SaveAll(file), adopted)
           /\ \A g \in Gbs : GbOK(AfterSave[g], adopted)
  <1>1. focus \in Gbs /\ (Companion # {} => (CHOOSE g \in Companion : TRUE) \in Gbs)
    BY DEF IInv, SettingsOK, Companion, Others
  <1>2. \A g \in Gbs : GbOK(gb[g], adopted)
    BY DEF IInv, GbsOK
  <1>3. FileOK(SaveAll(file), adopted)
    BY <1>1, <1>2, SaveOK DEF SaveAll, IInv
  <1> QED
    BY <1>2, <1>3, SaveOK DEF AfterSave

\* Exit and Suspend save before they unload when autosave is off.
LEMMA SaveAndLeaveOK ==
    ASSUME IInv, adopted' \in BOOLEAN,
           \/ autosave /\ Leave(file, gb)
           \/ ~autosave /\ Leave(SaveAll(file), AfterSave)
    PROVE  GbsOK' /\ FileOK(file', adopted) /\ SettingsOK'
  <1>1. FileOK(file, adopted) /\ \A g \in Gbs : GbOK(gb[g], adopted)
    BY DEF IInv, GbsOK
  <1> QED
    BY <1>1, LeaveOK, SaveAllOK

LEMMA ExitOK == ASSUME IInv, Exit PROVE IInv'
  <1>1. adopted' = adopted /\ adopted' \in BOOLEAN
    BY DEF Exit, IInv, SettingsOK
  <1>2. GbsOK' /\ FileOK(file', adopted) /\ SettingsOK'
    BY <1>1, SaveAndLeaveOK DEF Exit
  <1> QED
    BY <1>1, <1>2 DEF Exit, Leave, IInv

LEMMA ExitNoSaveOK == ASSUME IInv, ExitNoSave PROVE IInv'
  <1>1. adopted' = adopted /\ adopted' \in BOOLEAN
    BY DEF ExitNoSave, IInv, SettingsOK
  <1>2. FileOK(file, adopted) /\ \A g \in Gbs : GbOK(gb[g], adopted)
    BY DEF IInv, GbsOK
  <1>3. GbsOK' /\ FileOK(file', adopted) /\ SettingsOK'
    BY <1>1, <1>2, LeaveOK DEF ExitNoSave
  <1> QED
    BY <1>1, <1>3 DEF ExitNoSave, Leave, IInv

LEMMA ReturnToLauncherOK == ASSUME IInv, ReturnToLauncher PROVE IInv'
  <1>1. adopted' = adopted /\ adopted' \in BOOLEAN
    BY DEF ReturnToLauncher, IInv, SettingsOK
  <1>2. GbsOK' /\ FileOK(file', adopted) /\ SettingsOK'
    BY <1>1, SaveAllOK, LeaveOK DEF ReturnToLauncher
  <1> QED
    BY <1>1, <1>2 DEF ReturnToLauncher, Leave, IInv

\* The suspend state is the focus's RAM, unless a probe runs in it.
LEMMA SuspendOK == ASSUME IInv, Suspend PROVE IInv'
  <1> DEFINE r == gb[focus]
  <1>1. /\ suspended' = IF r.probeActive THEN suspended ELSE r.ram
        /\ adopted' = (adopted \/ (~r.probeActive /\ HoldsUnread(r)))
        /\ GbOK(r, adopted)
    BY DEF Suspend, IInv, GbsOK, SettingsOK
  <1>2. /\ adopted' \in BOOLEAN /\ (adopted => adopted')
        /\ (~r.probeActive /\ HoldsUnread(r) => adopted')
    BY <1>1, Zenon DEF IInv, SettingsOK, HoldsUnread
  <1>3. GbsOK' /\ FileOK(file', adopted) /\ SettingsOK'
    BY <1>2, SaveAndLeaveOK DEF Suspend
  <1>4. FileOK(file', adopted')
    BY <1>2, <1>3 DEF FileOK, Genuine
  <1>5. StateOK(suspended', adopted')
    <2>1. CASE r.probeActive
      BY <1>1, <1>2, <2>1, MoreAdopted
    <2>2. CASE ~r.probeActive
      BY <1>1, <1>2, <2>2, StateOfRamOK
    <2> QED
      BY <2>1, <2>2
  <1>6. StateOK(state', adopted')
    BY <1>2, MoreAdopted DEF Suspend, Leave
  <1> QED
    BY <1>3, <1>4, <1>5, <1>6 DEF IInv

LEMMA PowerOffOK == ASSUME IInv, PowerOff PROVE IInv'
  <1>1. gb' = [g \in Gbs |-> Empty] /\ GbOK(Empty, adopted)
    BY EmptyOK DEF PowerOff
  <1>2. GbsOK'
    BY <1>1 DEF PowerOff, GbsOK, GbOK
  <1> QED
    BY <1>2 DEF PowerOff, IInv, SettingsOK, settings, fixed

-----------------------------------------------------------------------------
(* The theorems.                                                           *)

LEMMA Initially == Init => IInv
  <1> SUFFICES ASSUME Init PROVE IInv
    OBVIOUS
  <1>1. SettingsOK
    BY DEF Init, SettingsOK
  <1>2. GbsOK
    BY EmptyOK DEF Init, GbsOK, GbOK
  <1>3. FileOK(file, adopted)
    BY Told DEF Init, FileOK, FileType, Genuine
  <1>4. StateOK(state, adopted) /\ StateOK(suspended, adopted)
    BY DEF Init, StateOK
  <1> QED
    BY <1>1, <1>2, <1>3, <1>4 DEF IInv

LEMMA Preserved == IInv /\ [Next]_vars => IInv'
  <1> SUFFICES ASSUME IInv, [Next]_vars PROVE IInv'
    OBVIOUS
  <1>1. CASE Guest
    BY <1>1, BorderFoundOK, WriteSramOK, WriteClockOK, CaptureImageOK
    DEF Guest, Running
  <1>2. CASE Player
    BY <1>2, LoadRomOK, LocalLinkOK, OptionOK, SetAutoSaveOK, SaveKeyOK,
       ResetKeyOK, ResetFuncOK, SaveStateOK, LoadStateOK, ExitOK, SuspendOK,
       ExitNoSaveOK, ReturnToLauncherOK, PowerOffOK
    DEF Player
  <1>3. CASE \E g \in Running : UpdateVBlank(g)
    BY <1>3, UpdateVBlankOK DEF Running
  <1>4. CASE UNCHANGED vars
    BY <1>4 DEF vars, settings, fixed, IInv, SettingsOK, GbsOK
  <1> QED
    BY <1>1, <1>2, <1>3, <1>4 DEF Next

LEMMA Inductive == Spec => []IInv
  BY Initially, Preserved, PTL DEF Spec

WaitedOK == waited \in [Gbs -> 0..Window + 1]

\* The history of waiting stays within its bound, whatever the step.
LEMMA WaitedPreserved == WaitedOK /\ [Next]_vars => WaitedOK'
  <1> SUFFICES ASSUME WaitedOK, [Next]_vars PROVE WaitedOK'
    OBVIOUS
  <1>1. ASSUME NEW counts \in [Gbs -> 0..Window + 1], Waiting(counts)
        PROVE  WaitedOK'
    <2>1. waited' = [g \in Gbs |-> IF Waits(g)' THEN counts[g] ELSE 0]
      BY <1>1 DEF Waiting
    <2>2. \A g \in Gbs : counts[g] \in 0..Window + 1 /\ 0 \in 0..Window + 1
      BY <1>1, LimitsAssumption
    <2> QED
      BY <2>1, <2>2 DEF WaitedOK
  <1>2. ASSUME NEW g \in Gbs
        PROVE  [waited EXCEPT ![g] = IF @ <= Window THEN @ + 1 ELSE @]
                   \in [Gbs -> 0..Window + 1]
    <2>1. waited[g] \in 0..Window + 1
      BY DEF WaitedOK
    <2>2. (IF waited[g] <= Window THEN waited[g] + 1 ELSE waited[g])
              \in 0..Window + 1
      BY <2>1, LimitsAssumption
    <2> QED
      BY <2>2 DEF WaitedOK
  <1>3. CASE UNCHANGED vars
    BY <1>3 DEF vars, WaitedOK
  <1>4. CASE Waiting(waited)
    BY <1>1, <1>4 DEF WaitedOK
  <1>5. CASE \E g \in Running :
            Waiting([waited EXCEPT ![g] = IF @ <= Window THEN @ + 1 ELSE @])
    BY <1>1, <1>2, <1>5 DEF Running
  <1> QED
    BY <1>3, <1>4, <1>5 DEF Next

LEMMA WaitedInductive == Spec => []WaitedOK
  <1>1. Init => WaitedOK
    BY LimitsAssumption DEF Init, WaitedOK
  <1> QED
    BY <1>1, WaitedPreserved, PTL DEF Spec

\* Every variable of the save file's model keeps its type, for every number of
\* Game Boys, sectors and frames: above all, no counter passes its limit.
THEOREM TypeCorrect == Spec => []TypeOK
  <1>1. IInv /\ WaitedOK => TypeOK
    BY DEF IInv, SettingsOK, GbsOK, GbOK, FileOK, StateOK, TypeOK, WaitedOK
  <1> QED
    BY <1>1, Inductive, WaitedInductive, PTL

\* No sector of a save file ever holds what a border probe wrote, nor memory
\* that a failed read left unfilled, whichever way a probe, a reset, a link or
\* a game is ended (gameboy.cpp, beginBorderProbe, endBorderProbe, saveGame,
\* gameboySyncAutosave, loadSave).
THEOREM FilesAreTheGames == Spec => []FilesHoldGameData
  <1>1. IInv => FilesHoldGameData
    BY DEF IInv, FileOK, Genuine, FilesHoldGameData
  <1> QED
    BY <1>1, Inductive, PTL

-----------------------------------------------------------------------------
(* ------------------- autosave loses track of nothing ------------------- *)

\* The sectors of a game's own RAM that may differ from its file.
OwnDoubt(r) ==
    IF r.probeActive THEN r.kept.dirty \cup r.kept.unmarked
                     ELSE r.dirty \cup r.unmarked

\* A game that has its file has there what it does not doubt.
Tracked(r, files) ==
    r.open => \A c \in Sectors \ OwnDoubt(r) : OwnRam(r)[c] = files[r.slot][c]

Alone(g) == \A h \in Gbs \ {g} : gb[h].slot # gb[g].slot

\* Slot 1 is loaded into one object only: two that share a file share slot 2.
TrackInv ==
    /\ \A g, h \in Gbs : gb[g].slot = 1 /\ gb[h].slot = 1 => g = h
    /\ \A g \in Gbs : Alone(g) => Tracked(gb[g], file)

\* Only the file of slot k changes.
Elsewhere(files, new, k) == \A j \in Slots \ {k} : new[j] = files[j]

-----------------------------------------------------------------------------
(* What the methods of Gameboy do to the own RAM, its marks and the file.  *)

LEMMA ProbeTracks ==
    ASSUME NEW r \in GbType
    PROVE  /\ BeginBorderProbe(r).slot = r.slot
           /\ BeginBorderProbe(r).open = r.open
           /\ OwnRam(BeginBorderProbe(r)) = OwnRam(r)
           /\ OwnDoubt(BeginBorderProbe(r)) = OwnDoubt(r)
           /\ EndBorderProbe(r).slot = r.slot
           /\ EndBorderProbe(r).open = r.open
           /\ OwnRam(EndBorderProbe(r)) = OwnRam(r)
           /\ OwnDoubt(EndBorderProbe(r)) = OwnDoubt(r)
  BY DEF GbType, KeptType, BeginBorderProbe, EndBorderProbe, OwnRam, OwnDoubt

\* The file holds all that saveGame wrote.
LEMMA SaveTracks ==
    ASSUME NEW r \in GbType, NEW files \in FileType, Tracked(r, files),
           r.open => r.slot # 0
    PROVE  /\ SaveGame(r).slot = r.slot
           /\ Tracked(SaveGame(r), Saved(files, r))
           /\ Elsewhere(files, Saved(files, r), r.slot)
  <1>1. CASE Saves(r)
    <2> DEFINE e == SaveGame(r)
    <2>1. e.slot = r.slot /\ OwnRam(e) = r.ram /\ r.slot \in Slots
      BY <1>1 DEF GbType, SaveGame, Saves, OwnRam, Slots
    <2>2. Saved(files, r) = [files EXCEPT ![r.slot] = r.ram]
      BY <1>1 DEF Saved
    <2> HIDE DEF e
    <2> QED
      BY <2>1, <2>2 DEF FileType, Tracked, Elsewhere, e
  <1>2. CASE ~Saves(r)
    BY <1>2 DEF SaveGame, Saved, Elsewhere
  <1> QED
    BY <1>1, <1>2

\* gameboySyncAutosave settles the dirty sectors and leaves the others.
LEMMA SyncTracks ==
    ASSUME NEW r \in GbType, NEW files \in FileType, Tracked(r, files),
           r.open => r.slot # 0
    PROVE  /\ GameboySyncAutosave(r).slot = r.slot
           /\ Tracked(GameboySyncAutosave(r), Synced(files, r))
           /\ Elsewhere(files, Synced(files, r), r.slot)
  <1>1. CASE Syncs(r)
    <2> DEFINE e == GameboySyncAutosave(r)
               new == [c \in Cells |->
                         IF c \in r.dirty THEN r.ram[c] ELSE files[r.slot][c]]
    <2>1. /\ e.slot = r.slot /\ OwnRam(e) = r.ram /\ r.slot \in Slots
          /\ OwnDoubt(e) = r.unmarked \ r.dirty /\ r.open
          /\ OwnRam(r) = r.ram /\ OwnDoubt(r) = r.dirty \cup r.unmarked
      BY <1>1 DEF GbType, GameboySyncAutosave, Syncs, OwnRam, OwnDoubt, Slots
    <2>2. Synced(files, r) = [files EXCEPT ![r.slot] = new]
      BY <1>1 DEF Synced
    <2>3. \A c \in Sectors \ (r.unmarked \ r.dirty) : new[c] = r.ram[c]
      BY <2>1, Told DEF Tracked
    <2> HIDE DEF e, new
    <2>4. Tracked(e, Synced(files, r))
      BY <2>1, <2>2, <2>3 DEF FileType, Tracked
    <2> QED
      BY <2>1, <2>2, <2>4 DEF FileType, Elsewhere, e
  <1>2. CASE ~Syncs(r)
    BY <1>2 DEF GameboySyncAutosave, Synced, Elsewhere
  <1> QED
    BY <1>1, <1>2

LEMMA UpdateAutosaveTracks ==
    ASSUME NEW r, NEW real, GbOK(r, real), NEW files \in FileType,
           Tracked(r, files), autosave \in BOOLEAN
    PROVE  /\ UpdateAutosave(r).slot = r.slot
           /\ Tracked(UpdateAutosave(r), Autosaved(files, r))
           /\ Elsewhere(files, Autosaved(files, r), r.slot)
  <1> DEFINE counted == Counted(r)
  <1>1. /\ counted \in GbType /\ counted.slot = r.slot /\ counted.open = r.open
        /\ OwnRam(counted) = OwnRam(r) /\ OwnDoubt(counted) = OwnDoubt(r)
    BY LimitsAssumption DEF GbOK, GbType, Counted, OwnRam, OwnDoubt
  <1>2. Tracked(counted, files) /\ (counted.open => counted.slot # 0)
    BY <1>1 DEF Tracked, GbOK
  <1> DEFINE asked == IF SyncDue(counted) THEN GameboySyncAutosave(counted) ELSE counted
             new == IF SyncDue(counted) THEN Synced(files, counted) ELSE files
  <1>3. /\ asked.slot = r.slot /\ Tracked(asked, new)
        /\ Elsewhere(files, new, r.slot)
    <2> HIDE DEF counted
    <2>1. CASE SyncDue(counted)
      BY <1>1, <1>2, <2>1, SyncTracks
    <2>2. CASE ~SyncDue(counted)
      BY <1>1, <1>2, <2>2 DEF Elsewhere
    <2> QED
      BY <2>1, <2>2
  <1>4. asked \in GbType
    <2>1. GbOK(counted, real)
      BY <1>1, SameOwnRam
    <2> HIDE DEF counted
    <2> QED
      BY <2>1, SyncOK DEF GbOK
  <1>5. Autosaved(files, r) = new
    BY DEF Autosaved
  <1> DEFINE started == asked.saveModified /\ autosave
             e == [asked EXCEPT !.autosaveStarted = started \/ @,
                     !.saveModified = @ /\ ~started]
  <1>6. UpdateAutosave(r) = e
    BY DEF UpdateAutosave
  <1> HIDE DEF asked, new
  <1>7. /\ e.slot = asked.slot /\ e.open = asked.open
        /\ OwnRam(e) = OwnRam(asked) /\ OwnDoubt(e) = OwnDoubt(asked)
    BY <1>4 DEF GbType, OwnRam, OwnDoubt
  <1> HIDE DEF e
  <1> QED
    BY <1>3, <1>5, <1>6, <1>7 DEF Tracked

\* init clears marks, but what was marked is then in `unmarked`.
LEMMA BootTracks ==
    ASSUME NEW s, NEW memory \in BOOLEAN, NEW real, NEW files,
           GbOK(s.r, real), Tracked(s.r, files)
    PROVE  /\ Boot(s, memory).r.slot = s.r.slot
           /\ Tracked(Boot(s, memory).r, files)
  <1> DEFINE cancelled == s.r.probeActive /\ (~s.probing \/ ~borders)
             ended == IF cancelled THEN EndBorderProbe(s.r) ELSE s.r
             probes == /\ s.probing /\ ~cancelled /\ ~realSgb
                       /\ (memory \/ ended.probeActive)
             entered == IF probes THEN BeginBorderProbe(ended)
                                  ELSE EndBorderProbe(ended)
             resumes == ~probes /\ s.suspended # NoState
             booted == [entered EXCEPT !.dirty = {}, !.frameCounter = 0,
                  !.resetting = FALSE,
                  !.ram = IF resumes THEN s.suspended ELSE @,
                  !.unmarked = IF resumes THEN Sectors ELSE @ \cup entered.dirty]
  <1>1. Boot(s, memory).r = booted
    BY DEF Boot
  <1>2. /\ GbOK(ended, real) /\ ended.slot = s.r.slot /\ ended.open = s.r.open
        /\ OwnRam(ended) = OwnRam(s.r) /\ OwnDoubt(ended) = OwnDoubt(s.r)
    BY EndProbeOK, ProbeTracks DEF GbOK
  <1> HIDE DEF ended
  <1>3. /\ GbOK(entered, real) /\ entered.slot = s.r.slot /\ entered.open = s.r.open
        /\ OwnRam(entered) = OwnRam(s.r) /\ OwnDoubt(entered) = OwnDoubt(s.r)
        /\ ~probes => ~entered.probeActive
    BY <1>2, EndProbeOK, BeginProbeOK, ProbeTracks DEF GbOK
  <1> HIDE DEF entered, probes
  <1>4. /\ booted.slot = entered.slot /\ booted.open = entered.open
        /\ OwnDoubt(booted) = IF resumes THEN Sectors ELSE OwnDoubt(entered)
        /\ ~resumes => OwnRam(booted) = OwnRam(entered)
    BY <1>3 DEF GbOK, GbType, OwnRam, OwnDoubt
  <1> HIDE DEF booted
  <1> QED
    BY <1>1, <1>3, <1>4 DEF Tracked

-----------------------------------------------------------------------------
(* The steps.                                                              *)

LEMMA EmptyTracks ==
    /\ Empty \in GbType /\ Empty.slot = 0 /\ Empty.open = FALSE
    /\ \A files : Tracked(Empty, files)
  <1>1. Empty \in GbType
    BY EmptyOK DEF GbOK
  <1> QED
    BY <1>1 DEF Empty, Tracked

\* What IInv says of one object, its file and the options.
LEMMA Facts ==
    ASSUME IInv, NEW g \in Gbs
    PROVE  /\ GbOK(gb[g], adopted) /\ gb[g] \in GbType
           /\ gb[g].open => gb[g].slot # 0
           /\ gb[g].slot \in {0} \cup Slots
           /\ gb \in [Gbs -> GbType] /\ file \in FileType
           /\ focus \in Gbs /\ autosave \in BOOLEAN
  BY DEF IInv, GbsOK, GbOK, FileOK, SettingsOK, GbType

\* One object changes, and at most its file with it.
LEMMA ObjectTracks ==
    ASSUME IInv, TrackInv, NEW g \in Gbs, NEW x,
           gb' = [gb EXCEPT ![g] = x], x.slot = gb[g].slot,
           Elsewhere(file, file', gb[g].slot),
           Tracked(gb[g], file) => Tracked(x, file')
    PROVE  TrackInv'
  <1>1. gb \in [Gbs -> GbType] /\ \A h \in Gbs : gb'[h].slot = gb[h].slot
    BY Facts
  <1>2. \A h, i \in Gbs : gb'[h].slot = 1 /\ gb'[i].slot = 1 => h = i
    BY <1>1 DEF TrackInv
  <1>3. ASSUME NEW h \in Gbs, Alone(h)'
        PROVE  Tracked(gb'[h], file')
    <2>1. Alone(h) /\ Tracked(gb[h], file)
      BY <1>1, <1>3 DEF Alone, TrackInv
    <2>2. CASE h = g
      BY <1>1, <2>1, <2>2
    <2>3. CASE h # g
      <3>1. gb'[h] = gb[h]
        BY <1>1, <2>3
      <3>2. gb[h].slot # gb[g].slot
        BY <2>1, <2>3 DEF Alone
      <3>3. gb[h].open => file'[gb[h].slot] = file[gb[h].slot]
        BY <3>2, Facts DEF Elsewhere
      <3> QED
        BY <2>1, <3>1, <3>3 DEF Tracked
    <2> QED
      BY <2>2, <2>3
  <1>4. \A h \in Gbs : Alone(h)' => Tracked(gb'[h], file')
    BY <1>3
  <1> QED
    BY <1>2, <1>4 DEF TrackInv

\* When every object is empty there is nothing to track.
LEMMA AllEmptyTracks ==
    ASSUME gb' = [g \in Gbs |-> Empty]
    PROVE  TrackInv'
  BY EmptyTracks DEF TrackInv

\* A guest's write leaves the cell in doubt, or is a probe's own business.
LEMMA GuestTracks ==
    ASSUME NEW r \in GbType, NEW x, NEW doubt, NEW files,
           Tracked(r, files), x.slot = r.slot, x.open = r.open,
           x.probeActive = r.probeActive, x.kept = r.kept,
           \A c \in Sectors \ doubt : x.ram[c] = r.ram[c],
           r.dirty \cup r.unmarked \cup doubt \subseteq x.dirty \cup x.unmarked
    PROVE  Tracked(x, files)
  BY DEF Tracked, OwnRam, OwnDoubt, GbType

LEMMA CellTracks ==
    ASSUME NEW r \in GbType, NEW c \in Cells, NEW v
    PROVE  /\ [r EXCEPT !.ram[c] = v].slot = r.slot
           /\ [r EXCEPT !.ram[c] = v].open = r.open
           /\ [r EXCEPT !.ram[c] = v].probeActive = r.probeActive
           /\ [r EXCEPT !.ram[c] = v].kept = r.kept
           /\ [r EXCEPT !.ram[c] = v].dirty = r.dirty
           /\ [r EXCEPT !.ram[c] = v].unmarked = r.unmarked
           /\ \A d \in Cells \ {c} : [r EXCEPT !.ram[c] = v].ram[d] = r.ram[d]
           /\ \A f \in {"saveModified", "unmarked", "dirty"} :
                 f \in DOMAIN [r EXCEPT !.ram[c] = v]
  <1> DEFINE ram == [r.ram EXCEPT ![c] = v]
             x == [r EXCEPT !.ram = ram]
  <1>1. \A d \in Cells \ {c} : ram[d] = r.ram[d]
    BY DEF GbType, Contented
  <1>2. [r EXCEPT !.ram[c] = v] = x
    OBVIOUS
  <1> HIDE DEF ram
  <1>3. /\ x.slot = r.slot /\ x.open = r.open /\ x.ram = ram
        /\ x.probeActive = r.probeActive /\ x.kept = r.kept
        /\ x.dirty = r.dirty /\ x.unmarked = r.unmarked
        /\ \A f \in {"saveModified", "unmarked", "dirty"} : f \in DOMAIN x
    BY DEF GbType
  <1> HIDE DEF x
  <1> QED
    BY <1>1, <1>2, <1>3

LEMMA WriteSramTracks ==
    ASSUME IInv, TrackInv, NEW g \in Gbs, WriteSram(g)
    PROVE  TrackInv'
  <1> DEFINE r == gb[g]
  <1>1. PICK c \in Sectors, v \in Contents(r) :
            gb' = [gb EXCEPT ![g] =
                IF autosave
                  THEN [r EXCEPT !.ram[c] = v, !.saveModified = TRUE,
                                 !.dirty = @ \cup {c}, !.unmarked = @ \ {c}]
                  ELSE [r EXCEPT !.ram[c] = v, !.unmarked = @ \cup {c}]]
    BY DEF WriteSram
  <1> DEFINE x == [r EXCEPT !.ram[c] = v]
             y == [x EXCEPT !.saveModified = TRUE]
             named == [y EXCEPT !.dirty = @ \cup {c}]
             marked == [named EXCEPT !.unmarked = @ \ {c}]
             unmarked == [x EXCEPT !.unmarked = @ \cup {c}]
             z == IF autosave THEN marked ELSE unmarked
  <1>2. r \in GbType /\ c \in Cells
    BY Facts, Told
  <1>3. /\ x.slot = r.slot /\ x.open = r.open /\ x.kept = r.kept
        /\ x.probeActive = r.probeActive /\ x.dirty = r.dirty
        /\ x.unmarked = r.unmarked /\ \A d \in Cells \ {c} : x.ram[d] = r.ram[d]
        /\ \A f \in {"saveModified", "unmarked", "dirty"} : f \in DOMAIN x
    BY <1>2, CellTracks
  <1>4. gb' = [gb EXCEPT ![g] = z]
    <2>1. marked = [r EXCEPT !.ram[c] = v, !.saveModified = TRUE,
                             !.dirty = @ \cup {c}, !.unmarked = @ \ {c}]
      OBVIOUS
    <2>2. unmarked = [r EXCEPT !.ram[c] = v, !.unmarked = @ \cup {c}]
      OBVIOUS
    <2> HIDE DEF marked, unmarked
    <2> QED
      BY <1>1, <2>1, <2>2
  <1> HIDE DEF x
  <1>5. /\ z.slot = r.slot /\ z.open = r.open /\ z.kept = r.kept
        /\ z.probeActive = r.probeActive /\ z.ram = x.ram
        /\ r.dirty \cup r.unmarked \cup {c} \subseteq z.dirty \cup z.unmarked
    BY <1>3
  <1> HIDE DEF z
  <1>6. \A d \in Sectors \ {c} : z.ram[d] = r.ram[d]
    BY <1>3, <1>5, Told
  <1>7. Tracked(r, file) => Tracked(z, file)
    BY <1>2, <1>5, <1>6, GuestTracks
  <1>8. file' = file /\ Elsewhere(file, file', r.slot)
    BY DEF WriteSram, Elsewhere
  <1> QED
    BY <1>4, <1>5, <1>7, <1>8, ObjectTracks

LEMMA CaptureImageTracks ==
    ASSUME IInv, TrackInv, NEW g \in Gbs, CaptureImage(g)
    PROVE  TrackInv'
  <1> DEFINE r == gb[g]
  <1>1. PICK c \in Sectors, v \in Contents(r) :
            gb' = [gb EXCEPT ![g].ram[c] = v, ![g].unmarked = @ \cup {c}]
    BY DEF CaptureImage
  <1> DEFINE x == [r EXCEPT !.ram[c] = v]
             z == [x EXCEPT !.unmarked = @ \cup {c}]
  <1>2. r \in GbType /\ c \in Cells /\ gb \in [Gbs -> GbType]
    BY Facts, Told
  <1>3. /\ x.slot = r.slot /\ x.open = r.open /\ x.kept = r.kept
        /\ x.probeActive = r.probeActive /\ x.dirty = r.dirty
        /\ x.unmarked = r.unmarked /\ \A d \in Cells \ {c} : x.ram[d] = r.ram[d]
        /\ \A f \in {"saveModified", "unmarked", "dirty"} : f \in DOMAIN x
    BY <1>2, CellTracks
  <1>4. gb' = [gb EXCEPT ![g] = z]
    BY <1>1, <1>2
  <1> HIDE DEF x
  <1>5. /\ z.slot = r.slot /\ z.open = r.open /\ z.kept = r.kept
        /\ z.probeActive = r.probeActive /\ z.ram = x.ram
        /\ r.dirty \cup r.unmarked \cup {c} \subseteq z.dirty \cup z.unmarked
    BY <1>3
  <1> HIDE DEF z
  <1>6. \A d \in Sectors \ {c} : z.ram[d] = r.ram[d]
    BY <1>3, <1>5, Told
  <1>7. Tracked(r, file) => Tracked(z, file)
    BY <1>2, <1>5, <1>6, GuestTracks
  <1>8. file' = file /\ Elsewhere(file, file', r.slot)
    BY DEF CaptureImage, Elsewhere
  <1> QED
    BY <1>4, <1>5, <1>7, <1>8, ObjectTracks

\* The clock is no sector, in RAM and file.
LEMMA WriteClockTracks ==
    ASSUME IInv, TrackInv, NEW g \in Gbs, WriteClock(g)
    PROVE  TrackInv'
  <1> DEFINE r == gb[g]
  <1>1. PICK v \in Contents(r) :
            /\ gb' = [gb EXCEPT ![g].ram[Clock] = v,
                   ![g].saveModified = @ \/ (autosave /\ gb[g].open)]
            /\ file' = IF autosave /\ gb[g].open
                         THEN [file EXCEPT ![gb[g].slot][Clock] = v] ELSE file
    BY DEF WriteClock
  <1> DEFINE x == [r EXCEPT !.ram[Clock] = v]
             z == [x EXCEPT !.saveModified = @ \/ (autosave /\ r.open)]
  <1>2. r \in GbType /\ gb \in [Gbs -> GbType] /\ file \in FileType
            /\ (r.open => r.slot \in Slots)
    BY Facts DEF Slots
  <1>3. /\ x.slot = r.slot /\ x.open = r.open /\ x.kept = r.kept
        /\ x.probeActive = r.probeActive /\ x.dirty = r.dirty
        /\ x.unmarked = r.unmarked /\ \A d \in Cells \ {Clock} : x.ram[d] = r.ram[d]
        /\ \A f \in {"saveModified", "unmarked", "dirty"} : f \in DOMAIN x
    BY <1>2, CellTracks, Told
  <1>4. gb' = [gb EXCEPT ![g] = z]
    BY <1>1, <1>2
  <1> HIDE DEF x
  <1>5. /\ z.slot = r.slot /\ z.open = r.open /\ z.kept = r.kept
        /\ z.probeActive = r.probeActive /\ z.ram = x.ram
        /\ r.dirty \cup r.unmarked \cup {} \subseteq z.dirty \cup z.unmarked
    BY <1>3
  <1> HIDE DEF z
  <1>6. \A d \in Sectors \ {} : z.ram[d] = r.ram[d]
    BY <1>3, <1>5, Told, CellsAssumption
  <1>7. Tracked(r, file) => Tracked(z, file)
    BY <1>2, <1>5, <1>6, GuestTracks
  <1>8. Elsewhere(file, file', r.slot)
            /\ \A c \in Sectors : r.open => file'[r.slot][c] = file[r.slot][c]
    <2>1. CASE autosave /\ r.open
      <3> DEFINE new == [file[r.slot] EXCEPT ![Clock] = v]
      <3>1. file' = [file EXCEPT ![r.slot] = new]
        BY <1>1, <2>1
      <3>2. \A c \in Sectors : new[c] = file[r.slot][c]
        BY <1>2, <2>1, Told, CellsAssumption DEF FileType
      <3> HIDE DEF new
      <3> QED
        BY <1>2, <2>1, <3>1, <3>2 DEF FileType, Elsewhere
    <2>2. CASE ~(autosave /\ r.open)
      BY <1>1, <2>2 DEF Elsewhere
    <2> QED
      BY <2>1, <2>2
  <1>9. Tracked(r, file) => Tracked(z, file')
    BY <1>5, <1>7, <1>8 DEF Tracked
  <1> QED
    BY <1>4, <1>5, <1>8, <1>9, ObjectTracks

\* A reset asked for, and options, touch neither RAM, marks nor files.
LEMMA AskResetTracks ==
    ASSUME IInv, TrackInv, gb' = [gb EXCEPT ![focus].resetting = TRUE],
           file' = file
    PROVE  TrackInv'
  <1> DEFINE r == gb[focus]
             x == [r EXCEPT !.resetting = TRUE]
  <1>1. r \in GbType /\ focus \in Gbs
    BY Facts, CellsAssumption
  <1>2. gb' = [gb EXCEPT ![focus] = x]
    OBVIOUS
  <1>3. x.slot = r.slot /\ x.open = r.open /\ OwnRam(x) = OwnRam(r)
            /\ OwnDoubt(x) = OwnDoubt(r)
    BY <1>1 DEF GbType, OwnRam, OwnDoubt
  <1> HIDE DEF x
  <1>4. Tracked(r, file) => Tracked(x, file')
    BY <1>3 DEF Tracked
  <1>5. Elsewhere(file, file', r.slot)
    BY DEF Elsewhere
  <1> QED
    BY <1>1, <1>2, <1>3, <1>4, <1>5, ObjectTracks

LEMMA OptionTracks ==
    ASSUME TrackInv, gb' = gb, file' = file
    PROVE  TrackInv'
  BY DEF TrackInv, Alone

\* An object saves or syncs.
LEMMA MethodTracks ==
    ASSUME IInv, TrackInv, NEW g \in Gbs,
           \/ gb' = [gb EXCEPT ![g] = SaveGame(gb[g])] /\ file' = Saved(file, gb[g])
           \/ /\ gb' = [gb EXCEPT ![g] = GameboySyncAutosave(gb[g])]
              /\ file' = Synced(file, gb[g])
    PROVE  TrackInv'
  <1> DEFINE r == gb[g]
  <1>1. r \in GbType /\ file \in FileType /\ (r.open => r.slot # 0)
    BY Facts
  <1>2. CASE gb' = [gb EXCEPT ![g] = SaveGame(r)] /\ file' = Saved(file, r)
    <2>1. SaveGame(r).slot = r.slot /\ Elsewhere(file, Saved(file, r), r.slot)
      BY <1>1 DEF SaveGame, Saved, GbType, FileType, Elsewhere
    <2>2. Tracked(r, file) => Tracked(SaveGame(r), Saved(file, r))
      BY <1>1, SaveTracks
    <2> QED
      BY <1>2, <2>1, <2>2, ObjectTracks
  <1>3. CASE gb' = [gb EXCEPT ![g] = GameboySyncAutosave(r)]
               /\ file' = Synced(file, r)
    <2>1. GameboySyncAutosave(r).slot = r.slot
            /\ Elsewhere(file, Synced(file, r), r.slot)
      BY <1>1 DEF GameboySyncAutosave, Synced, GbType, FileType, Elsewhere
    <2>2. Tracked(r, file) => Tracked(GameboySyncAutosave(r), Synced(file, r))
      BY <1>1, SyncTracks
    <2> QED
      BY <1>3, <2>1, <2>2, ObjectTracks
  <1> QED
    BY <1>2, <1>3

LEMMA FocusSavesTracks ==
    ASSUME IInv, TrackInv, SetAutoSave \/ SaveKey
    PROVE  TrackInv'
  <1>1. focus \in Gbs
    BY DEF IInv, SettingsOK
  <1>2. \/ /\ gb' = [gb EXCEPT ![focus] = SaveGame(gb[focus])]
           /\ file' = Saved(file, gb[focus])
        \/ /\ gb' = [gb EXCEPT ![focus] = GameboySyncAutosave(gb[focus])]
           /\ file' = Synced(file, gb[focus])
    BY DEF SetAutoSave, SaveKey
  <1> QED
    BY <1>1, <1>2, MethodTracks

\* A loaded state is all in doubt, until autosave writes it.
LEMMA LoadStateTracks ==
    ASSUME IInv, TrackInv, LoadState
    PROVE  TrackInv'
  <1> DEFINE r == gb[focus]
             x == [r EXCEPT !.ram = state]
             y == [x EXCEPT !.unmarked = Sectors]
  <1>1. /\ r \in GbType /\ focus \in Gbs /\ ~r.probeActive
        /\ file \in FileType /\ (r.open => r.slot # 0)
        /\ state \in Contented
    BY Facts, CellsAssumption DEF LoadState, IInv, StateOK
  <1>2. /\ gb' = [gb EXCEPT ![focus] = IF autosave THEN SaveGame(y) ELSE y]
        /\ file' = IF autosave THEN Saved(file, y) ELSE file
    BY DEF LoadState
  <1>3. x \in GbType /\ x.slot = r.slot /\ x.open = r.open
            /\ x.probeActive = r.probeActive
    BY <1>1 DEF GbType
  <1> HIDE DEF x
  <1>4. y \in GbType /\ y.slot = r.slot /\ y.open = r.open
            /\ Sectors \subseteq OwnDoubt(y)
    BY <1>1, <1>3 DEF GbType, OwnDoubt
  <1> HIDE DEF y
  <1>5. Tracked(y, file)
    BY <1>4 DEF Tracked
  <1>6. /\ SaveGame(y).slot = r.slot /\ Tracked(SaveGame(y), Saved(file, y))
        /\ Elsewhere(file, Saved(file, y), r.slot)
    BY <1>1, <1>4, <1>5, SaveTracks
  <1>7. CASE autosave
    BY <1>1, <1>2, <1>6, <1>7, ObjectTracks
  <1>8. CASE ~autosave
    BY <1>1, <1>2, <1>4, <1>5, <1>8, ObjectTracks DEF Elsewhere
  <1> QED
    BY <1>7, <1>8

LEMMA ResetFuncTracks ==
    ASSUME IInv, TrackInv, ResetFunc
    PROVE  TrackInv'
  <1> DEFINE s == [r |-> gb[focus], probing |-> probing, suspended |-> suspended]
  <1>1. PICK memory \in BOOLEAN : gb' = [gb EXCEPT ![focus] = Boot(s, memory).r]
    BY DEF ResetFunc
  <1>2. s.r = gb[focus] /\ focus \in Gbs /\ GbOK(s.r, adopted)
    BY Facts, CellsAssumption
  <1>3. file' = file /\ Elsewhere(file, file', gb[focus].slot)
    BY DEF ResetFunc, Elsewhere
  <1> HIDE DEF s
  <1>4. Boot(s, memory).r.slot = gb[focus].slot
    <2>1. Tracked(s.r, [k \in {s.r.slot} |-> OwnRam(s.r)])
      BY DEF Tracked
    <2> QED
      BY <1>2, <2>1, BootTracks
  <1>5. Tracked(gb[focus], file) => Tracked(Boot(s, memory).r, file')
    BY <1>2, <1>3, BootTracks
  <1> QED
    BY <1>1, <1>2, <1>3, <1>4, <1>5, ObjectTracks

LEMMA UpdateVBlankTracks ==
    ASSUME IInv, TrackInv, NEW g \in Gbs, UpdateVBlank(g)
    PROVE  TrackInv'
  <1> DEFINE now == [r |-> gb[g], probing |-> probing, suspended |-> suspended]
  <1>1. PICK memory \in BOOLEAN :
        LET s == IF gb[g].resetting THEN Boot(now, memory) ELSE now
            frame == s.r.frameCounter + 1
            gaveUp == Boot([s EXCEPT !.probing = FALSE], memory)
            ends == ~borders \/ GivesUp(frame)
            left == CASE ~s.probing -> [s EXCEPT !.r = UpdateAutosave(s.r)]
                      [] s.probing /\ ends -> gaveUp
                      [] OTHER -> [s EXCEPT !.r.frameCounter = frame]
        IN /\ gb' = [gb EXCEPT ![g] = left.r]
           /\ file' = IF s.probing THEN file ELSE Autosaved(file, s.r)
    BY DEF UpdateVBlank
  <1> DEFINE s == IF gb[g].resetting THEN Boot(now, memory) ELSE now
             frame == s.r.frameCounter + 1
             gaveUp == Boot([s EXCEPT !.probing = FALSE], memory)
             ends == ~borders \/ GivesUp(frame)
             left == CASE ~s.probing -> [s EXCEPT !.r = UpdateAutosave(s.r)]
                       [] s.probing /\ ends -> gaveUp
                       [] OTHER -> [s EXCEPT !.r.frameCounter = frame]
  <1>2. /\ gb' = [gb EXCEPT ![g] = left.r]
        /\ file' = IF s.probing THEN file ELSE Autosaved(file, s.r)
    BY <1>1
  <1>3. /\ GbOK(now.r, adopted) /\ now.probing \in BOOLEAN /\ now.r = gb[g]
        /\ StateOK(now.suspended, adopted) /\ file \in FileType
        /\ autosave \in BOOLEAN /\ borders \in BOOLEAN /\ realSgb \in BOOLEAN
    BY DEF IInv, GbsOK, SettingsOK, FileOK
  \* Files the object surely agrees with, to learn what holds of it anyway.
  <1> DEFINE own == [k \in Slots |-> OwnRam(gb[g])]
  <1>4. \A files : Tracked(gb[g], files) =>
            /\ GbOK(s.r, adopted) /\ s.probing \in BOOLEAN
            /\ s.r.slot = gb[g].slot /\ Tracked(s.r, files)
            /\ s = [r |-> s.r, probing |-> s.probing, suspended |-> s.suspended]
    <2> SUFFICES ASSUME NEW files, Tracked(gb[g], files)
                 PROVE  /\ GbOK(s.r, adopted) /\ s.probing \in BOOLEAN
                        /\ s.r.slot = gb[g].slot /\ Tracked(s.r, files)
                        /\ s = [r |-> s.r, probing |-> s.probing,
                                suspended |-> s.suspended]
      OBVIOUS
    <2>1. CASE gb[g].resetting
      <3>1. s = Boot(now, memory)
        BY <2>1
      <3>2. Boot(now, memory) = [r |-> Boot(now, memory).r,
                 probing |-> Boot(now, memory).probing,
                 suspended |-> Boot(now, memory).suspended]
        BY DEF Boot
      <3> HIDE DEF now
      <3>3. /\ GbOK(Boot(now, memory).r, adopted)
            /\ Boot(now, memory).probing \in BOOLEAN
        BY <1>3, BootOK
      <3>4. /\ Boot(now, memory).r.slot = gb[g].slot
            /\ Tracked(Boot(now, memory).r, files)
        BY <1>3, BootTracks
      <3> HIDE DEF s
      <3> QED
        BY <3>1, <3>2, <3>3, <3>4
    <2>2. CASE ~gb[g].resetting
      BY <1>3, <2>2
    <2> QED
      BY <2>1, <2>2
  <1>5. own \in FileType /\ Tracked(gb[g], own)
    <2>1. OwnRam(gb[g]) \in Contented /\ (gb[g].open => gb[g].slot \in Slots)
      BY <1>3, Facts DEF GbOK, GbType, KeptType, OwnRam, Slots
    <2> QED
      BY <2>1 DEF FileType, Contented, Tracked
  <1> HIDE DEF s, own
  <1>6. /\ GbOK(s.r, adopted) /\ s.probing \in BOOLEAN /\ s.r.slot = gb[g].slot
        /\ s = [r |-> s.r, probing |-> s.probing, suspended |-> s.suspended]
    BY <1>4, <1>5
  <1> DEFINE new(files) == IF s.probing THEN files ELSE Autosaved(files, s.r)
  <1>7. ASSUME NEW files \in FileType, Tracked(s.r, files)
        PROVE  /\ left.r.slot = s.r.slot /\ Tracked(left.r, new(files))
               /\ Elsewhere(files, new(files), s.r.slot)
    <2>1. CASE ~s.probing
      <3>1. left = [s EXCEPT !.r = UpdateAutosave(s.r)]
        BY <2>1
      <3>2. left.r = UpdateAutosave(s.r)
        BY <1>6, <3>1
      <3> HIDE DEF left
      <3> QED
        BY <1>3, <1>6, <1>7, <2>1, <3>2, UpdateAutosaveTracks
    <2>2. CASE s.probing /\ ends
      <3> DEFINE t == [s EXCEPT !.probing = FALSE]
      <3>1. left = Boot(t, memory)
        BY <2>2
      <3>2. t.r = s.r
        BY <1>6
      <3> HIDE DEF t, left
      <3> QED
        BY <1>6, <1>7, <2>2, <3>1, <3>2, BootTracks DEF Elsewhere
    <2>3. CASE s.probing /\ ~ends
      <3> DEFINE x == [s.r EXCEPT !.frameCounter = frame]
      <3>1. left = [s EXCEPT !.r.frameCounter = frame]
        BY <2>3
      <3>2. [s EXCEPT !.r.frameCounter = frame] = [s EXCEPT !.r = x]
        OBVIOUS
      <3> HIDE DEF frame
      <3>3. x.slot = s.r.slot /\ x.open = s.r.open /\ OwnRam(x) = OwnRam(s.r)
              /\ OwnDoubt(x) = OwnDoubt(s.r)
        BY <1>6 DEF GbOK, GbType, OwnRam, OwnDoubt
      <3> HIDE DEF x, left
      <3>4. left.r = x
        BY <1>6, <3>1, <3>2
      <3> QED
        BY <1>7, <2>3, <3>3, <3>4 DEF Tracked, Elsewhere
    <2> QED
      BY <1>6, <2>1, <2>2, <2>3
  <1> HIDE DEF left
  <1>8. left.r.slot = gb[g].slot /\ Elsewhere(file, file', gb[g].slot)
    <2>1. left.r.slot = s.r.slot
      BY <1>4, <1>5, <1>7
    <2>2. Elsewhere(file, Autosaved(file, s.r), s.r.slot)
      <3>1. Counted(s.r).slot = s.r.slot
        BY <1>6 DEF GbOK, GbType, Counted
      <3> QED
        BY <1>3, <3>1 DEF Autosaved, Synced, FileType, Elsewhere
    <2> QED
      BY <1>2, <1>6, <2>1, <2>2 DEF Elsewhere
  <1>9. Tracked(gb[g], file) => Tracked(left.r, file')
    BY <1>2, <1>3, <1>4, <1>7
  <1> QED
    BY <1>2, <1>8, <1>9, ObjectTracks

-----------------------------------------------------------------------------
(* Loading and linking.                                                    *)

\* An object loaded from its file agrees with it.
LEMMA LoadTracks ==
    ASSUME IInv, NEW g \in Gbs, NEW slot \in Slots, NEW probe \in BOOLEAN,
           NEW files, NEW others, FileOK(files, adopted),
           others \in [Gbs -> GbType], LoadAndBoot(g, slot, probe, files, others)
    PROVE  /\ gb'[g].slot = slot /\ \A h \in Gbs \ {g} : gb'[h] = others[h]
           /\ Tracked(gb'[g], file') /\ Elsewhere(files, file', slot)
  <1> DEFINE s(r) == [r |-> r, probing |-> probe, suspended |-> suspended]
             Into(r, memory) == gb' = [others EXCEPT ![g] = Boot(s(r), memory).r]
             fails(read) == LoadSaveFails(files, slot, read)
  <1>1. PICK memory \in BOOLEAN :
            \/ Into(LoadSave(files, slot), memory) /\ file' = Extended(files, slot)
            \/ \E read \in SUBSET Sectors :
                  /\ Into(fails(read), memory)
                  /\ file' \in {files, Extended(files, slot)}
    BY DEF LoadAndBoot
  <1>2. ASSUME NEW r, GbOK(r, adopted), r.slot = slot, Tracked(r, file'),
               Into(r, memory)
        PROVE  /\ gb'[g].slot = slot /\ Tracked(gb'[g], file')
               /\ \A h \in Gbs \ {g} : gb'[h] = others[h]
    <2>1. s(r).r = r
      OBVIOUS
    <2> HIDE DEF s
    <2>2. Boot(s(r), memory).r.slot = slot /\ Tracked(Boot(s(r), memory).r, file')
      BY <1>2, <2>1, BootTracks
    <2> QED
      BY <1>2, <2>2
  <1> HIDE DEF Into
  <1>3. Elsewhere(files, Extended(files, slot), slot) /\ Elsewhere(files, files, slot)
    BY DEF FileOK, FileType, Extended, Elsewhere
  <1>4. Empty \in GbType /\ ~Empty.open
    BY EmptyTracks
  <1>5. CASE Into(LoadSave(files, slot), memory) /\ file' = Extended(files, slot)
    <2> DEFINE r == LoadSave(files, slot)
    <2>1. r.slot = slot /\ r.ram = Stored(files, slot) /\ ~r.probeActive
      <3>1. Empty.probeActive = FALSE
        BY DEF Empty
      <3> QED
        BY <1>4, <3>1 DEF LoadSave, GbType
    <2>2. OwnRam(r) = Stored(files, slot) /\ file'[slot] = Stored(files, slot)
      BY <1>5, <2>1 DEF OwnRam, Extended, FileOK, FileType
    <2>3. Tracked(r, file')
      BY <2>1, <2>2 DEF Tracked
    <2> QED
      BY <1>2, <1>3, <1>5, <2>1, <2>3, LoadSaveOK
  <1>6. CASE \E read \in SUBSET Sectors :
                  /\ Into(fails(read), memory)
                  /\ file' \in {files, Extended(files, slot)}
    <2>1. PICK read \in SUBSET Sectors :
                  /\ Into(fails(read), memory)
                  /\ file' \in {files, Extended(files, slot)}
      BY <1>6
    <2>2. fails(read).slot = slot /\ ~fails(read).open
      BY <1>4 DEF LoadSaveFails, GbType
    <2>3. Tracked(fails(read), file')
      BY <2>2 DEF Tracked
    <2>4. GbOK(fails(read), adopted)
      BY LoadSaveOK
    <2> HIDE DEF fails
    <2> QED
      BY <1>2, <1>3, <2>1, <2>2, <2>3, <2>4
  <1> QED
    BY <1>1, <1>5, <1>6

LEMMA LoadRomTracks ==
    ASSUME IInv, TrackInv, LoadRom
    PROVE  TrackInv'
  <1>1. /\ LoadAndBoot(focus, 1, borders, file, gb) /\ Running = {}
        /\ focus \in Gbs /\ borders \in BOOLEAN /\ FileOK(file, adopted)
        /\ gb \in [Gbs -> GbType] /\ 1 \in Slots
    BY DEF LoadRom, IInv, SettingsOK, GbsOK, Slots
  <1>2. /\ gb'[focus].slot = 1 /\ \A h \in Gbs \ {focus} : gb'[h] = gb[h]
        /\ Tracked(gb'[focus], file')
    BY <1>1, LoadTracks
  <1>3. \A h \in Gbs \ {focus} : gb'[h].slot = 0 /\ ~gb'[h].open
    BY <1>1, <1>2, Facts DEF Running, Loaded
  <1>4. \A h, i \in Gbs : gb'[h].slot = 1 /\ gb'[i].slot = 1 => h = i
    BY <1>2, <1>3
  <1>5. \A h \in Gbs : Tracked(gb'[h], file')
    BY <1>2, <1>3 DEF Tracked
  <1> QED
    BY <1>4, <1>5 DEF TrackInv

LEMMA DoubtedTracks ==
    ASSUME NEW r \in GbType
    PROVE  Doubted(r).slot = r.slot /\ \A files : Tracked(Doubted(r), files)
  <1> DEFINE kept == [r.kept EXCEPT !.unmarked = Sectors]
             x == [r EXCEPT !.unmarked = Sectors]
             y == [x EXCEPT !.kept = kept]
  <1>1. kept.unmarked = Sectors
    BY DEF GbType, KeptType
  <1>2. Doubted(r) = IF r.probeActive THEN y ELSE x
    <2>1. CASE r.probeActive
      <3>1. x.kept = r.kept
        BY DEF GbType
      <3> QED
        BY <2>1, <3>1 DEF Doubted
    <2>2. CASE ~r.probeActive
      BY <2>2 DEF Doubted, GbType, KeptType
    <2> QED
      BY <2>1, <2>2
  <1> HIDE DEF kept
  <1>3. /\ x.slot = r.slot /\ y.slot = r.slot /\ x.unmarked = Sectors
        /\ y.kept = kept /\ x.probeActive = r.probeActive
        /\ y.probeActive = r.probeActive
    BY DEF GbType
  <1> HIDE DEF x, y
  <1>4. Sectors \subseteq OwnDoubt(Doubted(r)) /\ Doubted(r).slot = r.slot
    BY <1>1, <1>2, <1>3 DEF OwnDoubt
  <1> HIDE DEF Doubted
  <1> QED
    BY <1>4 DEF Tracked

\* Only two objects: one is the focus, and the other takes slot 2.
LEMMA LocalLinkTracks ==
    ASSUME IInv, TrackInv, LocalLink
    PROVE  TrackInv'
  <1>1. PICK g \in Others :
        LET files == IF Loaded(g) THEN Unloaded(file, gb[g]) ELSE file
            doubted == [gb EXCEPT ![g] = Empty,
                            ![focus] = IF @.slot = 2 THEN Doubted(@) ELSE @]
        IN \/ LoadAndBoot(g, 2, probing, files, doubted)
           \/ /\ gb' = doubted
              /\ file' \in {files, Extended(files, 2)}
              /\ UNCHANGED <<probing, suspended>>
    BY DEF LocalLink
  <1> DEFINE files == IF Loaded(g) THEN Unloaded(file, gb[g]) ELSE file
             x == IF gb[focus].slot = 2 THEN Doubted(gb[focus]) ELSE gb[focus]
             doubted == [[gb EXCEPT ![g] = Empty] EXCEPT ![focus] = x]
  <1>2. /\ g \in Gbs /\ g # focus /\ focus \in Gbs /\ probing \in BOOLEAN
        /\ gb \in [Gbs -> GbType] /\ \A h \in Gbs : GbOK(gb[h], adopted)
        /\ FileOK(file, adopted) /\ 2 \in Slots /\ file \in FileType
        /\ gb[focus].slot # 0
    BY DEF IInv, SettingsOK, GbsOK, FileOK, Others, Slots, LocalLink, Loaded
  <1>3. \A h \in Gbs : h = g \/ h = focus
    BY <1>2, GbsAssumption
  <1>4. \/ LoadAndBoot(g, 2, probing, files, doubted)
        \/ gb' = doubted /\ file' \in {files, Extended(files, 2)}
    <2>1. doubted = [gb EXCEPT ![g] = Empty,
                        ![focus] = IF @.slot = 2 THEN Doubted(@) ELSE @]
      BY <1>2
    <2> HIDE DEF doubted
    <2> QED
      BY <1>1, <2>1
  \* The focus agrees with its file if that is slot 1, which nobody touched.
  <1>5. x \in GbType /\ x.slot = gb[focus].slot
            /\ (x.slot = 2 => \A f : Tracked(x, f))
            /\ (x.slot = 1 => x = gb[focus])
    <2>1. GbOK(x, adopted)
      BY <1>2, DoubtedOK
    <2> QED
      BY <1>2, <2>1, DoubtedTracks DEF GbOK
  <1>6. x.slot = 1 => gb[g].slot # 1
    BY <1>2, <1>5 DEF TrackInv
  <1>7. x.slot = 1 => Tracked(x, file)
    <2> SUFFICES ASSUME x.slot = 1 PROVE Tracked(gb[focus], file)
      BY <1>5
    <2>1. Alone(focus)
      BY <1>2, <1>5, <1>6, <1>3 DEF Alone
    <2> QED
      BY <1>2, <2>1 DEF TrackInv
  <1>8. FileOK(files, adopted) /\ (x.slot = 1 => files[1] = file[1])
    <2>1. FileOK(files, adopted)
      BY <1>2, UnloadOK
    <2>2. EndBorderProbe(gb[g]).slot = gb[g].slot
      BY <1>2, ProbeTracks
    <2>3. gb[g].slot # 1 => Unloaded(file, gb[g])[1] = file[1]
      BY <1>2, <2>2 DEF Unloaded, Synced, FileType, Slots
    <2> QED
      BY <1>6, <2>1, <2>3
  <1>9. x.slot = 1 => Tracked(x, files)
    BY <1>7, <1>8 DEF Tracked
  <1>10. doubted \in [Gbs -> GbType] /\ doubted[g] = Empty /\ doubted[focus] = x
    BY <1>2, <1>5, EmptyTracks
  <1>11. x.slot \in Slots
    BY <1>2, <1>5, Facts
  <1> HIDE DEF files, x, doubted
  <1>12. /\ gb'[focus] = x /\ gb'[g].slot # 1
         /\ Tracked(gb'[g], file') /\ Elsewhere(files, file', 2)
    <2>1. CASE LoadAndBoot(g, 2, probing, files, doubted)
      BY <1>2, <1>8, <1>10, <2>1, LoadTracks
    <2>2. CASE gb' = doubted /\ file' \in {files, Extended(files, 2)}
      BY <1>8, <1>10, <2>2, EmptyTracks DEF Extended, FileOK, FileType, Elsewhere
    <2> QED
      BY <1>4, <2>1, <2>2
  <1>13. Tracked(gb'[focus], file')
    <2>1. x.slot = 1 => file'[x.slot] = files[x.slot]
      BY <1>12 DEF Elsewhere, Slots
    <2> QED
      BY <1>5, <1>9, <1>11, <1>12, <2>1 DEF Tracked, Slots
  <1>14. \A h, i \in Gbs : gb'[h].slot = 1 /\ gb'[i].slot = 1 => h = i
    BY <1>3, <1>12
  <1> QED
    BY <1>3, <1>12, <1>13, <1>14 DEF TrackInv

-----------------------------------------------------------------------------
(* The theorem.                                                            *)

LEMMA TracksInitially == Init => TrackInv
  BY EmptyTracks DEF Init, TrackInv

LEMMA TracksPreserved == IInv /\ TrackInv /\ [Next]_vars => TrackInv'
  <1> SUFFICES ASSUME IInv, TrackInv, [Next]_vars PROVE TrackInv'
    OBVIOUS
  <1>1. CASE Guest
    <2>1. CASE BorderFound
      BY <2>1, AskResetTracks DEF BorderFound
    <2> QED
      BY <1>1, <2>1, WriteSramTracks, WriteClockTracks, CaptureImageTracks
      DEF Guest, Running
  <1>2. CASE Player
    <2>1. CASE LoadRom \/ LocalLink
      BY <2>1, LoadRomTracks, LocalLinkTracks
    <2>2. CASE SwapFocus \/ SetBorders \/ SetMode \/ SaveState
      BY <2>2, OptionTracks DEF SwapFocus, SetBorders, SetMode, SaveState
    <2>3. CASE SetAutoSave \/ SaveKey
      BY <2>3, FocusSavesTracks
    <2>4. CASE ResetKey
      BY <2>4, AskResetTracks DEF ResetKey
    <2>5. CASE ResetFunc \/ LoadState
      BY <2>5, ResetFuncTracks, LoadStateTracks
    <2>6. CASE Exit \/ Suspend \/ ExitNoSave \/ ReturnToLauncher \/ PowerOff
      BY <2>6, AllEmptyTracks
      DEF Exit, Suspend, ExitNoSave, ReturnToLauncher, PowerOff, Leave
    <2> QED
      BY <1>2, <2>1, <2>2, <2>3, <2>4, <2>5, <2>6 DEF Player
  <1>3. CASE \E g \in Running : UpdateVBlank(g)
    BY <1>3, UpdateVBlankTracks DEF Running
  <1>4. CASE UNCHANGED vars
    BY <1>4, OptionTracks DEF vars
  <1> QED
    BY <1>1, <1>2, <1>3, <1>4 DEF Next

\* A sector whose RAM differs from the file is dirty, or one of those autosave
\* is not told of (gameboy.cpp, saveGame and gameboySyncAutosave; mmu.cpp,
\* writeSram and initMMU), for any number of sectors, frames and events.
THEOREM AutosaveAlwaysTracks == Spec => []AutosaveTracks
  <1>1. IInv /\ TrackInv => AutosaveTracks
    <2> SUFFICES ASSUME IInv, TrackInv, NEW g \in Running,
                        EndBorderProbe(gb[g]).open,
                        \A h \in Gbs \ {g} : gb[h].slot # EndBorderProbe(gb[g]).slot
                 PROVE  \A c \in Sectors \ (EndBorderProbe(gb[g]).dirty
                                \cup EndBorderProbe(gb[g]).unmarked) :
                          EndBorderProbe(gb[g]).ram[c] =
                              file[EndBorderProbe(gb[g]).slot][c]
      BY DEF AutosaveTracks
    <2> DEFINE r == EndBorderProbe(gb[g])
    <2>1. gb[g] \in GbType /\ g \in Gbs
      BY Facts DEF Running
    <2>2. /\ r.slot = gb[g].slot /\ r.open = gb[g].open
          /\ r.ram = OwnRam(gb[g]) /\ r.dirty \cup r.unmarked = OwnDoubt(gb[g])
      BY <2>1 DEF EndBorderProbe, OwnRam, OwnDoubt, GbType, KeptType
    <2>3. Tracked(gb[g], file)
      BY <2>1, <2>2 DEF TrackInv, Alone
    <2> HIDE DEF r
    <2> QED
      BY <2>2, <2>3 DEF Tracked, r
  <1>2. Spec => []TrackInv
    BY TracksInitially, TracksPreserved, Inductive, PTL DEF Spec
  <1> QED
    BY <1>1, <1>2, Inductive, PTL

-----------------------------------------------------------------------------
(* Autosave is timely.  AutosaveIsTimely is not inductive: the wait is     *)
(* bound by `frames`, which counts only once autosave has started, and     *)
(* nothing waits before that but what `saveModified` will start it for.    *)
(* What waits has a mark, because autosave loses track of nothing.  A      *)
(* probe leaves the counter it set aside, and init leaves no mark.         *)

\* A counter that has not run out.
Counts(r) ==
    r.open => IF r.probeActive THEN r.kept.frames < Window ELSE r.frames < Window

\* What is marked has waited for n VBlanks at most.
Timely(r, n) ==
    r.open /\ ~r.probeActive /\ r.dirty # {} =>
        /\ r.autosaveStarted => n <= r.frames + 1
        /\ ~r.autosaveStarted => n = 0 /\ r.saveModified

\* All that waits is marked.
Marked(r, n) == n = 0 \/ r.dirty # {}

\* While the global flag says so, every game with a file is in a probe.
InProbe(r) == r.open => r.probeActive

TimelyInv ==
    /\ WaitedOK
    /\ probing => \A g \in Gbs : InProbe(gb[g])
    /\ \A g \in Gbs : Counts(gb[g]) /\ Timely(gb[g], waited[g])
    /\ \A g \in Gbs : waited[g] # 0 => Waits(g)

\* What an action leaves of it before the history counts on.
StillTimely ==
    /\ probing' => \A g \in Gbs : InProbe(gb'[g])
    /\ \A g \in Gbs : Counts(gb'[g]) /\ Timely(gb'[g], waited[g])

\* What TimelyInv says of one object.
LEMMA TimelyFacts ==
    ASSUME IInv, TrackInv, TimelyInv, NEW g \in Gbs
    PROVE  /\ Counts(gb[g]) /\ Timely(gb[g], waited[g])
           /\ Marked(gb[g], waited[g]) /\ waited[g] \in Nat
  <1>1. waited[g] \in Nat
    BY LimitsAssumption DEF TimelyInv, WaitedOK
  <1>2. ASSUME Waits(g) PROVE gb[g].dirty # {}
    <2>1. Tracked(gb[g], file) /\ gb[g].open /\ ~gb[g].probeActive
      BY <1>2 DEF Waits, TrackInv, Alone
    <2>2. \A c \in Sectors \ (gb[g].dirty \cup gb[g].unmarked) :
              gb[g].ram[c] = file[gb[g].slot][c]
      BY <2>1 DEF Tracked, OwnDoubt, OwnRam
    <2> QED
      BY <1>2, <2>2 DEF Waits
  <1> QED
    BY <1>1, <1>2 DEF TimelyInv, Marked

\* What the bound comes to.
LEMMA TimelyBound ==
    ASSUME IInv, TrackInv, TimelyInv, NEW g \in Gbs
    PROVE  waited[g] <= Window
  <1>1. /\ gb[g].frames \in Nat /\ waited[g] \in Nat /\ Window \in Nat
        /\ gb[g].autosaveStarted \in BOOLEAN
    BY Facts, TimelyFacts, LimitsAssumption DEF GbType
  <1>2. CASE waited[g] # 0
    <2>1. gb[g].open /\ ~gb[g].probeActive /\ gb[g].dirty # {}
      BY <1>2, TimelyFacts DEF TimelyInv, Waits, Marked
    <2>2. gb[g].frames < Window /\ waited[g] <= gb[g].frames + 1
      BY <1>1, <1>2, <2>1, TimelyFacts DEF Counts, Timely
    <2> QED
      BY <1>1, <2>2
  <1>3. CASE waited[g] = 0
    BY <1>1, <1>3
  <1> QED
    BY <1>2, <1>3

\* Writes, saves and states: what is dirty was marked as modified.
LEMMA MarksTimely ==
    ASSUME NEW r \in GbType, NEW n \in Nat, NEW e,
           Counts(r), Timely(r, n), Marked(r, n),
           e.open = r.open, e.probeActive = r.probeActive, e.kept = r.kept,
           e.frames = r.frames, e.autosaveStarted = r.autosaveStarted,
           \/ e.dirty = {}
           \/ e.saveModified
           \/ e.dirty = r.dirty /\ e.saveModified = r.saveModified
    PROVE  Counts(e) /\ Timely(e, n) /\ (InProbe(r) => InProbe(e))
  <1>1. r.frames \in Nat
    BY DEF GbType
  <1> QED
    BY <1>1 DEF Counts, Timely, Marked, InProbe

\* Nothing is marked.
LEMMA NothingTimely ==
    ASSUME NEW e, Counts(e), e.dirty = {}
    PROVE  \A n : Counts(e) /\ Timely(e, n)
  BY DEF Timely

LEMMA SaveTimely ==
    ASSUME NEW r \in GbType, NEW n, Counts(r), Timely(r, n)
    PROVE  /\ Counts(SaveGame(r)) /\ Timely(SaveGame(r), n)
           /\ InProbe(r) => InProbe(SaveGame(r))
  <1> DEFINE e == SaveGame(r)
  <1>1. CASE Saves(r)
    <2>1. /\ e.open = r.open /\ e.probeActive = r.probeActive /\ e.kept = r.kept
          /\ e.frames = r.frames /\ e.dirty = {}
      BY <1>1 DEF GbType, SaveGame
    <2> HIDE DEF e
    <2>2. Counts(e)
      BY <2>1 DEF Counts
    <2> QED
      BY <2>1, <2>2, NothingTimely DEF e, InProbe
  <1>2. CASE ~Saves(r)
    BY <1>2 DEF SaveGame
  <1> QED
    BY <1>1, <1>2

LEMMA SyncTimely ==
    ASSUME NEW r \in GbType, NEW n, Counts(r), Timely(r, n)
    PROVE  /\ Counts(GameboySyncAutosave(r)) /\ Timely(GameboySyncAutosave(r), n)
           /\ InProbe(r) => InProbe(GameboySyncAutosave(r))
  <1> DEFINE e == GameboySyncAutosave(r)
  <1>1. CASE Syncs(r)
    <2>1. /\ e.open = r.open /\ e.probeActive = r.probeActive /\ e.frames = 0
          /\ e.dirty = {}
      BY <1>1 DEF GbType, GameboySyncAutosave
    <2>2. ~r.probeActive
      BY <1>1 DEF Syncs
    <2> HIDE DEF e
    <2>3. Counts(e)
      BY <2>1, <2>2, LimitsAssumption DEF Counts
    <2> QED
      BY <2>1, <2>3, NothingTimely DEF e, InProbe
  <1>2. CASE ~Syncs(r)
    BY <1>2 DEF GameboySyncAutosave
  <1> QED
    BY <1>1, <1>2

\* A counter about to run out is reset by the sync it asks for.
LEMMA UpdateAutosaveTimely ==
    ASSUME NEW r, NEW real, NEW n \in Nat, GbOK(r, real), Counts(r),
           Timely(r, n), autosave \in BOOLEAN
    PROVE  /\ Counts(UpdateAutosave(r))
           /\ Timely(UpdateAutosave(r), 0)
           /\ autosave => Timely(UpdateAutosave(r), n + 1)
  <1> DEFINE counted == Counted(r)
             asked == IF SyncDue(counted) THEN GameboySyncAutosave(counted) ELSE counted
             started == asked.saveModified /\ autosave
             e == [asked EXCEPT !.autosaveStarted = started \/ @,
                     !.saveModified = @ /\ ~started]
  <1>1. /\ counted \in GbType /\ counted.open = r.open /\ counted.kept = r.kept
        /\ counted.probeActive = r.probeActive /\ counted.dirty = r.dirty
        /\ counted.saveModified = r.saveModified
        /\ counted.autosaveStarted = r.autosaveStarted
        /\ counted.frames = IF r.autosaveStarted /\ r.frames < Window
                               THEN r.frames + 1 ELSE r.frames
        /\ counted.slot = r.slot /\ OwnRam(counted) = OwnRam(r)
    BY LimitsAssumption DEF GbOK, GbType, Counted, OwnRam
  <1>2. /\ r \in GbType /\ r.frames \in 0 .. Window
        /\ r.autosaveStarted \in BOOLEAN /\ r.saveModified \in BOOLEAN
    BY DEF GbOK, GbType
  <1> HIDE DEF counted
  \* Once the sync is over, an object that waits has frames left.
  <1>3. /\ asked \in GbType /\ asked.open = r.open
        /\ asked.probeActive = r.probeActive
        /\ r.probeActive => asked.kept = r.kept
        /\ r.open /\ ~r.probeActive =>
              /\ asked.frames < Window
              /\ asked.dirty # {} =>
                    /\ asked.autosaveStarted => n <= asked.frames
                    /\ ~asked.autosaveStarted => n = 0 /\ asked.saveModified
    <2>1. CASE SyncDue(counted) /\ Syncs(counted)
      <3>1. asked = GameboySyncAutosave(counted)
        BY <2>1
      <3>2. asked \in GbType
        <4>1. GbOK(counted, real)
          BY <1>1, SameOwnRam
        <4> QED
          BY <3>1, <4>1, SyncOK DEF GbOK
      <3> DEFINE a == asked
      <3>3. /\ a.open = r.open /\ a.probeActive = r.probeActive
            /\ a.frames = 0 /\ a.autosaveStarted = FALSE
            /\ a.dirty = {} /\ ~r.probeActive
        BY <1>1, <2>1, <3>1 DEF GbType, GameboySyncAutosave, Syncs
      <3> QED
        BY <3>2, <3>3, LimitsAssumption
    <2>2. CASE SyncDue(counted) /\ ~Syncs(counted)
      <3>1. asked = counted
        BY <2>2 DEF GameboySyncAutosave
      <3>2. r.open /\ ~r.probeActive => ~r.autosaveStarted
        BY <1>1, <2>2 DEF Syncs
      <3> QED
        BY <1>1, <1>2, <3>1, <3>2 DEF Counts, Timely
    <2>3. CASE ~SyncDue(counted)
      <3>1. asked = counted
        BY <2>3
      <3>2. counted.frames < Window /\ r.saveModified
        BY <1>1, <1>2, <2>3, LimitsAssumption DEF SyncDue
      <3> QED
        BY <1>1, <1>2, <3>1, <3>2, LimitsAssumption DEF Counts, Timely
    <2> QED
      BY <2>1, <2>2, <2>3
  <1>4. UpdateAutosave(r) = e
    BY DEF UpdateAutosave, counted
  <1> HIDE DEF asked
  <1>5. /\ asked.frames \in Nat
        /\ asked.autosaveStarted \in BOOLEAN /\ asked.saveModified \in BOOLEAN
    BY <1>3 DEF GbType
  <1>6. /\ e.open = asked.open /\ e.probeActive = asked.probeActive
        /\ e.kept = asked.kept /\ e.frames = asked.frames /\ e.dirty = asked.dirty
        /\ e.autosaveStarted = (started \/ asked.autosaveStarted)
        /\ e.saveModified = (asked.saveModified /\ ~started)
    BY <1>3 DEF GbType
  <1> HIDE DEF e
  <1>7. /\ started \/ asked.autosaveStarted => e.autosaveStarted
        /\ e.autosaveStarted => started \/ asked.autosaveStarted
        /\ asked.saveModified /\ ~started => e.saveModified
        /\ asked.saveModified /\ autosave => started
    <2>1. asked.saveModified /\ autosave => started
      OBVIOUS
    <2> HIDE DEF started
    <2> QED
      BY <1>6, <2>1, Zenon
  <1>8. Counts(e)
    BY <1>3, <1>6 DEF Counts
  <1> HIDE DEF started
  <1>9. ASSUME r.open, ~r.probeActive, e.dirty # {}
        PROVE  /\ e.autosaveStarted /\ autosave => n + 1 <= e.frames + 1
               /\ ~e.autosaveStarted => e.saveModified /\ ~autosave
    <2>1. /\ asked.autosaveStarted => n <= asked.frames
          /\ ~asked.autosaveStarted => n = 0 /\ asked.saveModified
          /\ e.frames = asked.frames
      BY <1>3, <1>6, <1>9
    <2>2. n <= e.frames
      BY <1>5, <2>1
    <2>3. ~e.autosaveStarted => e.saveModified /\ ~autosave
      BY <1>7, <2>1
    <2> QED
      BY <1>5, <2>1, <2>2, <2>3
  <1>10. Timely(e, 0)
    BY <1>3, <1>5, <1>6, <1>9 DEF Timely
  <1>11. autosave => Timely(e, n + 1)
    BY <1>3, <1>6, <1>9 DEF Timely
  <1> QED
    BY <1>4, <1>8, <1>10, <1>11

\* init leaves nothing waiting, and a counter that ran or was set aside.
LEMMA BootTimely ==
    ASSUME NEW s, NEW memory \in BOOLEAN, NEW real, GbOK(s.r, real), Counts(s.r)
    PROVE  /\ \A n : Counts(Boot(s, memory).r) /\ Timely(Boot(s, memory).r, n)
           /\ Boot(s, memory).probing => s.probing /\ InProbe(Boot(s, memory).r)
  <1> DEFINE cancelled == s.r.probeActive /\ (~s.probing \/ ~borders)
             ended == IF cancelled THEN EndBorderProbe(s.r) ELSE s.r
             probes == /\ s.probing /\ ~cancelled /\ ~realSgb
                       /\ (memory \/ ended.probeActive)
             entered == IF probes THEN BeginBorderProbe(ended)
                                  ELSE EndBorderProbe(ended)
             resumes == ~probes /\ s.suspended # NoState
             booted == [entered EXCEPT !.dirty = {}, !.frameCounter = 0,
                  !.resetting = FALSE,
                  !.ram = IF resumes THEN s.suspended ELSE @,
                  !.unmarked = IF resumes THEN Sectors ELSE @ \cup entered.dirty]
  <1>1. Boot(s, memory).r = booted /\ Boot(s, memory).probing = probes
    BY DEF Boot
  <1>2. ASSUME NEW r, GbOK(r, real), Counts(r)
        PROVE  /\ GbOK(EndBorderProbe(r), real) /\ Counts(EndBorderProbe(r))
               /\ GbOK(BeginBorderProbe(r), real) /\ Counts(BeginBorderProbe(r))
    <2>1. Counts(EndBorderProbe(r)) /\ Counts(BeginBorderProbe(r))
      BY <1>2 DEF GbOK, GbType, KeptType, BeginBorderProbe, EndBorderProbe, Counts
    <2> QED
      BY <1>2, <2>1, EndProbeOK, BeginProbeOK
  <1>3. GbOK(ended, real) /\ Counts(ended)
    BY <1>2
  <1> HIDE DEF ended
  <1>4. entered \in GbType /\ Counts(entered)
    BY <1>2, <1>3 DEF GbOK
  <1>8. probes => s.probing /\ entered.probeActive
    BY <1>3 DEF BeginBorderProbe, GbOK, GbType
  <1> HIDE DEF entered, probes
  <1>5. /\ booted.open = entered.open /\ booted.probeActive = entered.probeActive
        /\ booted.kept = entered.kept /\ booted.frames = entered.frames
        /\ booted.autosaveStarted = entered.autosaveStarted
        /\ booted.dirty = {}
    BY <1>4 DEF GbType
  <1>6. entered.frames \in Nat
    BY <1>4 DEF GbType
  <1> HIDE DEF booted
  <1>7. \A n : Counts(booted) /\ Timely(booted, n)
    BY <1>4, <1>5, <1>6 DEF Counts, Timely
  <1> QED
    BY <1>1, <1>5, <1>7, <1>8 DEF InProbe

\* One object changes.
LEMMA ObjectTimely ==
    ASSUME IInv, TrackInv, TimelyInv, NEW g \in Gbs, NEW x, gb' = [gb EXCEPT ![g] = x],
           Counts(x) /\ Timely(x, waited[g]),
           probing' => probing /\ (InProbe(gb[g]) => InProbe(x))
    PROVE  StillTimely
  <1>1. \A h \in Gbs : gb'[h] = IF h = g THEN x ELSE gb[h]
    BY Facts
  <1> QED
    BY <1>1 DEF TimelyInv, StillTimely

LEMMA EmptyTimely == \A n : Counts(Empty) /\ Timely(Empty, n) /\ InProbe(Empty)
  BY DEF Empty, Counts, Timely, InProbe

LEMMA AllEmptyTimely == ASSUME gb' = [g \in Gbs |-> Empty] PROVE StillTimely
  BY EmptyTimely DEF StillTimely

LEMMA AskResetTimely ==
    ASSUME IInv, TrackInv, TimelyInv, gb' = [gb EXCEPT ![focus].resetting = TRUE],
           probing' => probing
    PROVE  StillTimely
  <1> DEFINE r == gb[focus]
             x == [r EXCEPT !.resetting = TRUE]
             n == waited[focus]
  <1>1. /\ r \in GbType /\ focus \in Gbs /\ n \in Nat
        /\ Counts(r) /\ Timely(r, n) /\ Marked(r, n)
    BY Facts, TimelyFacts, CellsAssumption
  <1>2. gb' = [gb EXCEPT ![focus] = x]
    OBVIOUS
  <1>3. /\ x.open = r.open /\ x.probeActive = r.probeActive /\ x.kept = r.kept
        /\ x.frames = r.frames /\ x.autosaveStarted = r.autosaveStarted
        /\ x.dirty = r.dirty /\ x.saveModified = r.saveModified
    BY <1>1 DEF GbType
  <1> HIDE DEF x
  <1>4. Counts(x) /\ Timely(x, n) /\ (InProbe(r) => InProbe(x))
    BY <1>1, <1>3, MarksTimely
  <1> QED
    BY <1>1, <1>2, <1>4, ObjectTimely

\* A write marks the sector as dirty only together with saveModified.
LEMMA GuestTimely ==
    ASSUME IInv, TrackInv, TimelyInv, Guest
    PROVE  StillTimely
  <1>1. ASSUME NEW g \in Gbs, WriteSram(g) PROVE StillTimely
    <2> DEFINE r == gb[g]
               n == waited[g]
    <2>1. PICK c \in Sectors, v \in Contents(r) :
              gb' = [gb EXCEPT ![g] =
                  IF autosave
                    THEN [r EXCEPT !.ram[c] = v, !.saveModified = TRUE,
                                   !.dirty = @ \cup {c}, !.unmarked = @ \ {c}]
                    ELSE [r EXCEPT !.ram[c] = v, !.unmarked = @ \cup {c}]]
      BY <1>1 DEF WriteSram
    <2> DEFINE x == [r EXCEPT !.ram[c] = v]
               marked == [r EXCEPT !.ram[c] = v, !.saveModified = TRUE,
                                   !.dirty = @ \cup {c}, !.unmarked = @ \ {c}]
               unmarked == [r EXCEPT !.ram[c] = v, !.unmarked = @ \cup {c}]
               z == IF autosave THEN marked ELSE unmarked
    <2>2. /\ r \in GbType /\ n \in Nat
          /\ Counts(r) /\ Timely(r, n) /\ Marked(r, n)
      BY Facts, TimelyFacts
    <2>3. /\ z.open = r.open /\ z.probeActive = r.probeActive /\ z.kept = r.kept
          /\ z.frames = r.frames /\ z.autosaveStarted = r.autosaveStarted
          /\ z.saveModified \/ (z.dirty = r.dirty /\ z.saveModified = r.saveModified)
      BY <2>2 DEF GbType
    <2>4. gb' = [gb EXCEPT ![g] = z]
      BY <2>1
    <2> HIDE DEF z
    <2>5. Counts(z) /\ Timely(z, n) /\ (InProbe(r) => InProbe(z))
      BY <2>2, <2>3, MarksTimely
    <2>6. probing' = probing
      BY <1>1 DEF WriteSram
    <2> QED
      BY <2>4, <2>5, <2>6, ObjectTimely
  <1>2. ASSUME NEW g \in Gbs, WriteClock(g) PROVE StillTimely
    <2> DEFINE r == gb[g]
               n == waited[g]
    <2>1. PICK v \in Contents(r) :
              gb' = [gb EXCEPT ![g].ram[Clock] = v,
                         ![g].saveModified = @ \/ (autosave /\ gb[g].open)]
      BY <1>2 DEF WriteClock
    <2> DEFINE x == [r EXCEPT !.ram[Clock] = v]
               z == [x EXCEPT !.saveModified = @ \/ (autosave /\ r.open)]
    <2>2. /\ r \in GbType /\ n \in Nat /\ gb \in [Gbs -> GbType]
          /\ Counts(r) /\ Timely(r, n) /\ Marked(r, n)
      BY Facts, TimelyFacts
    <2>3. /\ z.open = r.open /\ z.probeActive = r.probeActive /\ z.kept = r.kept
          /\ z.frames = r.frames /\ z.autosaveStarted = r.autosaveStarted
          /\ z.dirty = r.dirty
          /\ z.saveModified \/ z.saveModified = r.saveModified
      BY <2>2 DEF GbType
    <2>4. gb' = [gb EXCEPT ![g] = z]
      BY <2>1, <2>2
    <2> HIDE DEF z
    <2>5. Counts(z) /\ Timely(z, n) /\ (InProbe(r) => InProbe(z))
      BY <2>2, <2>3, MarksTimely
    <2>6. probing' = probing
      BY <1>2 DEF WriteClock
    <2> QED
      BY <2>4, <2>5, <2>6, ObjectTimely
  <1>3. ASSUME NEW g \in Gbs, CaptureImage(g) PROVE StillTimely
    <2> DEFINE r == gb[g]
               n == waited[g]
    <2>1. PICK c \in Sectors, v \in Contents(r) :
              gb' = [gb EXCEPT ![g].ram[c] = v, ![g].unmarked = @ \cup {c}]
      BY <1>3 DEF CaptureImage
    <2> DEFINE x == [r EXCEPT !.ram[c] = v]
               z == [x EXCEPT !.unmarked = @ \cup {c}]
    <2>2. /\ r \in GbType /\ n \in Nat /\ gb \in [Gbs -> GbType]
          /\ Counts(r) /\ Timely(r, n) /\ Marked(r, n)
      BY Facts, TimelyFacts
    <2>3. /\ z.open = r.open /\ z.probeActive = r.probeActive /\ z.kept = r.kept
          /\ z.frames = r.frames /\ z.autosaveStarted = r.autosaveStarted
          /\ z.dirty = r.dirty
          /\ z.saveModified = r.saveModified
      BY <2>2 DEF GbType
    <2>4. gb' = [gb EXCEPT ![g] = z]
      BY <2>1, <2>2
    <2> HIDE DEF z
    <2>5. Counts(z) /\ Timely(z, n) /\ (InProbe(r) => InProbe(z))
      BY <2>2, <2>3, MarksTimely
    <2>6. probing' = probing
      BY <1>3 DEF CaptureImage
    <2> QED
      BY <2>4, <2>5, <2>6, ObjectTimely
  <1>4. CASE BorderFound
    BY <1>4, AskResetTimely DEF BorderFound
  <1> QED
    BY <1>1, <1>2, <1>3, <1>4 DEF Guest, Running

LEMMA LoadStateTimely ==
    ASSUME IInv, TrackInv, TimelyInv, LoadState
    PROVE  StillTimely
  <1> DEFINE r == gb[focus]
             y == [r EXCEPT !.ram = state, !.unmarked = Sectors]
             n == waited[focus]
  <1>1. /\ r \in GbType /\ focus \in Gbs /\ n \in Nat /\ state \in Contented
        /\ Counts(r) /\ Timely(r, n) /\ Marked(r, n)
    BY Facts, TimelyFacts, CellsAssumption DEF LoadState, IInv, StateOK
  <1>2. /\ gb' = [gb EXCEPT ![focus] = IF autosave THEN SaveGame(y) ELSE y]
        /\ probing' = probing
    BY DEF LoadState
  <1>3. /\ y.open = r.open /\ y.probeActive = r.probeActive /\ y.kept = r.kept
        /\ y.frames = r.frames /\ y.autosaveStarted = r.autosaveStarted
        /\ y.dirty = r.dirty /\ y.saveModified = r.saveModified
    BY <1>1 DEF GbType
  <1>4. y \in GbType
    BY <1>1 DEF GbType
  <1> HIDE DEF y
  <1>5. Counts(y) /\ Timely(y, n) /\ (InProbe(r) => InProbe(y))
    BY <1>1, <1>3, MarksTimely
  <1>6. /\ Counts(SaveGame(y)) /\ Timely(SaveGame(y), n)
        /\ InProbe(y) => InProbe(SaveGame(y))
    BY <1>4, <1>5, SaveTimely
  <1>7. CASE autosave
    BY <1>1, <1>2, <1>5, <1>6, <1>7, ObjectTimely
  <1>8. CASE ~autosave
    BY <1>1, <1>2, <1>5, <1>8, ObjectTimely
  <1> QED
    BY <1>7, <1>8

LEMMA ResetFuncTimely ==
    ASSUME IInv, TrackInv, TimelyInv, ResetFunc
    PROVE  StillTimely
  <1> DEFINE s == [r |-> gb[focus], probing |-> probing, suspended |-> suspended]
  <1>1. PICK memory \in BOOLEAN :
            /\ gb' = [gb EXCEPT ![focus] = Boot(s, memory).r]
            /\ probing' = Boot(s, memory).probing
    BY DEF ResetFunc
  <1>2. /\ s.r = gb[focus] /\ focus \in Gbs /\ GbOK(s.r, adopted) /\ Counts(s.r)
        /\ s.probing = probing
    BY Facts, CellsAssumption DEF TimelyInv
  <1> HIDE DEF s
  <1>3. /\ Counts(Boot(s, memory).r) /\ Timely(Boot(s, memory).r, waited[focus])
        /\ Boot(s, memory).probing => s.probing /\ InProbe(Boot(s, memory).r)
    BY <1>2, BootTimely
  <1> QED
    BY <1>1, <1>2, <1>3, ObjectTimely

LEMMA UpdateVBlankTimely ==
    ASSUME IInv, TrackInv, TimelyInv, NEW g \in Gbs, UpdateVBlank(g)
    PROVE  /\ probing' => \A h \in Gbs : InProbe(gb'[h])
           /\ \A h \in Gbs : Counts(gb'[h]) /\ Timely(gb'[h], 0)
           /\ \A h \in Gbs \ {g} : Timely(gb'[h], waited[h])
           /\ Waits(g)' => Timely(gb'[g], waited[g] + 1)
  <1> DEFINE now == [r |-> gb[g], probing |-> probing, suspended |-> suspended]
  <1>1. PICK memory \in BOOLEAN :
        LET s == IF gb[g].resetting THEN Boot(now, memory) ELSE now
            frame == s.r.frameCounter + 1
            gaveUp == Boot([s EXCEPT !.probing = FALSE], memory)
            ends == ~borders \/ GivesUp(frame)
            left == CASE ~s.probing -> [s EXCEPT !.r = UpdateAutosave(s.r)]
                      [] s.probing /\ ends -> gaveUp
                      [] OTHER -> [s EXCEPT !.r.frameCounter = frame]
        IN gb' = [gb EXCEPT ![g] = left.r] /\ probing' = left.probing
    BY DEF UpdateVBlank
  <1> DEFINE s == IF gb[g].resetting THEN Boot(now, memory) ELSE now
             frame == s.r.frameCounter + 1
             gaveUp == Boot([s EXCEPT !.probing = FALSE], memory)
             ends == ~borders \/ GivesUp(frame)
             left == CASE ~s.probing -> [s EXCEPT !.r = UpdateAutosave(s.r)]
                       [] s.probing /\ ends -> gaveUp
                       [] OTHER -> [s EXCEPT !.r.frameCounter = frame]
             n == waited[g]
  <1>2. gb' = [gb EXCEPT ![g] = left.r] /\ probing' = left.probing
    BY <1>1
  <1>3. /\ GbOK(now.r, adopted) /\ now.probing \in BOOLEAN /\ now.r = gb[g]
        /\ StateOK(now.suspended, adopted)
        /\ autosave \in BOOLEAN /\ borders \in BOOLEAN /\ realSgb \in BOOLEAN
        /\ Counts(now.r) /\ Timely(now.r, n) /\ now.r \in GbType /\ n \in Nat
        /\ now.probing => InProbe(now.r) /\ probing
    BY TimelyFacts DEF IInv, GbsOK, GbOK, SettingsOK, FileOK, TimelyInv
  <1>4. /\ GbOK(s.r, adopted) /\ s.probing \in BOOLEAN
        /\ Counts(s.r) /\ Timely(s.r, n)
        /\ s.probing => InProbe(s.r) /\ probing
        /\ s = [r |-> s.r, probing |-> s.probing, suspended |-> s.suspended]
    <2>1. CASE gb[g].resetting
      <3>1. s = Boot(now, memory)
        BY <2>1
      <3>2. Boot(now, memory) = [r |-> Boot(now, memory).r,
                 probing |-> Boot(now, memory).probing,
                 suspended |-> Boot(now, memory).suspended]
        BY DEF Boot
      <3> HIDE DEF now
      <3>3. /\ GbOK(Boot(now, memory).r, adopted)
            /\ Boot(now, memory).probing \in BOOLEAN
        BY <1>3, BootOK
      <3>4. /\ Counts(Boot(now, memory).r) /\ Timely(Boot(now, memory).r, n)
            /\ Boot(now, memory).probing =>
                  now.probing /\ InProbe(Boot(now, memory).r)
        BY <1>3, BootTimely
      <3> HIDE DEF s
      <3> QED
        BY <1>3, <3>1, <3>2, <3>3, <3>4
    <2>2. CASE ~gb[g].resetting
      BY <1>3, <2>2
    <2> QED
      BY <2>1, <2>2
  <1> HIDE DEF s
  <1>5. s.r \in GbType
    BY <1>4 DEF GbOK
  <1>6. /\ Counts(left.r) /\ Timely(left.r, 0)
        /\ autosave => Timely(left.r, n + 1)
        /\ left.probing => InProbe(left.r) /\ probing
    <2>1. CASE ~s.probing
      <3>1. left = [s EXCEPT !.r = UpdateAutosave(s.r)]
        BY <2>1
      <3>2. left.r = UpdateAutosave(s.r) /\ left.probing = s.probing
        BY <1>4, <3>1
      <3> HIDE DEF left
      <3> QED
        BY <1>3, <1>4, <2>1, <3>2, UpdateAutosaveTimely
    <2>2. CASE s.probing /\ ends
      <3> DEFINE t == [s EXCEPT !.probing = FALSE]
      <3>1. left = Boot(t, memory)
        BY <2>2
      <3>2. t.r = s.r /\ t.probing = FALSE
        BY <1>4
      <3> HIDE DEF t, left
      <3> QED
        BY <1>4, <1>5, <3>1, <3>2, BootTimely
    <2>3. CASE s.probing /\ ~ends
      <3> DEFINE x == [s.r EXCEPT !.frameCounter = frame]
      <3>1. left = [s EXCEPT !.r.frameCounter = frame]
        BY <2>3
      <3>2. [s EXCEPT !.r.frameCounter = frame] = [s EXCEPT !.r = x]
        OBVIOUS
      <3> HIDE DEF frame
      <3>3. /\ x.open = s.r.open /\ x.probeActive = s.r.probeActive
            /\ x.kept = s.r.kept /\ x.frames = s.r.frames
            /\ x.dirty = s.r.dirty
        BY <1>5 DEF GbType
      <3> HIDE DEF x, left
      <3>4. left.r = x /\ left.probing = s.probing
        BY <1>4, <3>1, <3>2
      \* A game with a file is in a probe, which autosave leaves alone.
      <3>5. InProbe(x) /\ Counts(x)
        BY <1>4, <2>3, <3>3 DEF Counts, InProbe
      <3>6. \A m : Timely(x, m)
        BY <3>5 DEF Timely, InProbe
      <3> QED
        BY <1>4, <2>3, <3>4, <3>5, <3>6
    <2> QED
      BY <1>4, <2>1, <2>2, <2>3
  <1> HIDE DEF left
  <1>7. \A h \in Gbs : gb'[h] = IF h = g THEN left.r ELSE gb[h]
    BY <1>2, Facts
  <1>8. Waits(g)' => autosave
    BY DEF Waits, UpdateVBlank, settings
  <1>9. \A h \in Gbs \ {g} : Timely(gb[h], 0) /\ Timely(gb[h], waited[h])
    <2> SUFFICES ASSUME NEW h \in Gbs \ {g} PROVE Timely(gb[h], 0)
      BY DEF TimelyInv
    <2>1. Timely(gb[h], waited[h]) /\ gb[h] \in GbType
      BY Facts DEF TimelyInv
    <2> QED
      BY <2>1 DEF Timely, GbType
  <1>10. \A h \in Gbs : Counts(gb[h]) /\ (probing => InProbe(gb[h]))
    BY DEF TimelyInv
  <1> QED
    BY <1>2, <1>6, <1>7, <1>8, <1>9, <1>10

\* A loaded object starts with its counters at 0.
LEMMA LoadTimely ==
    ASSUME NEW g \in Gbs, NEW slot \in Slots, NEW probe \in BOOLEAN,
           NEW files, NEW others, FileOK(files, adopted),
           others \in [Gbs -> GbType], LoadAndBoot(g, slot, probe, files, others),
           \A h \in Gbs \ {g} : Counts(others[h]) /\ Timely(others[h], waited[h]),
           probe => \A h \in Gbs \ {g} : InProbe(others[h])
    PROVE  StillTimely
  <1> DEFINE s(r) == [r |-> r, probing |-> probe, suspended |-> suspended]
             Into(r, memory) ==
                 /\ gb' = [others EXCEPT ![g] = Boot(s(r), memory).r]
                 /\ probing' = Boot(s(r), memory).probing
             fails(read) == LoadSaveFails(files, slot, read)
  <1>1. PICK memory \in BOOLEAN :
            \/ Into(LoadSave(files, slot), memory)
            \/ \E read \in SUBSET Sectors : Into(fails(read), memory)
    BY DEF LoadAndBoot
  <1>2. ASSUME NEW r, GbOK(r, adopted), Counts(r), Into(r, memory)
        PROVE  StillTimely
    <2>1. s(r).r = r /\ s(r).probing = probe
      OBVIOUS
    <2> HIDE DEF s
    <2>2. /\ \A n : Counts(Boot(s(r), memory).r) /\ Timely(Boot(s(r), memory).r, n)
          /\ Boot(s(r), memory).probing =>
                s(r).probing /\ InProbe(Boot(s(r), memory).r)
      BY <1>2, <2>1, BootTimely
    <2>3. \A h \in Gbs : gb'[h] = IF h = g THEN Boot(s(r), memory).r ELSE others[h]
      BY <1>2
    <2>4. \A h \in Gbs : Counts(gb'[h]) /\ Timely(gb'[h], waited[h])
      BY <2>2, <2>3
    <2>5. probing' => \A h \in Gbs : InProbe(gb'[h])
      BY <1>2, <2>1, <2>2, <2>3
    <2> QED
      BY <2>4, <2>5 DEF StillTimely
  <1> HIDE DEF Into
  <1>3. Empty \in GbType /\ Empty.frames = 0 /\ Empty.probeActive = FALSE
    BY EmptyTracks DEF Empty
  <1>4. ASSUME NEW r, GbOK(r, adopted), r.frames = 0, ~r.probeActive
        PROVE  Counts(r)
    BY <1>4, LimitsAssumption DEF GbOK, Counts
  <1>5. CASE Into(LoadSave(files, slot), memory)
    <2> DEFINE r == LoadSave(files, slot)
    <2>1. r.frames = 0 /\ ~r.probeActive
      BY <1>3 DEF LoadSave, GbType
    <2>2. GbOK(r, adopted)
      BY LoadSaveOK
    <2> HIDE DEF r
    <2>3. Counts(r)
      BY <1>4, <2>1, <2>2
    <2> QED
      BY <1>2, <1>5, <2>2, <2>3 DEF r
  <1>6. ASSUME NEW read \in SUBSET Sectors, Into(fails(read), memory)
        PROVE  StillTimely
    <2> DEFINE r == fails(read)
    <2>1. r.frames = 0 /\ ~r.probeActive
      BY <1>3 DEF LoadSaveFails, GbType
    <2>2. GbOK(r, adopted)
      BY LoadSaveOK
    <2> HIDE DEF r
    <2>3. Counts(r)
      BY <1>4, <2>1, <2>2
    <2> QED
      BY <1>2, <1>6, <2>2, <2>3 DEF r
  <1> QED
    BY <1>1, <1>5, <1>6

LEMMA LoadRomTimely == ASSUME IInv, TrackInv, TimelyInv, LoadRom PROVE StillTimely
  <1>1. /\ LoadAndBoot(focus, 1, borders, file, gb)
        /\ focus \in Gbs /\ borders \in BOOLEAN /\ FileOK(file, adopted)
        /\ gb \in [Gbs -> GbType] /\ 1 \in Slots
    BY DEF LoadRom, IInv, SettingsOK, GbsOK, Slots
  <1>2. \A h \in Gbs : InProbe(gb[h])
    BY Facts DEF LoadRom, Running, Loaded, InProbe
  <1> QED
    BY <1>1, <1>2, LoadTimely DEF TimelyInv

LEMMA LocalLinkTimely == ASSUME IInv, TrackInv, TimelyInv, LocalLink PROVE StillTimely
  <1>1. PICK g \in Others :
        LET files == IF Loaded(g) THEN Unloaded(file, gb[g]) ELSE file
            doubted == [gb EXCEPT ![g] = Empty,
                            ![focus] = IF @.slot = 2 THEN Doubted(@) ELSE @]
        IN \/ LoadAndBoot(g, 2, probing, files, doubted)
           \/ gb' = doubted /\ probing' = probing
    BY DEF LocalLink
  <1> DEFINE files == IF Loaded(g) THEN Unloaded(file, gb[g]) ELSE file
             r == gb[focus]
             x == IF r.slot = 2 THEN Doubted(r) ELSE r
             n == waited[focus]
             doubted == [[gb EXCEPT ![g] = Empty] EXCEPT ![focus] = x]
  <1>2. /\ g \in Gbs /\ g # focus /\ focus \in Gbs /\ probing \in BOOLEAN
        /\ gb \in [Gbs -> GbType] /\ GbOK(r, adopted) /\ GbOK(gb[g], adopted)
        /\ FileOK(file, adopted) /\ 2 \in Slots /\ r \in GbType
        /\ Counts(r) /\ Timely(r, n) /\ Marked(r, n) /\ n \in Nat
        /\ probing => InProbe(r)
    BY Facts, TimelyFacts
    DEF IInv, SettingsOK, GbsOK, Others, Slots, LocalLink, TimelyInv
  <1>3. \/ LoadAndBoot(g, 2, probing, files, doubted)
        \/ gb' = doubted /\ probing' = probing
    <2>1. doubted = [gb EXCEPT ![g] = Empty,
                        ![focus] = IF @.slot = 2 THEN Doubted(@) ELSE @]
      BY <1>2
    <2> HIDE DEF doubted
    <2> QED
      BY <1>1, <2>1
  <1>4. x \in GbType
    BY <1>2, DoubtedOK DEF GbOK
  <1>5. Counts(x) /\ Timely(x, n) /\ (InProbe(r) => InProbe(x))
    <2> DEFINE d == Doubted(r)
    <2>1. /\ d.open = r.open /\ d.probeActive = r.probeActive
          /\ d.kept.frames = r.kept.frames
          /\ d.frames = r.frames /\ d.autosaveStarted = r.autosaveStarted
          /\ d.dirty = r.dirty /\ d.saveModified = r.saveModified
      BY <1>2 DEF GbType, KeptType, Doubted
    <2> HIDE DEF d
    <2>2. Counts(d) /\ Timely(d, n) /\ (InProbe(r) => InProbe(d))
      BY <1>2, <2>1 DEF Counts, Timely, InProbe
    <2> QED
      BY <1>2, <2>2 DEF d
  <1>6. FileOK(files, adopted)
    BY <1>2, UnloadOK
  <1> HIDE DEF files, x
  <1>7. /\ doubted \in [Gbs -> GbType]
        /\ \A h \in Gbs : doubted[h] = IF h = focus THEN x
                                       ELSE IF h = g THEN Empty ELSE gb[h]
    BY <1>2, <1>4, EmptyTracks
  <1> HIDE DEF doubted
  <1>8. /\ \A h \in Gbs : Counts(doubted[h]) /\ Timely(doubted[h], waited[h])
        /\ probing => \A h \in Gbs : InProbe(doubted[h])
    BY <1>2, <1>5, <1>7, EmptyTimely DEF TimelyInv
  <1>9. CASE LoadAndBoot(g, 2, probing, files, doubted)
    BY <1>2, <1>6, <1>7, <1>8, <1>9, LoadTimely
  <1>10. CASE gb' = doubted /\ probing' = probing
    BY <1>8, <1>10 DEF StillTimely
  <1> QED
    BY <1>3, <1>9, <1>10

\* Everything but a VBlank.
LEMMA CommandTimely ==
    ASSUME IInv, TrackInv, TimelyInv, Player
    PROVE  StillTimely
  <1>1. CASE LoadRom \/ LocalLink
    BY <1>1, LoadRomTimely, LocalLinkTimely
  <1>2. CASE SwapFocus \/ SetBorders \/ SetMode \/ SaveState
    BY <1>2 DEF SwapFocus, SetBorders, SetMode, SaveState, TimelyInv, StillTimely
  <1>3. CASE SetAutoSave \/ SaveKey
    <2>1. focus \in Gbs /\ gb[focus] \in GbType
          /\ Counts(gb[focus]) /\ Timely(gb[focus], waited[focus])
      BY Facts, CellsAssumption DEF TimelyInv
    <2>2. /\ \/ gb' = [gb EXCEPT ![focus] = SaveGame(gb[focus])]
             \/ gb' = [gb EXCEPT ![focus] = GameboySyncAutosave(gb[focus])]
          /\ probing' = probing
      BY <1>3 DEF SetAutoSave, SaveKey, settings
    <2> QED
      BY <2>1, <2>2, SaveTimely, SyncTimely, ObjectTimely
  <1>4. CASE ResetKey
    BY <1>4, AskResetTimely DEF ResetKey
  <1>5. CASE ResetFunc \/ LoadState
    BY <1>5, ResetFuncTimely, LoadStateTimely
  <1>6. CASE Exit \/ Suspend \/ ExitNoSave \/ ReturnToLauncher \/ PowerOff
    BY <1>6, AllEmptyTimely
    DEF Exit, Suspend, ExitNoSave, ReturnToLauncher, PowerOff, Leave
  <1> QED
    BY <1>1, <1>2, <1>3, <1>4, <1>5, <1>6 DEF Player

\* The history starts again where nothing waits, and counts on elsewhere.
LEMMA TimelyPreserved ==
    IInv /\ TrackInv /\ TimelyInv /\ [Next]_vars => TimelyInv'
  <1> SUFFICES ASSUME IInv, TrackInv, TimelyInv, [Next]_vars PROVE TimelyInv'
    OBVIOUS
  <1>1. WaitedOK'
    BY WaitedPreserved DEF TimelyInv
  <1>2. \A g \in Gbs : gb[g] \in GbType
    BY Facts
  <1>3. CASE (Guest \/ Player) /\ Waiting(waited)
    <2>1. StillTimely
      BY <1>3, GuestTimely, CommandTimely
    <2>2. IInv'
      BY Preserved
    <2>3. \A g \in Gbs : Timely(gb'[g], 0)
      <3> SUFFICES ASSUME NEW g \in Gbs PROVE Timely(gb'[g], 0)
        OBVIOUS
      <3>1. gb'[g] \in GbType /\ Timely(gb'[g], waited[g])
        BY <2>1, <2>2 DEF StillTimely, IInv, GbsOK
      <3> QED
        BY <3>1 DEF Timely, GbType
    <2>4. \A g \in Gbs : waited'[g] = IF Waits(g)' THEN waited[g] ELSE 0
      BY <1>3 DEF Waiting
    <2> QED
      BY <1>1, <2>1, <2>3, <2>4 DEF StillTimely, TimelyInv
  <1>4. ASSUME NEW g \in Running, UpdateVBlank(g),
               Waiting([waited EXCEPT ![g] = IF @ <= Window THEN @ + 1 ELSE @])
        PROVE  TimelyInv'
    <2>1. g \in Gbs
      BY DEF Running
    <2>2. /\ probing' => \A h \in Gbs : InProbe(gb'[h])
          /\ \A h \in Gbs : Counts(gb'[h]) /\ Timely(gb'[h], 0)
          /\ \A h \in Gbs \ {g} : Timely(gb'[h], waited[h])
          /\ Waits(g)' => Timely(gb'[g], waited[g] + 1)
      BY <1>4, <2>1, UpdateVBlankTimely
    <2>3. waited \in [Gbs -> 0..Window + 1]
      BY DEF TimelyInv, WaitedOK
    <2>4. \A h \in Gbs \ {g} : waited'[h] = IF Waits(h)' THEN waited[h] ELSE 0
      BY <1>4, <2>3 DEF Waiting
    <2>5. waited'[g] = IF Waits(g)'
                         THEN IF waited[g] <= Window THEN waited[g] + 1 ELSE waited[g]
                         ELSE 0
      BY <1>4, <2>1, <2>3 DEF Waiting
    <2>6. waited[g] <= Window
      BY <2>1, TimelyBound
    <2>7. \A h \in Gbs : Timely(gb'[h], waited'[h])
      BY <2>2, <2>4, <2>5, <2>6
    <2>8. \A h \in Gbs : waited'[h] # 0 => Waits(h)'
      BY <2>4, <2>5
    <2> QED
      BY <1>1, <2>2, <2>7, <2>8 DEF TimelyInv
  <1>5. CASE UNCHANGED vars
    BY <1>1, <1>5 DEF vars, settings, TimelyInv, Waits
  <1> QED
    BY <1>3, <1>4, <1>5 DEF Next

\* With autosave on, what autosave knows of waits for its file no longer than
\* Window VBlanks, even if the game never stops writing (gameboy.cpp,
\* updateAutosave), for any number of objects, sectors, frames and events.  Not
\* bounded are the changes it does not know of: without a mark, or with a mark
\* that init cleared on a reset.
THEOREM AutosaveStaysTimely == Spec => []AutosaveIsTimely
  <1>1. Init => TimelyInv
    BY EmptyTimely, LimitsAssumption DEF Init, TimelyInv, WaitedOK
  <1>2. IInv /\ TrackInv /\ TimelyInv => AutosaveIsTimely
    BY TimelyBound DEF AutosaveIsTimely
  <1>3. Spec => []TrackInv
    BY TracksInitially, TracksPreserved, Inductive, PTL DEF Spec
  <1>4. Spec => []TimelyInv
    BY <1>1, <1>3, TimelyPreserved, Inductive, PTL DEF Spec
  <1> QED
    BY <1>2, <1>3, <1>4, Inductive, PTL
=============================================================================
