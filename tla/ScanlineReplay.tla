---------------------------- MODULE ScanlineReplay ----------------------------
(***************************************************************************)
(* How the DS shows a Game Boy frame (gbgfx.cpp): while the game runs,     *)
(* every line of the frame records only what changed since the line        *)
(* before; the frame is published; and the HBlank interrupt of each DS     *)
(* line replays that line's record onto registers that keep their values.  *)
(* An HBlank may be missed, because the foreground held interrupts off.    *)
(***************************************************************************)
EXTENDS Integers

CONSTANTS Height,             \* 144 lines
          MaxRegisterWrites,  \* of the game, in a behaviour
          Settings            \* scroll positions, palettes and sprite tables

\* 144 lines have their rows in a byte, and registers have values.
ASSUME ConstantsAssumption == Height \in 1..256 /\ Settings # {}

Far == 167              \* a WX that hides the window
WXs == {7, 20, Far}
Regs == [scroll : Settings, wx : WXs, wy : 0..Height, win : BOOLEAN, objOn : BOOLEAN,
         pal : Settings, obj : Settings]
WindowOn(r, wx, y) == r.win /\ wx < Far /\ r.wy < Height /\ r.wy <= y

VARIABLES regs,             \* the game's video registers
          ly, lcdMode,      \* "oam", "draw", "hblank", or "vblank"
          flags,            \* lineModified and the ...Modified flags
          winPosY, winX,    \* statics of gbgfx.cpp
          buffers,          \* scanlineBuffers
          displayed,        \* which of them the DS draws
          host,             \* the DS line whose HBlank comes next
          lineCompleted,
          ds,               \* the DS registers
          truth, shown,     \* every line in full, of the frame recorded and displayed
          handled,          \* the last line whose HBlank was handled
          missed, writes
game == <<regs, ly, lcdMode, flags, winPosY, winX, buffers, truth, writes>>
console == <<displayed, host, lineCompleted, ds, shown, handled, missed>>
replayVars == <<game, console>>

producer == 1 - displayed
Nothing == [line |-> FALSE, maps |-> FALSE, pal |-> FALSE, obj |-> FALSE]
Everything == [line |-> TRUE, maps |-> TRUE, pal |-> TRUE, obj |-> TRUE]
Mark(k) == [flags EXCEPT !.line = TRUE, ![k] = TRUE]
Pick(S) == CHOOSE v \in S : TRUE
Unrecorded == [modified |-> FALSE, maps |-> FALSE, objOn |-> FALSE, scroll |-> Pick(Settings),
               winOn |-> FALSE, winX |-> 0, winPosY |-> 0, palOn |-> FALSE,
               hash |-> Pick(Settings), pal |-> Pick(Settings), objMod |-> FALSE, obj |-> Pick(Settings)]
NoPicture == [scroll |-> Pick(Settings), winOn |-> FALSE, winX |-> 0, winRow |-> 0, objOn |-> FALSE,
              pal |-> Pick(Settings), obj |-> Pick(Settings)]

ReplayInit ==
  /\ regs = [scroll |-> Pick(Settings), wx |-> Far, wy |-> 0, win |-> TRUE, objOn |-> TRUE,
             pal |-> Pick(Settings), obj |-> Pick(Settings)]
  /\ ly = 0 /\ lcdMode = "oam" /\ flags = Nothing /\ winPosY = -1 /\ winX = Far
  /\ buffers = [b \in 0..1 |-> [y \in 0..(Height - 1) |-> Unrecorded]]
  /\ displayed = 0 /\ host = Height /\ lineCompleted = {} /\ ds = NoPicture
  /\ truth = [y \in 0..(Height - 1) |-> NoPicture] /\ shown = truth
  /\ handled = Height /\ missed = FALSE /\ writes = 0

(* ------------------------------- the game ------------------------------- *)
\* handleVideoRegister, called before the register takes its value.  A write
\* of WX is noticed only when the next line begins.
Flagged(k, v) ==
  CASE k \in {"win", "objOn", "scroll"} -> IF v = regs[k] THEN flags ELSE Mark("maps")
    [] k = "wy" -> Mark("maps")
    [] k = "pal" -> IF v = regs[k] THEN flags ELSE Mark("pal")
    [] k = "obj" -> Mark("obj")
    [] k = "wx" -> flags
WindowReset(v) == IF lcdMode = "vblank" \/ v > ly THEN -1 ELSE -2

Write(k, v) ==
  /\ host = Height /\ writes < MaxRegisterWrites
  /\ flags' = Flagged(k, v)
  /\ winPosY' = IF k = "wy" THEN WindowReset(v) ELSE winPosY
  /\ regs' = [regs EXCEPT ![k] = v]
  /\ writes' = writes + 1
  /\ UNCHANGED <<ly, lcdMode, winX, buffers, truth, console>>
ValuesOf(k) == CASE k \in {"win", "objOn"} -> BOOLEAN [] k = "wx" -> WXs [] k = "wy" -> 0..Height
                 [] OTHER -> Settings

\* Called after mode 2.
DrawScanline ==
  /\ host = Height /\ lcdMode = "oam"
  /\ winX' = regs.wx
  /\ flags' = IF winX = regs.wx THEN flags ELSE Mark("maps")
  /\ lcdMode' = "draw"
  /\ UNCHANGED <<regs, ly, winPosY, buffers, truth, writes, console>>

NextWindowLine == IF winPosY = -2 THEN ly - regs.wy
                  ELSE IF WindowOn(regs, winX, ly) THEN winPosY + 1 ELSE winPosY

FlagsAt(y) == IF y = 0 THEN Everything
              ELSE IF y = regs.wy THEN Mark("maps") ELSE flags

\* What a line records: the parts that changed, over what the slot held.
Recorded(slot, f, row) ==
  LET on == [slot EXCEPT !.objOn = regs.objOn, !.modified = f.line]
  IN IF ~f.line THEN on ELSE
     [on EXCEPT !.maps = f.maps, !.palOn = f.pal, !.objMod = f.obj,
       !.obj = IF f.obj THEN regs.obj ELSE @,
       !.scroll = IF f.maps THEN regs.scroll ELSE @,
       !.winOn = IF f.maps THEN WindowOn(regs, winX, ly) ELSE @,
       !.winX = IF f.maps THEN winX ELSE @,
       !.winPosY = IF f.maps THEN row % 256 ELSE @,
       !.pal = IF f.pal /\ (slot.hash # regs.pal \/ ly = 0) THEN regs.pal ELSE @,
       !.hash = IF f.pal THEN regs.pal ELSE @]

InFull(row) == [scroll |-> regs.scroll, winOn |-> WindowOn(regs, winX, ly), winX |-> winX,
                winRow |-> row, objOn |-> regs.objOn, pal |-> regs.pal, obj |-> regs.obj]

\* drawScanline_P2, called after mode 3.
DrawScanlineP2 ==
  /\ host = Height /\ lcdMode = "draw"
  /\ winPosY' = NextWindowLine
  /\ buffers' = [buffers EXCEPT ![producer][ly] = Recorded(@, FlagsAt(ly), winPosY')]
  /\ flags' = IF FlagsAt(ly).line THEN Nothing ELSE flags
  /\ truth' = [truth EXCEPT ![ly] = InFull(winPosY')]
  /\ lcdMode' = "hblank"
  /\ UNCHANGED <<regs, ly, winX, writes, console>>

NextLine == /\ host = Height /\ lcdMode = "hblank"
            /\ ly' = (ly + 1) % Height
            /\ lcdMode' = IF ly' = 0 THEN "vblank" ELSE "oam"
            /\ UNCHANGED <<regs, flags, winPosY, winX, buffers, truth, writes, console>>

(* --------------------------------- the DS ------------------------------- *)
\* The layers drawLine lays over each other: bg, win, and for a game without
\* colours the backdrop both of them share.  A border takes a layer of its own.
LayersOfWide(s, cgb, border) == IF ~cgb THEN 3 ELSE IF s.winOn /\ s.winX > 7 THEN 4 ELSE 3
LayersOf(s, cgb, border) ==
  LET win == IF ~s.winOn THEN 0 ELSE IF s.winX <= 7 THEN 3 ELSE IF border THEN 1 ELSE 2
      bg == IF ~s.winOn THEN 3 ELSE IF s.winX <= 7 THEN 0 ELSE 2
  IN IF cgb THEN win + bg
     ELSE (IF win = 0 THEN 0 ELSE 1) + (IF bg = 0 THEN 0 ELSE 1) + 1

\* The window's rows follow from the row of the line it was recorded in.
DrawMaps(d, s, y) ==
  IF ~s.maps THEN d
  ELSE [d EXCEPT !.scroll = s.scroll, !.winOn = s.winOn, !.winX = s.winX, !.objOn = s.objOn,
                 !.winRow = s.winPosY - y]
DrawLine(d, y) ==
  LET s == buffers[displayed][y]
      maps == DrawMaps(d, s, y)
  IN [maps EXCEPT !.pal = IF s.palOn THEN s.pal ELSE @, !.obj = IF s.objMod THEN s.obj ELSE @]

Modified(y) == buffers[displayed][y].modified

\* doHBlank: the line before is drawn first when its HBlank was missed.
NotRetried(d, y) == d
Retried(d, y) == IF Modified(y - 1) /\ (y - 1) \notin lineCompleted THEN DrawLine(d, y - 1) ELSE d
HBlank ==
  /\ host < Height
  /\ ds' = IF Modified(host) THEN DrawLine(Retried(ds, host), host) ELSE Retried(ds, host)
  /\ lineCompleted' = IF Modified(host) THEN lineCompleted \cup {host} ELSE lineCompleted
  /\ host' = host + 1 /\ handled' = host /\ missed' = FALSE
  /\ UNCHANGED <<game, displayed, shown>>

\* Never two in a row: the foreground holds interrupts off for less than a line.
MissHBlank == /\ host < Height /\ ~missed
              /\ host' = host + 1 /\ missed' = TRUE
              /\ UNCHANGED <<game, displayed, lineCompleted, ds, shown, handled>>

\* drawScreen publishes the frame; in the middle of the next VBlank of the DS,
\* vcountHandler draws its first line.
PublishFrame ==
  /\ host = Height /\ lcdMode = "vblank"
  /\ displayed' = producer
  /\ winPosY' = -1
  /\ shown' = truth
  /\ ds' = LET s == buffers[producer][0] IN
           [scroll |-> s.scroll, winOn |-> s.winOn, winX |-> s.winX, objOn |-> s.objOn,
            winRow |-> s.winPosY, pal |-> s.pal, obj |-> s.obj]
  /\ lineCompleted' = {0} /\ host' = 1 /\ handled' = 0 /\ missed' = FALSE
  /\ lcdMode' = "oam"
  /\ UNCHANGED <<regs, ly, flags, winX, buffers, truth, writes>>

ReplayNext == \/ \E k \in DOMAIN regs : \E v \in ValuesOf(k) : Write(k, v)
              \/ DrawScanline \/ DrawScanlineP2 \/ NextLine
              \/ HBlank \/ MissHBlank \/ PublishFrame
ReplaySpec == ReplayInit /\ [][ReplayNext]_replayVars

(* ------------------------------- properties ----------------------------- *)
TypeOK ==
  /\ regs \in Regs /\ ly \in 0..(Height - 1) /\ lcdMode \in {"oam", "draw", "hblank", "vblank"}
  /\ winPosY \in -2..(Height - 1) /\ host \in 1..Height /\ lineCompleted \subseteq 0..(Height - 1)
  /\ lcdMode \in {"oam", "vblank"} \/ host = Height

Looks(d, y) == [d EXCEPT !.winRow = IF d.winOn THEN @ + y ELSE 0, !.winX = IF d.winOn THEN @ ELSE 0]
InPlace(d) == [d EXCEPT !.winRow = IF d.winOn THEN @ ELSE 0, !.winX = IF d.winOn THEN @ ELSE 0]

\* Whatever the game writes and between which lines, the line the DS has just
\* drawn looks as if every line had been recorded and drawn in full, also
\* after a missed HBlank.
DrawnInFull == handled # Height /\ ~missed => Looks(ds, handled) = InPlace(shown[handled])

\* The layers of a line never need more than the DS has, nor the border's.
LayersFit == \A cgb, border \in BOOLEAN :
               LayersOf(ds, cgb, border) <= (IF border THEN 3 ELSE 4)

\* A replayed line looks as if it had been drawn in full, and can be laid out.
ReplayFaithful == TypeOK /\ DrawnInFull /\ LayersFit
=============================================================================
