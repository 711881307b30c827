------------------------------- MODULE SgbPackets -------------------------------
(***************************************************************************)
(* The Super Game Boy as the game sees it (sgb.cpp, sgb_protocol.cpp):     *)
(* bits pulsed over P14 and P15 become packets, packets become commands,   *)
(* and the same register answers for up to four controllers.  A game runs  *)
(* commands one after the other; it may give a packet up and begin it      *)
(* again, poll the controllers between two packets, or be suspended and    *)
(* resumed, which restores only what saveState writes.  What a command     *)
(* hands to the SNES side (SgbHost) is the last call made to it.           *)
(***************************************************************************)
EXTENDS Integers, Sequences, SequencesExt, FiniteSetsExt

CONSTANTS Games,             \* sequences of commands [bytes, screen] a game sends
          ColourOf(_, _, _), \* the colour i of palette id in a screen that is transferred
          AttrOf(_, _, _),   \* the palette of a cell in attribute file index of a screen
          GiveUpAt,          \* numbers of bits of a packet after which the game may give it up
          MaxGiveUps,
          SuspendAnywhere,   \* the game may be suspended with packets outstanding or players joined
          MaxSuspends

Width == 20
MapHeight == 18
Cells == 0..(Width * MapHeight - 1)
Bit(n, k) == (n \div 2^k) % 2

VARIABLES p1,                 \* bits 4 and 5 of ioRam[0]: 0, 16, 32 or 48
          sgbPacketBit, sgbPacket, sgbCommand, sgbPacketLength, sgbPacketsTransferred,
          sgbButtonsChecked,
          s,                  \* what commands change: see Blank
          todo,               \* the commands the game has still to send
          at,                 \* the packet of the first of them it is sending
          pulses,             \* writes to P1 it has still to make for that packet
          meant,              \* the attribute map that the commands sent so far ask for
          players,            \* how many controllers they ask for
          giveUps, suspends
link == <<sgbPacketBit, sgbPacket, sgbCommand, sgbPacketLength, sgbPacketsTransferred>>
game == <<todo, at, pulses, meant, players, giveUps, suspends>>
vars == <<p1, link, sgbButtonsChecked, s, game>>

Blank == [map |-> [c \in Cells |-> 0],
          bg |-> [i \in 0..3 |-> [c \in 0..3 |-> 0]], spr |-> [i \in 0..7 |-> [c \in 0..3 |-> 0]],
          palettes |-> 0, attrFiles |-> 0,       \* the screens transferred into vram[1]
          mask |-> 0,
          numDataSets |-> 0, data |-> << >>, x |-> 0, y |-> 0, style |-> 0,
          numControllers |-> 1, selected |-> 0,
          regs |-> << >>,                        \* the rest: sound, icon, addresses, modes
          host |-> << >>]                        \* the last call to sgbHost

Init == /\ p1 = 48 /\ sgbPacketBit = -1 /\ sgbPacket = [i \in 0..15 |-> 0] /\ sgbCommand = 0
        /\ sgbPacketLength = 0 /\ sgbPacketsTransferred = 0 /\ sgbButtonsChecked = 0
        /\ s = Blank
        /\ todo \in Games /\ at = 0 /\ pulses = << >>
        /\ meant = Blank.map /\ players = 1
        /\ giveUps = MaxGiveUps /\ suspends = MaxSuspends

(***************************************************************************)
(* Attributes.  A map is painted cell by cell.                             *)
(***************************************************************************)
Column(c) == c % Width
Row(c) == c \div Width
Least(a, b) == IF a < b THEN a ELSE b
Most(a, b) == IF a < b THEN b ELSE a
\* One data set of ATTR_BLK: the inside, the border and the outside of a block.  Outside is what
\* lies outside in both directions.
PaintBlock(map, d) ==
  LET x1 == Least(Least(d[3], d[5]), 19)  x2 == Least(Most(d[3], d[5]), 19)
      y1 == Least(Least(d[4], d[6]), 17)  y2 == Least(Most(d[4], d[6]), 17)
      which == d[1] % 8
      in == d[2] % 4
      out == (d[2] \div 16) % 4
      line == CASE which = 1 -> in [] which = 4 -> out [] OTHER -> (d[2] \div 4) % 4
      Inside(c) == x1 < Column(c) /\ Column(c) < x2 /\ y1 < Row(c) /\ Row(c) < y2
      Border(c) == /\ Column(c) \in x1..x2 /\ Row(c) \in y1..y2 /\ ~Inside(c)
      Outside(c) == Column(c) \notin x1..x2 /\ Row(c) \notin y1..y2
  IN [c \in Cells |-> IF Inside(c) /\ Bit(which, 0) = 1 THEN in
                      ELSE IF Outside(c) /\ Bit(which, 2) = 1 THEN out
                      ELSE IF Border(c) /\ (Bit(which, 1) = 1 \/ which \in {1, 4}) THEN line
                      ELSE map[c]]
PaintLine(map, d) ==
  [c \in Cells |-> IF d % 32 = (IF d >= 128 THEN Row(c) ELSE Column(c)) THEN (d \div 32) % 4 ELSE map[c]]
\* ATTR_DIV: one side, the dividing line and the other side of it.
PaintDivide(d, line) ==
  LET Place(c) == IF Bit(d, 6) = 1 THEN Row(c) ELSE Column(c)
  IN [c \in Cells |-> CASE Place(c) < line -> (d \div 4) % 4
                        [] Place(c) = line -> (d \div 16) % 4
                        [] OTHER -> d % 4]
\* The cell after (x, y) in the order of ATTR_CHR.
NextCell(x, y, style) ==
  IF style = 0 THEN IF x < Width - 1 THEN <<x + 1, y>> ELSE <<0, (y + 1) % MapHeight>>
               ELSE IF y < MapHeight - 1 THEN <<x, y + 1>> ELSE <<(x + 1) % Width, 0>>

(***************************************************************************)
(* Commands: the state after packet number `block` of one, P.              *)
(***************************************************************************)
Word(P, i) == P[i] + (256 * P[i + 1])
Long(P, i) == Word(P, i) + (65536 * P[i + 2])
SetBackdrop(t, colour) ==
  [t EXCEPT !.bg = [i \in 0..3 |-> [t.bg[i] EXCEPT ![0] = colour]],
            !.spr = [i \in 0..7 |-> [t.spr[i] EXCEPT ![0] = colour]]]
\* The three colours after the first of some palettes, for background and sprites alike.
SetColours(t, colours) ==
  LET Put(pals) == [i \in DOMAIN pals |->
                      IF i \in DOMAIN colours THEN [c \in 0..3 |-> IF c = 0 THEN pals[i][0] ELSE colours[i][c]]
                                              ELSE pals[i]]
  IN [t EXCEPT !.bg = Put(t.bg), !.spr = Put(t.spr)]
PalXX(t, P, command) ==
  LET pair == <<<<0, 1>>, <<2, 3>>, <<0, 3>>, <<1, 2>>>>[command + 1]
      Of(first) == [c \in 1..3 |-> Word(P, first + (2 * (c - 1)))]
  IN SetBackdrop(SetColours(t, [i \in {pair[1], pair[2]} |-> IF i = pair[1] THEN Of(3) ELSE Of(9)]), Word(P, 1))

\* Mutant: the part of a data set at the end of a packet is forgotten.
AttrBlockForgets(t, P, block) ==
  LET stream == IF block = 0 THEN [i \in 1..14 |-> P[i + 1]] ELSE [i \in 1..16 |-> P[i - 1]]
      left == IF block = 0 THEN P[1] ELSE t.numDataSets
      sets == Least(left, Len(stream) \div 6)
      Set(i) == SubSeq(stream, (6 * i) - 5, 6 * i)
  IN [t EXCEPT !.map = FoldLeft(LAMBDA map, i : PaintBlock(map, Set(i)), t.map, [i \in 1..sets |-> i]),
               !.numDataSets = left - sets]
\* Data sets may be cut anywhere by the end of a packet: `data` keeps the part that has come.
AttrBlock(t, P, block) ==
  LET stream == IF block = 0 THEN [i \in 1..14 |-> P[i + 1]] ELSE t.data \o [i \in 1..16 |-> P[i - 1]]
      left == IF block = 0 THEN P[1] ELSE t.numDataSets
      sets == Least(left, Len(stream) \div 6)
      Set(i) == SubSeq(stream, (6 * i) - 5, 6 * i)
  IN [t EXCEPT !.map = FoldLeft(LAMBDA map, i : PaintBlock(map, Set(i)), t.map, [i \in 1..sets |-> i]),
               !.numDataSets = left - sets,
               !.data = IF left = sets THEN << >> ELSE SubSeq(stream, (6 * sets) + 1, Len(stream))]
AttrLin(t, P, block) ==
  LET first == IF block = 0 THEN 2 ELSE 0
      left == IF block = 0 THEN P[1] ELSE t.numDataSets
      sets == Least(left, 16 - first)
  IN [t EXCEPT !.map = FoldLeft(LAMBDA map, i : PaintLine(map, P[first + i - 1]), t.map, [i \in 1..sets |-> i]),
               !.numDataSets = left - sets]
AttrChr(t, P, block) ==
  LET start == IF block = 0 THEN [t EXCEPT !.numDataSets = Word(P, 3), !.style = P[5] % 2,
                                           !.x = Least(P[1], 19), !.y = Least(P[2], 17)]
                            ELSE t
      first == IF block = 0 THEN 24 ELSE 0
      count == Least(start.numDataSets, 64 - first)
      Put(u, i) == LET next == NextCell(u.x, u.y, u.style)
                   IN [u EXCEPT !.map[u.x + (u.y * Width)] = (P[i \div 4] \div 4^(3 - (i % 4))) % 4,
                                !.x = next[1], !.y = next[2], !.numDataSets = u.numDataSets - 1]
  IN FoldLeft(Put, start, [i \in 1..count |-> first + i - 1])
LoadAttrFile(t, index) ==
  IF index > 44 THEN t ELSE [t EXCEPT !.map = [c \in Cells |-> AttrOf(t.attrFiles, index, c)]]
Unmasked(t, flags) == IF Bit(flags, 6) = 1 THEN [t EXCEPT !.mask = 0] ELSE t
PalSet(t, P) ==
  LET id(i) == Word(P, (2 * i) + 1) % 512
      coloured == SetBackdrop(SetColours(t, [i \in 0..3 |-> [c \in 1..3 |-> ColourOf(t.palettes, id(i), c)]]),
                              ColourOf(t.palettes, id(0), 0))
  IN Unmasked(IF P[9] >= 128 THEN LoadAttrFile(coloured, P[9] % 64) ELSE coloured, P[9])

Noted(t, name, value) == [t EXCEPT !.regs = [r \in DOMAIN t.regs \cup {name} |-> IF r = name THEN value ELSE t.regs[r]]]
Told(t, call) == [t EXCEPT !.host = call]
Payload(P, from, n) == [i \in 1..n |-> P[from + i - 1]]
MltReq(t, P) == [t EXCEPT !.numControllers = (P[1] % 4) + 1, !.selected = IF P[1] % 4 > 0 THEN 1 ELSE 0]

\* The commands that are run once, by their first packet.
First(t, P, command, screen) ==
  CASE command = 8 -> Told(Noted(t, "sound", Payload(P, 1, 6)), <<"sound", Payload(P, 1, 6)>>)
    [] command = 9 -> Told(Noted(t, "data", screen), <<"program", screen>>)
    [] command = 12 -> Noted(t, "attraction", P[1] % 2)
    [] command = 13 -> Noted(t, "speed", P[1])
    [] command = 14 -> Noted(t, "icon", P[1] % 8)
    [] command = 15 -> LET n == Least(P[4], 11)
                       IN Told(Noted(Noted(t, "address", Long(P, 1)), "data", Payload(P, 5, n)),
                               <<"write", Long(P, 1), Payload(P, 5, n)>>)
    [] command = 16 -> Told(Noted(Noted(t, "address", Long(P, 1)), "data", screen), <<"write", Long(P, 1), screen>>)
    [] command = 18 -> Told(Noted(Noted(t, "pc", Long(P, 1)), "nmi", Long(P, 4)), <<"jump", Long(P, 1), Long(P, 4)>>)
    [] command = 24 -> Told(Noted(Noted(t, "objMode", P[1] % 4), "objPalettes",
                                  IF P[1] % 4 >= 2 THEN [i \in 0..3 |-> Word(P, 2 + (2 * i)) % 512]
                                  ELSE IF "objPalettes" \in DOMAIN t.regs THEN t.regs["objPalettes"]
                                  ELSE [i \in 0..3 |-> 0]),
                            <<"objects", screen>>)
    [] command = 25 -> Noted(t, "priority", P[1] % 2)
    [] OTHER -> t
\* The dispatch of sgbCommands; 26 to 31 are reserved.
Execute(t, P, command, block, screen) ==
  CASE command \in 0..3 -> PalXX(t, P, command)
    [] command = 4 -> AttrBlock(t, P, block)
    [] command = 5 -> AttrLin(t, P, block)
    [] command = 6 -> [t EXCEPT !.map = PaintDivide(P[1], P[2])]
    [] command = 7 -> AttrChr(t, P, block)
    [] command = 10 -> PalSet(t, P)
    [] command = 11 -> [t EXCEPT !.palettes = screen]
    [] command = 17 -> MltReq(t, P)
    [] command = 19 -> Told(Noted(t, "data", screen), <<"characters", screen, P[1]>>)
    [] command = 20 -> Noted(t, "border", screen)
    [] command = 21 -> [t EXCEPT !.attrFiles = screen]
    [] command = 22 -> Unmasked(LoadAttrFile(t, P[1] % 64), P[1])
    [] command = 23 -> [t EXCEPT !.mask = P[1] % 4]
    [] OTHER -> IF block = 0 THEN First(t, P, command, screen) ELSE t

(***************************************************************************)
(* sgbHandleP1 of a write with bits 4 and 5 of val.                        *)
(***************************************************************************)
StartPacket == /\ sgbPacketBit' = 0 /\ p1' = 0
               /\ UNCHANGED <<sgbPacket, sgbCommand, sgbPacketLength, sgbPacketsTransferred, sgbButtonsChecked, s>>
\* The 128th bit: the first packet names the command, every one runs its handler.
Completed(P, screen) ==
  LET header == sgbPacketsTransferred = 0
      command == IF header THEN P[0] \div 8 ELSE sgbCommand
      length == IF header THEN P[0] % 8 ELSE sgbPacketLength
      last == sgbPacketsTransferred + 1 = length
  IN /\ sgbPacketBit' = -1 /\ sgbCommand' = command
     /\ IF length = 0
          THEN sgbPacketLength' = 0 /\ sgbPacketsTransferred' = 0 /\ UNCHANGED s
          ELSE /\ s' = Execute(s, P, command, sgbPacketsTransferred, screen)
               /\ sgbPacketLength' = IF last THEN 0 ELSE length
               /\ sgbPacketsTransferred' = IF last THEN 0 ELSE sgbPacketsTransferred + 1
PacketBit(val, screen) ==
  LET byte == sgbPacketBit \div 8
      shift == sgbPacketBit % 8
      cleared == IF shift = 0 THEN [sgbPacket EXCEPT ![byte] = 0] ELSE sgbPacket
      P == IF val = 32 THEN cleared ELSE [cleared EXCEPT ![byte] = cleared[byte] + 2^shift]
  IN /\ p1' = val /\ UNCHANGED sgbButtonsChecked
     /\ IF p1 = 0 /\ val # 48
          THEN /\ sgbPacketBit' = -1 /\ sgbPacket' = cleared
               /\ UNCHANGED <<sgbCommand, sgbPacketLength, sgbPacketsTransferred, s>>
          ELSE IF val = 48
          THEN /\ sgbPacket' = cleared
               /\ UNCHANGED <<sgbPacketBit, sgbCommand, sgbPacketLength, sgbPacketsTransferred, s>>
          ELSE /\ sgbPacket' = P
               /\ IF sgbPacketBit < 127
                    THEN sgbPacketBit' = sgbPacketBit + 1
                         /\ UNCHANGED <<sgbCommand, sgbPacketLength, sgbPacketsTransferred, s>>
                    ELSE Completed(P, screen)
\* Mutant: one controller too many has a turn.
NextControllerPast == IF s.selected >= s.numControllers THEN 0 ELSE s.selected + 1
NextController == IF s.selected + 1 >= s.numControllers THEN 0 ELSE s.selected + 1
\* Between packets the lines select buttons, and both up ask for the next controller.
PollButtons(val) ==
  /\ UNCHANGED link
  /\ p1' = val
  /\ IF val = 48
       THEN IF sgbButtonsChecked = 3
              THEN sgbButtonsChecked' = 0 /\ s' = [s EXCEPT !.selected = NextController]
              ELSE UNCHANGED <<sgbButtonsChecked, s>>
       ELSE /\ sgbButtonsChecked' = IF (val = 16 /\ sgbButtonsChecked % 2 = 1) \/ (val = 32 /\ sgbButtonsChecked >= 2)
                                      THEN sgbButtonsChecked ELSE sgbButtonsChecked + (val \div 16)
            /\ UNCHANGED s
HandleP1(val, screen) == \/ val = 0 /\ StartPacket
                         \/ val # 0 /\ sgbPacketBit # -1 /\ PacketBit(val, screen)
                         \/ val # 0 /\ sgbPacketBit = -1 /\ PollButtons(val)
\* sgbReadP1 with both lines up: whose turn it is.
ControllerId == 255 - s.selected

(***************************************************************************)
(* The game.                                                               *)
(***************************************************************************)
Command == Head(todo)
PacketsOf(c) == Len(c.bytes) \div 16
\* The writes of a packet: start, then each bit and a pause, and the stop bit.
Pulses(c, n) ==
  LET bits == [i \in 1..128 |-> Bit(c.bytes[(16 * n) + ((i - 1) \div 8) + 1], (i - 1) % 8)]
  IN <<0, 48>> \o [i \in 1..256 |-> IF i % 2 = 0 THEN 48 ELSE IF bits[(i + 1) \div 2] = 1 THEN 16 ELSE 32]
               \o <<32, 48>>

\* The map a whole command asks for, however it was cut into packets.
Meaning(map, c) ==
  LET command == c.bytes[1] \div 8
      n == c.bytes[2]
      Chr == [i \in 1..(c.bytes[4] + (256 * c.bytes[5])) |-> (c.bytes[7 + ((i - 1) \div 4)] \div 4^(3 - ((i - 1) % 4))) % 4]
      Place(cell) == IF c.bytes[6] % 2 = 0 THEN cell ELSE (Column(cell) * MapHeight) + Row(cell)
      from == IF c.bytes[6] % 2 = 0 THEN c.bytes[2] + (c.bytes[3] * Width) ELSE (c.bytes[2] * MapHeight) + c.bytes[3]
  IN CASE command = 4 -> FoldLeft(LAMBDA m, i : PaintBlock(m, SubSeq(c.bytes, (6 * i) - 3, (6 * i) + 2)), map, [i \in 1..n |-> i])
       [] command = 5 -> FoldLeft(LAMBDA m, i : PaintLine(m, c.bytes[i + 2]), map, [i \in 1..n |-> i])
       [] command = 7 -> [cell \in Cells |->
                            LET k == (Place(cell) + 360 - from) % 360
                            IN IF k < Len(Chr) THEN Chr[k + 1] ELSE map[cell]]
       [] OTHER -> Execute([Blank EXCEPT !.map = map, !.attrFiles = s.attrFiles], [i \in 0..15 |-> c.bytes[i + 1]],
                           command, 0, c.screen).map

Begin == /\ todo # << >> /\ pulses = << >>
         /\ pulses' = Pulses(Command, at)
         /\ UNCHANGED <<p1, link, sgbButtonsChecked, s, todo, at, meant, players, giveUps, suspends>>
Write == /\ pulses # << >>
         /\ HandleP1(Head(pulses), Command.screen)
         /\ pulses' = Tail(pulses)
         /\ LET done == pulses' = << >>
                last == done /\ at + 1 = PacketsOf(Command)
            IN /\ at' = IF last THEN 0 ELSE IF done THEN at + 1 ELSE at
               /\ todo' = IF last THEN Tail(todo) ELSE todo
               /\ meant' = IF last THEN Meaning(meant, Command) ELSE meant
               /\ players' = IF last /\ Command.bytes[1] \div 8 = 17 THEN (Command.bytes[2] % 4) + 1 ELSE players
         /\ UNCHANGED <<giveUps, suspends>>
\* The packet is given up after some of its bits, and sent again from its start.
GiveUp == /\ giveUps > 0 /\ Len(pulses) \in {259 - (2 * n) : n \in GiveUpAt}
          /\ giveUps' = giveUps - 1 /\ pulses' = << >>
          /\ UNCHANGED <<p1, link, sgbButtonsChecked, s, todo, at, meant, players, suspends>>
\* Between packets the game reads the controllers: directions, buttons, both lines up.
Poll == /\ pulses = << >> /\ sgbPacketBit = -1 /\ todo = << >>
        /\ HandleP1(CASE p1 = 48 -> 32 [] p1 = 32 -> 16 [] p1 = 16 -> 48 [] p1 = 0 -> 48, 0)
        /\ UNCHANGED game
\* saveState, a restart, and loadState: what saveState does not write is as init left it.
Suspend == /\ suspends > 0 /\ suspends' = suspends - 1
           /\ \/ SuspendAnywhere
              \/ /\ sgbPacketBit = -1 /\ sgbPacketsTransferred = 0 /\ s.numControllers = 1
           /\ sgbPacket' = [i \in 0..15 |-> 0] /\ sgbButtonsChecked' = 0
           /\ s' = [s EXCEPT !.numDataSets = 0, !.data = << >>, !.x = 0, !.y = 0, !.style = 0,
                             !.numControllers = 1, !.selected = 0]
           /\ UNCHANGED <<p1, sgbPacketBit, sgbCommand, sgbPacketLength, sgbPacketsTransferred,
                          todo, at, pulses, meant, players, giveUps>>
Next == Begin \/ Write \/ GiveUp \/ Poll \/ Suspend
Spec == Init /\ [][Next]_vars

(***************************************************************************)
(* Properties.                                                             *)
(***************************************************************************)
\* Counters stay in their ranges, the cell ATTR_CHR paints lies on the map, and the controller that
\* answers is one that was asked for.
TypeOK == /\ sgbPacketBit \in -1..127 /\ sgbPacketsTransferred \in 0..6 /\ sgbButtonsChecked \in 0..3
          /\ s.x \in 0..(Width - 1) /\ s.y \in 0..(MapHeight - 1) /\ Len(s.data) < 6
          /\ s.selected < s.numControllers /\ s.numControllers \in 1..4
\* When a command has been sent, the attribute map is what its data sets ask for, one after the other,
\* wherever the ends of its packets cut them, and however often a packet was begun again (sgbAttrBlock,
\* sgbAttrLin, sgbAttrChr and the bit counter of sgbHandleP1).
AttributesAsAsked == pulses = << >> /\ at = 0 => s.map = meant
================================================================================
